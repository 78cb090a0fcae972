---------------------------- MODULE MCBackends -----------------------------
(* Backends for TLC: three slides or objects, a directory of two, two      *)
(* labels of each kind, three carousels, and two superframes of two words  *)
(* of symbols of three bits.  Or MscHandler, with stops anywhere.          *)
EXTENDS ShortLabels, MscHandler

CONSTANTS o1, o2, o3, p1, p2, dir, l1, l2, l3, s1, s2

MCObject     == {o1, o2, o3}
MCDirObject  == {p1, p2}
MCDirectory  == {dir}
MCNumSegments == [x \in Id |-> IF x \in {o1, p1, dir} THEN 2 ELSE 1]
MCListed     == [x \in {dir} |-> <<p1, p2>>]

\* Labels of one segment and of two; in short X-PAD a segment is a start and one
\* PAD or two.
MCCharacters ==
  [l \in Label \union ShortLabel |->
     CASE l = l1 -> <<3>>    [] l = l2 -> <<1, 2>> [] l = l3 -> <<1>>
       [] l = s1 -> <<3, 6>> [] l = s2 -> <<5, 2>>]

MCGroupUnits ==
  [g \in DataGroup |-> IF g.type = "header" THEN IF g.id = o2 THEN 2 ELSE 1
                       ELSE IF g.id = o1 /\ g.number = 0 THEN 3 ELSE 1]

Group(t, o, n) == [type |-> t, id |-> o, number |-> n,
                   last |-> t = "header" \/ n = NumSegments[o] - 1]
Item(t, o, n, k) == [group |-> Group(t, o, n), packets |-> k]

\* One object with its segments out of order; three for two slots of the table; a
\* directory, its objects before it.
MCCarousel ==
  {<<Item("body", o1, 1, 2), Item("header", o1, 0, 1), Item("body", o1, 0, 3)>>,
   <<Item("header", o1, 0, 1), Item("body", o1, 0, 2), Item("body", o1, 1, 1),
     Item("header", o2, 0, 2), Item("header", o3, 0, 1), Item("body", o2, 0, 1),
     Item("body", o3, 0, 3)>>,
   <<Item("body", p1, 0, 1), Item("directory", dir, 0, 2), Item("body", p1, 1, 2),
     Item("directory", dir, 1, 1), Item("body", p2, 0, 1)>>}

MCMessages ==
  {<< <<{0, 2}, {0, 2}>>, <<{1}, {0, 1, 2}>> >>, << <<{}, {}>>, <<{}, {2}>> >>}

VARIABLE use

\* What is not looked at stays as it is.
MCInit ==
  /\ Init /\ MscInit
  /\ use = "backend" \/ (use = "threads" /\ line = "fic")

MCNext ==
  /\ \/ use = "backend" /\ Next /\ UNCHANGED allVars
     \/ use = "threads" /\ MscNext /\ UNCHANGED vars
  /\ UNCHANGED use

everything == <<vars, allVars, use>>

OfBackend(A) == use = "backend" /\ A /\ UNCHANGED <<allVars, use>>
OfThreads(A) == use = "threads" /\ A /\ UNCHANGED <<vars, use>>

\* Only one part goes on in a behaviour, so the fairness of both can be said at once.
MCSpec ==
  /\ MCInit /\ [][MCNext]_everything
  /\ WF_everything(OfBackend(GoodPacket) \/ OfThreads(MscThread))
  /\ WF_everything(OfThreads(DabThread))
  /\ SF_everything(OfThreads(StartFeed))
  /\ WF_everything(OfThreads(StopServiceTurn \/ EndStopService))
  /\ WF_everything(OfThreads(StopReturns))
=============================================================================
