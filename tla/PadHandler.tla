----------------------------- MODULE PadHandler -----------------------------
(***************************************************************************)
(* padHandler (backend/data/pad-handler.cpp): the label of a programme and *)
(* the slides that go with it, from the PAD in each audio frame.           *)
(*                                                                         *)
(* Variable X-PAD has subfields, each with a content indicator (CI): parts *)
(* of label segments, parts of MSC data groups, and the length of the next *)
(* group.  A subfield is one unit long.  A PAD without CI goes on with the *)
(* data group.  Short X-PAD is four bytes, with the label alone.           *)
(*                                                                         *)
(* A character is the label it is from, the segment, and its place there;  *)
(* to turn it into Unicode with the character set changes none of them.    *)
(***************************************************************************)
EXTENDS MotObjects

CONSTANTS
  Label,        \* labels in variable X-PAD
  ShortLabel,   \* labels in short X-PAD
  Characters,   \* of each label: the lengths of its segments, a sequence
  GroupUnits    \* the length of each data group

ASSUME PadAssumption ==
  /\ Characters \in [Label \union ShortLabel -> Seq(Nat \ {0}) \ {<<>>}]
  /\ GroupUnits \in [DataGroup -> Nat \ {0}]

Segment(l)   == DOMAIN Characters[l]
Char(l, s, n) == [label |-> l, segment |-> s, n |-> n]
Chars(l, s)  == [n \in 1 .. Characters[l][s] |-> Char(l, s, n)]
TextOf(l)    == FlattenSeq([s \in Segment(l) |-> Chars(l, s)])

\* index: the continuity index in the header of the group, which the CRC is over.
Unit(g, n, index) == [group |-> g, n |-> n, index |-> index]
UnitsOf(g, index) == [n \in 1 .. GroupUnits[g] |-> Unit(g, n, index)]

\* The members of a padHandler, and the static locals of dynamicLabel.
NewPadHandler ==
  [dynamicLabelText |-> <<>>, currentSlide |-> None, mscGroupElement |-> FALSE,
   xpadLength |-> -1, dataGroupLength |-> 0, msc_dataGroupBuffer |-> <<>>,
   still_to_go |-> 0, lastSegment |-> FALSE, firstSegment |-> FALSE, shortpadData |-> <<>>]

NewStatics == [remainDataLength |-> 0, isLastSegment |-> FALSE, moreXPad |-> FALSE]

\* The state a call works on: both, and what the call has shown and handed over.
Working(members, locals) == [pad |-> members, static |-> locals, shown |-> <<>>, handed |-> <<>>]

Append1(w, chars) == [w EXCEPT !.pad.dynamicLabelText = @ \o chars]
Clear(w)          == [w EXCEPT !.pad.dynamicLabelText = <<>>]
Show(w)           == [w EXCEPT !.shown = Append(@, w.pad.dynamicLabelText)]

-----------------------------------------------------------------------------
(* dynamicLabel.                                                           *)

\* Mutant: the text before is not cleared.
StartOfLabelOn(w, f) == w

\* The first segment.
StartOfLabel(w, f) == IF f.segment = 1 THEN Clear(w) ELSE w

IsLast(f) == f.segment = Len(Characters[f.label])

\* CI 2: a segment, its first character in this subfield.
SegmentStart(w, f) ==
  LET total == Characters[f.label][f.segment]
      text  == Append1(StartOfLabel(w, f), <<Char(f.label, f.segment, 1)>>)
      more  == total > 1
      new   == [text EXCEPT !.static.moreXPad = more, !.static.remainDataLength = total - 1,
                            !.static.isLastSegment = IF ~IsLast(f) THEN FALSE
                                                     ELSE IF more THEN TRUE ELSE @] IN
  IF IsLast(f) /\ ~more THEN Show(new) ELSE new

\* CI 2 with the C flag: whatever the command, the text is cleared.
LabelCommand(w) == Clear(w)

\* CI 3.
SegmentMore(w, f) ==
  IF ~w.static.moreXPad THEN w
  ELSE LET more == w.static.remainDataLength > 1
           new  == [Append1(w, <<Char(f.label, f.segment, f.n)>>) EXCEPT
                      !.static.moreXPad = more,
                      !.static.remainDataLength = IF more THEN @ - 1 ELSE @] IN
       IF ~more /\ w.static.isLastSegment THEN Show(new) ELSE new

-----------------------------------------------------------------------------
(* MSC data groups.                                                        *)

\* A data group whose CRC is right.  A header with another transport id replaces
\* the slide there is.
Slide(w, g) ==
  LET slide == w.pad.currentSlide
      same  == slide # None /\ slide.transportId = g.id IN
  CASE g.type = "header" /\ ~same -> [w EXCEPT !.pad.currentSlide = motObject(g.id)]
    [] g.type = "body" /\ same ->
         LET r == addBodySegment(slide, g) IN
         [w EXCEPT !.pad.currentSlide = r.object,
                   !.handed = IF r.handed = None THEN @ ELSE Append(@, r.handed)]
    [] OTHER -> w

\* build_MSC_segment: the CRC is right when these are all units of one group.
build_MSC_segment(w, data) ==
  LET n     == w.pad.dataGroupLength
      taken == SubSeq(data, 1, IF Len(data) < n THEN Len(data) ELSE n) IN
  IF taken # <<>> /\ taken = UnitsOf(taken[1].group, taken[1].index) THEN Slide(w, taken[1].group) ELSE w

\* CI 12.
new_MSC_element(w, data) ==
  IF Len(data) >= w.pad.dataGroupLength
  THEN build_MSC_segment([w EXCEPT !.pad.msc_dataGroupBuffer = <<>>,
                                   !.pad.mscGroupElement = FALSE], data)
  ELSE [w EXCEPT !.pad.msc_dataGroupBuffer = data, !.pad.mscGroupElement = TRUE]

\* Mutant: the buffer is not cleared when the group is full.
add_MSC_elementOn(w, data) ==
  LET buffer == w.pad.msc_dataGroupBuffer \o data
      new    == [w EXCEPT !.pad.msc_dataGroupBuffer = buffer] IN
  IF w.pad.msc_dataGroupBuffer = <<>> THEN w
  ELSE IF Len(buffer) = w.pad.dataGroupLength THEN build_MSC_segment(new, buffer) ELSE new

\* CI 13, and PADs without CI.
add_MSC_element(w, data) ==
  LET buffer == w.pad.msc_dataGroupBuffer \o data IN
  IF w.pad.msc_dataGroupBuffer = <<>> THEN w
  ELSE IF Len(buffer) >= w.pad.dataGroupLength
       THEN [build_MSC_segment(w, buffer) EXCEPT !.pad.msc_dataGroupBuffer = <<>>]
       ELSE [w EXCEPT !.pad.msc_dataGroupBuffer = buffer]

-----------------------------------------------------------------------------
(* handle_variablePAD.                                                     *)

\* What a subfield does; the one of an application that is not handled ends the
\* call (HandledOf).
Subfield(w, f) ==
  CASE f.ci = 1  -> [w EXCEPT !.pad.dataGroupLength = f.length]
    [] f.ci = 2  -> IF f.label = None THEN LabelCommand(w) ELSE SegmentStart(w, f)
    [] f.ci = 3  -> SegmentMore(w, f)
    [] f.ci = 12 -> new_MSC_element(w, <<f.unit>>)
    [] f.ci = 13 -> add_MSC_element(w, <<f.unit>>)

HandledOf(fields) ==
  IF \E i \in DOMAIN fields : fields[i].ci = 0
  THEN SubSeq(fields, 1, (CHOOSE i \in DOMAIN fields :
         fields[i].ci = 0 /\ \A j \in 1 .. i - 1 : fields[j].ci # 0) - 1)
  ELSE fields

\* With CI.  The size is noted only when a data group was going on before.
WithCI(w, fields) ==
  FoldLeft(Subfield, IF w.pad.mscGroupElement
                     THEN [w EXCEPT !.pad.xpadLength = Len(fields)] ELSE w,
           HandledOf(fields))

\* Without CI, in an X-PAD field of this many units.
WithoutCI(w, units) ==
  IF w.pad.mscGroupElement /\ w.pad.xpadLength > 0 /\ Len(units) >= w.pad.xpadLength
  THEN add_MSC_element(w, SubSeq(units, 1, w.pad.xpadLength))
  ELSE w

-----------------------------------------------------------------------------
(* handle_shortPAD.                                                        *)

Least(a, b) == IF a < b THEN a ELSE b

\* The next k characters of what still is to go.
TakeShort(w, chars, k) ==
  LET n == Least(Least(k, w.pad.still_to_go), Len(chars)) IN
  [w EXCEPT !.pad.shortpadData = @ \o SubSeq(chars, 1, n), !.pad.still_to_go = @ - n]

\* The segment is in: it goes to the text.
FlushShort(w) ==
  [Append1(w, w.pad.shortpadData) EXCEPT !.pad.shortpadData = <<>>]

\* CI 2: the begin of a segment; a new label shows what there is of the last one.
ShortStart(w, f) ==
  LET flags == [w EXCEPT !.pad.firstSegment = f.first, !.pad.lastSegment = f.last]
      shows == IF w.pad.dynamicLabelText # <<>> THEN Show(flags) ELSE flags
      new   == IF f.first /\ ~f.last THEN Clear(shows) ELSE flags IN
  [new EXCEPT !.pad.still_to_go = f.length - 1,
              !.pad.shortpadData = <<Char(f.label, f.segment, 1)>>]

\* CI 3: three characters, whose bits are taken for the flags, too.
ShortMore(w, f) ==
  LET new == TakeShort([w EXCEPT !.pad.firstSegment = f.first, !.pad.lastSegment = f.last],
                       f.chars, 3) IN
  IF new.pad.still_to_go = 0 /\ Len(new.pad.shortpadData) > 1 THEN FlushShort(new) ELSE new

\* Any other CI, which sets the flags as well.
ShortOther(w, f) == [w EXCEPT !.pad.firstSegment = f.first, !.pad.lastSegment = f.last]

\* Mutant: the segments are not told from the last one.
ShortPlainAlways(w, chars) ==
  LET new == TakeShort(w, chars, 4) IN
  IF new.pad.still_to_go = 0 /\ new.pad.shortpadData # <<>>
  THEN Clear(Show(FlushShort(new))) ELSE new

\* Without CI: four characters.  The end of the last segment shows the label.
ShortPlain(w, chars) ==
  LET new  == TakeShort(w, chars, 4)
      text == FlushShort(new) IN
  IF new.pad.still_to_go = 0 /\ new.pad.shortpadData # <<>>
  THEN IF ~text.pad.firstSegment /\ text.pad.lastSegment
       THEN Clear(IF text.pad.dynamicLabelText # <<>> THEN Show(text) ELSE text)
       ELSE text
  ELSE new

-----------------------------------------------------------------------------
\* processPAD.
processPAD(w, p) ==
  CASE p.kind = "variable" -> WithCI(w, p.fields)
    [] p.kind = "plain"    -> WithoutCI(w, p.units)
    [] p.kind = "start"    -> ShortStart(w, p)
    [] p.kind = "more"     -> ShortMore(w, p)
    [] p.kind = "other"    -> ShortOther(w, p)
    [] p.kind = "short"    -> ShortPlain(w, p.chars)
    [] p.kind = "none"     -> w
=============================================================================
