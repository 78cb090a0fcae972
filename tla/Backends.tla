------------------------------ MODULE Backends ------------------------------
(***************************************************************************)
(* backendDriver (backend/backend-driver.cpp): the processor of a service, *)
(* chosen by its type, and what it makes of the frames on a line that      *)
(* loses and damages: mp4Processor and mp2Processor with their padHandler, *)
(* dataProcessor with its motHandler; and what stands before it, the error *)
(* protection, in lines of its own.                                        *)
(*                                                                         *)
(* A line is a kind of broadcast.  The broadcaster sends what it likes in  *)
(* the order of the standard; the ghosts next to it say what came through  *)
(* undamaged, which the properties compare with what the processor did.    *)
(***************************************************************************)
EXTENDS PacketData, PadHandler, AudioFrames, ErrorProtection

CONSTANTS
  SlideObject,   \* the objects sent in the PAD, one at a time
  MaxLosses      \* how often the line is bad, or the service selected again

ASSUME BackendsAssumption == SlideObject \subseteq Object /\ MaxLosses \in Nat \ {0}

Pieces(objects) == UNION {AllOf(o) : o \in objects}

\* None, the null pointer, is no label, no data group, no motObject and no slide.
ASSUME NoneAssumption ==
  /\ None \notin Label \union ShortLabel \union DataGroup
  /\ None \notin [transportId : Object \union DirObject,
                 motMap : SUBSET Pieces(Object \union DirObject), numofSegments : Int]
  /\ None \notin [id : Object, got : SUBSET Pieces(Object)]

VARIABLES
  line,      \* what is sent
  losses,    \* how often it was bad
  audio,     \* the mp4Processor or mp2Processor
  frames,    \* the broadcaster of audio
  padwork,   \* the padHandler, its static locals, what its last call did
  program,   \* the broadcaster of PAD
  data,      \* the dataProcessor
  service    \* the broadcaster of packets

apparatus == <<audio, frames, padwork, program, data, service>>

vars == <<line, losses, coding, apparatus>>

\* Superframes of DAB+; the audio units in them, with labels or with slides in the
\* PAD; frames of DAB, without PAD or with labels; packets; and those of ErrorProtection.
PadLine == {"labels", "slides"}
Mp4Line == {"superframes"} \union PadLine
Mp2Line == {"frames", "short"}
Line    == Mp4Line \union Mp2Line \union {"packets"} \union CodingLine
-----------------------------------------------------------------------------
(* The constructor of backendDriver.                                       *)

theAudio(l) ==
  CASE l \in Mp4Line -> mp4Processor [] l \in Mp2Line -> mp2Processor [] OTHER -> None

thePad(l, locals) ==
  IF l \in PadLine \union {"short"} THEN Working(NewPadHandler, locals) ELSE None

theData(l) == IF l = "packets" THEN dataProcessor ELSE None

theCoding(l) == IF l \in CodingLine THEN CodingInit(l) ELSE None

\* Superframes are numbered 0 and 1 in turn; recent: the last Parts frames, with
\* nothing before them.
Recent0 == [i \in 1 .. Parts |-> Zero]

Superframes ==
  {[superframe |-> 0, part |-> p, recent |-> Recent0] : p \in 0 .. Parts - 1}

\* half: which of the frames of an audio frame is next; calm: frames since the
\* last that was disturbed.
CalmEnough == 6

DabFrames == UNION {{[rate |-> r, half |-> h, calm |-> 0] : h \in 1 .. FramesOf(r)} : r \in Rate}

\* label, segment, n: the character that is next; command: one is to be continued;
\* group, unit: the unit that is next; size: that of a PAD without CI, 0 if none
\* may come.  Ghosts: intact and entire, whether all of the label and of the group
\* came so far; due and arrived, what came to its end with this PAD; clean: nothing
\* was lost, at least since a label came whole; slide: what the slide must be.
NoProgram ==
  [label |-> None, segment |-> 1, n |-> 1, command |-> FALSE,
   group |-> None, unit |-> 1, index |-> 0, size |-> 0,
   intact |-> FALSE, entire |-> FALSE, due |-> <<>>, arrived |-> <<>>,
   clean |-> TRUE, slide |-> None]

Init ==
  /\ line \in Line
  /\ losses = 0
  /\ coding = theCoding(line)
  /\ audio = theAudio(line)
  /\ frames \in CASE line = "superframes" -> Superframes
                  [] line = "frames"  -> DabFrames
                  [] line = "short"   -> {f \in DabFrames : f.rate = 48000}
                  [] OTHER            -> {None}
  /\ padwork = thePad(line, NewStatics)
  /\ program = IF line \in PadLine \union {"short"} THEN NoProgram ELSE None
  /\ data = theData(line)
  /\ service \in IF line = "packets"
                 THEN {[next |-> b, clean |-> 0, collected |-> {}] : b \in Tunings} ELSE {None}

Loses ==
  /\ losses < MaxLosses
  /\ losses' = losses + 1
-----------------------------------------------------------------------------
(* DAB+: a frame of the superframe.                                        *)

\* The line is as bad as it likes.
SuperframePart(condition, accident) ==
  LET frame == [superframe |-> frames.superframe, part |-> frames.part, condition |-> condition]
      ends  == frames.part = Parts - 1 IN
  /\ line = "superframes"
  /\ audio' = addtoFrame(audio, frame, accident)
  /\ frames' = [superframe |-> IF ends THEN 1 - frames.superframe ELSE frames.superframe,
                part   |-> (frames.part + 1) % Parts,
                recent |-> Append(Tail(frames.recent), frame)]
  /\ UNCHANGED <<line, losses, coding, padwork, program, data, service>>
-----------------------------------------------------------------------------
(* DAB: a frame of an audio frame, disturbed in at most one unit.          *)

DabUnits(f) ==
  [i \in 1 .. Units |->
     IF f.half = 1 /\ i = 1 THEN "first" ELSE IF f.half = 1 /\ i = 2 THEN "rest" ELSE "sound"]

\* A header that is not found, and at 24 kHz sound that looks like one.  Not here,
\* since mp2Processor does not come back from them at 48 kHz: a header that lacks
\* the first bit, and sound that looks like a header.
Disturbed(f) ==
  LET sent == DabUnits(f) IN
  {[sent EXCEPT ![i] = "sound"] :
     i \in {j \in 1 .. Units : sent[j] = "rest" \/ (sent[j] = "first" /\ f.rate = 24000)}}
  \union
  {[sent EXCEPT ![i] = r] :
     i \in {j \in 1 .. Units : sent[j] = "sound" /\ f.rate = 24000}, r \in DOMAIN LooksLike}

NextHalf(f, calm) ==
  [f EXCEPT !.half = (@ % FramesOf(f.rate)) + 1,
            !.calm = IF calm < CalmEnough THEN calm ELSE CalmEnough]

DabFrame ==
  /\ line = "frames"
  /\ audio' = addtoMp2Frame(audio, DabUnits(frames), frames.rate)
  /\ frames' = NextHalf(frames, frames.calm + 1)
  /\ UNCHANGED <<line, losses, coding, padwork, program, data, service>>

DisturbedFrame ==
  /\ line = "frames"
  /\ \E units \in Disturbed(frames) : audio' = addtoMp2Frame(audio, units, frames.rate)
  /\ frames' = NextHalf(frames, 0)
  /\ UNCHANGED <<line, losses, coding, padwork, program, data, service>>
-----------------------------------------------------------------------------
(* X-PAD: what the broadcaster may begin or continue.  A move is the       *)
(* subfields and the state of the broadcaster after them.                  *)

\* The character after n of segment s; no label when there is none.
Moved(a, l, s, n) ==
  IF n < Characters[l][s] THEN [a EXCEPT !.label = l, !.segment = s, !.n = n + 1]
  ELSE IF s < Len(Characters[l]) THEN [a EXCEPT !.label = l, !.segment = s + 1, !.n = 1]
  ELSE [a EXCEPT !.label = None, !.segment = 1, !.n = 1]

MovedUnit(a, g, n) ==
  IF n < GroupUnits[g] THEN [a EXCEPT !.group = g, !.unit = n + 1]
                       ELSE [a EXCEPT !.group = None, !.unit = 1,
                                 !.index = (@ + 1) % (2 * MaxLosses)]

LabelField(l, s, n) == [ci |-> IF n = 1 THEN 2 ELSE 3, label |-> l, segment |-> s, n |-> n]
UnitField(g, n, x)  == [ci |-> IF n = 1 THEN 12 ELSE 13, unit |-> Unit(g, n, x)]

PadGroup == {g \in DataGroup : g.id \in SlideObject}

Move(fields, air) == [fields |-> fields, air |-> air]

\* Begun between slides are labels of one character, for PADs of another size.
LabelSent == {l \in Label : line = "labels" \/ Len(TextOf(l)) = 1}

\* A label, a command (a label field of no label) and a data group begin when the
\* segment or group before them has ended; a label need not be sent to its end.
LabelMoves(a) ==
  (IF a.n > 1 \/ a.command THEN {}
   ELSE {Move(<<LabelField(l, 1, 1)>>, Moved(a, l, 1, 1)) : l \in LabelSent})
  \union
  (IF a.n > 1 \/ a.command \/ line # "labels" THEN {}
   ELSE {Move(<<LabelField(None, 1, 1)>>,
              [a EXCEPT !.label = None, !.segment = 1, !.command = TRUE])})
  \union
  (IF a.label = None THEN {}
   ELSE {Move(<<LabelField(a.label, a.segment, a.n)>>, Moved(a, a.label, a.segment, a.n))})
  \union
  (IF ~a.command THEN {}
   ELSE {Move(<<LabelField(None, 1, 2)>>, [a EXCEPT !.command = FALSE])})

\* The continuity index counts groups, as far as to tell the ones that losses may join.
GroupMoves(a) ==
  IF line # "slides" THEN {}
  ELSE IF a.group = None
  THEN {Move(<<[ci |-> 1, length |-> GroupUnits[g]], UnitField(g, 1, a.index)>>,
             MovedUnit(a, g, 1)) : g \in PadGroup}
  ELSE {Move(<<UnitField(a.group, a.unit, a.index)>>, MovedUnit(a, a.group, a.unit))}

Moves(a) == LabelMoves(a) \union GroupMoves(a) \union {Move(<<[ci |-> 0]>>, a)}

\* A variable X-PAD of one move or two.  When it ends within a data group, one of
\* its size without CI can follow.  Not here when the group also begins in it, since
\* handle_variablePAD does not note the size then and the group is lost.
Composed(a) ==
  LET sized(m) ==
        LET more == /\ m.air.group # None /\ Last(m.fields).ci = 13
                   /\ \A i \in DOMAIN m.fields : m.fields[i].ci # 12 IN
        Move(m.fields, [m.air EXCEPT !.size = IF more THEN Len(m.fields) ELSE 0]) IN
  UNION {{sized(m)} \union {sized(Move(m.fields \o r.fields, r.air)) : r \in Moves(m.air)} :
           m \in Moves(a)}

\* Without CI: the group goes on, with something behind its end if it is shorter.
Plain(a) ==
  LET n == a.unit + a.size
      b == MovedUnit(a, a.group, n - 1)
      units == [i \in 1 .. a.size |-> Unit(a.group, a.unit + i - 1, a.index)] IN
  IF a.size = 0 THEN {}
  ELSE {[pad |-> [kind |-> "plain", units |-> units],
         fields |-> [i \in 1 .. a.size |-> [ci |-> 13, unit |-> units[i]]],
         air |-> IF b.group = None THEN [b EXCEPT !.size = 0] ELSE b]}

PadsSent(a) ==
  {[pad |-> [kind |-> "variable", fields |-> m.fields], fields |-> m.fields, air |-> m.air] :
     m \in Composed(a)}
  \union Plain(a)
  \union {[pad |-> [kind |-> "none"], fields |-> <<>>, air |-> a]}

-----------------------------------------------------------------------------
(* What came through.                                                      *)

EndsLabel(f) ==
  f.segment = Len(Characters[f.label]) /\ f.n = Characters[f.label][f.segment]

\* One subfield, which the processor got or not.
Came(a, f, got) ==
  CASE f.ci \in {2, 3} ->
         LET i == f.label # None /\ got /\ (a.intact \/ (f.segment = 1 /\ f.n = 1)) IN
         [a EXCEPT !.intact = i, !.due = IF i /\ EndsLabel(f) THEN Append(@, f.label) ELSE @]
    [] f.ci \in {12, 13} ->
         LET e == got /\ (a.entire \/ f.ci = 12) IN
         [a EXCEPT !.entire  = e,
                   !.arrived = IF e /\ f.unit.n = GroupUnits[f.unit.group]
                               THEN Append(@, f.unit.group) ELSE @]
    [] OTHER -> a

\* The slide that the groups make: the last header with another id began it.
SlideOf(s, g) ==
  CASE g.type = "header" /\ (s = None \/ s.id # g.id) -> [id |-> g.id, got |-> {}]
    [] g.type = "body" /\ s # None /\ s.id = g.id -> [s EXCEPT !.got = @ \union {Piece(g)}]
    [] OTHER -> s

\* All of a PAD: got of its subfields are handled, the first.
Follow(a, sent, got) ==
  LET start == [sent.air EXCEPT !.intact = a.intact, !.entire = a.entire,
                                !.due = <<>>, !.arrived = <<>>]
      numbered == [i \in DOMAIN sent.fields |-> [f |-> sent.fields[i], got |-> i <= got]]
      end   == FoldLeft(LAMBDA b, x : Came(b, x.f, x.got), start, numbered) IN
  [end EXCEPT !.clean = got = Len(sent.fields) /\ (a.clean \/ a.due # <<>>),
              !.slide = FoldLeft(SlideOf, a.slide, end.arrived)]

Lost(w) == [w EXCEPT !.shown = <<>>, !.handed = <<>>]

\* The PAD of an audio unit of a superframe that is processed.  It is lost with the
\* superframe, or when the CRC of the unit is wrong; what comes behind an application
\* that is not handled is lost with the rest of its PAD.
AccessUnit ==
  /\ line \in PadLine
  /\ \E sent \in PadsSent(program) :
       LET handled == IF sent.pad.kind = "variable" THEN Len(HandledOf(sent.fields))
                                                    ELSE Len(sent.fields) IN
       \/ /\ padwork' = processPAD(Lost(padwork), sent.pad)
          /\ program' = Follow(program, sent, handled)
          /\ IF handled = Len(sent.fields) THEN UNCHANGED losses ELSE Loses
       \/ /\ sent.fields # <<>> /\ Loses
          /\ padwork' = Lost(padwork)
          /\ program' = Follow(program, sent, 0)
  /\ UNCHANGED <<line, coding, audio, frames, data, service>>
-----------------------------------------------------------------------------
(* Short X-PAD, one in each frame of DAB.                                  *)

ShortEnd(a, k) ==
  LET n == Least(a.n + k - 1, Characters[a.label][a.segment]) IN
  Moved(a, a.label, a.segment, n)

Flags == [first : BOOLEAN, last : BOOLEAN]

CharsFrom(a, k) == [i \in 1 .. k |-> Char(a.label, a.segment, a.n + i - 1)]

ShortStarts(a) ==
  {[pad |-> [kind |-> "start", label |-> b.label, segment |-> b.segment,
             length |-> Characters[b.label][b.segment],
             first |-> b.segment = 1, last |-> b.segment = Len(Characters[b.label])],
    came |-> b.segment = 1 \/ a.intact, due |-> <<>>, air |-> ShortEnd(b, 1)] :
      b \in IF a.label = None THEN {[a EXCEPT !.label = l] : l \in ShortLabel}
            ELSE IF a.n = 1 THEN {a} ELSE {}}

ShortContinues(a) ==
  IF a.label = None \/ a.n = 1 THEN {}
  ELSE LET b == ShortEnd(a, 4) IN
       {[pad |-> [kind |-> "short", chars |-> CharsFrom(a, 4)], came |-> a.intact,
         due |-> IF b.label = None /\ a.intact THEN <<a.label>> ELSE <<>>, air |-> b]}
       \union
       {[pad |-> [kind |-> "more", chars |-> CharsFrom(a, 3), first |-> x.first, last |-> x.last],
         came |-> FALSE, due |-> <<>>, air |-> ShortEnd(a, 3)] : x \in Flags}

\* Any other application; the flags are bits of its data.
ShortOthers(a) ==
  {[pad |-> [kind |-> "other", first |-> x.first, last |-> x.last],
    came |-> FALSE, due |-> <<>>, air |-> a] : x \in Flags}

\* The label counts as come through when it was sent without CI 3 and no other
\* application came between: to padHandler the flags of the segment are those of
\* the last PAD that has a CI.
ShortFrame ==
  /\ line = "short"
  /\ audio' = addtoMp2Frame(audio, DabUnits(frames), frames.rate)
  /\ frames' = NextHalf(frames, frames.calm + 1)
  /\ \E sent \in ShortStarts(program) \union ShortContinues(program) \union ShortOthers(program) :
       \/ /\ padwork' = processPAD(Lost(padwork), sent.pad)
          /\ program' = [sent.air EXCEPT
               !.intact = sent.came, !.due = sent.due,
               !.clean = sent.pad.kind \in {"start", "short"}
                           /\ (program.clean \/ program.due # <<>>)]
          /\ UNCHANGED losses
       \/ /\ Loses
          /\ \E garbage \in {[kind |-> "none"]} \union {o.pad : o \in ShortOthers(program)} :
               padwork' = processPAD(Lost(padwork), garbage)
          /\ program' = [sent.air EXCEPT !.intact = FALSE, !.due = <<>>, !.clean = FALSE]
  /\ UNCHANGED <<line, coding, data, service>>
-----------------------------------------------------------------------------
(* Packets.                                                                *)

MaxPackets == 4

\* clean: good packets since the last that was not, up to what the properties ask.
CleanMost == 4 + MaxPackets

Delivered(d) == IF d.mot.handed = None THEN {} ELSE {d.mot.handed.transportId}

GoodPacket ==
  /\ line = "packets"
  /\ data' = handlePacket(data, service.next)
  /\ service' = [next |-> NextPacket(service.next),
                 clean |-> IF service.clean < CleanMost THEN service.clean + 1 ELSE CleanMost,
                 collected |-> service.collected \union Delivered(data')]
  /\ UNCHANGED <<line, losses, coding, audio, frames, padwork, program>>

\* Damaged: its CRC is wrong, and its index can be any; or it is not even found.
DamagedPacket ==
  /\ line = "packets" /\ Loses
  /\ \/ \E index \in 0 .. 3 : data' = handleOtherPacket(data, index)
     \/ data' = Quiet(data)
  /\ service' = [service EXCEPT !.next = NextPacket(@), !.clean = 0]
  /\ UNCHANGED <<line, coding, audio, frames, padwork, program>>

PaddingPacket ==
  /\ line = "packets" /\ Loses
  /\ \E index \in 0 .. 3 : data' = handleOtherPacket(data, index)
  /\ service' = [service EXCEPT !.clean = 0]
  /\ UNCHANGED <<line, coding, audio, frames, padwork, program>>
-----------------------------------------------------------------------------
(* Error protection.                                                       *)

Coding ==
  /\ CodingNext(line)
  /\ UNCHANGED <<line, losses, apparatus>>

CodingLoss ==
  /\ line = "cifs" /\ Loses /\ CifLost
  /\ UNCHANGED <<line, apparatus>>
-----------------------------------------------------------------------------
\* The service is selected again: its processor is deleted and a new one made; the
\* static locals of dynamicLabel stay.
SelectAgain ==
  /\ line \notin {"words", "subchannels", "fic"} /\ Loses
  /\ audio' = theAudio(line)
  /\ padwork' = thePad(line, IF line \in PadLine \union {"short"} THEN padwork.static ELSE NewStatics)
  /\ data' = theData(line)
  /\ coding' = theCoding(line)
  /\ frames' = CASE line = "superframes" -> [frames EXCEPT !.recent = Recent0]
                 [] line \in Mp2Line -> [frames EXCEPT !.calm = 0]
                 [] OTHER -> frames
  /\ program' = IF line \notin PadLine \union {"short"} THEN None
                ELSE [program EXCEPT !.intact = FALSE, !.entire = FALSE, !.due = <<>>,
                                     !.arrived = <<>>, !.clean = FALSE, !.slide = None]
  /\ service' = IF line # "packets" THEN None
                ELSE [service EXCEPT !.clean = 0, !.collected = {}]
  /\ UNCHANGED line

Next ==
  \/ \E c \in Condition, accident \in BOOLEAN : SuperframePart(c, accident)
  \/ DabFrame \/ DisturbedFrame \/ ShortFrame
  \/ AccessUnit
  \/ GoodPacket \/ DamagedPacket \/ PaddingPacket
  \/ Coding \/ CodingLoss
  \/ SelectAgain

\* The broadcaster of a data service goes on for ever.
Spec == Init /\ [][Next]_vars /\ WF_vars(GoodPacket)
-----------------------------------------------------------------------------
(* Properties.                                                             *)

Program ==
  [label : Label \union ShortLabel \union {None}, segment : Nat, n : Nat, command : BOOLEAN,
   group : PadGroup \union {None}, unit : Nat, index : 0 .. 2 * MaxLosses, size : 0 .. 4, intact : BOOLEAN,
   entire : BOOLEAN, due : Seq(Label \union ShortLabel), arrived : Seq(PadGroup),
   clean : BOOLEAN,
   slide : {None} \union [id : Object, got : SUBSET Pieces(Object)]]

\* The processor there is belongs to the line; what waits never outgrows what it
\* waits for: a data group in the PAD, a table of objects, the rate of the audio.
TypeOK ==
  /\ line \in Line /\ losses \in 0 .. MaxLosses
  /\ line \in Mp4Line =>
       /\ audio.blockFillIndex \in 0 .. Parts - 1 /\ audio.processed \in BOOLEAN
  /\ line \in Mp2Line =>
       /\ audio.MP2Header_OK \in {0, 2} /\ audio.baudRate \in Rate
       /\ audio.MP2bitCount \in 0 .. 2 * Units
  /\ line \in PadLine \union {"short"} => program \in Program
  /\ line \in PadLine /\ padwork.pad.mscGroupElement =>
       Len(padwork.pad.msc_dataGroupBuffer) < padwork.pad.dataGroupLength
  /\ line = "fic" => coding.handler.index < UnitsOfFic /\ coding.handler.ficno \in 0 .. 4
  /\ line = "packets" =>
       /\ data.expectedIndex \in 0 .. 3 /\ data.packetState \in {0, 1}
       /\ Len(data.mot.motTable) <= TableSize
       /\ service.clean \in 0 .. CleanMost

\* Superframes are found by the FIRE code alone, at the slot that is filled next:
\* what is decoded is a superframe whose last part just came, never parts of two or
\* one that could not be repaired; and every one with a good first part is.  Of MPEG-1
\* layer II every frame is played in full length when nothing was disturbed for a while.
FramesWhole ==
  /\ line = "superframes" =>
       LET r     == frames.recent
           whole == \A i \in 1 .. Parts :
                      /\ r[i].superframe = r[1].superframe /\ r[i].part = i - 1
                      /\ r[i].condition # "spoilt" /\ r[i] # Zero IN
       /\ audio.processed => whole
       /\ whole /\ r[1].condition = "good" => audio.processed
  /\ line \in Mp2Line /\ frames.calm = CalmEnough =>
       audio.played = IF frames.half # 1 THEN <<>>
                      ELSE <<[begins |-> "true", units |-> Units * FramesOf(frames.rate)]>>

\* A label of which every part came is shown, whole; and as long as nothing is lost
\* no other text is, not the begin of one, nor two run together.
LabelsShown ==
  line \in PadLine \union {"short"} =>
    LET texts == [i \in DOMAIN program.due |-> TextOf(program.due[i])] IN
    /\ Range(texts) \subseteq Range(padwork.shown)
    /\ program.clean => padwork.shown = texts

\* An object that is handed over has all its segments, each once.  The slide in the
\* PAD is made of exactly the data groups that came whole, however their parts were
\* spread over PADs with and without CI, between labels, and around lost ones.
ObjectsWhole ==
  /\ line \in PadLine =>
       LET slide == padwork.pad.currentSlide IN
       /\ \A i \in DOMAIN padwork.handed :
            padwork.handed[i].motMap = AllOf(padwork.handed[i].transportId)
       /\ IF program.slide = None THEN slide = None
          ELSE /\ slide # None /\ slide.transportId = program.slide.id
               /\ slide.motMap = program.slide.got
  /\ line = "packets" /\ data.mot.handed # None =>
       data.mot.handed.motMap = AllOf(data.mot.handed.transportId)

\* After any disturbance four good packets are enough to be in step again.  The first
\* packet after them that begins a group begins a series, whatever there was of
\* another, and the series is right up to its end; a group of one packet needs a fifth,
\* since it would be taken for the end of a series.
GroupsArrive ==
  line = "packets" =>
    LET b == service.next IN
    /\ service.clean >= 4 => data.expectedIndex = b.index
    /\ service.clean >= 5 /\ FirstOf(b) => data.packetState = 0
    /\ service.clean >= 3 + b.part /\ ~FirstOf(b) =>
         data.packetState = 1 /\ data.series = SubSeq(Whole(b), 1, b.part - 1)

\* A superframe with up to as many wrong symbols in each word as the code is made for,
\* also in a burst over all words and in the parity, comes out as it was sent, wherever
\* it begins in the ring of frameBytes.
Corrected == line = "words" => SuperframeRepaired

\* What is deconvolved is one logical frame, in order of its bits, however many CIFs or
\* FIC blocks were lost before; and the puncturing takes as many bits as FIG 0/1 has
\* given the subchannel, of the short form but for its padding, and of the one row that is
\* misprinted 404 fewer.
BitsInPlace ==
  /\ line = "subchannels" => FragmentFits
  /\ line = "fic"  => FicAligned
  /\ line = "cifs" => FrameOfOneTime

\* The objects that a carousel has all of, with a header or in a directory.
ObjectsIn(c) ==
  {o \in Object \union DirObject : \E i \in DOMAIN c : c[i].group.type = "body" /\ c[i].group.id = o}

\* Every object of the carousel is handed over in the end, whatever was lost.
Collected ==
  \A o \in Object \union DirObject :
    <>(line = "packets" /\ o \in ObjectsIn(service.next.carousel) => o \in service.collected)
=============================================================================
