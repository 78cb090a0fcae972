--------------------------- MODULE ErrorProtection ---------------------------
(***************************************************************************)
(* The line between the ofdm decoder and the decoders: superframes with    *)
(* wrong symbols, subchannels of every protection, FIC blocks of frames    *)
(* that are broken off, and CIFs of which some are lost.                   *)
(***************************************************************************)
EXTENDS ReedSolomon, Protection

CONSTANTS Messages,   \* what is sent in a superframe: a message for each of its words
          Base        \* where in frameBytes a superframe can begin

ASSUME ErrorProtectionAssumption == Base \subseteq 0 .. SuperframeLen - 1

VARIABLE coding   \* what is received and what it was made of

CodingLine == {"words", "subchannels", "fic", "cifs"}

NoSuperframe == [sent |-> <<>>, hits |-> <<>>, out |-> <<>>]

\* time: the CIF that is next; whole: how many came since one was lost, enough of them
\* when none was.
WholeEnough == 17

NewLine == [backend |-> NewBackend, time |-> 0, whole |-> WholeEnough]

CodingInit(l) ==
  CASE l = "words" -> NoSuperframe
    [] l = "subchannels" -> [Length |-> 2304 \div CUSize, shortForm |-> FALSE, protLevel |-> 0,
                             bitRate |-> 32, indexTable |-> FicDeconvolver]
    [] l = "fic" -> [handler |-> ficHandler, blkno |-> 1, frame |-> 0]
    [] l = "cifs" -> NewLine
-----------------------------------------------------------------------------
(* Superframes, one by one.                                                *)

SuperframePosition == 1 .. SuperframeLen

WordAt(p) == (p - 1) % RSDims

Repairable == NRoots \div 2

Same(positions) == {[p \in positions |-> v] : v \in Symbol \ {{}}}

\* In one word, as many symbols as can be repaired, or one more; or a burst.
Hits ==
  LET inWord(n) == UNION {kSubset(n, {p \in SuperframePosition : WordAt(p) = j}) : j \in 0 .. RSDims - 1}
      burst(p)  == {(x % SuperframeLen) + 1 : x \in p .. p + Repairable * RSDims - 1} IN
  (UNION {[h -> Symbol \ {{}}] : h \in UNION {inWord(n) : n \in 0 .. Repairable}})
  \union (UNION {Same(h) : h \in inWord(Repairable + 1) \union {burst(p) : p \in SuperframePosition}})

Damage(bytes, hits) ==
  [p \in DOMAIN bytes |-> IF p \in DOMAIN hits THEN add_poly(bytes[p], hits[p]) ELSE bytes[p]]

\* The hits are counted from the begin of the superframe, which is at base in frameBytes.
SuperframeReceived ==
  /\ coding = NoSuperframe
  /\ \E messages \in Messages, base \in Base, hits \in Hits :
       LET there(p) == ((p - 1 + base) % SuperframeLen) + 1
           moved == [q \in {there(p) : p \in DOMAIN hits} |->
                       hits[CHOOSE p \in DOMAIN hits : there(p) = q]] IN
       coding' = [sent |-> messages, hits |-> hits,
                  out  |-> Repaired(Damage(SuperframeOf(messages, base), moved), base)]
-----------------------------------------------------------------------------
(* Subchannels.                                                            *)

\* An ensemble has 864 capacity units; the size is one that the level has.
LongForms ==
  {LongForm(x[1], x[2], x[3]) :
     x \in {y \in {0, 1} \X (0 .. 3) \X (1 .. 864) :
              y[3] % (IF y[1] = 0 THEN table_1 ELSE table_2)[y[2] + 1] = 0}}

SubChannelSelected ==
  \E d \in {ShortForm(i) : i \in 0 .. 63} \union LongForms :
    coding' = [Length |-> d.Length, shortForm |-> d.shortForm, protLevel |-> d.protLevel,
               bitRate |-> d.bitRate, indexTable |-> Deconvolver(d)]
-----------------------------------------------------------------------------
(* FIC blocks.  A frame is broken off when the samples end or the sync is  *)
(* lost; the ficHandler is not told.                                       *)

FicData(frame, blkno) == [i \in 1 .. UnitsOfBlock |-> <<frame, UnitsOfBlock * (blkno - 1) + i - 1>>]

FicBlock ==
  coding' = [handler |-> process_ficBlock(coding.handler, FicData(coding.frame, coding.blkno), coding.blkno),
             blkno |-> (coding.blkno % 3) + 1,
             frame |-> IF coding.blkno = 3 THEN 1 - coding.frame ELSE coding.frame]

FicBroken ==
  /\ coding.blkno # 1
  /\ coding' = [handler |-> [coding.handler EXCEPT !.fics = <<>>], blkno |-> 1,
                frame |-> 1 - coding.frame]
-----------------------------------------------------------------------------
(* CIFs: class c of a logical frame is sent later, by c with its four bits *)
(* in reverse.                                                             *)

\* As many as are in the de-interleaver and on their way.
Cycle == 32

Delay(c) == 8 * (c % 2) + 4 * ((c \div 2) % 2) + 2 * ((c \div 4) % 2) + c \div 8

CifSent(time) == [c \in Class |-> (time + Cycle - Delay(c)) % Cycle]

CifReceived ==
  coding' = [backend |-> processSegment(coding.backend, CifSent(coding.time)),
             time |-> (coding.time + 1) % Cycle,
             whole |-> IF coding.whole < WholeEnough THEN coding.whole + 1 ELSE WholeEnough]

CifLost == coding' = [coding EXCEPT !.time = (@ + 1) % Cycle, !.whole = 0, !.backend.tempX = <<>>]
-----------------------------------------------------------------------------
CodingNext(l) ==
  \/ l = "words" /\ SuperframeReceived
  \/ l = "subchannels" /\ SubChannelSelected
  \/ l = "fic" /\ (FicBlock \/ FicBroken)
  \/ l = "cifs" /\ CifReceived
-----------------------------------------------------------------------------
(* What the properties of Backends are made of.                            *)

\* Of a superframe whose words have no more wrong symbols than can be repaired.
SuperframeRepaired ==
  LET wrong(j) == {p \in DOMAIN coding.hits : WordAt(p) = j} IN
  (\A j \in 0 .. RSDims - 1 : Cardinality(wrong(j)) <= Repairable) => coding.out = coding.sent

\* What the deconvolver leaves of a fragment.
Rest == coding.Length * CUSize - coding.indexTable.taken

\* Some short forms have padding.
Padding == {0, 4, 8}

\* The one row of profileTable that does not fit, 80 kbit/s at level 1: its PI2 is 7.
Misprinted == coding.shortForm /\ coding.bitRate = 80 /\ coding.protLevel = 1

\* indexTable is filled, and the fragment used up: of the short form but for the padding,
\* and of the row that does not fit but for 404 bits, 400 more than if its PI2 were 17.
FragmentFits ==
  /\ coding.indexTable.written = coding.indexTable.size
  /\ ~coding.shortForm => Rest = 0
  /\ coding.shortForm => Rest \in (IF Misprinted THEN {404} ELSE Padding)

\* A FIC is three units of one frame at the place its number says; the last of a frame
\* comes with the third block.
FicAligned ==
  LET fics == coding.handler.fics IN
  /\ \A i \in DOMAIN fics : \E frame \in {0, 1} :
       fics[i].units = [k \in 0 .. UnitsOfFic - 1 |-> <<frame, UnitsOfFic * fics[i].ficno + k>>]
  /\ coding.blkno = 1 /\ fics # <<>> => Last(fics).ficno = 3

\* What is deconvolved is one logical frame, the right one, in all classes of bits.
FrameOfOneTime ==
  LET temp == coding.backend.tempX IN
  temp # <<>> /\ coding.whole = WholeEnough =>
    \A c \in Class : temp[c] = (coding.time + Cycle - WholeEnough) % Cycle
=============================================================================
