----------------------------- MODULE AudioFrames -----------------------------
(***************************************************************************)
(* Where a frame of audio begins.  mp4Processor (backend/audio) looks for  *)
(* the FIRE code of a superframe in the last frames it got; mp2Processor   *)
(* looks for the sync word of MPEG-1 layer II in the bits.                 *)
(*                                                                         *)
(* A frame of the ensemble, what one call of addtoFrame gets, is here      *)
(*   - for DAB+, a part of a superframe, good, scratched (the Reed-Solomon *)
(*     code can repair it, but in the first part the FIRE code is wrong)   *)
(*     or spoilt;                                                          *)
(*   - for DAB, a sequence of units: the first bit of the sync word, the   *)
(*     rest of the header, and what follows.  At 24 kHz an audio frame is  *)
(*     two such frames.                                                    *)
(***************************************************************************)
EXTENDS Integers, Sequences, SequencesExt

CONSTANTS
  Parts,   \* frames of a superframe (5)
  Units    \* units of a frame of DAB

ASSUME AudioAssumption == Parts \in Nat \ {0, 1} /\ Units \in Nat \ {0, 1, 2}

Condition == {"good", "scratched", "spoilt"}

-----------------------------------------------------------------------------
(* mp4Processor.  A slot of frameBytes: which of two superframes in a row, *)
(* which part, and how well it came; all zero before anything came.        *)

Zero == [superframe |-> 2, part |-> 0, condition |-> "good"]

mp4Processor == [frameBytes |-> [i \in 0 .. Parts - 1 |-> Zero], blockFillIndex |-> 0,
                 processed |-> FALSE]

\* check: the FIRE code is right, as it is of zeros; of other bytes it can be by
\* chance (accident).
FireCodeRight(slot, accident) == (slot.part = 0 /\ slot.condition = "good") \/ accident

\* The Reed-Solomon code finds nothing, or nothing it cannot repair, in the bytes
\* from slot base on: they are a superframe.
Decodable(bytes, base) ==
  \A i \in 0 .. Parts - 1 :
    LET slot == bytes[(base + i) % Parts] IN
    /\ slot.part = i /\ slot.condition # "spoilt"
    /\ slot.superframe = bytes[base].superframe
    /\ slot # Zero

\* Mutant: the slot looked at is the one just filled.
addtoFrameEarly(m, frame, accident) ==
  LET bytes == [m.frameBytes EXCEPT ![m.blockFillIndex] = frame] IN
  [frameBytes |-> bytes, blockFillIndex |-> (m.blockFillIndex + 1) % Parts,
   processed |-> FireCodeRight(bytes[m.blockFillIndex], accident)
                   /\ Decodable(bytes, m.blockFillIndex)]

\* blocksInBuffer is written and never read: what decides is that the slot after
\* the one just filled, the oldest, is the begin of a superframe.
addtoFrame(m, frame, accident) ==
  LET bytes == [m.frameBytes EXCEPT ![m.blockFillIndex] = frame]
      base  == (m.blockFillIndex + 1) % Parts IN
  [frameBytes |-> bytes, blockFillIndex |-> base,
   processed |-> FireCodeRight(bytes[base], accident) /\ Decodable(bytes, base)]

-----------------------------------------------------------------------------
(* mp2Processor.  A unit is "first" or "rest" (of the sync word and the    *)
(* header), "sound", or sound that looks like a header of one rate.        *)

Rate == {24000, 48000}

LooksLike == [like24 |-> 24000, like48 |-> 48000]

FramesOf(rate) == IF rate = 24000 THEN 2 ELSE 1

\* MP2Header_OK, MP2bitCount, the samplerate, and how MP2frame begins: "true" if
\* with a header, "shifted" if with all but its first bit, "sound" if it is sound
\* that looks like a header, "none" before anything is in it.
mp2Processor == [MP2Header_OK |-> 0, MP2bitCount |-> 0, baudRate |-> 48000,
                 begins |-> "none", partial |-> FALSE, played |-> <<>>]

\* Any other value than those of Rate is not set.
setSamplerate(m, rate) == IF rate \in Rate THEN [m EXCEPT !.baudRate = rate] ELSE m

\* Out of sync: twelve ones in a row.  A header without its first bit still has
\* twelve at 48 kHz, where a bit follows that is one, but is not a valid header.
Search(m, unit, rate) ==
  CASE unit = "first" -> [m EXCEPT !.partial = TRUE]
    [] unit = "rest" /\ m.partial ->
         setSamplerate([m EXCEPT !.MP2Header_OK = 2, !.MP2bitCount = 2, !.begins = "true",
                                 !.partial = FALSE], rate)
    [] unit = "rest" /\ ~m.partial /\ rate = 48000 ->
         [m EXCEPT !.MP2Header_OK = 2, !.MP2bitCount = 1, !.begins = "shifted"]
    [] unit \in DOMAIN LooksLike ->
         setSamplerate([m EXCEPT !.MP2Header_OK = 2, !.MP2bitCount = 2, !.begins = "sound",
                                 !.partial = FALSE], LooksLike[unit])
    [] OTHER -> [m EXCEPT !.partial = FALSE]

\* Mutant: after a frame the next one is taken to follow without a search.
CollectOn(m, lf) ==
  IF m.MP2bitCount + 1 < lf THEN [m EXCEPT !.MP2bitCount = @ + 1]
  ELSE [m EXCEPT !.played = Append(@, [begins |-> m.begins, units |-> m.MP2bitCount + 1]),
                 !.MP2bitCount = 0]

\* In sync: the frame is full with lf units; mp2decodeFrame looks at its header.
Collect(m, lf) ==
  IF m.MP2bitCount + 1 < lf THEN [m EXCEPT !.MP2bitCount = @ + 1]
  ELSE [m EXCEPT !.MP2Header_OK = 0, !.MP2bitCount = 0, !.begins = "none",
                 !.played = IF m.begins = "shifted" THEN @
                            ELSE Append(@, [begins |-> m.begins, units |-> m.MP2bitCount + 1])]

addUnit(m, unit, rate, lf) ==
  IF m.MP2Header_OK = 2 THEN Collect(m, lf) ELSE Search(m, unit, rate)

\* addtoFrame: the length of a frame is taken from the samplerate as it is at the
\* start of the call.
addtoMp2Frame(m, units, rate) ==
  LET lf == Units * FramesOf(m.baudRate) IN
  FoldLeft(LAMBDA n, unit : addUnit(n, unit, rate, lf), [m EXCEPT !.played = <<>>], units)
=============================================================================
