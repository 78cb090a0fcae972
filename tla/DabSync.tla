------------------------------- MODULE DabSync -------------------------------
(***************************************************************************)
(* dabProcessor::run with timeSyncer and phaseReference: find the null     *)
(* period by its level, then the first sample of block 0 by correlation,   *)
(* read the blocks of the frame, skip the next null period, and find the   *)
(* first sample again; meanwhile bring the frequency to that of the        *)
(* ensemble, in steps of carriers first and then within one.               *)
(*                                                                         *)
(* A sample is its place in the frame on the air, of which the level is    *)
(* known; what a correlation finds, and what the phases of a frame tell,   *)
(* follows from the place and the frequency as long as nothing disturbs.   *)
(* Samples may be lost or doubled (a buffer that is full, a clock of the   *)
(* device that is not quite that of the sender), levels may fade, and a    *)
(* correlation may be misled.                                              *)
(***************************************************************************)
EXTENDS Integers, Sequences, FiniteSets

CONSTANTS
  T_null, T_g, T_u,  \* samples of the null period, of a prefix, of a block behind it
  nrBlocks,          \* blocks of a frame
  C_LEVEL_SIZE,      \* samples in the level of now
  EndMargin,         \* what the end of the null may be late (50)
  Window,            \* findIndex looks so far on both sides of T_g (100)
  Level, MaxLevel,   \* the level of the ensemble; the highest one ever
  CarrierDiff,       \* between two carriers
  SearchRange,       \* estimate_CarrierOffset looks at so many on both sides
  CoarseStep,        \* 0.4 carriers
  Gain,              \* a Gain-th of what is left goes into fineOffset (20)
  MaxCoarse,         \* 35 KHz
  Offset,            \* how far the device can be off
  WrongEstimate, NoEstimate,  \* what else estimate_CarrierOffset gives; 100
  Lost,              \* how many samples may be lost at once
  MaxDisturbances    \* bound: losses, fades and misled correlations

T_s == T_g + T_u
T_F == T_null + nrBlocks * T_s

ASSUME DabSyncAssumption ==
  /\ {T_null, T_g, T_u, nrBlocks, C_LEVEL_SIZE, Window, Level, CarrierDiff, Gain}
        \subseteq Nat \ {0}
  /\ {EndMargin, SearchRange, CoarseStep, MaxCoarse, MaxDisturbances} \subseteq Nat
  /\ MaxLevel \in Nat /\ MaxLevel >= Level
  /\ nrBlocks > 4 /\ Window <= T_g
  /\ Offset \subseteq Int /\ WrongEstimate \subseteq Int /\ NoEstimate \in WrongEstimate
  /\ Lost \subseteq Nat \ {0}

VARIABLES
  pc,            \* where the DAB thread is
  ensemble,      \* whether there is one on this channel
  offset,        \* what the device is off
  pos,           \* the place of the next sample in the frame on the air
  shift,         \* history: samples lost since the index was found, and its error
  slipped,       \* whether the clock slipped in this frame
  disturbances,
  sLevel, window, counter,
  startIndex, ofdmSymbolCount,
  coarseOffset, fineOffset,
  ficSynced      \* syncReached ()

place     == <<pos, shift, slipped, disturbances>>
level     == <<sLevel, window, counter>>
frequency == <<coarseOffset, fineOffset, ficSynced>>
session   == <<ensemble, offset>>
dabVars   == <<pc, session, place, level, startIndex, ofdmSymbolCount, frequency>>

Abs(n) == IF n < 0 THEN -n ELSE n

Loud(p) == ~ensemble \/ p >= T_null
Passed(n) == (pos + n) % T_F

InStep == ensemble /\ Abs(shift) < Window

DabInit ==
  /\ pc = "warmUp" /\ disturbances = 0
  /\ ensemble \in BOOLEAN /\ offset \in Offset /\ pos \in 0 .. T_F - 1
  /\ sLevel \in 1 .. MaxLevel
  /\ shift = 0 /\ slipped = FALSE /\ window = <<>> /\ counter = 0
  /\ startIndex = 0 /\ ofdmSymbolCount = 0
  /\ coarseOffset = 0 /\ fineOffset = 0 /\ ficSynced = FALSE

\* start and the begin of run: the device may be anywhere in a frame, and the level
\* is still that of what was received before.
Start ==
  /\ pc = "off" /\ pc' = "warmUp"
  /\ ensemble' \in BOOLEAN /\ offset' \in Offset /\ pos' \in 0 .. T_F - 1
  /\ sLevel' \in 1 .. MaxLevel
  /\ UNCHANGED <<shift, slipped, disturbances, window, counter, startIndex, ofdmSymbolCount, frequency>>

\* setRunning (false): the next read throws, and what run had is gone; stop then
\* clears the FIB decoder.
Stop ==
  /\ pc # "off" /\ pc' = "off"
  /\ pos' = 0 /\ shift' = 0 /\ slipped' = FALSE
  /\ window' = <<>> /\ counter' = 0 /\ startIndex' = 0 /\ ofdmSymbolCount' = 0
  /\ coarseOffset' = 0 /\ fineOffset' = 0 /\ ficSynced' = FALSE
  /\ UNCHANGED <<session, disturbances, sLevel>>

\* A fifth of a frame, for the level only.
WarmUp ==
  /\ pc = "warmUp"
  /\ pos' = Passed(T_F \div 5)
  /\ pc' = "level"
  /\ UNCHANGED <<session, shift, slipped, disturbances, level, startIndex, ofdmSymbolCount, frequency>>
-----------------------------------------------------------------------------
(* timeSyncer::sync.                                                       *)

\* cLevel and sLevel, compared in percent.
cLevel == Level * Cardinality({i \in DOMAIN window : window[i]})
AboveDip  == 100 * cLevel > 55 * sLevel * C_LEVEL_SIZE
BelowFull == 100 * cLevel < 75 * sLevel * C_LEVEL_SIZE

FirstLevel ==
  /\ pc = "level"
  /\ window' = [i \in 1 .. C_LEVEL_SIZE |-> Loud(Passed(i - 1))]
  /\ pos' = Passed(C_LEVEL_SIZE)
  /\ counter' = 0 /\ pc' = "dip"
  /\ UNCHANGED <<session, shift, slipped, disturbances, sLevel, startIndex, ofdmSymbolCount, frequency>>

\* getSample: a sample may have faded.
GetSample ==
  /\ pos' = Passed(1)
  /\ \/ window' = Append(Tail(window), Loud(pos)) /\ UNCHANGED disturbances
     \/ /\ disturbances < MaxDisturbances
        /\ disturbances' = disturbances + 1
        /\ window' = Append(Tail(window), ~Loud(pos))

\* One turn of a loop that gives up after so many samples.
Turn(limit) ==
  /\ GetSample
  /\ IF counter + 1 > limit THEN pc' = "level" /\ counter' = 0
                            ELSE UNCHANGED pc /\ counter' = counter + 1
  /\ UNCHANGED <<session, shift, slipped, sLevel, startIndex, ofdmSymbolCount, frequency>>

SyncOnNull == pc = "dip" /\ AboveDip /\ Turn(T_F)

DipFound ==
  /\ pc = "dip" /\ ~AboveDip
  /\ pc' = "endOfDip" /\ counter' = 0
  /\ UNCHANGED <<session, place, sLevel, window, startIndex, ofdmSymbolCount, frequency>>

SyncOnEndNull == pc = "endOfDip" /\ BelowFull /\ Turn(T_null + EndMargin)

EndOfDipFound ==
  /\ pc = "endOfDip" /\ ~BelowFull
  /\ pc' = "find" /\ counter' = 0 /\ window' = <<>>
  /\ UNCHANGED <<session, place, sLevel, startIndex, ofdmSymbolCount, frequency>>

\* Every sample brings sLevel a little nearer to the level there is.
Settle ==
  /\ pc # "off" /\ sLevel # Level
  /\ sLevel' = IF sLevel < Level THEN sLevel + 1 ELSE sLevel - 1
  /\ UNCHANGED <<pc, session, place, window, counter, startIndex, ofdmSymbolCount, frequency>>
-----------------------------------------------------------------------------
(* phaseReference.                                                         *)

\* How far behind the next sample block 0 begins, without its prefix.
Distance == (T_null + T_g - pos) % T_F
Indices  == (T_g - Window) .. (T_g + Window - 1)
NotFound == -1

FindIndex(index) ==
  LET right == IF ensemble /\ Distance \in Indices THEN Distance ELSE NotFound
  IN  \/ index = right /\ UNCHANGED disturbances
      \/ /\ index # right /\ disturbances < MaxDisturbances
         /\ disturbances' = disturbances + 1

Residual == offset - coarseOffset - fineOffset
Nearest(n) == 2 * Abs(Residual - n * CarrierDiff) <= CarrierDiff

\* The FIC cannot be read when the carriers are further off.
Readable == 4 * Abs(Residual) <= CarrierDiff

EstimateCarrierOffset(n) ==
  LET carriers == {k \in -SearchRange .. SearchRange - 1 : Nearest(k)}
  IN  n \in IF InStep /\ carriers # {} THEN carriers ELSE WrongEstimate

\* What the phases of prefix and block differ by, as a frequency.
FreqCorr(f) ==
  /\ 2 * Abs(f) <= CarrierDiff
  /\ InStep => (Residual - f) % CarrierDiff = 0

\* A conversion of a float to an integer.
Truncated(a, b) == IF a >= 0 THEN a \div b ELSE -((-a) \div b)
-----------------------------------------------------------------------------
(* dabProcessor::run.                                                      *)

\* Behind timeSyncer::sync, and at Check_endofNULL.
PhaseSync ==
  /\ pc \in {"find", "check"}
  /\ \E index \in Indices \union {NotFound} :
       /\ FindIndex(index)
       /\ IF index = NotFound
          THEN pc' = "level" /\ shift' = 0 /\ UNCHANGED startIndex
          ELSE pc' = "block0" /\ shift' = index - Distance /\ startIndex' = index
  /\ pos' = Passed(T_u) /\ slipped' = FALSE
  /\ UNCHANGED <<session, level, ofdmSymbolCount, frequency>>

CorrectCoarse ==
  IF ficSynced THEN UNCHANGED coarseOffset
  ELSE \E n \in WrongEstimate \union (-SearchRange .. SearchRange - 1) :
         /\ EstimateCarrierOffset(n)
         /\ coarseOffset' =
              LET c == coarseOffset + n * CoarseStep
              IN  IF n = NoEstimate THEN coarseOffset ELSE IF Abs(c) > MaxCoarse THEN 0 ELSE c

\* Mutant: the rest of block 0 is taken for all of it.
Block_0Whole ==
  /\ pc = "block0"
  /\ pos' = Passed(T_u) /\ startIndex' = 0
  /\ CorrectCoarse
  /\ pc' = "block" /\ ofdmSymbolCount' = 1
  /\ UNCHANGED <<session, shift, slipped, disturbances, level, fineOffset, ficSynced>>

\* The samples before startIndex are dropped, as many are read behind.
Block_0 ==
  /\ pc = "block0"
  /\ pos' = Passed(startIndex) /\ startIndex' = 0
  /\ CorrectCoarse
  /\ pc' = "block" /\ ofdmSymbolCount' = 1
  /\ UNCHANGED <<session, shift, slipped, disturbances, level, fineOffset, ficSynced>>

\* The first three blocks after block 0 are the FIC's, which may then be in sync.
DataBlock ==
  /\ pc = "block"
  /\ pos' = Passed(T_s)
  /\ ficSynced' \in {ficSynced} \union
        (IF InStep /\ ofdmSymbolCount < 4 /\ Readable THEN {TRUE} ELSE {})
  /\ ofdmSymbolCount' = (ofdmSymbolCount + 1) % nrBlocks
  /\ pc' = IF ofdmSymbolCount + 1 < nrBlocks THEN "block" ELSE "null"
  /\ UNCHANGED <<session, shift, slipped, disturbances, level, startIndex, coarseOffset, fineOffset>>

\* Mutant: a carrier taken from fineOffset is not given to coarseOffset.
CorrectFineOnly ==
  \E f \in {n \in -CarrierDiff .. CarrierDiff : FreqCorr(n)} :
    LET fine == Truncated(Gain * fineOffset + f, Gain)
    IN  /\ fineOffset' = IF 2 * fine > CarrierDiff THEN fine - CarrierDiff
                         ELSE IF 2 * fine < -CarrierDiff THEN fine + CarrierDiff ELSE fine
        /\ UNCHANGED coarseOffset

CorrectFine ==
  \E f \in {n \in -CarrierDiff .. CarrierDiff : FreqCorr(n)} :
    LET fine == Truncated(Gain * fineOffset + f, Gain)
        over == IF 2 * fine > CarrierDiff THEN CarrierDiff
                ELSE IF 2 * fine < -CarrierDiff THEN -CarrierDiff ELSE 0
    IN  /\ fineOffset' = fine - over
        /\ coarseOffset' = coarseOffset + over

\* Mutant: the null period is not skipped.
EndOfFrameUnskipped ==
  /\ pc = "null"
  /\ CorrectFine
  /\ pc' = "check"
  /\ UNCHANGED <<session, place, level, startIndex, ofdmSymbolCount, ficSynced>>

\* The next null period is skipped.
EndOfFrame ==
  /\ pc = "null"
  /\ pos' = Passed(T_null)
  /\ CorrectFine
  /\ pc' = "check"
  /\ UNCHANGED <<session, shift, slipped, disturbances, level, startIndex, ofdmSymbolCount, ficSynced>>
-----------------------------------------------------------------------------
(* The device.                                                             *)

InFrame == pc \in {"block0", "block", "null", "check"}

Moved(n) ==
  /\ pos' = Passed(n)
  /\ shift' = IF InFrame THEN shift + n ELSE 0
  /\ UNCHANGED <<pc, session, level, startIndex, ofdmSymbolCount, frequency>>

\* Blocks the device drops when its buffer is full.
Lose ==
  /\ pc # "off" /\ disturbances < MaxDisturbances
  /\ disturbances' = disturbances + 1
  /\ \E n \in Lost : Moved(n)
  /\ UNCHANGED slipped

\* The clock of the device differs a little, for ever.
Slip ==
  /\ InFrame /\ ~slipped
  /\ slipped' = TRUE
  /\ \E n \in {-1, 1} : Moved(n)
  /\ UNCHANGED disturbances

Receiver ==
  \/ WarmUp \/ FirstLevel \/ SyncOnNull \/ DipFound \/ SyncOnEndNull \/ EndOfDipFound
  \/ PhaseSync \/ Block_0 \/ DataBlock \/ EndOfFrame

DabNext == Receiver \/ Settle \/ Start \/ Stop \/ Lose \/ Slip

\* The device gives samples, as long as it is on.
DabSpec ==
  DabInit /\ [][DabNext]_dabVars /\ WF_dabVars(Receiver) /\ WF_dabVars(Settle)
-----------------------------------------------------------------------------
(* Properties.                                                             *)

DabTypeOK ==
  /\ pc \in {"off", "warmUp", "level", "dip", "endOfDip", "find", "check", "block0", "block", "null"}
  /\ ensemble \in BOOLEAN /\ offset \in Offset
  /\ pos \in 0 .. T_F - 1 /\ shift \in Int /\ slipped \in BOOLEAN
  /\ disturbances \in 0 .. MaxDisturbances
  /\ sLevel \in 1 .. MaxLevel /\ counter \in Nat
  /\ startIndex \in {0} \union Indices /\ ofdmSymbolCount \in 0 .. nrBlocks - 1
  /\ coarseOffset \in Int /\ fineOffset \in Int /\ ficSynced \in BOOLEAN

\* Wherever in a frame the thread is, the next sample it reads is the one it
\* takes it for, but for what the device lost since and the error of the index.
BlocksInPlace ==
  /\ pc = "block0" => Passed(startIndex) = (T_null + T_s + shift) % T_F
  /\ pc = "block"  => pos = (T_null + ofdmSymbolCount * T_s + shift) % T_F
  /\ pc = "null"   => pos = shift % T_F
  /\ pc = "check"  => pos = (T_null + shift) % T_F

\* On a channel with an ensemble the thread comes, whatever was lost, faded or
\* taken for block 0 in between, to read frame after frame, at most one sample
\* beside it although the clocks differ; on another channel it reads none for long.
SyncComesBack ==
  <>[](pc # "off") => <>[](IF ensemble THEN InFrame /\ Abs(shift) <= 1 ELSE ~InFrame)

\* Once on an ensemble for good, the frequency comes to what is below one step of
\* the correction of fineOffset.
FrequencySettles ==
  <>[](pc # "off" /\ ensemble) => <>[](Abs(Residual) < Gain)
=============================================================================
