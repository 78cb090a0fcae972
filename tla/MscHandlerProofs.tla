-------------------------- MODULE MscHandlerProofs --------------------------
(***************************************************************************)
(* Proofs about MscHandler, for every value of its constants.              *)
(***************************************************************************)
EXTENDS MscHandler, SequenceTheorems, TLAPS

-----------------------------------------------------------------------------
(* Arithmetic.                                                             *)

\* A frame has a positive number of blocks, more than FirstMsc.
LEMMA FrameSize == nrBlocks \in Nat \ {0} /\ FirstMsc < nrBlocks
<1>1. \A a, b \in Nat \ {0} : a * b \in Nat \ {0}
  OBVIOUS
<1>2. CifsPerFrame * BlocksPerCif \in Nat \ {0}
  BY <1>1, MscAssumption DEF MscAssumption
<1> QED
  BY <1>2, MscAssumption DEF MscAssumption, nrBlocks

\* A remainder lies below the modulus.
LEMMA ModRange ==
  ASSUME NEW a \in Int, NEW n \in Nat \ {0}
  PROVE  a % n \in 0 .. n - 1
OBVIOUS

\* Slot numbers are added modulo nrBlocks: one subtraction is enough.
LEMMA ModOnce ==
  ASSUME NEW n \in Nat \ {0}, NEW a \in 0 .. 2 * n - 1
  PROVE  a % n = IF a < n THEN a ELSE a - n
OBVIOUS

\* Division with remainder.
LEMMA DivMod ==
  ASSUME NEW n \in Nat \ {0}, NEW a \in Nat
  PROVE  \E q \in Nat : a = q * n + (a % n) /\ a % n \in 0 .. n - 1
<1> DEFINE q == a \div n
<1>1. a = q * n + (a % n)
  OBVIOUS
<1>2. q \in Nat
  OBVIOUS
<1>3. a % n \in 0 .. n - 1
  OBVIOUS
<1> HIDE DEF q
<1> QED
  BY <1>1, <1>2, <1>3

\* A quotient and a remainder are found back.
LEMMA UniqueMod ==
  ASSUME NEW n \in Nat \ {0}, NEW q \in Int, NEW r \in 0 .. n - 1
  PROVE  (q * n + r) % n = r
OBVIOUS

\* The remainder of the next number.
LEMMA ModNext ==
  ASSUME NEW n \in Nat \ {0}, NEW a \in Nat
  PROVE  (a + 1) % n = IF a % n = n - 1 THEN 0 ELSE (a % n) + 1
<1>1. PICK q \in Nat : a = q * n + (a % n) /\ a % n \in 0 .. n - 1
  BY DivMod
<1> DEFINE r == a % n
<1>2. q \in Nat /\ a = q * n + r /\ r \in 0 .. n - 1
  BY <1>1
<1> HIDE DEF r
<1>3. CASE r = n - 1
  <2>1. a + 1 = (q + 1) * n + 0
    BY <1>2, <1>3
  <2>2. ((q + 1) * n + 0) % n = 0
    BY <1>2, UniqueMod
  <2> QED
    BY <2>1, <2>2, <1>3 DEF r
<1>4. CASE r # n - 1
  <2>1. a + 1 = q * n + (r + 1)
    BY <1>2
  <2>2. (q * n + (r + 1)) % n = r + 1
    BY <1>2, <1>4, UniqueMod
  <2> QED
    BY <2>1, <2>2, <1>4 DEF r
<1> QED
  BY <1>3, <1>4

\* The number before a multiple.
LEMMA FullMod ==
  ASSUME NEW n \in Nat \ {0}, NEW c \in Nat \ {0}
  PROVE  (c * n - 1) % n = n - 1
<1>1. c * n - 1 = (c - 1) * n + (n - 1)
  OBVIOUS
<1>2. ((c - 1) * n + (n - 1)) % n = n - 1
  BY UniqueMod
<1> QED
  BY <1>1, <1>2

\* Frame labels are used cyclically.
LEMMA FrameWraps == \A f \in Frame : NextFrame(f) \in Frame
BY ModRange, MscAssumption DEF MscAssumption, Frame, NextFrame

\* A fed backend is a backend.
LEMMA FedType ==
  ASSUME CurrentCif \in Bits, NEW b \in Backend
  PROVE  Fed(b) \in Backend
<1>1. b.fill \in 0 .. Depth /\ Depth \in Nat
  BY MscAssumption DEF MscAssumption, Backend
<1>2. (IF b.fill < Depth THEN b.fill + 1 ELSE b.fill) \in 0 .. Depth
  BY <1>1
<1> QED
  BY <1>2 DEF Fed, Backend

\* Erasing an element leaves a sequence one shorter.
LEMMA ShorterSeq ==
  ASSUME NEW S, NEW s \in Seq(S), NEW i \in 1 .. Len(s)
  PROVE  RemoveAt(s, i) \in Seq(S) /\ Len(RemoveAt(s, i)) = Len(s) - 1
<1>1. Len(s) \in Nat /\ \A k \in 1 .. Len(s) : s[k] \in S
  BY LenProperties
<1>2. SubSeq(s, 1, i - 1) \in Seq(S) /\ Len(SubSeq(s, 1, i - 1)) = i - 1
  BY <1>1, SubSeqProperties
<1>3. SubSeq(s, i + 1, Len(s)) \in Seq(S) /\ Len(SubSeq(s, i + 1, Len(s))) = Len(s) - i
  BY <1>1, SubSeqProperties
<1> DEFINE t == SubSeq(s, 1, i - 1)
           u == SubSeq(s, i + 1, Len(s))
<1>4. RemoveAt(s, i) = t \o u
  BY DEF RemoveAt
<1>5. t \in Seq(S) /\ Len(t) = i - 1 /\ u \in Seq(S) /\ Len(u) = Len(s) - i
  BY <1>2, <1>3, Zenon
<1> HIDE DEF t, u
<1>6. t \o u \in Seq(S) /\ Len(t \o u) = Len(t) + Len(u)
  BY <1>5, ConcatProperties
<1> QED
  BY <1>1, <1>4, <1>5, <1>6
-----------------------------------------------------------------------------
(* Types, and the accounting of the slots.                                 *)

\* The MSC thread is handling a block.
Busy == msc \in {"fft", "cif", "feed", "reference", "next"}

\* Who holds locker: the MSC thread in its loop over theBackends, or the GUI
\* in the loop of stopService, and then nobody else touches the vector.
LockInv ==
  /\ locker = "msc" <=> msc = "feed"
  /\ locker = "gui" <=> stopping.i > 0
  /\ locker = "gui" => gui = "on"

\* The inductive invariant: the MSC thread only handles blocks it was told of,
\* which bounds amount from below, and the accounting bounds it from above.
IInv ==
  /\ MscTypeOK
  /\ SlotAccounting
  /\ Busy => amount > 0
  /\ gui = "off" => dab = "off"
  /\ LockInv
  /\ FeedIsStable

\* No subchannel is being stopped.
LEMMA NotStoppingType == NotStopping.subChId \in SubCh /\ NotStopping.i = 0
BY MscAssumption DEF MscAssumption, NotStopping

\* The initial state.
LEMMA IInvInit == MscInit => IInv
<1> SUFFICES ASSUME MscInit PROVE IInv
  OBVIOUS
<1> USE FrameSize, MscAssumption
<1>1. MscTypeOK
  <2>1. theBackends \in Seq(Backend) /\ gui = "off" /\ locker = "none"
    BY DEF MscInit
  <2>2. stopping \in [subChId : SubCh, i : Nat]
    BY DEF MscInit, NotStopping, MscAssumption
  <2>3. torn \in BOOLEAN /\ reading \in BOOLEAN
    BY Zenon DEF MscInit
  <2>4. /\ blkno \in BlockNo /\ frame \in Frame /\ currentBlock \in BlockNo
        /\ stale \in 0 .. nrBlocks + 1 /\ amount \in 0 .. nrBlocks + 1
        /\ bufferSpace \in 0 .. nrBlocks
    BY DEF MscInit, MscAssumption, BlockNo, Frame
  <2>5. command \in [BlockNo -> Frame] /\ iter \in [i : Nat \ {0}, end : Nat]
    BY DEF MscInit, MscAssumption, BlockNo, Frame
  <2>6. /\ fftBuffer \in Bits /\ phaseReference \in Bits
        /\ cifVector \in [0 .. BlocksPerCif - 1 -> Bits]
    BY DEF MscInit, Bits
  <2>7. dab = "off" /\ msc = "idle"
    BY DEF MscInit
  <2> QED
    BY <2>1, <2>2, <2>3, <2>4, <2>5, <2>6, <2>7 DEF MscTypeOK
<1>2. /\ SlotAccounting /\ LockInv /\ FeedIsStable
      /\ Busy => amount > 0
      /\ gui = "off" => dab = "off"
  BY DEF MscInit, MscAssumption, SlotAccounting, LockInv, FeedIsStable, Busy, NotStopping
<1> QED
  BY <1>1, <1>2 DEF IInv

\* Every step keeps it.
LEMMA IInvStep == IInv /\ [MscNext]_allVars => IInv'
<1> SUFFICES ASSUME IInv, [MscNext]_allVars PROVE IInv'
  OBVIOUS
<1> USE FrameSize, MscAssumption
<1> USE DEF IInv, MscTypeOK, SlotAccounting, LockInv, FeedIsStable, Busy,
            guiVars, dabVars, mscVars
<1>1. CASE Begin
  BY <1>1 DEF Begin
<1>2. CASE SamplesArrive
  BY <1>2 DEF SamplesArrive
<1>3. CASE Acquire
  BY <1>3 DEF Acquire
<1>4. CASE CopyIn
  BY <1>4 DEF CopyIn
<1>5. CASE Signal
  <2>1. blkno' \in BlockNo
    BY <1>5, ModRange DEF Signal, BlockNo
  <2>2. frame' \in Frame
    BY <1>5, FrameWraps DEF Signal
  <2>3. msc' = IF msc = "waiting" THEN "test" ELSE msc
    BY <1>5 DEF Signal
  <2>4. amount' = amount + 1 /\ amount <= nrBlocks /\ dab = "signal" /\ dab' = "sample"
    BY <1>5 DEF Signal
  <2>5. UNCHANGED <<guiVars, reading, torn, stale, bufferSpace, command, currentBlock,
                    fftBuffer, phaseReference, cifVector, iter>>
    BY <1>5 DEF Signal
  <2> QED
    BY <2>1, <2>2, <2>3, <2>4, <2>5
<1>6. CASE Throw
  BY <1>6 DEF Throw
<1>7. CASE Wait
  BY <1>7 DEF Wait
<1>8. CASE Timeout
  BY <1>8 DEF Timeout
<1>9. CASE NoMore
  BY <1>9 DEF NoMore
<1>10. CASE ReadBlock
  <2>1. fftBuffer' \in Bits
    <3>1. SlotContents \subseteq Bits
      BY DEF SlotContents, Bits, Block, BlockNo, Frame
    <3> QED
      BY <1>10, <3>1 DEF ReadBlock
  <2>2. /\ amount > 0 /\ msc' = "fft" /\ msc = "test"
        /\ UNCHANGED <<guiVars, dabVars, bufferSpace, amount, command, currentBlock,
                       phaseReference, cifVector, iter>>
    BY <1>10 DEF ReadBlock
  <2> QED
    BY <2>1, <2>2
<1>11. CASE SkipBlock
  BY <1>11 DEF SkipBlock
<1>12. CASE AddToCif
  <2>1. CifIndex \in 0 .. BlocksPerCif - 1
    <3>1. currentBlock - FirstMsc \in Int /\ BlocksPerCif \in Nat \ {0}
      BY DEF MscAssumption, BlockNo
    <3> QED
      BY <3>1, ModRange DEF CifIndex
  <2>2. Demodulated \in Bits
    BY DEF Demodulated, Bits
  <2>3. cifVector' \in [0 .. BlocksPerCif - 1 -> Bits]
    BY <1>12, <2>1, <2>2 DEF AddToCif
  <2>4. /\ msc = "fft" /\ msc' \in {"reference", "cif"}
        /\ UNCHANGED <<guiVars, dabVars, bufferSpace, amount, command, currentBlock,
                       fftBuffer, phaseReference, iter>>
    BY <1>12 DEF AddToCif
  <2> QED
    BY <2>3, <2>4
<1>13. CASE StartFeed
  BY <1>13 DEF StartFeed
<1>14. CASE FeedBackend
  <2>1. CurrentCif \in Bits
    BY DEF CurrentCif, MscAssumption, Bits
  <2>2. theBackends' \in Seq(Backend) /\ Len(theBackends') = Len(theBackends)
    <3>1. theBackends' = [theBackends EXCEPT ![iter.i] = Fed(@)]
      BY <1>14 DEF FeedBackend
    <3>2. \A b \in Backend : Fed(b) \in Backend
      BY <2>1, FedType
    <3>3. iter.i \in 1 .. Len(theBackends) /\ theBackends[iter.i] \in Backend
      BY <1>14, LenProperties DEF FeedBackend
    <3>4. theBackends' = [theBackends EXCEPT ![iter.i] = Fed(theBackends[iter.i])]
      BY <3>1
    <3> QED
      BY <3>2, <3>3, <3>4, ExceptSeq
  <2>3. iter' \in [i : Nat \ {0}, end : Nat] /\ iter'.end = iter.end
    <3>1. iter' = [iter EXCEPT !.i = iter.i + 1] /\ iter \in [i : Nat \ {0}, end : Nat]
      BY <1>14 DEF FeedBackend
    <3> HIDE DEF MscTypeOK, SlotAccounting, LockInv, FeedIsStable, IInv
    <3> QED
      BY <3>1
  <2>4. /\ msc = "feed"
        /\ UNCHANGED <<gui, locker, stopping, dabVars, bufferSpace, amount, command, msc,
                       currentBlock, fftBuffer, phaseReference, cifVector>>
    BY <1>14 DEF FeedBackend
  <2> QED
    BY <2>2, <2>3, <2>4
<1>15. CASE EndFeed
  BY <1>15 DEF EndFeed
<1>16. CASE Release
  BY <1>16 DEF Release
<1>17. CASE Advance
  <2>1. currentBlock' \in BlockNo
    BY <1>17, ModRange DEF Advance, BlockNo
  <2>2. /\ msc = "next" /\ msc' = "test" /\ amount' = amount - 1
        /\ UNCHANGED <<guiVars, dabVars, bufferSpace, command, fftBuffer,
                       phaseReference, cifVector, iter>>
    BY <1>17 DEF Advance
  <2> QED
    BY <2>1, <2>2
<1>18. CASE StopServiceTurn
  <2>1. stopping.i \in 1 .. Len(theBackends) /\ stopping \in [subChId : SubCh, i : Nat]
    BY <1>18, LenProperties DEF StopServiceTurn
  <2>2. theBackends' \in Seq(Backend)
    BY <1>18, <2>1, ShorterSeq DEF StopServiceTurn
  <2>3. stopping' \in [subChId : SubCh, i : Nat] /\ stopping'.i = stopping.i + 1
    <3>1. stopping' = [stopping EXCEPT !.i = stopping.i + 1]
      BY <1>18 DEF StopServiceTurn
    <3> HIDE DEF MscTypeOK, SlotAccounting, LockInv, FeedIsStable, IInv
    <3> QED
      BY <2>1, <3>1
  <2>4. UNCHANGED <<gui, locker, dabVars, bufferSpace, amount, command, mscVars>>
    BY <1>18 DEF StopServiceTurn
  <2> QED
    BY <2>1, <2>2, <2>3, <2>4
<1>19. CASE EndStopService
  <2>1. stopping' \in [subChId : SubCh, i : Nat] /\ stopping'.i = 0
    <3>1. NotStopping \in [subChId : SubCh, i : Nat]
      BY NotStoppingType DEF NotStopping
    <3> QED
      BY <1>19, <3>1, NotStoppingType DEF EndStopService
  <2>2. stopping.i > 0
    BY <1>19 DEF EndStopService
  <2>3. /\ locker' = "none"
        /\ UNCHANGED <<gui, theBackends, dabVars, bufferSpace, amount, command, mscVars>>
    BY <1>19 DEF EndStopService
  <2> QED
    BY <2>1, <2>2, <2>3
<1>20. CASE RequestStop
  BY <1>20 DEF RequestStop
<1>21. CASE StopReturns
  BY <1>21 DEF StopReturns
<1>22. CASE Start
  <2>1. blkno' \in BlockNo
    BY <1>22 DEF Start, BlockNo
  <2>2. frame' \in Frame
    BY <1>22, FrameWraps DEF Start
  <2>3. torn' \in BOOLEAN
    BY <1>22, Zenon DEF Start
  <2>4. stale' \in 0 .. nrBlocks + 1
    BY <1>22 DEF Start, Pending
  <2>5. theBackends' \in Seq(Backend) /\ locker = "none" /\ gui' = "on" /\ dab' = "starting"
    BY <1>22 DEF Start
  <2>6. dab \notin {"copy", "signal"} /\ msc # "feed"
    BY <1>22 DEF Start
  <2>7. UNCHANGED <<locker, stopping, reading, bufferSpace, amount, command, mscVars>>
    BY <1>22 DEF Start
  <2> QED
    BY <2>1, <2>2, <2>3, <2>4, <2>5, <2>6, <2>7
<1>23. ASSUME NEW s \in Service, NEW c \in SubCh, set_Channel(s, c) PROVE IInv'
  <2>1. [SId |-> s, subChId |-> c, fill |-> 0, last |-> Garbage] \in Backend
    BY DEF MscAssumption, Backend, Bits
  <2>2. theBackends' \in Seq(Backend)
    BY <1>23, <2>1 DEF set_Channel
  <2>3. locker = "none" /\ UNCHANGED <<gui, locker, stopping, dabVars, bufferSpace, amount,
                                     command, mscVars>>
    BY <1>23 DEF set_Channel
  <2> QED
    BY <2>2, <2>3
<1>24. ASSUME NEW c \in SubCh, StartStopService(c) PROVE IInv'
  BY <1>24 DEF StartStopService
<1>25. CASE UNCHANGED allVars
  BY <1>25 DEF allVars
<1> QED
  BY <1>1, <1>2, <1>3, <1>4, <1>5, <1>6, <1>7, <1>8, <1>9, <1>10, <1>11,
     <1>12, <1>13, <1>14, <1>15, <1>16, <1>17, <1>18, <1>19, <1>20, <1>21,
     <1>22, <1>23, <1>24, <1>25
     DEF MscNext, DabThread, MscThread, ServiceCalls

\* The invariant holds in every behaviour of the system, whatever the user does.
THEOREM Invariance == MscSpec => []IInv
BY IInvInit, IInvStep, PTL DEF MscSpec

\* Type correctness.
THEOREM TypeCorrect == MscSpec => []MscTypeOK
<1>1. IInv => MscTypeOK
  BY DEF IInv
<1> QED
  BY <1>1, Invariance, PTL

\* Every slot of the buffer of mscHandler is accounted for exactly once, also
\* across stop and restart of the DAB thread: no permit of bufferSpace is lost.
THEOREM SlotsAccounted == MscSpec => []SlotAccounting
<1>1. IInv => SlotAccounting
  BY DEF IInv
<1> QED
  BY <1>1, Invariance, PTL

\* The vector of backends is not changed under the loop of the MSC thread.
THEOREM FeedStable == MscSpec => []FeedIsStable
<1>1. IInv => FeedIsStable
  BY DEF IInv
<1> QED
  BY <1>1, Invariance, PTL
-----------------------------------------------------------------------------
(* The buffer, as long as every stop of the DAB thread falls between two   *)
(* frames.                                                                 *)

\* The slot a position names: both counters have wrapped at most once.
Wrap(x) == IF x < nrBlocks THEN x ELSE x - nrBlocks

\* Only the number of the block and the number of waiting blocks connect the
\* producer to the consumer. A block in the hands of the MSC thread is still
\* the block of its slot, and so is the block just copied in.
Aligned ==
  /\ ~torn
  /\ blkno = Wrap(ReadPos + Pending)
  /\ dab = "signal" => command[blkno] = frame
  /\ msc \in {"fft", "cif", "feed", "reference"} =>
       fftBuffer = [blk |-> currentBlock, frame |-> command[currentBlock]]

\* The successor of a slot.
LEMMA NextSlot ==
  ASSUME NEW b \in BlockNo
  PROVE  (b + 1) % nrBlocks = Wrap(b + 1) /\ Wrap(b + 1) \in BlockNo
<1>1. b + 1 \in 0 .. 2 * nrBlocks - 1
  BY FrameSize DEF BlockNo
<1>2. (b + 1) % nrBlocks = Wrap(b + 1)
  BY <1>1, ModOnce, FrameSize DEF Wrap
<1> QED
  BY <1>2, FrameSize DEF Wrap, BlockNo

\* Types of the derived positions.
LEMMA Positions ==
  ASSUME IInv
  PROVE  /\ Pending \in 0 .. nrBlocks
         /\ ReadPos \in BlockNo
         /\ dab \in {"copy", "signal"} => Pending < nrBlocks
         /\ msc \in {"fft", "cif", "feed", "reference"} => Pending > 0
<1> USE FrameSize DEF IInv, MscTypeOK, SlotAccounting, Busy, Pending, ReadPos
<1>1. Pending \in 0 .. nrBlocks
  OBVIOUS
<1>2. ReadPos \in BlockNo
  BY NextSlot
<1>3. dab \in {"copy", "signal"} => Pending < nrBlocks
  OBVIOUS
<1>4. msc \in {"fft", "cif", "feed", "reference"} => Pending > 0
  OBVIOUS
<1> QED
  BY <1>1, <1>2, <1>3, <1>4

\* The slot of a waiting block, without the remainder.
LEMMA SlotIsWrap ==
  ASSUME IInv, NEW k \in 0 .. nrBlocks - 1
  PROVE  Slot(k) = Wrap(ReadPos + k) /\ Slot(k) \in BlockNo
<1>1. ReadPos \in BlockNo
  BY Positions
<1>2. ReadPos + k \in 0 .. 2 * nrBlocks - 1
  BY <1>1, FrameSize DEF BlockNo
<1>3. (ReadPos + k) % nrBlocks = Wrap(ReadPos + k)
  BY <1>2, ModOnce, FrameSize DEF Wrap
<1> QED
  BY <1>1, <1>3, FrameSize DEF Slot, Wrap, BlockNo

\* The slot the DAB thread has a permit for is not the slot of a waiting block.
LEMMA FreeSlot ==
  ASSUME IInv, Aligned, dab \in {"copy", "signal"}, NEW k \in 0 .. Pending - 1
  PROVE  Slot(k) # blkno
<1>1. Pending \in 0 .. nrBlocks - 1 /\ ReadPos \in BlockNo
  BY Positions, FrameSize
<1>2. Slot(k) = Wrap(ReadPos + k)
  BY <1>1, SlotIsWrap, FrameSize
<1> QED
  BY <1>1, <1>2, FrameSize DEF Aligned, Wrap, BlockNo

\* In particular it is not the slot of a block the MSC thread reads or handles.
LEMMA NotTheReadSlot ==
  ASSUME IInv, Aligned, dab \in {"copy", "signal"}, msc # "next", amount > 0
  PROVE  blkno # currentBlock
<1>1. Pending \in 0 .. nrBlocks /\ Pending > 0 /\ ReadPos = currentBlock
  BY Positions DEF Pending, ReadPos
<1>2. Slot(0) = currentBlock
  BY <1>1, SlotIsWrap, Positions, FrameSize DEF Wrap, BlockNo
<1> QED
  BY <1>1, <1>2, FreeSlot

\* Initially.
LEMMA AlignedInit == MscInit => Aligned
BY FrameSize, MscAssumption DEF MscAssumption, MscInit, Aligned, Wrap, ReadPos, Pending

\* Every step that leaves torn false keeps the alignment.
LEMMA AlignedStep == IInv /\ IInv' /\ Aligned /\ [MscNext /\ ~torn']_allVars => Aligned'
<1> SUFFICES ASSUME IInv, IInv', Aligned, [MscNext /\ ~torn']_allVars PROVE Aligned'
  OBVIOUS
<1>1. /\ blkno \in BlockNo /\ currentBlock \in BlockNo /\ amount \in Nat
      /\ command \in [BlockNo -> Frame] /\ frame \in Frame
      /\ bufferSpace \in Nat /\ SlotAccounting
  BY DEF IInv, MscTypeOK
<1>2. Pending \in 0 .. nrBlocks /\ ReadPos \in BlockNo
  BY Positions
<1>3. ~torn'
  BY DEF Aligned, allVars, dabVars
<1> USE <1>1, <1>3, FrameSize DEF Aligned, guiVars, dabVars, mscVars, ReadPos, Pending
<1>4. CASE Begin
  BY <1>4 DEF Begin
<1>5. CASE SamplesArrive
  BY <1>5 DEF SamplesArrive
<1>6. CASE Acquire
  BY <1>6 DEF Acquire
<1>7. CASE CopyIn
  <2>1. command' = [command EXCEPT ![blkno] = frame]
    BY <1>7 DEF CopyIn
  <2>2. msc \in {"fft", "cif", "feed", "reference"} => blkno # currentBlock
    BY <1>7, NotTheReadSlot DEF CopyIn, IInv, Busy
  <2> QED
    BY <1>7, <2>1, <2>2 DEF CopyIn
<1>8. CASE Signal
  <2>1. Pending < nrBlocks /\ dab = "signal"
    BY <1>8, Positions DEF Signal
  <2>2. blkno' = Wrap(blkno + 1)
    BY <1>8, NextSlot DEF Signal
  <2>3. ReadPos' = ReadPos /\ Pending' = Pending + 1
    BY <1>8 DEF Signal
  <2>4. Wrap(Wrap(ReadPos + Pending) + 1) = Wrap(ReadPos + (Pending + 1))
    BY <1>2, <2>1 DEF Wrap, BlockNo
  <2>5. blkno' = Wrap(ReadPos' + Pending')
    BY <2>2, <2>3, <2>4
  <2> QED
    BY <1>8, <2>5 DEF Signal
<1>9. CASE Throw
  BY <1>9 DEF Throw
<1>10. CASE Wait
  BY <1>10 DEF Wait
<1>11. CASE Timeout
  BY <1>11 DEF Timeout
<1>12. CASE NoMore
  BY <1>12 DEF NoMore
<1>13. CASE ReadBlock
  <2>1. ~(dab = "copy" /\ blkno = currentBlock)
    BY <1>13, NotTheReadSlot DEF ReadBlock
  <2>2. fftBuffer' = [blk |-> currentBlock, frame |-> command[currentBlock]]
    BY <1>13, <2>1 DEF ReadBlock, SlotContents
  <2> QED
    BY <1>13, <2>2 DEF ReadBlock
<1>14. CASE SkipBlock
  BY <1>14 DEF SkipBlock
<1>15. CASE AddToCif
  BY <1>15 DEF AddToCif
<1>16. CASE StartFeed
  BY <1>16 DEF StartFeed
<1>17. CASE FeedBackend
  BY <1>17 DEF FeedBackend
<1>18. CASE EndFeed
  BY <1>18 DEF EndFeed
<1>19. CASE Release
  <2>1. Pending > 0 /\ msc = "reference" /\ msc' = "next"
    BY <1>19, Positions DEF Release
  <2>2. ReadPos = currentBlock /\ ReadPos' = Wrap(currentBlock + 1)
    BY <1>19, NextSlot DEF Release
  <2>3. Pending' = Pending - 1
    BY <1>19 DEF Release
  <2>4. Wrap(Wrap(ReadPos + 1) + (Pending - 1)) = Wrap(ReadPos + Pending)
    BY <1>2, <2>1 DEF Wrap, BlockNo
  <2>5. blkno' = Wrap(ReadPos' + Pending')
    BY <1>19, <2>2, <2>3, <2>4 DEF Release
  <2> QED
    BY <1>19, <2>5 DEF Release
<1>20. CASE Advance
  BY <1>20 DEF Advance
<1>21. CASE StopServiceTurn
  BY <1>21 DEF StopServiceTurn
<1>22. CASE EndStopService
  BY <1>22 DEF EndStopService
<1>23. CASE RequestStop
  BY <1>23 DEF RequestStop
<1>24. CASE StopReturns
  BY <1>24 DEF StopReturns
<1>25. CASE Start
  BY <1>25 DEF Start
<1>26. ASSUME NEW s \in Service, NEW c \in SubCh, set_Channel(s, c) PROVE Aligned'
  BY <1>26 DEF set_Channel
<1>27. ASSUME NEW c \in SubCh, StartStopService(c) PROVE Aligned'
  BY <1>27 DEF StartStopService
<1>28. CASE UNCHANGED allVars
  BY <1>28 DEF allVars
<1> QED
  BY <1>4, <1>5, <1>6, <1>7, <1>8, <1>9, <1>10, <1>11, <1>12, <1>13, <1>14,
     <1>15, <1>16, <1>17, <1>18, <1>19, <1>20, <1>21, <1>22, <1>23, <1>24,
     <1>25, <1>26, <1>27, <1>28
     DEF MscNext, DabThread, MscThread, ServiceCalls

\* Both invariants hold in every behaviour without a stop inside a frame.
LEMMA UntornInvariance == UntornSpec => [](IInv /\ Aligned)
<1>1. [MscNext /\ ~torn']_allVars => [MscNext]_allVars
  OBVIOUS
<1> QED
  BY <1>1, IInvInit, IInvStep, AlignedInit, AlignedStep, PTL DEF UntornSpec

\* The DAB thread never writes into a slot whose block the MSC thread still has
\* to read or to finish.
THEOREM NoBlockOverwritten == UntornSpec => []NoOverwrite
<1>1. IInv /\ Aligned => NoOverwrite
  BY FreeSlot DEF NoOverwrite
<1> QED
  BY <1>1, UntornInvariance, PTL
-----------------------------------------------------------------------------
(* The buffer implements a first-in first-out queue.                       *)

\* The waiting blocks are a sequence of blocks.
LEMMA WaitingType ==
  ASSUME IInv
  PROVE  WaitingBlocks \in Seq(Block) /\ Len(WaitingBlocks) = Pending
<1>1. Pending \in 0 .. nrBlocks
  BY Positions
<1>2. \A k \in 1 .. Pending :
        [blk |-> Slot(k - 1), frame |-> command[Slot(k - 1)]] \in Block
  <2> SUFFICES ASSUME NEW k \in 1 .. Pending
               PROVE  [blk |-> Slot(k - 1), frame |-> command[Slot(k - 1)]] \in Block
    OBVIOUS
  <2>1. Slot(k - 1) \in BlockNo
    BY <1>1, SlotIsWrap, FrameSize
  <2>2. command[Slot(k - 1)] \in Frame
    BY <2>1 DEF IInv, MscTypeOK
  <2> QED
    BY <2>1, <2>2 DEF Block
<1> QED
  BY <1>1, <1>2 DEF WaitingBlocks

\* When a block is released, those behind it move up by one.
LEMMA SlotsMove ==
  ASSUME IInv, Release
  PROVE  \A k \in 0 .. Pending' - 1 : Slot(k)' = Slot(k + 1)
<1> SUFFICES ASSUME NEW k \in 0 .. Pending' - 1 PROVE Slot(k)' = Slot(k + 1)
  OBVIOUS
<1>1. /\ currentBlock \in BlockNo /\ amount \in Nat
      /\ Pending \in 0 .. nrBlocks /\ ReadPos \in BlockNo
  BY Positions DEF IInv, MscTypeOK
<1>2. /\ Pending > 0 /\ Pending' = Pending - 1 /\ ReadPos = currentBlock
      /\ ReadPos' = Wrap(currentBlock + 1)
  BY <1>1, Positions, NextSlot DEF Release, Pending, ReadPos
<1>3. Slot(k + 1) = Wrap(ReadPos + (k + 1))
  BY <1>1, <1>2, SlotIsWrap, FrameSize
<1>4. ReadPos' \in BlockNo /\ ReadPos' + k \in 0 .. 2 * nrBlocks - 1
  BY <1>1, <1>2, NextSlot, FrameSize DEF BlockNo
<1>5. (ReadPos' + k) % nrBlocks = Wrap(ReadPos' + k)
  BY <1>4, ModOnce, FrameSize DEF Wrap
<1> QED
  BY <1>1, <1>2, <1>3, <1>5, FrameSize DEF Slot, Wrap, BlockNo

\* The initial state is one of the queue.
LEMMA QueueInit == MscInit => Buffer!Init
BY DEF MscInit, Buffer!Init, WaitingBlocks, Pending

\* A step that moves neither end of the buffer does not change the queue.
LEMMA QueueStutter ==
  ASSUME UNCHANGED <<Pending, ReadPos, command, phaseReference>>
  PROVE  UNCHANGED <<WaitingBlocks, phaseReference>>
BY DEF WaitingBlocks, Slot

\* Every step is a step of the queue, or leaves it as it is.
LEMMA QueueStep ==
  IInv /\ IInv' /\ Aligned /\ Aligned' /\ [MscNext]_allVars => [Buffer!Next]_(Buffer!queueVars)
<1> SUFFICES ASSUME IInv, IInv', Aligned, Aligned', [MscNext]_allVars
             PROVE  Buffer!Next \/ UNCHANGED <<WaitingBlocks, phaseReference>>
  BY DEF Buffer!queueVars
<1>1. /\ blkno \in BlockNo /\ currentBlock \in BlockNo /\ amount \in Nat
      /\ command \in [BlockNo -> Frame] /\ frame \in Frame
  BY DEF IInv, MscTypeOK
<1>2. Pending \in 0 .. nrBlocks /\ ReadPos \in BlockNo
  BY Positions
<1> USE <1>1, FrameSize
<1>3. CASE Signal
  <2>1. Pending < nrBlocks /\ Pending' = Pending + 1 /\ ReadPos' = ReadPos
        /\ UNCHANGED <<command, phaseReference>>
    BY <1>3, Positions DEF Signal, Pending, ReadPos
  <2>2. Slot(Pending) = blkno /\ command[blkno] = frame
    BY <1>2, <1>3, <2>1, SlotIsWrap DEF Signal, Aligned
  <2>3. WaitingBlocks' = Append(WaitingBlocks, [blk |-> blkno, frame |-> frame])
    BY <1>2, <2>1, <2>2, WaitingType DEF WaitingBlocks, Slot
  <2>4. [blk |-> blkno, frame |-> frame] \in Block /\ Len(WaitingBlocks) < nrBlocks
    BY <2>1, WaitingType DEF Block
  <2> QED
    BY <2>1, <2>3, <2>4 DEF Buffer!Next, Buffer!Put
<1>4. CASE Release
  <2>1. /\ Pending > 0 /\ Pending' = Pending - 1 /\ ReadPos = currentBlock
        /\ ReadPos' = Wrap(currentBlock + 1) /\ UNCHANGED command
        /\ phaseReference' = fftBuffer
        /\ fftBuffer = [blk |-> currentBlock, frame |-> command[currentBlock]]
    BY <1>4, Positions, NextSlot DEF Release, Pending, ReadPos, Aligned
  <2>2. Slot(0) = currentBlock
    BY <1>2, <2>1, SlotIsWrap DEF Wrap, BlockNo
  <2>3. WaitingBlocks # <<>> /\ Head(WaitingBlocks) = fftBuffer
    <3>1. WaitingBlocks \in Seq(Block) /\ Len(WaitingBlocks) > 0
      BY <1>2, <2>1, WaitingType
    <3>2. 1 \in 1 .. Pending /\ 1 - 1 = 0
      BY <1>2, <2>1
    <3>3. WaitingBlocks[1] = [blk |-> Slot(0), frame |-> command[Slot(0)]]
      BY <3>2 DEF WaitingBlocks
    <3> QED
      BY <2>1, <2>2, <3>1, <3>3
  <2>4. \A k \in 0 .. Pending - 2 : Slot(k)' = Slot(k + 1)
    BY <1>2, <1>4, <2>1, SlotsMove
  <2>5. WaitingBlocks' = Tail(WaitingBlocks)
    <3>1. WaitingBlocks \in Seq(Block) /\ Len(WaitingBlocks) = Pending
      BY WaitingType
    <3>2. Tail(WaitingBlocks) = [k \in 1 .. Pending - 1 |-> WaitingBlocks[k + 1]]
      <4>1. Len(Tail(WaitingBlocks)) = Pending - 1
        BY <1>2, <2>1, <3>1, HeadTailProperties
      <4>2. \A k \in 1 .. Pending - 1 : Tail(WaitingBlocks)[k] = WaitingBlocks[k + 1]
        BY <1>2, <2>1, <3>1, HeadTailProperties
      <4>3. Tail(WaitingBlocks) \in [1 .. Pending - 1 -> Block]
        <5>1. Tail(WaitingBlocks) \in Seq(Block)
          BY <2>3, <3>1, HeadTailProperties
        <5>2. Tail(WaitingBlocks) \in [1 .. Len(Tail(WaitingBlocks)) -> Block]
          BY <5>1, LenProperties, Zenon
        <5> QED
          BY <4>1, <5>2, Zenon
      <4> QED
        BY <4>2, <4>3
    <3>3. \A k \in 1 .. Pending - 1 :
            /\ WaitingBlocks[k + 1] = [blk |-> Slot(k), frame |-> command[Slot(k)]]
            /\ Slot(k - 1)' = Slot(k)
      BY <1>2, <2>4 DEF WaitingBlocks
    <3>4. WaitingBlocks' =
            [k \in 1 .. Pending - 1 |-> [blk |-> Slot(k - 1)', frame |-> command[Slot(k - 1)']]]
      BY <2>1 DEF WaitingBlocks
    <3> QED
      BY <3>2, <3>3, <3>4
  <2> QED
    BY <2>1, <2>3, <2>5 DEF Buffer!Next, Buffer!Handle
<1>5. CASE CopyIn
  <2>1. /\ command' = [command EXCEPT ![blkno] = frame] /\ dab = "copy"
        /\ UNCHANGED <<Pending, ReadPos, phaseReference>>
    BY <1>5 DEF CopyIn, Pending, ReadPos, mscVars
  <2>2. \A k \in 0 .. Pending - 1 : Slot(k)' = Slot(k) /\ command'[Slot(k)] = command[Slot(k)]
    BY <1>2, <2>1, FreeSlot, SlotIsWrap DEF Slot
  <2>3. WaitingBlocks' =
          [k \in 1 .. Pending |-> [blk |-> Slot(k - 1)', frame |-> command'[Slot(k - 1)']]]
    BY <2>1 DEF WaitingBlocks
  <2> QED
    BY <1>2, <2>1, <2>2, <2>3 DEF WaitingBlocks
<1>6. CASE Advance
  BY <1>6, QueueStutter DEF Advance, Pending, ReadPos
<1>7. ASSUME MscNext, ~Signal, ~Release, ~CopyIn, ~Advance
      PROVE  UNCHANGED <<Pending, ReadPos, command, phaseReference>>
  BY <1>7 DEF MscNext, DabThread, MscThread, ServiceCalls, Pending, ReadPos, guiVars, dabVars,
     mscVars, Begin, SamplesArrive, Acquire, Throw, Wait, Timeout, NoMore, ReadBlock,
     SkipBlock, AddToCif, StartFeed, FeedBackend, EndFeed, StopServiceTurn, EndStopService,
     RequestStop, StopReturns, Start, set_Channel, StartStopService
<1>8. CASE UNCHANGED allVars
  BY <1>8, QueueStutter DEF allVars, dabVars, mscVars, Pending, ReadPos
<1> QED
  BY <1>3, <1>4, <1>5, <1>6, <1>7, <1>8, QueueStutter

\* Between the DAB thread and the MSC thread the buffer of mscHandler is a
\* bounded first-in first-out queue: the blocks of a session are handled one by
\* one, in the order they were put, each exactly once.
THEOREM BufferImplementsQueue == UntornSpec => BufferIsQueue
<1>1. [MscNext /\ ~torn']_allVars => [MscNext]_allVars
  OBVIOUS
<1>2. UntornSpec => [][MscNext]_allVars
  BY <1>1, PTL DEF UntornSpec
<1> QED
  BY <1>2, UntornInvariance, QueueInit, QueueStep, PTL
     DEF UntornSpec, BufferIsQueue, Buffer!Spec
-----------------------------------------------------------------------------
(* A CIF is whole.                                                         *)

\* Neighbours in the buffer belong to one frame, unless the second begins a
\* frame; so do the last block put and the frame on the air, and the block
\* handled last and the next one.
InFrame ==
  /\ \A k \in 1 .. Pending - 1 : Slot(k) # 0 => command[Slot(k)] = command[Slot(k) - 1]
  /\ Pending > 0 /\ blkno # 0 => command[blkno - 1] = frame
  /\ ReadPos # 0 =>
       phaseReference = [blk   |-> ReadPos - 1,
                         frame |-> IF Pending = 0 THEN frame ELSE command[ReadPos]]

\* How many blocks of the CIF under construction stand in cifVector.
Filled == IF msc \in {"cif", "feed", "reference", "next"} THEN CifIndex + 1 ELSE CifIndex

\* They follow each other up to the current block, in one frame.
CifSoFar ==
  /\ msc \in {"cif", "feed"} => currentBlock >= FirstMsc /\ CifIndex = BlocksPerCif - 1
  /\ currentBlock >= FirstMsc =>
       \A j \in 0 .. Filled - 1 :
         cifVector[j] = [blk   |-> currentBlock - CifIndex + j,
                         frame |-> phaseReference.frame]

\* Initially.
LEMMA InFrameInit == MscInit => InFrame /\ CifSoFar
BY FrameSize, MscAssumption DEF MscAssumption, MscInit, InFrame, CifSoFar, ReadPos, Pending

\* The slot before that of a waiting block is the slot of the block before it.
LEMMA SlotBefore ==
  ASSUME IInv, NEW k \in 1 .. nrBlocks - 1, Slot(k) # 0
  PROVE  Slot(k) - 1 = Slot(k - 1)
<1>1. /\ Slot(k) = Wrap(ReadPos + k) /\ Slot(k - 1) = Wrap(ReadPos + (k - 1))
      /\ ReadPos \in BlockNo
  BY SlotIsWrap, Positions, FrameSize
<1> QED
  BY <1>1, FrameSize DEF Wrap, BlockNo

\* A step that moves neither end of the buffer does not disturb InFrame.
LEMMA InFrameStutter ==
  ASSUME InFrame, UNCHANGED <<Pending, ReadPos, command, phaseReference, blkno, frame>>
  PROVE  InFrame'
BY DEF InFrame, Slot

\* Every step that leaves torn false keeps InFrame.
LEMMA InFrameStep ==
  IInv /\ IInv' /\ Aligned /\ Aligned' /\ InFrame /\ [MscNext]_allVars => InFrame'
<1> SUFFICES ASSUME IInv, IInv', Aligned, Aligned', InFrame, [MscNext]_allVars PROVE InFrame'
  OBVIOUS
<1>1. /\ blkno \in BlockNo /\ currentBlock \in BlockNo /\ amount \in Nat
      /\ command \in [BlockNo -> Frame] /\ frame \in Frame
  BY DEF IInv, MscTypeOK
<1>2. Pending \in 0 .. nrBlocks /\ ReadPos \in BlockNo /\ blkno = Wrap(ReadPos + Pending)
  BY Positions DEF Aligned
<1> USE <1>1, <1>2, FrameSize
<1>3. CASE Signal
  <2>1. /\ Pending < nrBlocks /\ Pending' = Pending + 1 /\ ReadPos' = ReadPos
        /\ UNCHANGED <<command, phaseReference>>
        /\ command[blkno] = frame
    BY <1>3, Positions DEF Signal, Pending, ReadPos, Aligned
  <2>2. blkno' = Wrap(blkno + 1) /\ (blkno # nrBlocks - 1 => frame' = frame)
    BY <1>3, NextSlot DEF Signal
  <2>3. \A k \in 0 .. Pending' - 1 : Slot(k)' = Slot(k)
    BY <2>1 DEF Slot
  <2>4. Slot(Pending) = blkno
    BY <2>1, SlotIsWrap
  <2>5. ASSUME NEW k \in 1 .. Pending' - 1, Slot(k)' # 0
        PROVE  command'[Slot(k)'] = command'[Slot(k)' - 1]
    <3>1. CASE k = Pending
      BY <2>1, <2>3, <2>4, <2>5, <3>1 DEF InFrame
    <3>2. CASE k < Pending
      BY <2>1, <2>3, <2>5, <3>2 DEF InFrame
    <3> QED
      BY <2>1, <3>1, <3>2
  <2>6. Pending' > 0 /\ blkno' # 0 => command'[blkno' - 1] = frame'
    BY <2>1, <2>2 DEF Wrap, BlockNo
  <2>7. Pending = 0 => blkno = ReadPos
    BY DEF Wrap, BlockNo
  <2>8. ReadPos' # 0 =>
          phaseReference' = [blk   |-> ReadPos' - 1,
                             frame |-> IF Pending' = 0 THEN frame' ELSE command'[ReadPos']]
    BY <2>1, <2>7 DEF InFrame
  <2> QED
    BY <2>5, <2>6, <2>8 DEF InFrame
<1>4. CASE CopyIn
  <2>1. /\ command' = [command EXCEPT ![blkno] = frame] /\ dab = "copy"
        /\ UNCHANGED <<Pending, ReadPos, phaseReference, blkno, frame>>
    BY <1>4 DEF CopyIn, Pending, ReadPos, mscVars
  <2>2. \A k \in 0 .. Pending - 1 :
          Slot(k)' = Slot(k) /\ Slot(k) \in BlockNo /\ command'[Slot(k)] = command[Slot(k)]
    BY <2>1, FreeSlot, SlotIsWrap DEF Slot
  <2>3. ASSUME NEW k \in 1 .. Pending - 1, Slot(k) # 0
        PROVE  command'[Slot(k)] = command'[Slot(k) - 1]
    BY <2>2, <2>3, SlotBefore DEF InFrame
  <2>4. Pending > 0 => command'[ReadPos] = command[ReadPos]
    <3>1. Slot(0) = ReadPos
      BY SlotIsWrap DEF Wrap, BlockNo
    <3> QED
      BY <2>2, <3>1
  <2>5. blkno # 0 => command'[blkno - 1] = command[blkno - 1]
    BY <2>1 DEF BlockNo
  <2> QED
    BY <2>1, <2>2, <2>3, <2>4, <2>5 DEF InFrame
<1>5. CASE Release
  <2>1. /\ Pending > 0 /\ Pending' = Pending - 1 /\ ReadPos = currentBlock
        /\ ReadPos' = Wrap(currentBlock + 1) /\ UNCHANGED <<command, blkno, frame>>
        /\ phaseReference' = [blk |-> currentBlock, frame |-> command[currentBlock]]
    BY <1>5, Positions, NextSlot DEF Release, Pending, ReadPos, Aligned
  <2>2. \A k \in 0 .. Pending' - 1 : Slot(k)' = Slot(k + 1)
    BY <1>5, SlotsMove DEF Release
  <2>3. ASSUME NEW k \in 1 .. Pending' - 1, Slot(k)' # 0
        PROVE  command'[Slot(k)'] = command'[Slot(k)' - 1]
    BY <2>1, <2>2, <2>3 DEF InFrame
  <2>4. ReadPos' # 0 => ReadPos' = currentBlock + 1
    BY <2>1 DEF Wrap, BlockNo
  <2>5. ASSUME ReadPos' # 0, Pending' = 0 PROVE command[currentBlock] = frame
    <3>1. blkno = currentBlock + 1
      BY <2>1, <2>4, <2>5 DEF Wrap, BlockNo
    <3> QED
      BY <2>1, <3>1 DEF InFrame, BlockNo
  <2>6. ASSUME ReadPos' # 0, Pending' # 0
        PROVE  command[currentBlock] = command[currentBlock + 1]
    <3>1. Slot(1) = currentBlock + 1
      BY <2>1, <2>4, <2>6, SlotIsWrap DEF Wrap, BlockNo
    <3> QED
      BY <2>1, <2>6, <3>1 DEF InFrame, BlockNo
  <2>7. ReadPos' # 0 =>
          phaseReference' = [blk   |-> ReadPos' - 1,
                             frame |-> IF Pending' = 0 THEN frame' ELSE command'[ReadPos']]
    <3> SUFFICES ASSUME ReadPos' # 0
                 PROVE  phaseReference' =
                          [blk   |-> ReadPos' - 1,
                           frame |-> IF Pending' = 0 THEN frame' ELSE command'[ReadPos']]
      OBVIOUS
    <3>1. ReadPos' - 1 = currentBlock
      BY <2>4 DEF BlockNo
    <3>2. (IF Pending' = 0 THEN frame' ELSE command'[ReadPos']) = command[currentBlock]
      BY <2>1, <2>4, <2>5, <2>6
    <3> QED
      BY <2>1, <3>1, <3>2
  <2> QED
    BY <2>1, <2>3, <2>7 DEF InFrame
<1>6. CASE Start
  <2>1. /\ blkno = 0 /\ blkno' = 0
        /\ UNCHANGED <<Pending, ReadPos, command, phaseReference>>
    BY <1>6 DEF Start, Aligned, Pending, ReadPos, mscVars
  <2>2. Pending = 0 => ReadPos = 0
    BY <2>1 DEF Wrap, BlockNo
  <2> QED
    BY <2>1, <2>2 DEF InFrame, Slot
<1>7. CASE Advance
  BY <1>7, InFrameStutter DEF Advance, Pending, ReadPos, dabVars
<1>8. ASSUME MscNext, ~Signal, ~Release, ~CopyIn, ~Advance, ~Start
      PROVE  UNCHANGED <<Pending, ReadPos, command, phaseReference, blkno, frame>>
  BY <1>8 DEF MscNext, DabThread, MscThread, ServiceCalls, Pending, ReadPos, guiVars, dabVars,
     mscVars, Begin, SamplesArrive, Acquire, Throw, Wait, Timeout, NoMore, ReadBlock,
     SkipBlock, AddToCif, StartFeed, FeedBackend, EndFeed, StopServiceTurn, EndStopService,
     RequestStop, StopReturns, set_Channel, StartStopService
<1>9. CASE UNCHANGED allVars
  BY <1>9, InFrameStutter DEF allVars, dabVars, mscVars, Pending, ReadPos
<1> QED
  BY <1>3, <1>4, <1>5, <1>6, <1>7, <1>8, <1>9, InFrameStutter

\* Where a block stands in its CIF.
LEMMA IndexRange ==
  ASSUME currentBlock \in BlockNo
  PROVE  CifIndex \in 0 .. BlocksPerCif - 1
<1>1. currentBlock - FirstMsc \in Int /\ BlocksPerCif \in Nat \ {0}
  BY FrameSize, MscAssumption DEF MscAssumption, BlockNo
<1> QED
  BY <1>1, ModRange DEF CifIndex

\* The block after it is the next one of the CIF, or the first of the next CIF.
LEMMA NextIndex ==
  ASSUME currentBlock \in BlockNo, currentBlock' = currentBlock + 1
  PROVE  /\ currentBlock >= FirstMsc =>
              CifIndex' = IF CifIndex = BlocksPerCif - 1 THEN 0 ELSE CifIndex + 1
         /\ currentBlock' = FirstMsc => CifIndex' = 0
<1> USE FrameSize, MscAssumption DEF MscAssumption, BlockNo, CifIndex
<1>1. CASE currentBlock >= FirstMsc
  <2>1. currentBlock - FirstMsc \in Nat
    BY <1>1
  <2>2. currentBlock' - FirstMsc = (currentBlock - FirstMsc) + 1
    OBVIOUS
  <2>3. BlocksPerCif \in Nat \ {0}
    OBVIOUS
  <2>4. ((currentBlock - FirstMsc) + 1) % BlocksPerCif =
          IF (currentBlock - FirstMsc) % BlocksPerCif = BlocksPerCif - 1
          THEN 0 ELSE ((currentBlock - FirstMsc) % BlocksPerCif) + 1
    BY <2>1, <2>3, ModNext
  <2> QED
    BY <1>1, <2>2, <2>4
<1>2. CASE currentBlock' = FirstMsc
  <2>1. currentBlock' - FirstMsc = 0 * BlocksPerCif + 0
    BY <1>2
  <2>2. (0 * BlocksPerCif + 0) % BlocksPerCif = 0
    BY UniqueMod
  <2> QED
    BY <1>2, <2>1, <2>2
<1> QED
  BY <1>1, <1>2

\* A block in the hands of the MSC thread, and the reference it is demodulated
\* against.
LEMMA InHand ==
  ASSUME IInv, Aligned, InFrame, msc \in {"fft", "cif", "feed", "reference"}
  PROVE  /\ fftBuffer = [blk |-> currentBlock, frame |-> command[currentBlock]]
         /\ fftBuffer # Garbage
         /\ currentBlock # 0 =>
              /\ phaseReference = [blk |-> currentBlock - 1, frame |-> command[currentBlock]]
              /\ phaseReference # Garbage
<1>1. Pending > 0 /\ Pending \in Nat /\ ReadPos = currentBlock
  BY Positions DEF ReadPos
<1>2. \A b \in BlockNo, f \in Frame : [blk |-> b, frame |-> f] # Garbage
  BY GarbageAssumption DEF GarbageAssumption, BlockNo, Frame
<1>3. currentBlock \in BlockNo /\ command[currentBlock] \in Frame
  BY DEF IInv, MscTypeOK
<1>4. fftBuffer = [blk |-> currentBlock, frame |-> command[currentBlock]]
  BY DEF Aligned
<1>5. currentBlock # 0 =>
        phaseReference = [blk |-> currentBlock - 1, frame |-> command[currentBlock]]
  BY <1>1 DEF InFrame
<1>6. currentBlock # 0 => currentBlock - 1 \in BlockNo
  BY <1>3, FrameSize DEF BlockNo
<1> QED
  BY <1>2, <1>3, <1>4, <1>5, <1>6

\* Every step that leaves torn false adds the right block.
LEMMA CifStep ==
  IInv /\ IInv' /\ Aligned /\ InFrame /\ CifSoFar /\ [MscNext]_allVars => CifSoFar'
<1> SUFFICES ASSUME IInv, IInv', Aligned, InFrame, CifSoFar, [MscNext]_allVars PROVE CifSoFar'
  OBVIOUS
<1>1. /\ currentBlock \in BlockNo /\ CifIndex \in 0 .. BlocksPerCif - 1
      /\ cifVector \in [0 .. BlocksPerCif - 1 -> Bits]
      /\ BlocksPerCif \in Nat \ {0} /\ FirstMsc \in Nat \ {0}
  BY IndexRange, MscAssumption DEF IInv, MscTypeOK, MscAssumption
<1> USE <1>1
<1>2. CASE AddToCif
  <2>1. /\ msc = "fft" /\ msc' \in {"reference", "cif"} /\ currentBlock >= FirstMsc
        /\ UNCHANGED <<currentBlock, phaseReference, CifIndex>>
        /\ msc' = "cif" => CifIndex = BlocksPerCif - 1
        /\ cifVector' = [cifVector EXCEPT ![CifIndex] = Demodulated]
    BY <1>2 DEF AddToCif, CifIndex
  <2>2. Filled = CifIndex /\ Filled' = CifIndex + 1
    BY <2>1 DEF Filled
  <2>3. /\ fftBuffer = [blk |-> currentBlock, frame |-> command[currentBlock]]
        /\ phaseReference = [blk |-> currentBlock - 1, frame |-> command[currentBlock]]
        /\ fftBuffer # Garbage /\ phaseReference # Garbage
    BY <2>1, InHand, FrameSize DEF BlockNo
  <2>4. Demodulated = [blk |-> currentBlock, frame |-> phaseReference.frame]
    BY <2>3, FrameSize DEF Demodulated, BlockNo
  <2>5. ASSUME NEW j \in 0 .. Filled' - 1
        PROVE  cifVector'[j] = [blk   |-> currentBlock - CifIndex + j,
                                frame |-> phaseReference.frame]
    <3>1. CASE j = CifIndex
      <4>1. currentBlock - CifIndex + j = currentBlock
        BY <3>1, FrameSize DEF BlockNo
      <4> QED
        BY <2>1, <2>4, <3>1, <4>1
    <3>2. CASE j < CifIndex
      BY <2>1, <2>2, <3>2 DEF CifSoFar
    <3> QED
      BY <2>2, <3>1, <3>2
  <2> QED
    BY <2>1, <2>5 DEF CifSoFar
<1>3. CASE Release
  <2>1. /\ msc = "reference" /\ msc' = "next" /\ phaseReference' = fftBuffer
        /\ UNCHANGED <<currentBlock, cifVector, CifIndex>>
    BY <1>3 DEF Release, CifIndex
  <2>2. Filled' = Filled
    BY <2>1 DEF Filled
  <2>3. currentBlock >= FirstMsc => phaseReference'.frame = phaseReference.frame
    BY <2>1, InHand, FrameSize DEF BlockNo
  <2> QED
    BY <2>1, <2>2, <2>3 DEF CifSoFar
<1>4. CASE Advance
  <2>1. /\ msc = "next" /\ msc' = "test" /\ UNCHANGED <<cifVector, phaseReference>>
        /\ currentBlock' = Wrap(currentBlock + 1)
    BY <1>4, NextSlot DEF Advance
  <2>2. CASE currentBlock' = currentBlock + 1 /\ currentBlock >= FirstMsc
    <3>1. CifIndex' = IF CifIndex = BlocksPerCif - 1 THEN 0 ELSE CifIndex + 1
      BY <2>2, NextIndex
    <3>2. Filled = CifIndex + 1 /\ Filled' = CifIndex'
      BY <2>1 DEF Filled
    <3>3. \A j \in 0 .. Filled' - 1 :
            cifVector'[j] = [blk   |-> currentBlock' - CifIndex' + j,
                             frame |-> phaseReference'.frame]
      <4>1. CASE CifIndex' = 0
        BY <3>2, <4>1
      <4>2. CASE CifIndex' = CifIndex + 1
        <5>1. ASSUME NEW j \in 0 .. Filled' - 1
              PROVE  /\ j \in 0 .. Filled - 1
                     /\ currentBlock' - CifIndex' + j = currentBlock - CifIndex + j
          BY <2>2, <3>2, <4>2, FrameSize DEF BlockNo
        <5> QED
          BY <2>1, <2>2, <5>1 DEF CifSoFar
      <4> QED
        BY <3>1, <4>1, <4>2
    <3> QED
      BY <2>1, <3>3 DEF CifSoFar
  <2>3. CASE currentBlock' = FirstMsc /\ currentBlock' = currentBlock + 1
    <3>1. Filled' = 0
      BY <2>1, <2>3, NextIndex DEF Filled
    <3> QED
      BY <2>1, <3>1 DEF CifSoFar
  <2>4. CASE ~(currentBlock' >= FirstMsc)
    BY <2>1, <2>4 DEF CifSoFar
  <2> QED
    BY <2>1, <2>2, <2>3, <2>4, FrameSize DEF Wrap, BlockNo
<1>5. CASE SkipBlock
  <2>1. currentBlock' = currentBlock /\ ~(currentBlock >= FirstMsc) /\ msc' = "reference"
    BY <1>5, FrameSize DEF SkipBlock, BlockNo
  <2> QED
    BY <2>1 DEF CifSoFar
<1>6. CASE StartFeed
  BY <1>6 DEF StartFeed, CifSoFar, Filled, CifIndex
<1>7. CASE EndFeed
  BY <1>7 DEF EndFeed, CifSoFar, Filled, CifIndex, dabVars
<1>8. CASE ReadBlock
  BY <1>8 DEF ReadBlock, CifSoFar, Filled, CifIndex
<1>9. ASSUME UNCHANGED <<currentBlock, cifVector, phaseReference>>,
             \/ UNCHANGED msc
             \/ {msc, msc'} \subseteq {"idle", "waiting", "test"}
      PROVE  CifSoFar'
  BY <1>9 DEF CifSoFar, Filled, CifIndex
<1>10. ASSUME MscNext, ~AddToCif, ~Release, ~Advance, ~SkipBlock, ~StartFeed, ~EndFeed, ~ReadBlock
       PROVE  /\ UNCHANGED <<currentBlock, cifVector, phaseReference>>
              /\ \/ UNCHANGED msc
                 \/ {msc, msc'} \subseteq {"idle", "waiting", "test"}
  BY <1>10 DEF MscNext, DabThread, MscThread, ServiceCalls, guiVars, dabVars,
     mscVars, Begin, SamplesArrive, Acquire, CopyIn, Signal, Throw, Wait, Timeout, NoMore,
     FeedBackend, StopServiceTurn, EndStopService,
     RequestStop, StopReturns, Start, set_Channel, StartStopService
<1>11. CASE UNCHANGED allVars
  BY <1>9, <1>11 DEF allVars, mscVars
<1> QED
  BY <1>2, <1>3, <1>4, <1>5, <1>6, <1>7, <1>8, <1>9, <1>10, <1>11

\* What is fed is a CIF.
LEMMA FedWhole == IInv /\ Aligned /\ InFrame /\ CifSoFar => WholeCif
<1> SUFFICES ASSUME IInv, Aligned, InFrame, CifSoFar, msc = "feed",
                    NEW k \in 0 .. BlocksPerCif - 1
             PROVE  cifVector[k] = [blk   |-> currentBlock - (BlocksPerCif - 1) + k,
                                    frame |-> fftBuffer.frame]
  BY DEF WholeCif
<1>1. currentBlock >= FirstMsc /\ CifIndex = BlocksPerCif - 1 /\ Filled = BlocksPerCif
      /\ currentBlock \in BlockNo
  BY MscAssumption DEF CifSoFar, Filled, MscAssumption, IInv, MscTypeOK
<1>2. fftBuffer.frame = phaseReference.frame
  BY <1>1, InHand, FrameSize, MscAssumption DEF BlockNo, MscAssumption
<1> QED
  BY <1>1, <1>2 DEF CifSoFar

\* Every CIF the backends get is whole: its blocks follow each other in one
\* frame, and each was demodulated against its predecessor (process_mscBlock).
THEOREM CifsAreWhole == UntornSpec => []WholeCif
<1> DEFINE Inv == IInv /\ Aligned /\ InFrame /\ CifSoFar
<1>1. MscInit => Inv
  BY IInvInit, AlignedInit, InFrameInit
<1>2. Inv /\ [MscNext /\ ~torn']_allVars => Inv'
  <2>1. [MscNext /\ ~torn']_allVars => [MscNext]_allVars
    OBVIOUS
  <2> QED
    BY <2>1, IInvStep, AlignedStep, InFrameStep, CifStep
<1>3. Inv => WholeCif
  BY FedWhole
<1> QED
  BY <1>1, <1>2, <1>3, PTL DEF UntornSpec
-----------------------------------------------------------------------------
(* The CIFs are fed without a gap.                                         *)

\* The waiting blocks of an earlier session end with a frame; from then on one
\* frame in the buffer is followed by the next frame on the air.
Continues ==
  /\ stale <= Pending
  /\ stale > 0 => Wrap(ReadPos + stale) = 0
  /\ \A k \in 1 .. Pending - 1 :
       k > stale /\ Slot(k) = 0 => command[0] = NextFrame(command[nrBlocks - 1])
  /\ Pending > stale /\ blkno = 0 => frame = NextFrame(command[nrBlocks - 1])

\* The frame whose first block is the next one to be handled.
NextToHandle == IF Pending = 0 THEN frame ELSE command[0]

\* The CIF under construction, or just constructed.
CifInHand == [blk |-> currentBlock - CifIndex, frame |-> phaseReference.frame]

\* It has been fed to backend i.
IsFed(i) ==
  /\ CifIndex = BlocksPerCif - 1
  /\ msc \in {"feed", "reference", "next"}
  /\ msc = "feed" => i < iter.i

\* The CIF to be fed next to backend i.
Due(i) ==
  IF currentBlock < FirstMsc
  THEN [blk   |-> FirstMsc,
        frame |-> IF ReadPos = 0 THEN NextFrame(phaseReference.frame)
                  ELSE phaseReference.frame]
  ELSE IF IsFed(i) THEN NextCif(CifInHand) ELSE CifInHand

\* It follows the one fed last.
Gapless(i) ==
  theBackends[i].last # Garbage =>
    /\ stale = 0
    /\ ReadPos = 0 => NextToHandle = NextFrame(phaseReference.frame)
    /\ NextCif(theBackends[i].last) = Due(i)

AllGapless == \A i \in 1 .. Len(theBackends) : Gapless(i)

\* Initially.
LEMMA ContinuesInit == MscInit => Continues /\ AllGapless
<1> SUFFICES ASSUME MscInit PROVE Continues /\ AllGapless
  OBVIOUS
<1>1. Len(theBackends) = 0 /\ stale = 0 /\ Pending = 0
  BY DEF MscInit, Pending
<1> QED
  BY <1>1 DEF Continues, AllGapless

\* A step that moves neither end of the buffer does not disturb Continues.
LEMMA ContinuesStutter ==
  ASSUME Continues, UNCHANGED <<Pending, ReadPos, command, stale, blkno, frame>>
  PROVE  Continues'
BY DEF Continues, Slot, Wrap

\* Every step that leaves torn false keeps Continues.
LEMMA ContinuesStep ==
  IInv /\ IInv' /\ Aligned /\ Aligned' /\ Continues /\ [MscNext]_allVars => Continues'
<1> SUFFICES ASSUME IInv, IInv', Aligned, Aligned', Continues, [MscNext]_allVars
             PROVE  Continues'
  OBVIOUS
<1>1. /\ blkno \in BlockNo /\ currentBlock \in BlockNo /\ amount \in Nat
      /\ command \in [BlockNo -> Frame] /\ frame \in Frame /\ stale \in Nat
  BY DEF IInv, MscTypeOK
<1>2. Pending \in 0 .. nrBlocks /\ ReadPos \in BlockNo /\ blkno = Wrap(ReadPos + Pending)
  BY Positions DEF Aligned
<1> USE <1>1, <1>2, FrameSize
<1>3. CASE Signal
  <2>1. /\ Pending < nrBlocks /\ Pending' = Pending + 1 /\ ReadPos' = ReadPos
        /\ UNCHANGED <<command, stale>>
        /\ command[blkno] = frame
    BY <1>3, Positions DEF Signal, Pending, ReadPos, Aligned
  <2>2. /\ blkno' = Wrap(blkno + 1)
        /\ blkno = nrBlocks - 1 => frame' = NextFrame(frame)
    BY <1>3, NextSlot DEF Signal
  <2>3. \A k \in 0 .. Pending' - 1 : Slot(k)' = Slot(k)
    BY <2>1 DEF Slot
  <2>4. Slot(Pending) = blkno
    BY <2>1, SlotIsWrap
  <2>5. ASSUME NEW k \in 1 .. Pending' - 1, k > stale', Slot(k)' = 0
        PROVE  command'[0] = NextFrame(command'[nrBlocks - 1])
    <3>1. CASE k = Pending
      BY <2>1, <2>3, <2>4, <2>5, <3>1 DEF Continues
    <3>2. CASE k < Pending
      BY <2>1, <2>3, <2>5, <3>2 DEF Continues
    <3> QED
      BY <2>1, <3>1, <3>2
  <2>6. blkno' = 0 => frame' = NextFrame(command'[nrBlocks - 1])
    BY <2>1, <2>2 DEF Wrap, BlockNo
  <2>7. stale' <= Pending' /\ (stale' > 0 => Wrap(ReadPos + stale)' = 0)
    BY <2>1 DEF Continues, Wrap
  <2> QED
    BY <2>5, <2>6, <2>7 DEF Continues
<1>4. CASE CopyIn
  <2>1. /\ command' = [command EXCEPT ![blkno] = frame] /\ dab = "copy"
        /\ UNCHANGED <<Pending, ReadPos, stale, blkno, frame>>
    BY <1>4 DEF CopyIn, Pending, ReadPos, mscVars
  <2>2. \A k \in 0 .. Pending - 1 :
          Slot(k)' = Slot(k) /\ Slot(k) \in BlockNo /\ command'[Slot(k)] = command[Slot(k)]
    BY <2>1, FreeSlot, SlotIsWrap DEF Slot
  <2>3. ASSUME NEW k \in 1 .. Pending - 1, k > stale, Slot(k) = 0
        PROVE  command'[0] = NextFrame(command'[nrBlocks - 1])
    <3>1. Slot(k - 1) = nrBlocks - 1
      <4>1. Slot(k) = Wrap(ReadPos + k) /\ Slot(k - 1) = Wrap(ReadPos + (k - 1))
        BY SlotIsWrap
      <4> QED
        BY <2>3, <4>1 DEF Wrap, BlockNo
    <3>2. command'[nrBlocks - 1] = command[nrBlocks - 1] /\ command'[0] = command[0]
      BY <2>2, <2>3, <3>1
    <3> QED
      BY <2>3, <3>2 DEF Continues
  <2>4. blkno = 0 => command'[nrBlocks - 1] = command[nrBlocks - 1]
    BY <2>1, MscAssumption DEF BlockNo, MscAssumption
  <2>5. stale' <= Pending' /\ (stale' > 0 => Wrap(ReadPos + stale)' = 0)
    BY <2>1 DEF Continues, Wrap
  <2> QED
    BY <2>1, <2>2, <2>3, <2>4, <2>5 DEF Continues
<1>5. CASE Release
  <2>1. /\ Pending > 0 /\ Pending' = Pending - 1 /\ ReadPos = currentBlock
        /\ ReadPos' = Wrap(currentBlock + 1) /\ UNCHANGED <<command, blkno, frame>>
        /\ stale' = IF stale > 0 THEN stale - 1 ELSE 0
    BY <1>5, Positions, NextSlot DEF Release, Pending, ReadPos
  <2>2. \A k \in 0 .. Pending' - 1 : Slot(k)' = Slot(k + 1)
    BY <1>5, SlotsMove DEF Release
  <2>3. ASSUME NEW k \in 1 .. Pending' - 1, k > stale', Slot(k)' = 0
        PROVE  command'[0] = NextFrame(command'[nrBlocks - 1])
    <3>1. k + 1 \in 1 .. Pending - 1 /\ k + 1 > stale /\ Slot(k + 1) = 0
      BY <2>1, <2>2, <2>3
    <3> QED
      BY <2>1, <3>1 DEF Continues
  <2>4. stale' <= Pending'
    BY <2>1 DEF Continues
  <2>5. stale' > 0 => Wrap(ReadPos' + stale') = 0
    BY <2>1 DEF Continues, Wrap, BlockNo
  <2>6. Pending' > stale' /\ blkno' = 0 => frame' = NextFrame(command'[nrBlocks - 1])
    BY <2>1 DEF Continues
  <2> QED
    BY <2>3, <2>4, <2>5, <2>6 DEF Continues, Wrap
<1>6. CASE Start
  <2>1. /\ blkno = 0 /\ blkno' = 0 /\ stale' = Pending
        /\ UNCHANGED <<Pending, ReadPos, command>>
    BY <1>6 DEF Start, Aligned, Pending, ReadPos, mscVars
  <2> QED
    BY <2>1 DEF Continues, Wrap
<1>7. CASE Advance
  BY <1>7, ContinuesStutter DEF Advance, Pending, ReadPos, dabVars
<1>8. ASSUME MscNext, ~Signal, ~Release, ~CopyIn, ~Advance, ~Start
      PROVE  UNCHANGED <<Pending, ReadPos, command, stale, blkno, frame>>
  BY <1>8 DEF MscNext, DabThread, MscThread, ServiceCalls, Pending, ReadPos, guiVars, dabVars,
     mscVars, Begin, SamplesArrive, Acquire, Throw, Wait, Timeout, NoMore, ReadBlock,
     SkipBlock, AddToCif, StartFeed, FeedBackend, EndFeed, StopServiceTurn, EndStopService,
     RequestStop, StopReturns, set_Channel, StartStopService
<1>9. CASE UNCHANGED allVars
  BY <1>9, ContinuesStutter DEF allVars, dabVars, mscVars, Pending, ReadPos
<1> QED
  BY <1>3, <1>4, <1>5, <1>6, <1>7, <1>8, <1>9, ContinuesStutter

\* The vector of the CIF under construction, when it is fed.
LEMMA CifFed ==
  ASSUME IInv, CifSoFar, msc = "feed"
  PROVE  /\ currentBlock \in BlockNo /\ currentBlock >= FirstMsc
         /\ CifIndex = BlocksPerCif - 1 /\ cifVector[0] = CifInHand
<1> USE MscAssumption DEF MscAssumption
<1>1. /\ currentBlock \in BlockNo /\ currentBlock >= FirstMsc
      /\ CifIndex = BlocksPerCif - 1 /\ Filled = BlocksPerCif
  BY DEF CifSoFar, Filled, IInv, MscTypeOK
<1>2. cifVector[0] = [blk |-> currentBlock - CifIndex + 0, frame |-> phaseReference.frame]
  BY <1>1 DEF CifSoFar
<1>3. currentBlock - CifIndex + 0 = currentBlock - CifIndex
  BY <1>1, FrameSize DEF BlockNo
<1> QED
  BY <1>1, <1>2, <1>3 DEF CifInHand

\* What Gapless of a backend at another place, or later, rests on.
LEMMA GaplessKept ==
  ASSUME NEW i, NEW j, Gapless(i), theBackends'[j].last = theBackends[i].last,
         stale = 0 => stale' = 0,
         (/\ ReadPos' = 0 /\ stale = 0
          /\ ReadPos = 0 => NextToHandle = NextFrame(phaseReference.frame))
           => NextToHandle' = NextFrame(phaseReference'.frame),
         stale = 0 /\ (ReadPos = 0 => NextToHandle = NextFrame(phaseReference.frame))
           => Due(j)' = Due(i)
  PROVE  Gapless(j)'
BY DEF Gapless, NextCif

\* The block the MSC thread turns to after the last block of a frame is the
\* first of the next frame.
LEMMA NextFirst ==
  ASSUME IInv, IInv', Aligned, Aligned', Continues, [MscNext]_allVars, ~Start,
         stale = 0, ReadPos' = 0,
         ReadPos = 0 => NextToHandle = NextFrame(phaseReference.frame)
  PROVE  NextToHandle' = NextFrame(phaseReference'.frame)
<1>1. /\ blkno \in BlockNo /\ currentBlock \in BlockNo /\ amount \in Nat
      /\ command \in [BlockNo -> Frame] /\ frame \in Frame
  BY DEF IInv, MscTypeOK
<1>2. Pending \in 0 .. nrBlocks /\ ReadPos \in BlockNo /\ blkno = Wrap(ReadPos + Pending)
  BY Positions DEF Aligned
<1> USE <1>1, <1>2, FrameSize
<1>3. CASE Signal
  <2>1. /\ Pending' = Pending + 1 /\ ReadPos' = ReadPos
        /\ UNCHANGED <<command, phaseReference>>
        /\ command[blkno] = frame
    BY <1>3 DEF Signal, Pending, ReadPos, Aligned
  <2>2. Pending = 0 => blkno = 0
    BY <2>1 DEF Wrap, BlockNo
  <2> QED
    BY <2>1, <2>2 DEF NextToHandle
<1>4. CASE CopyIn
  <2>1. /\ command' = [command EXCEPT ![blkno] = frame] /\ dab = "copy"
        /\ UNCHANGED <<Pending, ReadPos, phaseReference, frame>>
    BY <1>4 DEF CopyIn, Pending, ReadPos, mscVars
  <2>2. Pending > 0 => blkno # 0
    <3>1. Slot(0) = 0
      BY <2>1, SlotIsWrap DEF Wrap, BlockNo
    <3> QED
      BY <2>1, <3>1, FreeSlot
  <2> QED
    BY <2>1, <2>2 DEF NextToHandle, BlockNo
<1>5. CASE Release
  <2>1. /\ Pending > 0 /\ Pending' = Pending - 1 /\ ReadPos = currentBlock
        /\ ReadPos' = Wrap(currentBlock + 1) /\ UNCHANGED <<command, blkno, frame>>
        /\ phaseReference' = [blk |-> currentBlock, frame |-> command[currentBlock]]
    BY <1>5, Positions, NextSlot DEF Release, Pending, ReadPos, Aligned
  <2>2. currentBlock = nrBlocks - 1
    BY <2>1 DEF Wrap, BlockNo
  <2>3. CASE Pending' = 0
    <3>1. blkno = 0
      BY <2>1, <2>2, <2>3 DEF Wrap, BlockNo
    <3> QED
      BY <2>1, <2>2, <2>3, <3>1 DEF Continues, NextToHandle
  <2>4. CASE Pending' # 0
    <3>1. Slot(1) = 0
      BY <2>1, <2>2, SlotIsWrap, MscAssumption DEF Wrap, BlockNo, MscAssumption
    <3> QED
      BY <2>1, <2>2, <2>4, <3>1 DEF Continues, NextToHandle
  <2> QED
    BY <2>3, <2>4
<1>6. CASE Advance
  BY <1>6 DEF Advance, NextToHandle, Pending, ReadPos, dabVars
<1>7. ASSUME MscNext, ~Signal, ~Release, ~CopyIn, ~Advance
      PROVE  UNCHANGED <<Pending, ReadPos, command, phaseReference, frame>>
  BY <1>7 DEF MscNext, DabThread, MscThread, ServiceCalls, Pending, ReadPos, guiVars, dabVars,
     mscVars, Begin, SamplesArrive, Acquire, Throw, Wait, Timeout, NoMore, ReadBlock,
     SkipBlock, AddToCif, StartFeed, FeedBackend, EndFeed, StopServiceTurn, EndStopService,
     RequestStop, StopReturns, set_Channel, StartStopService
<1>8. CASE UNCHANGED allVars
  BY <1>8 DEF allVars, dabVars, mscVars, Pending, ReadPos, NextToHandle
<1>9. CASE UNCHANGED <<Pending, ReadPos, command, phaseReference, frame>>
  BY <1>9 DEF NextToHandle
<1> QED
  BY <1>3, <1>4, <1>5, <1>6, <1>7, <1>8, <1>9

\* A step that does not move the MSC thread on does not change what is due.
LEMMA DueStutter ==
  ASSUME UNCHANGED <<ReadPos, phaseReference, currentBlock>>, NEW i, NEW j,
         ~(currentBlock < FirstMsc) => (IsFed(j)' <=> IsFed(i))
  PROVE  Due(j)' = Due(i)
BY DEF Due, CifInHand, CifIndex, NextCif

\* The turn to the next block.
LEMMA DueAdvance ==
  ASSUME IInv, Advance, NEW i
  PROVE  Due(i)' = Due(i)
<1> USE FrameSize, MscAssumption DEF MscAssumption
<1>1. /\ currentBlock \in BlockNo /\ CifIndex \in 0 .. BlocksPerCif - 1
  BY IndexRange DEF IInv, MscTypeOK
<1>2. /\ msc = "next" /\ msc' = "test" /\ UNCHANGED phaseReference
      /\ currentBlock' = Wrap(currentBlock + 1)
      /\ ReadPos = currentBlock' /\ ReadPos' = currentBlock'
  BY <1>1, NextSlot DEF Advance, ReadPos
<1>3. ~IsFed(i)' /\ (IsFed(i) <=> CifIndex = BlocksPerCif - 1)
  BY <1>2 DEF IsFed
<1>4. CASE currentBlock = nrBlocks - 1
  <2>1. CifIndex = BlocksPerCif - 1
    <3>1. currentBlock - FirstMsc = CifsPerFrame * BlocksPerCif - 1
      BY <1>4 DEF nrBlocks
    <3>2. (CifsPerFrame * BlocksPerCif - 1) % BlocksPerCif = BlocksPerCif - 1
      BY FullMod
    <3> QED
      BY <3>1, <3>2 DEF CifIndex
  <2>2. currentBlock' = 0 /\ ReadPos' = 0 /\ currentBlock >= FirstMsc
    BY <1>1, <1>2, <1>4 DEF Wrap, BlockNo
  <2>3. Due(i) = [frame |-> NextFrame(phaseReference.frame), blk |-> FirstMsc]
    <3>1. Due(i) = NextCif(CifInHand)
      BY <1>1, <1>3, <2>1, <2>2 DEF Due, BlockNo
    <3>2. ~(CifInHand.blk + BlocksPerCif < nrBlocks)
      BY <1>1, <1>4, <2>1 DEF CifInHand
    <3> QED
      BY <3>1, <3>2 DEF NextCif, CifInHand
  <2>4. Due(i)' = [blk |-> FirstMsc, frame |-> NextFrame(phaseReference.frame)]
    BY <1>2, <2>2 DEF Due, NextFrame
  <2> QED
    BY <2>3, <2>4
<1>5. CASE currentBlock # nrBlocks - 1
  <2>1. currentBlock' = currentBlock + 1 /\ ReadPos # 0 /\ ReadPos' # 0
    BY <1>1, <1>2, <1>5 DEF Wrap, BlockNo
  <2>2. CASE currentBlock' < FirstMsc
    BY <1>1, <1>2, <2>1, <2>2 DEF Due, BlockNo
  <2>3. CASE currentBlock' = FirstMsc
    <3>1. CifIndex' = 0
      BY <1>1, <2>1, <2>3, NextIndex
    <3> QED
      BY <1>1, <1>2, <1>3, <2>1, <2>3, <3>1 DEF Due, CifInHand, BlockNo
  <2>4. CASE currentBlock >= FirstMsc
    <3>1. CifIndex' = IF CifIndex = BlocksPerCif - 1 THEN 0 ELSE CifIndex + 1
      BY <1>1, <2>1, <2>4, NextIndex
    <3>2. ~(currentBlock < FirstMsc) /\ ~(currentBlock' < FirstMsc)
      BY <1>1, <2>1, <2>4 DEF BlockNo
    <3>3. Due(i)' = CifInHand'
      BY <1>3, <3>2 DEF Due
    <3>4. CASE CifIndex = BlocksPerCif - 1
      <4>1. Due(i) = NextCif(CifInHand)
        BY <1>3, <3>2, <3>4 DEF Due
      <4>2. CifInHand.blk + BlocksPerCif = currentBlock' /\ currentBlock' < nrBlocks
        BY <1>1, <1>5, <2>1, <3>4 DEF CifInHand, BlockNo
      <4>3. CifInHand' = [blk |-> currentBlock', frame |-> phaseReference.frame]
        BY <1>1, <1>2, <2>1, <3>1, <3>4 DEF CifInHand, BlockNo
      <4> QED
        BY <3>3, <4>1, <4>2, <4>3 DEF NextCif, CifInHand
    <3>5. CASE CifIndex # BlocksPerCif - 1
      <4>1. Due(i) = CifInHand
        BY <1>3, <3>2, <3>5 DEF Due
      <4>2. currentBlock' - CifIndex' = currentBlock - CifIndex
        BY <1>1, <2>1, <3>1, <3>5 DEF BlockNo
      <4> QED
        BY <1>2, <3>3, <4>1, <4>2 DEF CifInHand
    <3> QED
      BY <3>4, <3>5
  <2> QED
    BY <1>1, <2>1, <2>2, <2>3, <2>4 DEF BlockNo
<1> QED
  BY <1>4, <1>5

\* A block becomes the reference.
LEMMA DueRelease ==
  ASSUME IInv, Aligned, InFrame, Release, NEW i,
         ReadPos = 0 => NextToHandle = NextFrame(phaseReference.frame)
  PROVE  Due(i)' = Due(i)
<1> USE FrameSize, MscAssumption DEF MscAssumption
<1>1. currentBlock \in BlockNo /\ Pending > 0 /\ Pending \in Nat
  BY Positions DEF IInv, MscTypeOK, Release
<1>2. /\ msc = "reference" /\ msc' = "next"
      /\ UNCHANGED <<currentBlock, iter>>
      /\ ReadPos = currentBlock /\ ReadPos' = Wrap(currentBlock + 1)
      /\ phaseReference' = [blk |-> currentBlock, frame |-> command[currentBlock]]
  BY <1>1, NextSlot, InHand DEF Release, ReadPos
<1>3. currentBlock # 0 => phaseReference.frame = command[currentBlock]
  BY <1>2, InHand
<1>4. CASE currentBlock < FirstMsc
  <2>1. ReadPos' # 0
    BY <1>1, <1>2, <1>4 DEF Wrap, BlockNo
  <2>2. currentBlock = 0 => NextFrame(phaseReference.frame) = command[currentBlock]
    BY <1>1, <1>2 DEF NextToHandle
  <2> QED
    BY <1>2, <1>3, <1>4, <2>1, <2>2 DEF Due
<1>5. CASE ~(currentBlock < FirstMsc)
  <2>1. phaseReference'.frame = phaseReference.frame
    BY <1>1, <1>2, <1>3, <1>5 DEF BlockNo
  <2>2. CifIndex' = CifIndex /\ IsFed(i)' = IsFed(i)
    BY <1>2 DEF CifIndex, IsFed
  <2> QED
    BY <1>2, <1>5, <2>1, <2>2 DEF Due, CifInHand, NextCif
<1> QED
  BY <1>4, <1>5

\* Removing a backend leaves the others.
LEMMA RemainingElements ==
  ASSUME NEW S, NEW s \in Seq(S), NEW n \in 1 .. Len(s)
  PROVE  \A j \in 1 .. Len(s) - 1 :
           RemoveAt(s, n)[j] = IF j < n THEN s[j] ELSE s[j + 1]
<1> DEFINE t == SubSeq(s, 1, n - 1)
           u == SubSeq(s, n + 1, Len(s))
<1>1. Len(s) \in Nat /\ \A k \in 1 .. Len(s) : s[k] \in S
  BY LenProperties
<1>2. /\ t \in Seq(S) /\ Len(t) = n - 1
      /\ \A k \in 1 .. n - 1 : t[k] = s[k]
  BY <1>1, SubSeqProperties
<1>3. /\ u \in Seq(S) /\ Len(u) = Len(s) - n
      /\ \A k \in 1 .. Len(s) - n : u[k] = s[n + k]
  BY <1>1, SubSeqProperties
<1>4. RemoveAt(s, n) = t \o u
  BY DEF RemoveAt
<1> HIDE DEF t, u
<1>5. \A k \in 1 .. Len(t) + Len(u) :
        (t \o u)[k] = IF k <= Len(t) THEN t[k] ELSE u[k - Len(t)]
  BY <1>2, <1>3, ConcatProperties
<1>6. ASSUME NEW j \in 1 .. Len(s) - 1
      PROVE  (t \o u)[j] = IF j < n THEN s[j] ELSE s[j + 1]
  <2>1. (t \o u)[j] = IF j < n THEN t[j] ELSE u[j - (n - 1)]
    BY <1>1, <1>2, <1>3, <1>5
  <2>2. j < n => t[j] = s[j]
    BY <1>1, <1>2
  <2>3. ~(j < n) => u[j - (n - 1)] = s[j + 1]
    <3>1. ~(j < n) => j - (n - 1) \in 1 .. Len(s) - n /\ n + (j - (n - 1)) = j + 1
      BY <1>1
    <3> QED
      BY <1>3, <3>1
  <2> QED
    BY <2>1, <2>2, <2>3
<1> QED
  BY <1>4, <1>6

\* Every step that leaves torn false feeds the CIF that is due.
LEMMA GaplessStep ==
  IInv /\ IInv' /\ Aligned /\ Aligned' /\ InFrame /\ CifSoFar /\ Continues /\ AllGapless
    /\ [MscNext]_allVars => AllGapless'
<1> SUFFICES ASSUME IInv, IInv', Aligned, Aligned', InFrame, CifSoFar, Continues,
                    AllGapless, [MscNext]_allVars
             PROVE  AllGapless'
  OBVIOUS
<1>1. /\ currentBlock \in BlockNo /\ stale \in Nat /\ theBackends \in Seq(Backend)
      /\ Len(theBackends) \in Nat /\ iter \in [i : Nat \ {0}, end : Nat]
      /\ BlocksPerCif \in Nat \ {0} /\ FirstMsc \in Nat \ {0}
  BY LenProperties, MscAssumption DEF IInv, MscTypeOK, MscAssumption
<1>2. stale = 0 /\ ~Start => stale' = 0
  <2>1. CASE Release
    BY <2>1 DEF Release
  <2>2. ASSUME MscNext, ~Release, ~Start PROVE stale' = stale
    BY <2>2 DEF MscNext, DabThread, MscThread, ServiceCalls, dabVars, Begin, SamplesArrive,
       Acquire, CopyIn, Signal, Throw, Wait, Timeout, NoMore, ReadBlock, SkipBlock, AddToCif,
       StartFeed, FeedBackend, EndFeed, Advance, StopServiceTurn, EndStopService,
       RequestStop, StopReturns, set_Channel, StartStopService
  <2> QED
    BY <2>1, <2>2 DEF allVars, dabVars
\* Steps that leave the backends alone need what is due to stay.
<1>3. ASSUME UNCHANGED theBackends, ~Start,
             \A i \in 1 .. Len(theBackends) :
               (ReadPos = 0 => NextToHandle = NextFrame(phaseReference.frame))
                 => Due(i)' = Due(i)
      PROVE  AllGapless'
  <2>1. ASSUME NEW i \in 1 .. Len(theBackends) PROVE Gapless(i)'
    <3>1. Gapless(i)
      BY DEF AllGapless
    <3>2. theBackends'[i].last = theBackends[i].last
      BY <1>3
    <3> QED
      BY <1>2, <1>3, <3>1, <3>2, NextFirst, GaplessKept
  <2> QED
    BY <1>3, <2>1 DEF AllGapless
<1>4. CASE Release
  <2>1. UNCHANGED theBackends /\ ~Start
    BY <1>4 DEF Release, Start, guiVars
  <2> QED
    BY <1>3, <1>4, <2>1, DueRelease
<1>5. CASE Advance
  <2>1. UNCHANGED theBackends /\ ~Start
    BY <1>5 DEF Advance, Start, guiVars, mscVars
  <2> QED
    BY <1>3, <1>5, <2>1, DueAdvance
<1>6. CASE StartFeed
  <2>1. /\ UNCHANGED theBackends /\ ~Start /\ msc = "cif" /\ msc' = "feed" /\ iter'.i = 1
        /\ UNCHANGED <<currentBlock, ReadPos, phaseReference>>
    BY <1>6 DEF StartFeed, Start, mscVars, ReadPos
  <2>2. \A i \in 1 .. Len(theBackends) : ~IsFed(i) /\ ~IsFed(i)'
    BY <2>1 DEF IsFed
  <2> QED
    BY <1>3, <2>1, <2>2, DueStutter
<1>7. CASE EndFeed
  <2>1. /\ UNCHANGED theBackends /\ ~Start /\ msc = "feed" /\ msc' = "reference"
        /\ iter.i > Len(theBackends)
        /\ UNCHANGED <<currentBlock, ReadPos, phaseReference>>
    BY <1>7 DEF EndFeed, Start, mscVars, ReadPos, IInv, FeedIsStable
  <2>2. CifIndex = BlocksPerCif - 1 /\ CifIndex' = CifIndex
    BY <2>1, CifFed DEF CifIndex
  <2>3. \A i \in 1 .. Len(theBackends) : IsFed(i) /\ IsFed(i)'
    BY <1>1, <2>1, <2>2 DEF IsFed
  <2> QED
    BY <1>3, <2>1, <2>3, DueStutter
<1>8. CASE FeedBackend
  <2>1. /\ msc = "feed" /\ msc' = "feed" /\ iter.i \in 1 .. Len(theBackends) /\ ~Start
        /\ iter'.i = iter.i + 1
        /\ theBackends' = [theBackends EXCEPT ![iter.i] = Fed(@)]
        /\ UNCHANGED <<currentBlock, CifIndex, ReadPos, phaseReference, stale, NextToHandle>>
    BY <1>1, <1>8 DEF FeedBackend, IInv, FeedIsStable, ReadPos, Start, CifIndex, NextToHandle,
       Pending, dabVars, mscVars
  <2>2. Len(theBackends') = Len(theBackends)
    BY <1>1, <2>1, LenProperties
  <2>3. /\ CifIndex = BlocksPerCif - 1 /\ currentBlock >= FirstMsc /\ ReadPos # 0
        /\ cifVector[0] = CifInHand
    BY <1>1, <2>1, CifFed DEF ReadPos, BlockNo
  <2>4. ASSUME NEW i \in 1 .. Len(theBackends), i # iter.i PROVE Gapless(i)'
    <3>1. Gapless(i) /\ theBackends'[i].last = theBackends[i].last
      BY <1>1, <2>1, <2>4 DEF AllGapless
    <3>2. IsFed(i)' <=> IsFed(i)
      BY <1>1, <2>1, <2>4 DEF IsFed
    <3>3. Due(i)' = Due(i)
      BY <2>1, <3>2, DueStutter
    <3> QED
      BY <1>2, <2>1, <2>3, <3>1, <3>3, GaplessKept
  <2>5. ASSUME NEW n \in 1 .. Len(theBackends), n = iter.i PROVE Gapless(n)'
    <3>1. theBackends'[n].last = CurrentCif
      BY <1>1, <2>1, <2>5, LenProperties DEF Fed, Backend
    <3>2. CASE stale > 0
      BY <2>1, <3>1, <3>2 DEF CurrentCif, Gapless
    <3>3. CASE stale = 0
      <4>1. theBackends'[n].last = CifInHand
        BY <2>3, <3>1, <3>3 DEF CurrentCif
      <4>2. IsFed(n)'
        BY <1>1, <2>1, <2>3, <2>5 DEF IsFed
      <4>3. Due(n)' = NextCif(CifInHand)
        BY <1>1, <2>1, <2>3, <4>2 DEF Due, CifInHand, NextCif, BlockNo
      <4> QED
        BY <2>1, <2>3, <3>3, <4>1, <4>3 DEF Gapless, NextCif
    <3> QED
      BY <1>1, <3>2, <3>3
  <2> QED
    BY <1>1, <2>2, <2>4, <2>5 DEF AllGapless
<1>9. ASSUME NEW s \in Service, NEW c \in SubCh, set_Channel(s, c) PROVE AllGapless'
  <2>1. /\ theBackends' = Append(theBackends,
                            [SId |-> s, subChId |-> c, fill |-> 0, last |-> Garbage])
        /\ ~Start /\ UNCHANGED <<currentBlock, CifIndex, ReadPos, phaseReference, msc, iter>>
    BY <1>9 DEF set_Channel, Start, mscVars, ReadPos, CifIndex
  <2>2. Len(theBackends') = Len(theBackends) + 1
    BY <1>1, <2>1
  <2>3. theBackends'[Len(theBackends')].last = Garbage
    BY <1>1, <2>1, <2>2
  <2>4. ASSUME NEW i \in 1 .. Len(theBackends) PROVE Gapless(i)'
    <3>1. Gapless(i) /\ theBackends'[i].last = theBackends[i].last
      BY <1>1, <2>1 DEF AllGapless
    <3>2. IsFed(i)' <=> IsFed(i)
      BY <2>1 DEF IsFed
    <3>3. Due(i)' = Due(i)
      BY <2>1, <3>2, DueStutter
    <3> QED
      BY <1>2, <2>1, <3>1, <3>3, NextFirst, GaplessKept
  <2>5. ASSUME NEW i, i = Len(theBackends) + 1 PROVE Gapless(i)'
    BY <2>2, <2>3, <2>5 DEF Gapless
  <2> QED
    BY <1>1, <2>2, <2>4, <2>5 DEF AllGapless
<1>10. CASE StopServiceTurn
  <2>1. /\ stopping.i \in 1 .. Len(theBackends) /\ ~Start
        /\ UNCHANGED <<currentBlock, CifIndex, ReadPos, phaseReference, msc, iter, locker>>
        /\ \/ UNCHANGED theBackends
           \/ theBackends' = RemoveAt(theBackends, stopping.i)
    BY <1>1, <1>10 DEF StopServiceTurn, Start, mscVars, ReadPos, CifIndex
  <2>2. msc # "feed"
    BY <2>1 DEF IInv, LockInv, MscTypeOK
  <2>3. \A i, j \in 1 .. Len(theBackends) : Due(j)' = Due(i)
    <3>1. \A i, j \in 1 .. Len(theBackends) : IsFed(j)' <=> IsFed(i)
      BY <2>1, <2>2 DEF IsFed
    <3> QED
      BY <2>1, <3>1, DueStutter
  <2>4. CASE UNCHANGED theBackends
    BY <1>3, <2>1, <2>3, <2>4
  <2>5. CASE theBackends' = RemoveAt(theBackends, stopping.i)
    <3>1. Len(theBackends') = Len(theBackends) - 1
      BY <1>1, <2>1, <2>5, ShorterSeq
    <3>2. ASSUME NEW j \in 1 .. Len(theBackends') PROVE Gapless(j)'
      <4>1. PICK i \in 1 .. Len(theBackends) : theBackends'[j] = theBackends[i]
        BY <1>1, <2>1, <2>5, <3>1, RemainingElements
      <4>2. Gapless(i) /\ Due(j)' = Due(i)
        BY <1>1, <2>3, <3>1 DEF AllGapless
      <4> QED
        BY <1>2, <2>1, <4>1, <4>2, NextFirst, GaplessKept
    <3> QED
      BY <3>2 DEF AllGapless
  <2> QED
    BY <2>1, <2>4, <2>5
<1>11. CASE Start \/ StopReturns
  <2>1. Len(theBackends') = 0
    BY <1>11 DEF Start, StopReturns
  <2> QED
    BY <2>1 DEF AllGapless
<1>12. ASSUME UNCHANGED <<theBackends, currentBlock, phaseReference, ReadPos, iter>>, ~Start,
              \/ UNCHANGED msc
              \/ {msc, msc'} \subseteq {"idle", "waiting", "test", "fft", "cif"}
              \/ UNCHANGED CifIndex /\ CifIndex # BlocksPerCif - 1
              \/ currentBlock < FirstMsc
       PROVE  AllGapless'
  <2>1. \A i \in 1 .. Len(theBackends) :
          ~(currentBlock < FirstMsc) => (IsFed(i)' <=> IsFed(i))
    BY <1>12 DEF IsFed, CifIndex
  <2> QED
    BY <1>3, <1>12, <2>1, DueStutter
<1>13. ASSUME MscNext, ~Release, ~Advance, ~StartFeed, ~EndFeed, ~FeedBackend,
              ~(\E s \in Service, c \in SubCh : set_Channel(s, c)),
              ~StopServiceTurn, ~Start, ~StopReturns
       PROVE  /\ UNCHANGED <<theBackends, currentBlock, phaseReference, ReadPos, iter>>
              /\ \/ UNCHANGED msc
                 \/ {msc, msc'} \subseteq {"idle", "waiting", "test", "fft", "cif"}
                 \/ UNCHANGED CifIndex /\ CifIndex # BlocksPerCif - 1
                 \/ currentBlock < FirstMsc
  BY <1>1, <1>13, IndexRange DEF MscNext, DabThread, MscThread, ServiceCalls, guiVars, dabVars,
     mscVars, Begin, SamplesArrive, Acquire, CopyIn, Signal, Throw, Wait, Timeout, NoMore,
     ReadBlock, SkipBlock, AddToCif, EndStopService, RequestStop, StartStopService,
     ReadPos, CifIndex
<1>14. CASE UNCHANGED allVars
  <2>1. ~Start
    BY <1>14 DEF Start, allVars, guiVars
  <2> QED
    BY <1>12, <1>14, <2>1 DEF allVars, guiVars, mscVars, ReadPos
<1> QED
  BY <1>4, <1>5, <1>6, <1>7, <1>8, <1>9, <1>10, <1>11, <1>12, <1>13, <1>14

\* A backend gets the CIFs of a session one after the other, without a gap, also
\* when other backends come and go: the time de-interleaver relies on it.
THEOREM FeedIsContinuous == UntornSpec => ContinuousFeed
<1> DEFINE Inv == /\ IInv /\ Aligned /\ InFrame /\ CifSoFar
                  /\ Continues /\ AllGapless
           Act == \A i \in DOMAIN theBackends :
                    /\ ~torn /\ msc = "feed" /\ iter.i = i /\ iter'.i = i + 1
                    /\ theBackends[i].last # Garbage
                    => CurrentCif = NextCif(theBackends[i].last)
<1>1. MscInit => Inv
  BY IInvInit, AlignedInit, InFrameInit, ContinuesInit
<1>2. Inv /\ [MscNext /\ ~torn']_allVars => Inv'
  <2>1. [MscNext /\ ~torn']_allVars => [MscNext]_allVars
    OBVIOUS
  <2> QED
    BY <2>1, IInvStep, AlignedStep, InFrameStep, CifStep, ContinuesStep, GaplessStep
<1>3. Inv => [Act]_allVars
  <2> SUFFICES ASSUME Inv, NEW i \in DOMAIN theBackends, msc = "feed", iter.i = i,
                      theBackends[i].last # Garbage
               PROVE  CurrentCif = NextCif(theBackends[i].last)
    BY DEF Act
  <2>1. i \in 1 .. Len(theBackends)
    BY LenProperties DEF IInv, MscTypeOK
  <2>2. stale = 0 /\ NextCif(theBackends[i].last) = Due(i)
    BY <2>1 DEF AllGapless, Gapless
  <2>3. /\ currentBlock \in BlockNo /\ currentBlock >= FirstMsc
        /\ cifVector[0] = CifInHand
    BY CifFed
  <2>4. ~IsFed(i)
    BY <2>1 DEF IsFed
  <2>5. Due(i) = CifInHand
    BY <2>3, <2>4, FrameSize, MscAssumption DEF Due, BlockNo, MscAssumption
  <2> QED
    BY <2>2, <2>3, <2>5 DEF CurrentCif
<1> HIDE DEF Inv
<1>4. MscInit /\ [][MscNext /\ ~torn']_allVars => [][Act]_allVars
  BY <1>1, <1>2, <1>3, PTL
<1> QED
  BY <1>4 DEF UntornSpec, ContinuousFeed
=============================================================================
