----------------------------- MODULE MscHandler -----------------------------
(***************************************************************************)
(* The path of the OFDM blocks of a DAB frame from the DAB thread          *)
(* (dabProcessor::run, the producer) through the buffer of mscHandler to   *)
(* the MSC thread (mscHandler::run, the consumer), which demodulates each  *)
(* block against its predecessor, assembles CIFs and feeds them to the     *)
(* backends of the selected services, while the GUI thread starts and      *)
(* stops services and the whole tuning session.                            *)
(*                                                                         *)
(* Data is abstracted to its origin: a block of samples is named by its    *)
(* number in the frame and by a label of the frame it was received in.     *)
(***************************************************************************)
EXTENDS Naturals, Sequences, SequencesExt

CONSTANTS
  FirstMsc,       \* number of the first MSC block of a frame (4 in the code)
  BlocksPerCif,   \* numberofblocksperCIF (18)
  CifsPerFrame,   \* CIFs in a frame (4)
  Frames,         \* frame labels 0 .. Frames-1, reused cyclically
  Depth,          \* depth of the time de-interleaver (16)
  Service,        \* service identifiers
  SubCh,          \* subchannel identifiers
  Garbage         \* soft bits that belong to no transmitted block

ASSUME MscAssumption ==
  /\ FirstMsc \in Nat \ {0}
  /\ BlocksPerCif \in Nat \ {0}
  /\ CifsPerFrame \in Nat \ {0}
  /\ Frames \in Nat \ {0}
  /\ Depth \in Nat
  /\ SubCh # {}

\* params.get_L (): the blocks of a frame, and the slots of the buffer.
nrBlocks == FirstMsc + CifsPerFrame * BlocksPerCif

ASSUME GarbageAssumption ==
  Garbage \notin [blk : 0 .. nrBlocks - 1, frame : 0 .. Frames - 1]

BlockNo == 0 .. nrBlocks - 1
Frame   == 0 .. Frames - 1
Block   == [blk : BlockNo, frame : Frame]
Bits    == Block \cup {Garbage}

VARIABLES
  gui,             \* the GUI thread: session "off", "on", or in stop ()
  locker,          \* owner of mscHandler::locker
  stopping,        \* the GUI's loop in stopService: subchannel and index
  theBackends,     \* the backends, in order
  reading,         \* sampleReader::running
  dab,             \* where the DAB thread is
  blkno,           \* the block it reads next, or is putting
  frame,           \* label of the frame on the air
  torn,            \* history: some stop () hit the DAB thread inside a frame
  stale,           \* history: waiting blocks put in an earlier session
  bufferSpace,     \* permits of the semaphore
  amount,          \* blocks announced to the MSC thread
  command,         \* the slots: label of the frame of the block in slot b
  msc,             \* where the MSC thread is
  currentBlock,    \* the slot it reads next, or is handling
  fftBuffer,       \* the block it has read
  phaseReference,  \* the block it handled before that
  cifVector,       \* soft bits of the CIF under construction
  iter             \* its iteration over theBackends: next index and end

guiVars == <<gui, locker, stopping, theBackends>>
dabVars == <<reading, dab, blkno, frame, torn, stale>>
mscVars == <<msc, currentBlock, fftBuffer, phaseReference, cifVector, iter>>
allVars == <<guiVars, dabVars, bufferSpace, amount, command, mscVars>>

NotStopping == [subChId |-> CHOOSE c \in SubCh : TRUE, i |-> 0]
Backend == [SId : Service, subChId : SubCh, fill : 0 .. Depth, last : Bits]

MscInit ==
  /\ gui = "off"
  /\ locker = "none"
  /\ stopping = NotStopping
  /\ theBackends = <<>>
  /\ reading = TRUE
  /\ dab = "off"
  /\ blkno = 0
  /\ frame = 0
  /\ torn = FALSE
  /\ stale = 0
  /\ bufferSpace = nrBlocks
  /\ amount = 0
  /\ command = [b \in BlockNo |-> 0]
  /\ msc = "idle"
  /\ currentBlock = 0
  /\ fftBuffer = Garbage
  /\ phaseReference = Garbage
  /\ cifVector = [k \in 0 .. BlocksPerCif - 1 |-> Garbage]
  /\ iter = [i |-> 1, end |-> 0]
\* The number of blocks put and not yet handled.
Pending == IF msc = "next" THEN amount - 1 ELSE amount
-----------------------------------------------------------------------------
(* The DAB thread: the frame loop of dabProcessor::run.                    *)

NextFrame(f) == (f + 1) % Frames

\* The new thread makes the reader run, also when it was told to stop already.
Begin ==
  /\ dab = "starting"
  /\ dab' = "sample"
  /\ reading' = TRUE
  /\ UNCHANGED <<guiVars, blkno, frame, torn, stale, bufferSpace, amount, command, mscVars>>

\* getSamples has the samples of the block: it is handed to the mscHandler.
SamplesArrive ==
  /\ dab = "sample" /\ reading
  /\ dab' = "acquire"
  /\ UNCHANGED <<guiVars, reading, blkno, frame, torn, stale, bufferSpace, amount, command, mscVars>>

\* Mutant: the producer tries for a permit and ignores the answer.
AcquireTried ==
  /\ dab = "acquire"
  /\ dab' = "copy"
  /\ bufferSpace' = IF bufferSpace > 0 THEN bufferSpace - 1 ELSE 0
  /\ UNCHANGED <<guiVars, reading, blkno, frame, torn, stale, amount, command, mscVars>>

\* bufferSpace.acquire (1): waits for a permit.
Acquire ==
  /\ dab = "acquire" /\ bufferSpace > 0
  /\ dab' = "copy"
  /\ bufferSpace' = bufferSpace - 1
  /\ UNCHANGED <<guiVars, reading, blkno, frame, torn, stale, amount, command, mscVars>>

\* The end of the memcpy into command [blkno].
CopyIn ==
  /\ dab = "copy"
  /\ dab' = "signal"
  /\ command' = [command EXCEPT ![blkno] = frame]
  /\ UNCHANGED <<guiVars, reading, blkno, frame, torn, stale, bufferSpace, amount, mscVars>>

\* amount ++ and wakeOne, under helper; then the loop goes to the next block
\* or, after the last one, to the next frame.
Signal ==
  /\ dab = "signal"
  /\ dab' = "sample"
  /\ amount' = amount + 1
  /\ msc' = IF msc = "waiting" THEN "test" ELSE msc
  /\ blkno' = (blkno + 1) % nrBlocks
  /\ frame' = IF blkno = nrBlocks - 1 THEN NextFrame(frame) ELSE frame
  /\ UNCHANGED <<guiVars, reading, torn, stale, bufferSpace, command, currentBlock,
                 fftBuffer, phaseReference, cifVector, iter>>

\* getSamples throws: the reader has been told to stop.
Throw ==
  /\ dab = "sample" /\ ~reading
  /\ dab' = "off"
  /\ UNCHANGED <<guiVars, reading, blkno, frame, torn, stale, bufferSpace, amount, command, mscVars>>
-----------------------------------------------------------------------------
(* The MSC thread: mscHandler::run and process_mscBlock.                   *)

\* commandHandler.wait (&helper, 100) is entered, and times out.
Wait ==
  /\ msc = "idle"
  /\ msc' = "waiting"
  /\ UNCHANGED <<guiVars, dabVars, bufferSpace, amount, command, currentBlock,
                 fftBuffer, phaseReference, cifVector, iter>>

\* Mutant: a wait without timeout.
NoTimeout ==
  /\ msc = "waiting" /\ FALSE
  /\ UNCHANGED allVars

Timeout ==
  /\ msc = "waiting"
  /\ msc' = "test"
  /\ UNCHANGED <<guiVars, dabVars, bufferSpace, amount, command, currentBlock,
                 fftBuffer, phaseReference, cifVector, iter>>

\* The test of amount outside helper, and the return to the wait.
NoMore ==
  /\ msc = "test" /\ amount = 0
  /\ msc' = "idle"
  /\ UNCHANGED <<guiVars, dabVars, bufferSpace, amount, command, currentBlock,
                 fftBuffer, phaseReference, cifVector, iter>>

\* What the memcpy out of the slot finds: a slot being written may show any
\* mixture of the old block and the new one.
SlotContents ==
  IF dab = "copy" /\ blkno = currentBlock
  THEN {[blk |-> currentBlock, frame |-> f] : f \in {frame, command[currentBlock]}}
       \cup {Garbage}
  ELSE {[blk |-> currentBlock, frame |-> command[currentBlock]]}

ReadBlock ==
  /\ msc = "test" /\ amount > 0
  /\ fftBuffer' \in SlotContents
  /\ msc' = "fft"
  /\ UNCHANGED <<guiVars, dabVars, bufferSpace, amount, command, currentBlock,
                 phaseReference, cifVector, iter>>

\* The soft bits are the phase differences with the preceding block: against
\* anything else they mean nothing.
Demodulated ==
  IF /\ fftBuffer # Garbage /\ phaseReference # Garbage
     /\ phaseReference.frame = fftBuffer.frame
     /\ phaseReference.blk + 1 = fftBuffer.blk
  THEN fftBuffer ELSE Garbage

\* currentblk of process_mscBlock
CifIndex == (currentBlock - FirstMsc) % BlocksPerCif

\* do_FFT; a block of the FIC or the reference block goes no further.
SkipBlock ==
  /\ msc = "fft" /\ currentBlock < FirstMsc
  /\ msc' = "reference"
  /\ UNCHANGED <<guiVars, dabVars, bufferSpace, amount, command, currentBlock,
                 fftBuffer, phaseReference, cifVector, iter>>

\* An MSC block is demodulated into its place in cifVector.
AddToCif ==
  /\ msc = "fft" /\ currentBlock >= FirstMsc
  /\ cifVector' = [cifVector EXCEPT ![CifIndex] = Demodulated]
  /\ msc' = IF CifIndex < BlocksPerCif - 1 THEN "reference" ELSE "cif"
  /\ UNCHANGED <<guiVars, dabVars, bufferSpace, amount, command, currentBlock,
                 fftBuffer, phaseReference, iter>>

\* Mutant: a CIF is dropped when the lock is taken.
StartFeedTried ==
  /\ msc = "cif"
  /\ locker' = IF locker = "none" THEN "msc" ELSE locker
  /\ iter' = [i |-> 1, end |-> Len(theBackends)]
  /\ msc' = IF locker = "none" THEN "feed" ELSE "reference"
  /\ UNCHANGED <<gui, stopping, theBackends, dabVars, bufferSpace, amount,
                 command, currentBlock, fftBuffer, phaseReference, cifVector>>

\* A full CIF: the loop over theBackends starts, under locker.
StartFeed ==
  /\ msc = "cif" /\ locker = "none"
  /\ locker' = "msc"
  /\ iter' = [i |-> 1, end |-> Len(theBackends)]
  /\ msc' = "feed"
  /\ UNCHANGED <<gui, stopping, theBackends, dabVars, bufferSpace, amount,
                 command, currentBlock, fftBuffer, phaseReference, cifVector>>

\* Which CIF of this session stands in cifVector: it is named by its first block.
CurrentCif == IF stale > 0 THEN Garbage ELSE cifVector[0]

\* Backend::process: the CIF enters the de-interleaver of one backend.
Fed(b) == [b EXCEPT !.fill = IF @ < Depth THEN @ + 1 ELSE @, !.last = CurrentCif]

FeedBackend ==
  /\ msc = "feed" /\ iter.i <= iter.end
  /\ theBackends' = [theBackends EXCEPT ![iter.i] = Fed(@)]
  /\ iter' = [iter EXCEPT !.i = @ + 1]
  /\ UNCHANGED <<gui, locker, stopping, dabVars, bufferSpace, amount, command, msc,
                 currentBlock, fftBuffer, phaseReference, cifVector>>

EndFeed ==
  /\ msc = "feed" /\ iter.i > iter.end
  /\ locker' = "none"
  /\ msc' = "reference"
  /\ UNCHANGED <<gui, stopping, theBackends, dabVars, bufferSpace, amount,
                 command, currentBlock, fftBuffer, phaseReference, cifVector, iter>>

\* Mutant: the blocks below the first MSC block never become the reference.
ReleaseNoReference ==
  /\ msc = "reference"
  /\ phaseReference' = IF currentBlock < FirstMsc THEN phaseReference ELSE fftBuffer
  /\ bufferSpace' = bufferSpace + 1
  /\ msc' = "next"
  /\ stale' = IF stale > 0 THEN stale - 1 ELSE 0
  /\ UNCHANGED <<guiVars, reading, dab, blkno, frame, torn, amount, command, currentBlock,
                 fftBuffer, cifVector, iter>>

\* Mutant: a block that is not an MSC block does not give its slot back.
ReleaseLeaks ==
  /\ msc = "reference"
  /\ phaseReference' = fftBuffer
  /\ bufferSpace' = IF currentBlock < FirstMsc THEN bufferSpace ELSE bufferSpace + 1
  /\ msc' = "next"
  /\ stale' = IF stale > 0 THEN stale - 1 ELSE 0
  /\ UNCHANGED <<guiVars, reading, dab, blkno, frame, torn, amount, command, currentBlock,
                 fftBuffer, cifVector, iter>>

\* The block becomes the reference of the next one; its slot is given back.
Release ==
  /\ msc = "reference"
  /\ phaseReference' = fftBuffer
  /\ bufferSpace' = bufferSpace + 1
  /\ msc' = "next"
  /\ stale' = IF stale > 0 THEN stale - 1 ELSE 0
  /\ UNCHANGED <<guiVars, reading, dab, blkno, frame, torn, amount, command, currentBlock,
                 fftBuffer, cifVector, iter>>

\* Under helper: the next slot, one announced block less.
Advance ==
  /\ msc = "next"
  /\ currentBlock' = (currentBlock + 1) % nrBlocks
  /\ amount' = amount - 1
  /\ msc' = "test"
  /\ UNCHANGED <<guiVars, dabVars, bufferSpace, command, fftBuffer,
                 phaseReference, cifVector, iter>>
-----------------------------------------------------------------------------
(* The GUI thread.                                                         *)

\* Mutant: no locking.
set_ChannelUnlocked(s, c) ==
  /\ gui = "on"
  /\ \A i \in DOMAIN theBackends : theBackends[i].SId # s
  /\ theBackends' = Append(theBackends,
                      [SId |-> s, subChId |-> c, fill |-> 0, last |-> Garbage])
  /\ UNCHANGED <<gui, locker, stopping, dabVars, bufferSpace, amount, command, mscVars>>

\* mscHandler::set_Channel refuses a service that already has a backend.
set_Channel(s, c) ==
  /\ gui = "on" /\ locker = "none"
  /\ \A i \in DOMAIN theBackends : theBackends[i].SId # s
  /\ theBackends' = Append(theBackends,
                      [SId |-> s, subChId |-> c, fill |-> 0, last |-> Garbage])
  /\ UNCHANGED <<gui, locker, stopping, dabVars, bufferSpace, amount, command, mscVars>>

\* mscHandler::stopService: one step for each turn of its loop, under locker.
\* After an erase the loop index moves past the element that took the place.
StartStopService(c) ==
  /\ gui = "on" /\ locker = "none"
  /\ locker' = "gui"
  /\ stopping' = [subChId |-> c, i |-> 1]
  /\ UNCHANGED <<gui, theBackends, dabVars, bufferSpace, amount, command, mscVars>>

StopServiceTurn ==
  /\ stopping.i \in DOMAIN theBackends
  /\ theBackends' = IF theBackends[stopping.i].subChId = stopping.subChId
                    THEN RemoveAt(theBackends, stopping.i) ELSE theBackends
  /\ stopping' = [stopping EXCEPT !.i = @ + 1]
  /\ UNCHANGED <<gui, locker, dabVars, bufferSpace, amount, command, mscVars>>

EndStopService ==
  /\ stopping.i > Len(theBackends)
  /\ locker' = "none"
  /\ stopping' = NotStopping
  /\ UNCHANGED <<gui, theBackends, dabVars, bufferSpace, amount, command, mscVars>>

\* dabProcessor::stop up to its wait for the thread.
RequestStop ==
  /\ gui = "on" /\ locker # "gui"
  /\ gui' = "stopping"
  /\ reading' = FALSE
  /\ UNCHANGED <<locker, stopping, theBackends, dab, blkno, frame, torn, stale, bufferSpace, amount,
                 command, mscVars>>

\* The thread has ended: reset_Channel deletes all backends, under locker.
StopReturns ==
  /\ gui = "stopping" /\ dab = "off" /\ locker = "none"
  /\ gui' = "off"
  /\ theBackends' = <<>>
  /\ UNCHANGED <<locker, stopping, dabVars, bufferSpace, amount, command, mscVars>>

\* dabProcessor::start: reset_Channel, and a new thread, which begins with
\* block 0 of a frame. Nothing tells the MSC thread.
Start ==
  /\ gui = "off" /\ locker = "none"
  /\ gui' = "on"
  /\ theBackends' = <<>>
  /\ dab' = "starting"
  /\ torn' = (torn \/ blkno # 0)
  /\ stale' = Pending
  /\ blkno' = 0
  /\ frame' = NextFrame(frame)
  /\ UNCHANGED <<locker, stopping, reading, bufferSpace, amount, command, mscVars>>
-----------------------------------------------------------------------------
DabThread == Begin \/ Acquire \/ CopyIn \/ Signal \/ Throw

MscThread ==
  \/ Wait \/ Timeout \/ NoMore \/ ReadBlock \/ SkipBlock \/ AddToCif
  \/ StartFeed \/ FeedBackend \/ EndFeed \/ Release \/ Advance

ServiceCalls ==
  \/ \E s \in Service, c \in SubCh : set_Channel(s, c)
  \/ \E c \in SubCh : StartStopService(c)
  \/ StopServiceTurn
  \/ EndStopService

MscNext ==
  \/ SamplesArrive \/ DabThread \/ MscThread \/ ServiceCalls
  \/ RequestStop \/ StopReturns \/ Start

MscSpec == MscInit /\ [][MscNext]_allVars

\* A thread that can run does run (the scheduler is fair), a wait with a
\* timeout ends, and a call the GUI has begun is completed. Between two calls
\* the GUI thread is back in its event loop, so a thread that waits for locker
\* gets it. Nothing says that samples arrive or that the user does anything.
Fairness ==
  /\ WF_allVars(DabThread)
  /\ WF_allVars(MscThread)
  /\ SF_allVars(StartFeed)
  /\ WF_allVars(StopServiceTurn \/ EndStopService)
  /\ WF_allVars(StopReturns)

FairSpec == MscSpec /\ Fairness
-----------------------------------------------------------------------------
(* Properties.                                                             *)

\* The values every variable keeps.
MscTypeOK ==
  /\ gui \in {"off", "on", "stopping"}
  /\ locker \in {"none", "msc", "gui"}
  /\ stopping \in [subChId : SubCh, i : Nat]
  /\ theBackends \in Seq(Backend)
  /\ reading \in BOOLEAN
  /\ dab \in {"off", "starting", "sample", "acquire", "copy", "signal"}
  /\ blkno \in BlockNo
  /\ frame \in Frame
  /\ torn \in BOOLEAN
  /\ stale \in 0 .. nrBlocks + 1
  /\ bufferSpace \in 0 .. nrBlocks
  /\ amount \in 0 .. nrBlocks + 1
  /\ command \in [BlockNo -> Frame]
  /\ msc \in {"idle", "waiting", "test", "fft", "cif", "feed", "reference", "next"}
  /\ currentBlock \in BlockNo
  /\ fftBuffer \in Bits
  /\ phaseReference \in Bits
  /\ cifVector \in [0 .. BlocksPerCif - 1 -> Bits]
  /\ iter \in [i : Nat \ {0}, end : Nat]

\* Semaphore and counter are updated apart and by two threads; still every
\* slot is accounted for exactly once: free, being filled, announced, or
\* given back by the MSC thread but not yet taken off amount.
SlotAccounting ==
  bufferSpace + amount + (IF dab \in {"copy", "signal"} THEN 1 ELSE 0)
    = nrBlocks + (IF msc = "next" THEN 1 ELSE 0)

\* Where the MSC thread is going to find the blocks put and not yet handled:
\* it reads the slots in cyclic order from currentBlock.
ReadPos == IF msc = "next" THEN (currentBlock + 1) % nrBlocks ELSE currentBlock
Slot(k) == (ReadPos + k) % nrBlocks

WaitingBlocks ==
  [k \in 1 .. Pending |-> [blk |-> Slot(k - 1), frame |-> command[Slot(k - 1)]]]

\* The DAB thread never writes into a slot whose block is still waiting (as
\* long as every stop fell between two frames): the producer addresses slots
\* by block number, the consumer by its own counter, and only the semaphore
\* keeps them apart.
NoOverwrite ==
  ~torn /\ dab = "copy" => \A k \in 0 .. Pending - 1 : Slot(k) # blkno

\* What reaches the backends is one CIF: all its blocks were received in one
\* frame, they follow each other, and each was demodulated against its
\* predecessor on the air.
WholeCif ==
  ~torn /\ msc = "feed" =>
    \A k \in 0 .. BlocksPerCif - 1 :
      cifVector[k] = [blk   |-> currentBlock - (BlocksPerCif - 1) + k,
                      frame |-> fftBuffer.frame]

NextCif(c) ==
  IF c.blk + BlocksPerCif < nrBlocks THEN [c EXCEPT !.blk = @ + BlocksPerCif]
  ELSE [frame |-> NextFrame(c.frame), blk |-> FirstMsc]

\* The time de-interleaver of a backend needs every CIF, in order: the CIF fed
\* to a backend is the one that follows the CIF it got before, in the frames
\* the DAB thread found.
ContinuousFeed ==
  [][\A i \in DOMAIN theBackends :
       /\ ~torn /\ msc = "feed" /\ iter.i = i /\ iter'.i = i + 1
       /\ theBackends[i].last # Garbage
       => CurrentCif = NextCif(theBackends[i].last)]_allVars

\* While the MSC thread walks over theBackends, no other thread changes the
\* vector under it (a range-for keeps its end).
FeedIsStable ==
  msc = "feed" => locker = "msc" /\ iter.end = Len(theBackends)

\* Every block put is handled, also when its wakeOne came while the MSC thread
\* was not waiting: the MSC thread does not stay at a slot while blocks wait.
BlocksAreHandled ==
  \A b \in BlockNo : (amount > 0 /\ currentBlock = b) ~> (currentBlock # b)

\* dabProcessor::stop returns when its setRunning (false) was not overtaken by
\* the setRunning (true) of the starting thread: the GUI waits for the DAB
\* thread, which may wait for a slot of the MSC thread, which may wait for locker.
StopTerminates ==
  (gui = "stopping" /\ dab # "starting" /\ ~reading) ~> (gui = "off")

\* The behaviours in which every stop falls between two frames, and what the
\* buffer promises for them.
UntornSpec == MscInit /\ [][MscNext /\ ~torn']_allVars

Buffer == INSTANCE BlockQueue WITH
  Block <- Block, NoBlock <- Garbage, Capacity <- nrBlocks,
  queue <- WaitingBlocks, handled <- phaseReference

\* Between the blocks put by the DAB thread and those the MSC thread makes its
\* reference there is a bounded first-in first-out buffer, nothing else.
BufferIsQueue == Buffer!Spec
=============================================================================
