----------------------------- MODULE SampleRing ------------------------------
(***************************************************************************)
(* RingBuffer of includes/various/ringbuffer.h, between one writer and one *)
(* reader in different threads (device and processor, processor and GUI,   *)
(* GUI and sound card).  A put and a get each are: look at the indices,    *)
(* copy element by element, advance one's own index.  The other thread     *)
(* can take a step at any point; the barriers of the code keep the order.  *)
(*                                                                         *)
(* The indices run modulo 2 * Size, so that a full buffer differs from an  *)
(* empty one.  Size is a power of two in the code, x & bigMask is then     *)
(* x % (2 * Size), and the subtraction of unsigned numbers wraps likewise. *)
(* skipDataInBuffer and reset have no caller.                              *)
(***************************************************************************)
EXTENDS Naturals, Sequences

CONSTANTS
  Size,       \* bufferSize
  Amount,     \* the amounts a caller asks for
  Element     \* what the elements can be

ASSUME RingAssumption ==
  Size \in Nat \ {0} /\ Amount \subseteq Nat /\ Element # {}

VARIABLES
  writeIndex,
  readIndex,
  buffer,
  writer,     \* the put in progress: what it is to write, and how much is done
  reader,     \* the get in progress: how much it is to read, and what is read
  got         \* the result of the get before

ringVars == <<writeIndex, readIndex, buffer, writer, reader, got>>

Index == 0 .. 2 * Size - 1

NoPut == [busy |-> FALSE, data |-> <<>>, done |-> 0]
NoGet == [busy |-> FALSE, amount |-> 0, data |-> <<>>]

\* Before anything is put the elements are whatever is in memory.
RingInit ==
  /\ writeIndex = 0
  /\ readIndex = 0
  /\ buffer \in [0 .. Size - 1 -> Element]
  /\ writer = NoPut
  /\ reader = NoGet
  /\ got = <<>>

\* GetRingBufferReadAvailable and GetRingBufferWriteAvailable.
ReadAvailable  == (writeIndex + (2 * Size - readIndex)) % (2 * Size)
WriteAvailable == Size - ReadAvailable

AtMost(n, available) == IF n > available THEN available ELSE n

\* putDataIntoBuffer: no more than there is room for is put.
PutBegin(s) ==
  /\ ~writer.busy
  /\ writer' = [busy |-> TRUE, data |-> SubSeq(s, 1, AtMost(Len(s), WriteAvailable)),
                done |-> 0]
  /\ UNCHANGED <<writeIndex, readIndex, buffer, reader, got>>

\* The memcpy into both regions: the second begins where the buffer wraps.
PutElement ==
  /\ writer.busy /\ writer.done < Len(writer.data)
  /\ buffer' = [buffer EXCEPT ![(writeIndex + writer.done) % Size] =
                  writer.data[writer.done + 1]]
  /\ writer' = [writer EXCEPT !.done = @ + 1]
  /\ UNCHANGED <<writeIndex, readIndex, reader, got>>

\* Mutant: the index runs modulo Size.
PutAdvanceSmall ==
  /\ writer.busy /\ writer.done = Len(writer.data)
  /\ writeIndex' = (writeIndex + Len(writer.data)) % Size
  /\ writer' = NoPut
  /\ UNCHANGED <<readIndex, buffer, reader, got>>

\* AdvanceRingBufferWriteIndex
PutAdvance ==
  /\ writer.busy /\ writer.done = Len(writer.data)
  /\ writeIndex' = (writeIndex + Len(writer.data)) % (2 * Size)
  /\ writer' = NoPut
  /\ UNCHANGED <<readIndex, buffer, reader, got>>

\* getDataFromBuffer: no more than there is.
GetBegin(n) ==
  /\ ~reader.busy
  /\ reader' = [busy |-> TRUE, amount |-> AtMost(n, ReadAvailable), data |-> <<>>]
  /\ UNCHANGED <<writeIndex, readIndex, buffer, writer, got>>

GetElement ==
  /\ reader.busy /\ Len(reader.data) < reader.amount
  /\ reader' = [reader EXCEPT !.data =
                  Append(@, buffer[(readIndex + Len(reader.data)) % Size])]
  /\ UNCHANGED <<writeIndex, readIndex, buffer, writer, got>>

\* AdvanceRingBufferReadIndex
GetAdvance ==
  /\ reader.busy /\ Len(reader.data) = reader.amount
  /\ readIndex' = (readIndex + reader.amount) % (2 * Size)
  /\ got' = reader.data
  /\ reader' = NoGet
  /\ UNCHANGED <<writeIndex, buffer, writer>>

\* FlushRingBuffer: called when the writer (a device) or the reader (the sound
\* card) was stopped, and the other side is not active (see ReceiverThreads).
Flush ==
  /\ ~writer.busy /\ ~reader.busy
  /\ writeIndex' = 0
  /\ readIndex' = 0
  /\ UNCHANGED <<buffer, writer, reader, got>>

Writer ==
  \/ \E n \in Amount : \E s \in [1 .. n -> Element] : PutBegin(s)
  \/ PutElement \/ PutAdvance

Reader ==
  \/ \E n \in Amount : GetBegin(n)
  \/ GetElement \/ GetAdvance

RingNext == Writer \/ Reader \/ Flush

RingSpec == RingInit /\ [][RingNext]_ringVars
-----------------------------------------------------------------------------
(* Properties.                                                             *)

\* The values every variable keeps.
RingTypeOK ==
  /\ writeIndex \in Index
  /\ readIndex \in Index
  /\ buffer \in [0 .. Size - 1 -> Element]
  /\ writer \in [busy : BOOLEAN, data : Seq(Element), done : Nat]
  /\ writer.done <= Len(writer.data)
  /\ reader \in [busy : BOOLEAN, amount : Nat, data : Seq(Element)]
  /\ Len(reader.data) <= reader.amount
  /\ got \in Seq(Element)

\* The indices never run apart by more than the size, also while a put and a
\* get that both looked at older indices are in progress: what the reader still
\* has to give back and what the writer is going to add fit into the buffer.
WithinSize ==
  /\ ReadAvailable + Len(writer.data) <= Size
  /\ reader.amount <= ReadAvailable

\* The slots the writer fills and the slots the reader copies are different.
WriteSlots == {(writeIndex + k) % Size : k \in writer.done .. Len(writer.data) - 1}
ReadSlots  == {(readIndex + k) % Size : k \in Len(reader.data) .. reader.amount - 1}

RegionsDisjoint == WriteSlots \cap ReadSlots = {}

\* The elements between the indices.
Content == [k \in 1 .. ReadAvailable |-> buffer[(readIndex + (k - 1)) % Size]]

Queue == INSTANCE SampleQueue WITH Capacity <- Size, queue <- Content

\* The ring buffer is a bounded first-in first-out buffer.
RingIsQueue == Queue!Spec
=============================================================================
