----------------------------- MODULE BlockQueue -----------------------------
(***************************************************************************)
(* What the buffer between the DAB thread and the MSC thread promises      *)
(* (msc-handler.cpp, "Input is put into a buffer, a the code in a separate *)
(* thread will handle the data from the buffer"): the OFDM blocks of a     *)
(* tuning session are handled one by one, in the order they were put, each *)
(* exactly once, and never more than Capacity of them are kept.            *)
(***************************************************************************)
EXTENDS Naturals, Sequences

CONSTANTS
  Block,      \* what can be put: the block numbers, tagged with their frame
  NoBlock,    \* "nothing handled yet"
  Capacity    \* the room of the buffer

VARIABLES
  queue,      \* the blocks put and not yet handled, oldest first
  handled     \* the block handled last

queueVars == <<queue, handled>>

Init ==
  /\ queue = <<>>
  /\ handled = NoBlock

Put(b) ==
  /\ Len(queue) < Capacity
  /\ queue' = Append(queue, b)
  /\ UNCHANGED handled

Handle ==
  /\ queue # <<>>
  /\ handled' = Head(queue)
  /\ queue' = Tail(queue)

Next == (\E b \in Block : Put(b)) \/ Handle

Spec == Init /\ [][Next]_queueVars
=============================================================================
