----------------------------- MODULE SampleQueue -----------------------------
(***************************************************************************)
(* What RingBuffer promises its two users (ringbuffer.h, "a simple         *)
(* ringbuffer, lockfree, however only for a single reader and a single     *)
(* writer"): what is got is what was put, in order, each element once; an  *)
(* amount is put or got at once, and there is room for Capacity elements.  *)
(***************************************************************************)
EXTENDS Naturals, Sequences

CONSTANTS
  Element,    \* what can be put
  Capacity    \* the room of the buffer

VARIABLES
  queue,      \* the elements put and not yet got, oldest first
  got         \* the elements of the get before

queueVars == <<queue, got>>

Init ==
  /\ queue = <<>>
  /\ got = <<>>

Put(s) ==
  /\ Len(queue) + Len(s) <= Capacity
  /\ queue' = queue \o s
  /\ UNCHANGED got

Get(n) ==
  /\ n <= Len(queue)
  /\ got' = SubSeq(queue, 1, n)
  /\ queue' = SubSeq(queue, n + 1, Len(queue))

Flush ==
  /\ queue' = <<>>
  /\ UNCHANGED got

Next ==
  \/ \E n \in 0 .. Capacity : \E s \in [1 .. n -> Element] : Put(s)
  \/ \E n \in 0 .. Capacity : Get(n)
  \/ Flush

Spec == Init /\ [][Next]_queueVars
=============================================================================
