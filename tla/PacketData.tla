----------------------------- MODULE PacketData -----------------------------
(***************************************************************************)
(* dataProcessor (backend/data/data-processor.cpp): MSC data groups from   *)
(* the packets of a data service, for the motHandler.                      *)
(*                                                                         *)
(* A carousel is the sequence of data groups the service repeats, each cut *)
(* into packets.  A packet is the group it is of, its place in it, and its *)
(* continuity index.  Packets are lost, or damaged: then CRC is wrong and  *)
(* the index can be any; padding packets come in between.                  *)
(***************************************************************************)
EXTENDS MotObjects

CONSTANT Carousel   \* a set of sequences of [group, packets]

ASSUME CarouselAssumption ==
  \A c \in Carousel : c \in Seq([group : DataGroup, packets : Nat \ {0}]) /\ c # <<>>

\* Where the broadcaster is: the next packet.
Tunings == UNION {{[carousel |-> c, at |-> i, part |-> p, index |-> x] :
                     i \in DOMAIN c, p \in {1}, x \in 0 .. 3} : c \in Carousel}

Sent(b)    == b.carousel[b.at]
FirstOf(b) == b.part = 1
LastOf(b)  == b.part = Sent(b).packets

NextPacket(b) ==
  [b EXCEPT !.index = (@ + 1) % 4,
            !.part  = IF LastOf(b) THEN 1 ELSE @ + 1,
            !.at    = IF ~LastOf(b) THEN @ ELSE IF @ = Len(b.carousel) THEN 1 ELSE @ + 1]

Part(b) == [group |-> Sent(b).group, part |-> b.part]

\* The packets of a data group, in order.
Whole(b) == [i \in 1 .. Sent(b).packets |-> [group |-> Sent(b).group, part |-> i]]

-----------------------------------------------------------------------------
dataProcessor ==
  [expectedIndex |-> 0, packetState |-> 0, series |-> <<>>, mot |-> motHandler]

\* The MSC data group goes to the handler; its CRC tells what is not all of one.
\* The series is not read again, and is forgotten here.
Deliver(d, b, series) ==
  [d EXCEPT !.packetState = 0,
            !.series = <<>>,
            !.mot = IF series = Whole(b) THEN add_mscDatagroup(@, Sent(b).group)
                                         ELSE [@ EXCEPT !.handed = None]]

\* Mutant: a first packet goes on with the series there is.
AssembleOn(d, b) ==
  IF FirstOf(b) /\ LastOf(b) THEN Deliver(d, b, Append(d.series, Part(b)))
  ELSE IF LastOf(b) THEN Deliver(d, b, Append(d.series, Part(b)))
  ELSE [d EXCEPT !.packetState = 1, !.series = Append(@, Part(b))]

\* The packet states 0, waiting for a start, and 1, within a series.  A single
\* packet that comes within a series ends it, and is lost with it.
Assemble(d, b) ==
  CASE FirstOf(b) /\ ~LastOf(b) -> [d EXCEPT !.packetState = 1, !.series = <<Part(b)>>]
    [] FirstOf(b) /\ LastOf(b) /\ d.packetState = 0 -> Deliver(d, b, <<Part(b)>>)
    [] FirstOf(b) /\ LastOf(b) /\ d.packetState = 1 ->
         [d EXCEPT !.packetState = 0, !.series = <<>>]
    [] ~FirstOf(b) /\ d.packetState = 0 -> [d EXCEPT !.series = <<>>]
    [] ~FirstOf(b) /\ ~LastOf(b) /\ d.packetState = 1 ->
         [d EXCEPT !.series = Append(@, Part(b))]
    [] ~FirstOf(b) /\ LastOf(b) /\ d.packetState = 1 ->
         Deliver(d, b, Append(d.series, Part(b)))

Quiet(d) == [d EXCEPT !.mot.handed = None]

\* Mutant: the index is counted without end.
ContinuesOver(d, index) ==
  [ok |-> index = d.expectedIndex,
   next |-> IF index = d.expectedIndex THEN d.expectedIndex + 1 ELSE 0]

\* The test of the continuity index; a packet that fails it is not looked at.
Continues(d, index) ==
  [ok |-> index = d.expectedIndex,
   next |-> IF index = d.expectedIndex THEN (d.expectedIndex + 1) % 4 ELSE 0]

\* A good packet of the service.
handlePacket(d, b) ==
  LET c == Continues(d, b.index)
      e == [Quiet(d) EXCEPT !.expectedIndex = c.next] IN
  IF c.ok THEN Assemble(e, b) ELSE e

\* A packet with a wrong CRC, or a padding packet, which has a count of its own:
\* the index is tested before either is noticed.
handleOtherPacket(d, index) == [Quiet(d) EXCEPT !.expectedIndex = Continues(d, index).next]
=============================================================================
