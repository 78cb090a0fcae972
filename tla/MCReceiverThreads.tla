------------------------- MODULE MCReceiverThreads --------------------------
(* ReceiverThreads for TLC: two channels, one FM frequency.                *)
EXTENDS ReceiverThreads
=============================================================================
