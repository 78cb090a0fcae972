---------------------------- MODULE MCMscHandler ----------------------------
(***************************************************************************)
(* The small instance of MscHandler that TLC checks: frames of one         *)
(* reference block and two CIFs of two blocks, three frame labels.         *)
(***************************************************************************)
EXTENDS MscHandler

=============================================================================
