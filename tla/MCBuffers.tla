----------------------------- MODULE MCBuffers ------------------------------
(* The buffers between threads, for TLC: the blocks on their way to the    *)
(* backends; or the sound on its way to the card; or SampleRing alone,     *)
(* used by two threads in any way.                                         *)
EXTENDS MCMscHandler, AudioOutput

VARIABLE use

MCTenth  == [r \in Rate |-> IF r = 48 THEN 4 ELSE 2]
MCEighth == [r \in Rate |-> IF r = 48 THEN 5 ELSE 3]
MCInput  == [r \in Rate |-> IF r = 32 THEN 2 ELSE 1]

\* What is not looked at stays as it is; the card's buffer begins with the wrong side.
MCInit ==
  /\ MscInit /\ AudioInit
  /\ use \in {"blocks", "sound", "any threads"}
  /\ use # "any threads" => buffer = [i \in 0 .. Size - 1 |-> Right]

MCNext ==
  /\ \/ use = "blocks" /\ MscNext /\ ~torn' /\ UNCHANGED audioVars
     \/ use = "sound" /\ AudioNext /\ UNCHANGED allVars
     \/ /\ use = "any threads" /\ RingNext
        /\ UNCHANGED <<system, muting, decoders, mixer, mixing, request, card, allVars>>
  /\ UNCHANGED use

MCSpec == MCInit /\ [][MCNext]_<<allVars, audioVars, use>>
-----------------------------------------------------------------------------

\* The sound card is given left and right in turn, whatever the decoders deliver.
SoundSides == use = "sound" => SidesKept
=============================================================================
