---------------------------- MODULE MCRdsDecoder -----------------------------
(* The two synchronisers for TLC: RdsDecoder with two stations, one of     *)
(* them with two radio texts; or DabSync.                                  *)
EXTENDS RdsDecoder, DabSync

CONSTANTS P, Q

Says(pi, kind, segment, flag, end) ==
  [pi |-> pi, kind |-> kind, segment |-> segment, flag |-> flag, end |-> end]

MCTypeB == {Says(P, "other", 0, 0, FALSE)}

MCGroup == MCTypeB
  \union {Says(P, "name", 0, 0, FALSE)}
  \union {Says(P, "text", s, f, FALSE) : s \in {0, 1}, f \in {0, 1}}
  \union {Says(Q, "text", 0, 0, TRUE)}

MCNoGroup == Says(NoPi, "name", 0, 0, FALSE)

MCOffset == {7, -23}
MCWrongEstimate == {-3, NoEstimate}

VARIABLE receiver

\* The receiver that is not looked at stays as it is.
MCInit ==
  /\ RdsInit /\ DabInit
  /\ \/ receiver = "rds" /\ ~ensemble /\ offset = 7 /\ pos = 0 /\ sLevel = Level
     \/ receiver = "dab" /\ air.block = BLOCK_A /\ air.bit = 0 /\ air.group \in MCTypeB

RdsNext == receiver = "rds" /\ processBit /\ UNCHANGED <<dabVars, receiver>>

MCNext ==
  RdsNext \/ (receiver = "dab" /\ DabNext /\ UNCHANGED <<vars, receiver>>)

OfDab(A) == receiver = "dab" /\ A /\ UNCHANGED <<vars, receiver>>

MCSpec ==
  /\ MCInit /\ [][MCNext]_<<vars, dabVars, receiver>>
  /\ WF_<<vars, dabVars, receiver>>(RdsNext)
  /\ WF_<<vars, dabVars, receiver>>(OfDab(Receiver))
  /\ WF_<<vars, dabVars, receiver>>(OfDab(Settle))
-----------------------------------------------------------------------------

\* As long as there are bits, and they become good, RDS locks again.
RdsRelocks == receiver = "rds" => Relocks
=============================================================================
