---------------------------- MODULE MCFibDecoder -----------------------------
(* FibDecoder for TLC: a service with a second component, and one with data. *)
EXTENDS FibDecoder

CONSTANTS s1, s2, c1, c2, p, A, A1, B

MCNamed ==
  {[label |-> A, SId |-> s1, SCIds |-> 0], [label |-> A1, SId |-> s1, SCIds |-> 1],
   [label |-> B, SId |-> s2, SCIds |-> 0]}

Audio(s, nr, c) == [SId |-> s, componentNr |-> nr, TMid |-> "audio", SCIds |-> nr,
                    subchannelId |-> c, SCId |-> None]
Packet(s, nr, c) == [SId |-> s, componentNr |-> nr, TMid |-> "packet", SCIds |-> nr,
                     subchannelId |-> c, SCId |-> p]

MCOnAir == {Audio(s1, 0, c1), Audio(s1, 1, c2), Packet(s2, 0, c2)}

\* That the flag before was 1 has the same consequences as that it was 0, and
\* the answer before has none; it is checked in the step that gives it.  Nothing is
\* asked of the answer to a question that a change of configuration overtook.
View == <<services, currentConfig, nextConfig, prevChangeFlag = 3, serviceList,
          IF query # NoQuery /\ ~query.kept THEN "overtaken" ELSE query, steady>>
=============================================================================
