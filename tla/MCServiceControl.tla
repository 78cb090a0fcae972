-------------------------- MODULE MCServiceControl --------------------------
(* ServiceControl for TLC: channels, services, subchannels and addresses   *)
(* have no order and no special member.                                    *)
EXTENDS ServiceControl, TLC

Symmetry ==
  Permutations(Channel) \cup Permutations(Service) \cup Permutations(SubCh)
    \cup Permutations(Addr)

\* What is left of nextService when the timer is off is never read: only
\* setPresetStation reads it, and set_dabSystem leaves it as stopChannel left it.
\* The channel of an old name is not asked for, and while DAB is on only the name
\* in the settings is of use: leaving DAB writes the rest anew.
View ==
  <<todo, channel, running, serviceList, currentService,
    IF ~presetTimer THEN NoNext
    ELSE IF nextService.old THEN [nextService EXCEPT !.channel = None] ELSE nextService,
    IF running \/ dabSettings.old THEN <<dabSettings.presetName, dabSettings.old>>
    ELSE dabSettings,
    presetTimer, ensembleId, ad, fibVars, theBackends>>
=============================================================================
