-------------------------------- MODULE MCGui --------------------------------
(* The GUI for TLC: it selects services, or it keeps favourites.  Channels, *)
(* services, subchannels and addresses have no order and no special member. *)
EXTENDS MCServiceControl, MCFavourites

VARIABLE use

\* What is not looked at stays as it is.
MCInit == Init /\ FavouritesInit /\ use \in {"services", "favourites"}

MCNext ==
  /\ \/ use = "services" /\ Next /\ UNCHANGED favVars
     \/ use = "favourites" /\ FavouritesNext /\ UNCHANGED vars
  /\ UNCHANGED use

MCSpec == MCInit /\ [][MCNext]_<<vars, favVars, use>>

MCView == <<View, FavouritesView, use>>
=============================================================================
