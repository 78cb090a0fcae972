---------------------------- MODULE MCFavourites -----------------------------
(* Favourites for TLC.                                                     *)
EXTENDS Favourites

\* The number of a keypad that is hidden is never read: showPad clears it.
FavouritesView ==
  <<decoder, vfoFrequency, IF isVisible THEN panel ELSE 0, isVisible, wires, form,
    tableWidget, presetSelector, files>>
=============================================================================
