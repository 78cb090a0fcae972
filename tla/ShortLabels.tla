---------------------------- MODULE ShortLabels ----------------------------
(***************************************************************************)
(* Backends with the labels in short X-PAD that handle_shortPAD is made    *)
(* for: of two segments or more, each of two characters or more.  The end  *)
(* of a segment that is the first and the last shows nothing, and a        *)
(* segment of one character is lost when the next begins right behind it.  *)
(***************************************************************************)
EXTENDS Backends

ASSUME ShortLabelAssumption ==
  \A l \in ShortLabel :
    /\ Len(Characters[l]) >= 2
    /\ \A s \in Segment(l) : Characters[l][s] >= 2
=============================================================================
