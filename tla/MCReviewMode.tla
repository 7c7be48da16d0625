--------------------------- MODULE MCReviewMode ----------------------------
(***************************************************************************)
(* Small instances of ReviewMode for TLC.                                  *)
(***************************************************************************)
EXTENDS ReviewMode, TLC

Symmetric == Permutations(Players) \cup Permutations(Cards) \cup Permutations(Ratings)
=============================================================================
