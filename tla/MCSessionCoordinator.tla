----------------------- MODULE MCSessionCoordinator ------------------------
(***************************************************************************)
(* Small instances of SessionCoordinator for TLC.                          *)
(***************************************************************************)
EXTENDS SessionCoordinator, TLC

Symmetric == Permutations(Cards) \cup Permutations(Threads) \cup Permutations(Workers)
=============================================================================
