---------------------------- MODULE MCConnection ---------------------------
(***************************************************************************)
(* Small instances of Connection for TLC.                                  *)
(***************************************************************************)
EXTENDS Connection, TLC

Symmetric == Permutations(Ports) \cup Permutations(Generated)
=============================================================================
