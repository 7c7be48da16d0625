------------------------------ MODULE MCStore ------------------------------
(***************************************************************************)
(* Small instances of Store for TLC.                                       *)
(***************************************************************************)
EXTENDS Store, TLC

CONSTANTS map

OneMap == [e \in Entities |-> map]
Symmetric == Permutations(Entities) \cup Permutations(Cards) \cup Permutations(Locators)
=============================================================================
