------------------------------ MODULE MCAddOn ------------------------------
(***************************************************************************)
(* Small instances of AddOn for TLC.                                       *)
(***************************************************************************)
EXTENDS AddOn
=============================================================================
