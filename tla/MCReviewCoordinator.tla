------------------------ MODULE MCReviewCoordinator ------------------------
(***************************************************************************)
(* Small instances of ReviewCoordinator for TLC.                           *)
(***************************************************************************)
EXTENDS ReviewCoordinator, TLC

CONSTANTS card1, card2, home, away

OneCollection == [id \in Identities |-> home]
TwoCollections == [id \in Identities |-> IF id = card1 THEN home ELSE away]

\* Which worker serves which transaction makes no difference; the cards are of
\* different collections.
Symmetric == Permutations(Txs) \cup Permutations(Workers)
=============================================================================
