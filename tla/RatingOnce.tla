----------------------------- MODULE RatingOnce -----------------------------
(***************************************************************************)
(* What the Review Transaction coordinator promises, without saying how:   *)
(* a transaction rates a card in Anki at most once, and the player is told *)
(* that a rating is applied only after Anki has applied it (ADR 0008,      *)
(* review.py:3-14).                                                        *)
(***************************************************************************)
EXTENDS Naturals

CONSTANT Txs   \* reviewTransactionIds

VARIABLES
  rated,  \* reviews Anki committed for each transaction
  told    \* transactions whose client was told "applied"

Init ==
  /\ rated = [tx \in Txs |-> 0]
  /\ told = {}

Rate(tx) ==
  /\ rated[tx] = 0
  /\ rated' = [rated EXCEPT ![tx] = 1]
  /\ UNCHANGED told

Tell(tx) ==
  /\ rated[tx] = 1
  /\ told' = told \cup {tx}
  /\ UNCHANGED rated

Next == \E tx \in Txs : Rate(tx) \/ Tell(tx)

Spec == Init /\ [][Next]_<<rated, told>>
=============================================================================
