----------------------------- MODULE MCPayouts -----------------------------
(* Small instances of Payouts for TLC. *)
EXTENDS Payouts, TLC

CONSTANTS p1, p2, f1

OnePayee == [p \in Payouts |-> f1]
IdSymmetry == Permutations(Payouts) \cup Permutations(Replicas)
=============================================================================
