------------------------------ MODULE MCHiring ------------------------------
(* Hiring for TLC.  Two freelancers bid on p1, the second of them twice,   *)
(* and one of them also on p2.                                             *)
EXTENDS Hiring, TLC
ProjectOfProposal == [b \in Proposals |-> IF b = "b4" THEN "p2" ELSE "p1"]
BidderOfProposal == [b \in Proposals |-> IF b \in {"b2", "b3"} THEN "f2" ELSE "f1"]
RequestSymmetry == Permutations(Requests)
=============================================================================
