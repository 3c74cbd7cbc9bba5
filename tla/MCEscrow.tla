------------------------------ MODULE MCEscrow ------------------------------
(* Small instances of Escrow for TLC.  The ids are interchangeable: no        *)
(* definition tells two milestones, intents or disputes apart.                *)
EXTENDS EscrowInvariant, TLC

IdSymmetry ==
    Permutations(Milestones) \cup Permutations(Intents) \cup Permutations(Disputes)
=============================================================================
