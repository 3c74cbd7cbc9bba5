--------------------------- MODULE MCOnboarding ---------------------------
(* Onboarding for TLC: one account and two or three requests at once.               *)
EXTENDS Onboarding
=============================================================================
