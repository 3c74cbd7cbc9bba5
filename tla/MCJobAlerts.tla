---------------------------- MODULE MCJobAlerts -----------------------------
(* JobAlerts over Outbox for TLC.                                          *)
EXTENDS JobAlerts
ByEmailAndPush == <<"email", "push">>
=============================================================================
