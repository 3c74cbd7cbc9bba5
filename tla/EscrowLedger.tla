---------------------------- MODULE EscrowLedger ----------------------------
(***************************************************************************)
(* What the escrow promises about money, and nothing else: a charge is     *)
(* collected into escrow for one milestone, and leaves it once, either to  *)
(* the freelancer or back to the client.  While it has not gone back, no   *)
(* other charge is collected for the same milestone, and once a milestone  *)
(* is paid out none ever is.                                               *)
(***************************************************************************)
CONSTANTS Charges, Steps, None

VARIABLES money,    \* where the money of each charge is
          paysFor   \* the milestone it was collected for

ledger == <<money, paysFor>>

Place == {"uncollected", "escrow", "freelancer", "client"}

Init ==
    /\ money = [c \in Charges |-> "uncollected"]
    /\ paysFor = [c \in Charges |-> None]

Collect(c, m) ==
    /\ money[c] = "uncollected"
    /\ \A d \in Charges : paysFor[d] = m => money[d] = "client"
    /\ money' = [money EXCEPT ![c] = "escrow"]
    /\ paysFor' = [paysFor EXCEPT ![c] = m]

PayOut(c) ==
    /\ money[c] = "escrow"
    /\ money' = [money EXCEPT ![c] = "freelancer"]
    /\ UNCHANGED paysFor

Return(c) ==
    /\ money[c] = "escrow"
    /\ money' = [money EXCEPT ![c] = "client"]
    /\ UNCHANGED paysFor

Next ==
    \E c \in Charges :
        \/ \E m \in Steps : Collect(c, m)
        \/ PayOut(c)
        \/ Return(c)

Spec == Init /\ [][Next]_ledger
=============================================================================
