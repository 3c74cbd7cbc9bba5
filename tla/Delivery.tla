------------------------------ MODULE Delivery ------------------------------
(***************************************************************************)
(* What a queued delivery promises (the package comment of backend/        *)
(* internal/notification/delivery/outbox): an intent is recorded once,     *)
(* attempts are made while it is open, and it ends once, either sent,      *)
(* which means that it arrived, or given up with its failure on record.    *)
(* A recipient who deletes the notification withdraws it; what was         *)
(* already under way may still arrive.                                     *)
(*                                                                         *)
(* The promise of one ending is kept by a claim that makes one sender at a *)
(* time.  A delivery whose claim lapses while somebody still sends has     *)
(* lost that: it may arrive after it ended, and its ending may be revised, *)
(* but what says that it was sent stays true.                              *)
(***************************************************************************)
CONSTANT Deliveries

VARIABLES promise, received, lapsed

kept == <<promise, received, lapsed>>

PromiseStatus == {"unmade", "open", "sent", "abandoned", "withdrawn"}

Init ==
    /\ promise = [d \in Deliveries |-> "unmade"]
    /\ received = [d \in Deliveries |-> FALSE]
    /\ lapsed = {}

Moves(d, from, to) ==
    /\ promise[d] \in from
    /\ promise' = [promise EXCEPT ![d] = to]
    /\ to = "sent" => received[d]
    /\ UNCHANGED <<received, lapsed>>

Arrives(d) ==
    /\ promise[d] \in {"open", "withdrawn"} \/ d \in lapsed
    /\ received' = [received EXCEPT ![d] = TRUE]
    /\ UNCHANGED <<promise, lapsed>>

\* Deleting a notification withdraws all of its deliveries at once.
Withdraw ==
    /\ \E S \in SUBSET Deliveries :
          promise' = [d \in Deliveries |-> IF d \in S THEN "withdrawn" ELSE promise[d]]
    /\ UNCHANGED <<received, lapsed>>

Lapses(d) ==
    /\ promise[d] = "open"
    /\ lapsed' = lapsed \cup {d}
    /\ UNCHANGED <<promise, received>>

Revised(d) ==
    /\ d \in lapsed
    /\ \E to \in {"open", "sent", "abandoned"} : Moves(d, {"open", "sent", "abandoned"}, to)

Next ==
    \/ \E d \in Deliveries :
          \/ Moves(d, {"unmade"}, "open")
          \/ \E to \in {"sent", "abandoned"} : Moves(d, {"open"}, to)
          \/ Arrives(d) \/ Lapses(d) \/ Revised(d)
    \/ Withdraw

Spec == Init /\ [][Next]_kept
=============================================================================
