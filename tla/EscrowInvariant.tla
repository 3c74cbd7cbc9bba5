-------------------------- MODULE EscrowInvariant --------------------------
(***************************************************************************)
(* The inductive invariant behind the safety properties of Escrow: what    *)
(* each table says of the others between any two steps.                    *)
(***************************************************************************)
EXTENDS Escrow, FiniteSets

InEscrow == HoldsEscrow \cup {"disputed"}

\* An intent exists once its request has inserted it, waits for payment until
\* the request has answered, and cannot have failed while its client may pay.
RequestsMakeIntents ==
    \A i \in Intents :
        /\ request[i] = "none" =>
               /\ intent[i] = "none" /\ forMilestone[i] = None
               /\ charge[i] = "none" /\ ~reference[i]
        /\ request[i] # "none" => intent[i] # "none" /\ forMilestone[i] \in Milestones
        /\ request[i] \in {"inserted", "charged"} =>
               intent[i] = "requires_payment" /\ ~reference[i]
        /\ request[i] = "returned" /\ charge[i] # "failed" => intent[i] # "failed"
        /\ charge[i] \in {"paid", "mispaid"} => request[i] = "returned"
        /\ intent[i] \in {"held_in_escrow", "released", "refunded"} => charge[i] = "paid"

\* The status of an intent fixes what its milestone can be, and the money of a
\* milestone is somewhere.
IntentsFollowMilestones ==
    /\ \A i \in Intents :
        LET m == forMilestone[i] IN
        /\ intent[i] = "requires_payment" => milestone[m] = "pending"
        /\ intent[i] = "held_in_escrow" => milestone[m] \in InEscrow
        /\ intent[i] = "released" => milestone[m] = "released"
        /\ intent[i] = "refunded" => milestone[m] = "cancelled"
    /\ \A m \in Milestones :
        /\ milestone[m] \in InEscrow =>
               \E i \in Intents : forMilestone[i] = m /\ intent[i] = "held_in_escrow"
        /\ milestone[m] = "released" =>
               \E i \in Intents : forMilestone[i] = m /\ intent[i] = "released"

\* At most one intent of a milestone is live or released.
OneCurrentIntent ==
    \A i, j \in Intents :
        /\ forMilestone[i] = forMilestone[j]
        /\ intent[i] \in LiveIntent \cup {"released"}
        /\ intent[j] \in LiveIntent \cup {"released"}
        => i = j

\* A payout is recorded with its release, a refund after the processor's.
PayoutsAndRefunds ==
    \A i \in Intents :
        /\ i \in payouts <=> intent[i] = "released"
        /\ intent[i] = "refunded" => i \in refunds
        /\ i \in refunds => charge[i] = "paid"

\* An open transaction found its milestone as its kind requires, and keeps it so.
TransactionsHoldTheirRows ==
    \A m \in Milestones :
        /\ txn[m].kind = "release" => milestone[m] = "submitted"
        /\ txn[m].kind = "refund" => milestone[m] \in HoldsEscrow
        /\ txn[m].kind \in {"decide_release", "decide_refund"} =>
               /\ txn[m].dispute \in Disputes
               /\ dispute[txn[m].dispute] = "open"
               /\ disputed[txn[m].dispute] = m

\* An open dispute has frozen its milestone, and is the only one.
DisputesFreezeMilestones ==
    \A d \in Disputes :
        dispute[d] = "open" =>
            /\ disputed[d] \in Milestones
            /\ milestone[disputed[d]] = "disputed"
            /\ \A e \in Disputes : dispute[e] = "open" => e = d

MoneyInv ==
    /\ TypeOK
    /\ RequestsMakeIntents
    /\ IntentsFollowMilestones
    /\ OneCurrentIntent
    /\ PayoutsAndRefunds
    /\ TransactionsHoldTheirRows
    /\ DisputesFreezeMilestones

\* While the processor's refund is never lost, the only money that has gone
\* back and is still recorded as held is that of a refund about to commit.
RefundsAreRecorded ==
    \A i \in refunds :
        \/ intent[i] = "refunded"
        \/ /\ intent[i] = "held_in_escrow"
           /\ txn[forMilestone[i]].kind \in {"refund", "decide_refund"}

\* The contract row follows its milestones and disputes; a transaction that is
\* going to complete the contract holds its last open milestone.
ContractFollowsMilestones ==
    /\ contract = "pending" =>
           \A m \in Milestones : milestone[m] \in {"none", "pending", "cancelled"}
    /\ contract = "completed" => OpenMilestones = {}
    /\ contract = "disputed" <=> \E d \in Disputes : dispute[d] = "open"
    /\ \A m \in Milestones : milestone[m] = "disputed" =>
           \E d \in Disputes : dispute[d] = "open" /\ disputed[d] = m
    /\ \A m \in Milestones : txn[m].completes =>
           /\ txn[m].kind \in {"release", "decide_release"}
           /\ OpenMilestones = {m}

\* What is under review, or was when a dispute froze it, has been delivered.
AwaitsVerdict(m) ==
    /\ deliveries[m] # <<>>
    /\ deliveries[m][Len(deliveries[m])] = "submitted"
ReviewHasDelivery ==
    /\ \A m \in Milestones : milestone[m] = "submitted" => AwaitsVerdict(m)
    /\ \A d \in Disputes :
           dispute[d] = "open" /\ statusBefore[d] = "submitted" => AwaitsVerdict(disputed[d])

\* What is scheduled fits the contract, and is all of it when a transaction is
\* about to complete the contract and ever after.
Scheduled == {m \in Milestones : milestone[m] \notin {"none", "cancelled"}}
ScheduleInv ==
    /\ IsFiniteSet(Scheduled)
    /\ Allocated <= Total
    /\ \A m \in Milestones : txn[m].completes => Allocated = Total
    /\ contract = "completed" => Allocated = Total

EscrowInv ==
    MoneyInv /\ ContractFollowsMilestones /\ ReviewHasDelivery /\ ScheduleInv

\* What the recorded payouts add up to, each worth the milestone it is for.
PaidOut ==
    SumFunctionOnSet([i \in payouts |-> amount[forMilestone[i]]], payouts)

\* The freelancer is never paid more than the contract is worth, and exactly
\* that by the time it is completed, though the payouts, the milestones and the
\* contract are three tables.
PaysTheContract ==
    /\ PaidOut <= Total
    /\ contract = "completed" => PaidOut = Total

\* The client who has the checkout link is known to the intent.
AnsweredIsStored ==
    \A i \in Intents : request[i] = "returned" => reference[i]

\* The notification of a capture that is still waited for is never refused:
\* its intent is found by the reference, it and its milestone are as
\* ConfirmPaymentHeld requires, and no transaction holds the milestone.
CaptureIsTaken ==
    \A i \in Intents :
        charge[i] = "paid" /\ intent[i] = "requires_payment" =>
            reference[i] /\ Confirmable(i) /\ Unlocked(forMilestone[i])
=============================================================================
