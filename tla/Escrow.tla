------------------------------- MODULE Escrow -------------------------------
(***************************************************************************)
(* The escrow of one freelance contract: how its value is scheduled into   *)
(* milestones, how each milestone is paid for, delivered, approved,        *)
(* disputed, released or refunded (backend/internal/freelance: service/    *)
(* escrow.go and disputes.go over repository/escrow_repository.go and      *)
(* dispute_repository.go).                                                 *)
(*                                                                         *)
(* Every statement of that code is keyed by a contract, a milestone, an    *)
(* intent or a dispute, so contracts do not interfere and one of them is   *)
(* modelled.  A database transaction that holds its row locks from its     *)
(* first statement to its commit is one action.  Two kinds are not: those  *)
(* that call the payment processor while they hold their locks, and those  *)
(* that decide on a read of rows they have not locked                      *)
(* (completeContractIfDone).  They are a Begin and a Commit action, with   *)
(* the locked milestone in txn in between.  FundMilestone is not a         *)
(* transaction at all: each of its statements is an action of its own.     *)
(*                                                                         *)
(* Faults names the failures a behaviour may contain:                      *)
(*   "abandon"  a FundMilestone request ends (its context is cancelled or  *)
(*              its replica dies) and nothing it had left to do happens;   *)
(*   "lost"     the processor refunds a charge but the transaction that    *)
(*              asked for it rolls back (a lost answer, a failed commit);  *)
(*   "mispaid"  the processor captures another amount than it was asked.   *)
(***************************************************************************)
EXTENDS Integers, Sequences, Functions

CONSTANTS Milestones,     \* ids of the contract's milestone rows
          Intents,        \* ids of its payment intent rows
          Disputes,       \* ids of its dispute rows
          Total,          \* the contract's total_amount_minor_units
          Amounts,        \* the amounts a client may give a milestone
          MaxDeliveries,  \* bound: deliveries submitted per milestone
          ProjectWrites,  \* statuses the project module may write meanwhile
          Faults,
          None            \* "no row"

ASSUME EscrowAssumption ==
    /\ Total \in Nat
    /\ Amounts \subseteq Nat \ {0}
    /\ MaxDeliveries \in Nat
    /\ ProjectWrites \subseteq {"hired", "active", "disputed", "completed", "cancelled"}
    /\ Faults \subseteq {"abandon", "lost", "mispaid"}
    /\ None \notin Milestones \cup Disputes

VARIABLES
    contract,      \* status of the contract row
    project,       \* status of its project row
    milestone,     \* status of each milestone row, "none" before it is added
    amount,        \* its amount
    deliveries,    \* statuses of its deliveries, oldest first
    intent,        \* status of each payment intent row
    forMilestone,  \* the milestone it pays for
    reference,     \* whether the processor's handle has been stored on it
    payouts,       \* the intents a payout row has been recorded for
    dispute,       \* status of each dispute row
    disputed,      \* the milestone it is about
    statusBefore,  \* milestone_status_before
    request,       \* progress of the FundMilestone call that made an intent
    charge,        \* the processor's charge for an intent
    refunds,       \* the intents whose charge the processor has refunded
    txn            \* the open transaction holding a milestone's row lock

rowVars  == <<milestone, amount, deliveries>>
moneyVars == <<intent, forMilestone, reference, payouts>>
disputeVars == <<dispute, disputed, statusBefore>>
processorVars == <<charge, refunds>>
vars == <<contract, project, rowVars, moneyVars, disputeVars, request,
          processorVars, txn>>

-----------------------------------------------------------------------------
(* Statuses.  Those no code path writes (approved, processing, a cancelled   *)
(* intent or contract, a dispute under review) are left out of the types.    *)

ContractStatus == {"pending", "active", "disputed", "completed"}
ProjectStatus == {"hired", "active", "disputed", "completed", "cancelled"}
\* Mutant: a disputed milestone can be refunded by the freelancer.
HoldsEscrowOrDisputed == {"funded", "in_progress", "submitted", "disputed"}
HoldsEscrow == {"funded", "in_progress", "submitted"}
MilestoneStatus ==
    {"none", "pending", "released", "cancelled", "disputed"} \cup HoldsEscrow
LiveIntent == {"requires_payment", "held_in_escrow"}
IntentStatus == {"none", "released", "refunded", "failed"} \cup LiveIntent
DisputeStatus == {"none", "open", "resolved", "withdrawn"}
DeliveryStatus == {"submitted", "accepted", "revision_requested"}
RequestStatus ==
    {"none", "inserted", "charged", "errored", "returned", "failed", "abandoned"}
ChargeStatus == {"none", "open", "paid", "mispaid", "failed"}
TxnKind == {"none", "release", "refund", "decide_release", "decide_refund"}

NoTxn == [kind |-> "none", completes |-> FALSE, dispute |-> None]

IntentsOf(m) == {i \in Intents : forMilestone[i] = m}
Held(m) == {i \in IntentsOf(m) : intent[i] = "held_in_escrow"}

\* Mutant: rows are read without FOR UPDATE.
UnlockedAlways(m) == TRUE
\* No transaction holds the row lock of m.
Unlocked(m) == txn[m].kind = "none"

\* Mutant: only money already collected counts.
NoHeldIntent(m) == Held(m) = {}
\* What the unique index over live intents and CancelPendingMilestone's count
\* see.
NoLiveIntent(m) == \A i \in IntentsOf(m) : intent[i] \notin LiveIntent

\* What the contract's milestones add up to: every one that is not cancelled.
Allocated ==
    SumFunctionOnSet(amount,
        {m \in Milestones : milestone[m] \notin {"none", "cancelled"}})

\* Milestones that still have work or money to come.
OpenMilestones ==
    {m \in Milestones : milestone[m] \notin {"none", "released", "cancelled"}}

Init ==
    /\ contract = "pending"
    /\ project = "hired"
    /\ milestone = [m \in Milestones |-> "none"]
    /\ amount = [m \in Milestones |-> 0]
    /\ deliveries = [m \in Milestones |-> <<>>]
    /\ intent = [i \in Intents |-> "none"]
    /\ forMilestone = [i \in Intents |-> None]
    /\ reference = [i \in Intents |-> FALSE]
    /\ payouts = {}
    /\ dispute = [d \in Disputes |-> "none"]
    /\ disputed = [d \in Disputes |-> None]
    /\ statusBefore = [d \in Disputes |-> "none"]
    /\ request = [i \in Intents |-> "none"]
    /\ charge = [i \in Intents |-> "none"]
    /\ refunds = {}
    /\ txn = [m \in Milestones |-> NoTxn]

-----------------------------------------------------------------------------
(* Scheduling *)

\* Mutant: checks that something is left, not that it is enough.
SomethingLeft(a) == Allocated < Total
FitsContract(a) == Allocated + a <= Total

\* AddMilestone locks the contract row FOR UPDATE, which waits for every
\* transaction that has inserted a row referencing the contract.
AddMilestone(m, a) ==
    /\ milestone[m] = "none"
    /\ contract # "completed"
    /\ \A n \in Milestones : txn[n].kind \notin {"release", "decide_release"}
    /\ FitsContract(a)
    /\ milestone' = [milestone EXCEPT ![m] = "pending"]
    /\ amount' = [amount EXCEPT ![m] = a]
    /\ UNCHANGED <<contract, project, deliveries, moneyVars, disputeVars,
                   request, processorVars, txn>>

\* CancelMilestone: only an unfunded milestone with no payment in flight.
CancelMilestone(m) ==
    /\ milestone[m] = "pending"
    /\ Unlocked(m)
    /\ NoLiveIntent(m)
    /\ milestone' = [milestone EXCEPT ![m] = "cancelled"]
    /\ UNCHANGED <<contract, project, amount, deliveries, moneyVars,
                   disputeVars, request, processorVars, txn>>

-----------------------------------------------------------------------------
(* Funding.  FundMilestone is one request but several commits: the intent    *)
(* row, the processor's charge, the stored reference.                        *)

\* The intent is inserted under the milestone's lock, and the unique index
\* over live intents refuses a second one for the same milestone.
FundMilestone(i, m) ==
    /\ request[i] = "none"
    /\ contract # "completed"
    /\ milestone[m] = "pending"
    /\ Unlocked(m)
    /\ NoLiveIntent(m)
    /\ request' = [request EXCEPT ![i] = "inserted"]
    /\ intent' = [intent EXCEPT ![i] = "requires_payment"]
    /\ forMilestone' = [forMilestone EXCEPT ![i] = m]
    /\ UNCHANGED <<contract, project, rowVars, reference, payouts, disputeVars,
                   processorVars, txn>>

CreateCharge(i) ==
    /\ request[i] = "inserted"
    /\ request' = [request EXCEPT ![i] = "charged"]
    /\ charge' = [charge EXCEPT ![i] = "open"]
    /\ UNCHANGED <<contract, project, rowVars, moneyVars, disputeVars, refunds, txn>>

\* The processor refuses, or its answer is lost after it created the charge.
CreateChargeFails(i) ==
    /\ request[i] = "inserted"
    /\ request' = [request EXCEPT ![i] = "errored"]
    /\ charge' \in {charge, [charge EXCEPT ![i] = "open"]}
    /\ UNCHANGED <<contract, project, rowVars, moneyVars, disputeVars, refunds, txn>>

\* The reference is stored and the client is given the checkout link.
StoreReference(i) ==
    /\ request[i] = "charged"
    /\ request' = [request EXCEPT ![i] = "returned"]
    /\ reference' = [reference EXCEPT ![i] = TRUE]
    /\ UNCHANGED <<contract, project, rowVars, intent, forMilestone, payouts,
                   disputeVars, processorVars, txn>>

\* The write fails, or is made and its acknowledgement lost.
StoreReferenceFails(i) ==
    /\ request[i] = "charged"
    /\ request' = [request EXCEPT ![i] = "errored"]
    /\ reference' \in {reference, [reference EXCEPT ![i] = TRUE]}
    /\ UNCHANGED <<contract, project, rowVars, intent, forMilestone, payouts,
                   disputeVars, processorVars, txn>>

\* Mutant: the request ends without failing its intent.
FailPaymentIntentSkipped(i) ==
    /\ request[i] = "errored"
    /\ request' = [request EXCEPT ![i] = "failed"]
    /\ UNCHANGED <<contract, project, rowVars, moneyVars, disputeVars,
                   processorVars, txn>>
\* FailPaymentIntent, the clean-up of both error paths.
FailPaymentIntent(i) ==
    /\ request[i] = "errored"
    /\ request' = [request EXCEPT ![i] = "failed"]
    /\ intent' = [intent EXCEPT ![i] = IF @ = "requires_payment" THEN "failed" ELSE @]
    /\ UNCHANGED <<contract, project, rowVars, forMilestone, reference, payouts,
                   disputeVars, processorVars, txn>>

\* The request dies where it is.  FailPaymentIntent runs on the context of the
\* request and its error is discarded, so a cancelled request loses it as well.
AbandonRequest(i) ==
    /\ "abandon" \in Faults
    /\ request[i] \in {"inserted", "charged", "errored"}
    /\ request' = [request EXCEPT ![i] = "abandoned"]
    /\ UNCHANGED <<contract, project, rowVars, moneyVars, disputeVars,
                   processorVars, txn>>

-----------------------------------------------------------------------------
(* The processor and its webhooks.  A charge settles once; the notification  *)
(* of it arrives any number of times, in any order with the others, or not.  *)

\* Only a client who was given the checkout link can pay.
ClientPays(i) ==
    /\ charge[i] = "open"
    /\ request[i] = "returned"
    /\ charge' \in {[charge EXCEPT ![i] = s] :
                      s \in {"paid"} \cup (IF "mispaid" \in Faults THEN {"mispaid"} ELSE {})}
    /\ UNCHANGED <<contract, project, rowVars, moneyVars, disputeVars, request,
                   refunds, txn>>

ChargeFails(i) ==
    /\ charge[i] = "open"
    /\ charge' = [charge EXCEPT ![i] = "failed"]
    /\ UNCHANGED <<contract, project, rowVars, moneyVars, disputeVars, request,
                   refunds, txn>>

\* Mutant: any capture not held yet is applied.
ConfirmableAgain(i) == intent[i] # "held_in_escrow"
\* The state ConfirmPaymentHeld applies a capture in.  It acknowledges one
\* already held or released, and answers a conflict to any other.
Confirmable(i) ==
    intent[i] = "requires_payment" /\ milestone[forMilestone[i]] = "pending"

\* ConfirmPaymentHeld, for a capture of the amount asked (checkCapturedAmount
\* refuses any other).
PaymentSucceeded(i) ==
    LET m == forMilestone[i] IN
    /\ charge[i] = "paid"
    /\ reference[i]
    /\ Confirmable(i)
    /\ Unlocked(m)
    /\ intent' = [intent EXCEPT ![i] = "held_in_escrow"]
    /\ milestone' = [milestone EXCEPT ![m] = "funded"]
    /\ contract' = IF contract = "pending" THEN "active" ELSE contract
    /\ project' = IF contract = "pending" /\ project = "hired" THEN "active" ELSE project
    /\ UNCHANGED <<amount, deliveries, forMilestone, reference, payouts,
                   disputeVars, request, processorVars, txn>>

\* MarkPaymentFailed, one guarded UPDATE.
PaymentFailed(i) ==
    /\ charge[i] = "failed"
    /\ reference[i]
    /\ intent[i] = "requires_payment"
    /\ intent' = [intent EXCEPT ![i] = "failed"]
    /\ UNCHANGED <<contract, project, rowVars, forMilestone, reference, payouts,
                   disputeVars, request, processorVars, txn>>

-----------------------------------------------------------------------------
(* Delivery and review *)

\* reviewLatestDelivery: the verdict goes to the newest delivery still
\* submitted.
Reviewed(s, verdict) ==
    [n \in DOMAIN s |->
        IF s[n] = "submitted" /\ \A k \in (n + 1)..Len(s) : s[k] # "submitted"
        THEN verdict ELSE s[n]]

SubmitMilestone(m) ==
    /\ milestone[m] \in {"funded", "in_progress"}
    /\ Unlocked(m)
    /\ Len(deliveries[m]) < MaxDeliveries
    /\ milestone' = [milestone EXCEPT ![m] = "submitted"]
    /\ deliveries' = [deliveries EXCEPT ![m] = Append(@, "submitted")]
    /\ UNCHANGED <<contract, project, amount, moneyVars, disputeVars, request,
                   processorVars, txn>>

\* Mutant: the verdict is recorded and the milestone left under review.
RequestRevisionKeepsStatus(m) ==
    /\ milestone[m] = "submitted"
    /\ Unlocked(m)
    /\ deliveries' = [deliveries EXCEPT ![m] = Reviewed(@, "revision_requested")]
    /\ UNCHANGED <<contract, project, milestone, amount, moneyVars, disputeVars,
                   request, processorVars, txn>>
RequestRevision(m) ==
    /\ milestone[m] = "submitted"
    /\ Unlocked(m)
    /\ milestone' = [milestone EXCEPT ![m] = "in_progress"]
    /\ deliveries' = [deliveries EXCEPT ![m] = Reviewed(@, "revision_requested")]
    /\ UNCHANGED <<contract, project, amount, moneyVars, disputeVars, request,
                   processorVars, txn>>

-----------------------------------------------------------------------------
(* Release.  The transaction writes its milestone, intent, delivery and      *)
(* payout, then reads the whole contract without locking it to decide        *)
(* whether the contract is complete, and only then commits.                  *)

\* Mutant: completes once everything is scheduled.
CompletesWhenScheduled(m, status) == status = "active" /\ Allocated = Total
\* completeContractIfDone, as the transaction releasing m sees the contract:
\* its own write is done, those of other open transactions are not there yet.
Completes(m, status) ==
    status = "active" /\ OpenMilestones = {m} /\ Allocated = Total

Begin(m, kind, completes, d) ==
    txn' = [txn EXCEPT ![m] = [kind |-> kind, completes |-> completes, dispute |-> d]]

\* ApproveMilestone up to the last statement before its commit.
ReleaseMilestone(m) ==
    /\ milestone[m] = "submitted"
    /\ Unlocked(m)
    /\ Held(m) # {}
    /\ Begin(m, "release", Completes(m, contract), None)
    /\ UNCHANGED <<contract, project, rowVars, moneyVars, disputeVars, request,
                   processorVars>>

\* Mutant: the dispute ends, the contract stays disputed.
ContractKept == contract
\* Mutant: restored to a status the escrow flow never uses.
ContractInProgress == IF contract = "disputed" THEN "in_progress" ELSE contract
\* setContractAndProject(disputed -> active), which ends every dispute.
RestoredContract == IF contract = "disputed" THEN "active" ELSE contract
RestoredProject ==
    IF contract = "disputed" /\ project = "disputed" THEN "active" ELSE project

CompleteProject(status, completes) ==
    IF completes /\ status = "active" THEN "completed" ELSE status

\* The commit of a release, approved by the client or decided by a dispute.
ReleaseCommits(m) ==
    LET completes == txn[m].completes
        decided == txn[m].kind = "decide_release"
    IN
    /\ txn[m].kind \in {"release", "decide_release"}
    /\ milestone' = [milestone EXCEPT ![m] = "released"]
    /\ intent' = [i \in Intents |-> IF i \in Held(m) THEN "released" ELSE intent[i]]
    /\ payouts' = payouts \cup Held(m)
    /\ deliveries' = [deliveries EXCEPT ![m] = Reviewed(@, "accepted")]
    /\ dispute' = IF decided THEN [dispute EXCEPT ![txn[m].dispute] = "resolved"] ELSE dispute
    /\ contract' = IF completes THEN "completed"
                   ELSE IF decided THEN RestoredContract ELSE contract
    /\ project' = CompleteProject(IF decided THEN RestoredProject ELSE project, completes)
    /\ txn' = [txn EXCEPT ![m] = NoTxn]
    /\ UNCHANGED <<amount, forMilestone, reference, disputed, statusBefore,
                   request, processorVars>>

-----------------------------------------------------------------------------
(* Refund.  The processor is called with the milestone and intent locked.    *)

\* RefundMilestone, the freelancer giving the money back.
RefundMilestone(m) ==
    /\ milestone[m] \in HoldsEscrow
    /\ Unlocked(m)
    /\ Held(m) # {}
    /\ Begin(m, "refund", FALSE, None)
    /\ UNCHANGED <<contract, project, rowVars, moneyVars, disputeVars, request,
                   processorVars>>

\* The processor returns the charge.  It is asked under an idempotency key per
\* intent, so a charge it has refunded is not refunded again.
ProcessorRefunds(m) ==
    /\ txn[m].kind \in {"refund", "decide_refund"}
    /\ Held(m) \cap refunds = {}
    /\ refunds' = refunds \cup Held(m)
    /\ UNCHANGED <<contract, project, rowVars, moneyVars, disputeVars, request,
                   charge, txn>>

\* The processor has confirmed the refund and the transaction commits.  A
\* decision also ends its dispute and runs completeContractIfDone, which sees
\* m already cancelled.
RefundCommits(m) ==
    LET decided == txn[m].kind = "decide_refund"
        completes ==
            /\ decided
            /\ RestoredContract = "active"
            /\ OpenMilestones = {m}
            /\ Allocated - amount[m] = Total
    IN
    /\ txn[m].kind \in {"refund", "decide_refund"}
    /\ Held(m) \subseteq refunds
    /\ milestone' = [milestone EXCEPT ![m] = "cancelled"]
    /\ intent' = [i \in Intents |-> IF i \in Held(m) THEN "refunded" ELSE intent[i]]
    /\ dispute' = IF decided THEN [dispute EXCEPT ![txn[m].dispute] = "resolved"] ELSE dispute
    /\ contract' = IF completes THEN "completed"
                   ELSE IF decided THEN RestoredContract ELSE contract
    /\ project' = CompleteProject(IF decided THEN RestoredProject ELSE project, completes)
    /\ txn' = [txn EXCEPT ![m] = NoTxn]
    /\ UNCHANGED <<amount, deliveries, forMilestone, reference, payouts, disputed,
                   statusBefore, request, processorVars>>

\* An open transaction ends without effect: the processor refused, a statement
\* failed, the connection was lost, the replica died.
Rollback(m) ==
    /\ ~Unlocked(m)
    /\ \/ "lost" \in Faults
       \/ txn[m].kind \in {"release", "decide_release"}
       \/ Held(m) \cap refunds = {}
    /\ txn' = [txn EXCEPT ![m] = NoTxn]
    /\ UNCHANGED <<contract, project, rowVars, moneyVars, disputeVars, request,
                   processorVars>>

-----------------------------------------------------------------------------
(* Disputes.  The unique index allows one open dispute per contract.         *)

OpenDispute(d, m) ==
    /\ dispute[d] = "none"
    /\ milestone[m] \in HoldsEscrow
    /\ Unlocked(m)
    /\ \A e \in Disputes : dispute[e] # "open"
    /\ dispute' = [dispute EXCEPT ![d] = "open"]
    /\ disputed' = [disputed EXCEPT ![d] = m]
    /\ statusBefore' = [statusBefore EXCEPT ![d] = milestone[m]]
    /\ milestone' = [milestone EXCEPT ![m] = "disputed"]
    /\ contract' = IF contract = "active" THEN "disputed" ELSE contract
    /\ project' = IF contract = "active" /\ project = "active" THEN "disputed" ELSE project
    /\ UNCHANGED <<amount, deliveries, moneyVars, request, processorVars, txn>>

\* lockOpenDispute: a decision or withdrawal locks the dispute and then its
\* milestone, so at most one of them runs.
DisputeLockable(d) == dispute[d] = "open" /\ Unlocked(disputed[d])

WithdrawDispute(d) ==
    LET m == disputed[d] IN
    /\ DisputeLockable(d)
    /\ dispute' = [dispute EXCEPT ![d] = "withdrawn"]
    /\ milestone' = [milestone EXCEPT ![m] =
                       IF @ # "disputed" THEN @
                       ELSE IF statusBefore[d] \in HoldsEscrow THEN statusBefore[d]
                       ELSE "funded"]
    /\ contract' = RestoredContract
    /\ project' = RestoredProject
    /\ UNCHANGED <<amount, deliveries, moneyVars, disputed, statusBefore, request,
                   processorVars, txn>>

\* ResolveDispute's common guard: the milestone is frozen and its money held.
Decidable(d) ==
    /\ DisputeLockable(d)
    /\ milestone[disputed[d]] = "disputed"
    /\ Held(disputed[d]) # {}

DecideRelease(d) ==
    LET m == disputed[d] IN
    /\ Decidable(d)
    /\ Begin(m, "decide_release", Completes(m, RestoredContract), d)
    /\ UNCHANGED <<contract, project, rowVars, moneyVars, disputeVars, request,
                   processorVars>>

DecideRefund(d) ==
    /\ Decidable(d)
    /\ Begin(disputed[d], "decide_refund", FALSE, d)
    /\ UNCHANGED <<contract, project, rowVars, moneyVars, disputeVars, request,
                   processorVars>>

\* Work resumes: nothing leaves escrow, so completeContractIfDone finds the
\* milestone open and does nothing.
DecideResume(d) ==
    /\ Decidable(d)
    /\ milestone' = [milestone EXCEPT ![disputed[d]] = "in_progress"]
    /\ dispute' = [dispute EXCEPT ![d] = "resolved"]
    /\ contract' = RestoredContract
    /\ project' = RestoredProject
    /\ UNCHANGED <<amount, deliveries, moneyVars, disputed, statusBefore, request,
                   processorVars, txn>>

\* The project module writes the project row on its own (an owner's edit, an
\* administrator's cancellation), waiting while a decision holds the row.
ProjectWritten(status) ==
    /\ \A m \in Milestones : ~txn[m].completes /\ txn[m].kind # "decide_release"
    /\ project' = status
    /\ UNCHANGED <<contract, rowVars, moneyVars, disputeVars, request,
                   processorVars, txn>>

-----------------------------------------------------------------------------
FundingNext(i) ==
    \/ \E m \in Milestones : FundMilestone(i, m)
    \/ CreateCharge(i)
    \/ CreateChargeFails(i)
    \/ StoreReference(i)
    \/ StoreReferenceFails(i)
    \/ FailPaymentIntent(i)
    \/ AbandonRequest(i)
    \/ ClientPays(i)
    \/ ChargeFails(i)
    \/ PaymentSucceeded(i)
    \/ PaymentFailed(i)

MilestoneNext(m) ==
    \/ \E a \in Amounts : AddMilestone(m, a)
    \/ CancelMilestone(m)
    \/ SubmitMilestone(m)
    \/ RequestRevision(m)
    \/ ReleaseMilestone(m)
    \/ ReleaseCommits(m)
    \/ RefundMilestone(m)
    \/ ProcessorRefunds(m)
    \/ RefundCommits(m)
    \/ Rollback(m)

DisputeNext(d) ==
    \/ \E m \in Milestones : OpenDispute(d, m)
    \/ WithdrawDispute(d)
    \/ DecideRelease(d)
    \/ DecideRefund(d)
    \/ DecideResume(d)

Next ==
    \/ \E i \in Intents : FundingNext(i)
    \/ \E m \in Milestones : MilestoneNext(m)
    \/ \E d \in Disputes : DisputeNext(d)
    \/ \E status \in ProjectWrites : ProjectWritten(status)

Spec == Init /\ [][Next]_vars

\* A request that is not abandoned runs to its end; a checkout link expires;
\* the processor redelivers a notification until it is acknowledged.  Nobody
\* is obliged to pay, deliver, approve or decide.
Fairness ==
    \A i \in Intents :
        /\ WF_vars(CreateCharge(i) \/ CreateChargeFails(i))
        /\ WF_vars(StoreReference(i) \/ StoreReferenceFails(i))
        /\ WF_vars(FailPaymentIntent(i))
        /\ WF_vars(ChargeFails(i))
        /\ WF_vars(PaymentSucceeded(i))
        /\ WF_vars(PaymentFailed(i))

FairSpec == Spec /\ Fairness

-----------------------------------------------------------------------------
(* Properties *)

\* The shape of the state.
TypeOK ==
    /\ contract \in ContractStatus
    /\ project \in ProjectStatus
    /\ milestone \in [Milestones -> MilestoneStatus]
    /\ amount \in [Milestones -> Nat]
    /\ deliveries \in [Milestones -> Seq(DeliveryStatus)]
    /\ intent \in [Intents -> IntentStatus]
    /\ forMilestone \in [Intents -> Milestones \cup {None}]
    /\ reference \in [Intents -> BOOLEAN]
    /\ payouts \subseteq Intents
    /\ dispute \in [Disputes -> DisputeStatus]
    /\ disputed \in [Disputes -> Milestones \cup {None}]
    /\ statusBefore \in [Disputes -> MilestoneStatus]
    /\ request \in [Intents -> RequestStatus]
    /\ charge \in [Intents -> ChargeStatus]
    /\ refunds \subseteq Intents
    /\ txn \in [Milestones -> [kind : TxnKind, completes : BOOLEAN,
                               dispute : Disputes \cup {None}]]

\* A milestone says its money is in escrow, or frozen by a dispute, exactly when
\* one intent of its holds it, and says released exactly when one intent of its
\* was released and backs a payout, whatever was retried, redelivered or raced
\* on the way (the milestone and intent statuses are two tables that every
\* escrow write moves together).
MoneyMatchesMilestone ==
    \A m \in Milestones :
        /\ milestone[m] \in HoldsEscrow \cup {"disputed"}
             <=> \E i \in Intents : Held(m) = {i}
        /\ milestone[m] = "released"
             <=> \E i \in Intents :
                     {j \in IntentsOf(m) : intent[j] = "released"} = {i}
        /\ \A i \in IntentsOf(m) : i \in payouts <=> intent[i] = "released"

\* Money the processor collected as asked is never lost track of: until it is
\* returned, its intent is live or released and its milestone is not cancelled,
\* so a confirmation that arrives late still finds its place (the lock in
\* CancelPendingMilestone and the guards of FailPaymentIntent).
CapturedMoneyHasAHome ==
    \A i \in Intents :
        charge[i] = "paid" /\ i \notin refunds =>
            /\ intent[i] \in LiveIntent \cup {"released"}
            /\ milestone[forMilestone[i]] # "cancelled"

\* A client is never charged twice for one step: at most one charge of a
\* milestone can still be paid or is paid and not returned (PaymentIntentStatus
\* IsLive and migration 0103's index).
Chargeable(i) ==
    /\ i \notin refunds
    /\ \/ charge[i] \in {"paid", "mispaid"}
       \/ charge[i] = "open" /\ request[i] = "returned"
ChargedOncePerMilestone ==
    \A i, j \in Intents :
        /\ i # j
        /\ forMilestone[i] = forMilestone[j]
        => ~(Chargeable(i) /\ Chargeable(j))

\* A payout is never recorded for money that was not collected or that went
\* back to the client (ReleaseMilestone refuses "a payout backed by no money").
PayoutBackedByMoney ==
    \A i \in payouts : charge[i] = "paid" /\ i \notin refunds

\* The live milestones never add up to more than the contract is worth
\* (CreateContractMilestone checks under the contract's lock).
ScheduleWithinTotal == Allocated <= Total

\* A completed contract is finished: its whole value was released, nothing is
\* scheduled, disputed or in an open transaction, and no client can still be
\* asked to pay (completeContractIfDone).
CompletedMeansSettled ==
    contract = "completed" =>
        /\ OpenMilestones = {}
        /\ Allocated = Total
        /\ \A i \in Intents : intent[i] \notin LiveIntent
        /\ \A d \in Disputes : dispute[d] # "open"
        /\ \A m \in Milestones : Unlocked(m)

\* The open dispute, the frozen milestone and the disputed contract are one
\* fact kept in three tables: there is at most one of each and never one
\* without the others.
DisputeFreezesContract ==
    /\ \A d \in Disputes : dispute[d] = "open" =>
           /\ contract = "disputed"
           /\ milestone[disputed[d]] = "disputed"
           /\ \A e \in Disputes \ {d} : dispute[e] # "open"
    /\ contract = "disputed" => \E d \in Disputes : dispute[d] = "open"
    /\ \A m \in Milestones : milestone[m] = "disputed" =>
           \E d \in Disputes : dispute[d] = "open" /\ disputed[d] = m

\* Work under review was delivered: the newest delivery of a submitted
\* milestone is the one awaiting a verdict, also after a dispute about it is
\* withdrawn.
SubmittedIsDelivered ==
    \A m \in Milestones : milestone[m] = "submitted" =>
        /\ deliveries[m] # <<>>
        /\ deliveries[m][Len(deliveries[m])] = "submitted"

\* While a dispute is open only its withdrawal or decision moves the frozen
\* milestone, its money, its deliveries or its payout.
FrozenWhileDisputed ==
    [][\A d \in Disputes :
         dispute[d] = "open" /\ dispute'[d] = "open" =>
             LET m == disputed[d] IN
             /\ milestone'[m] = milestone[m]
             /\ deliveries'[m] = deliveries[m]
             /\ \A i \in IntentsOf(m) :
                    intent'[i] = intent[i] /\ (i \in payouts' <=> i \in payouts)]_vars

\* "When that was the last open milestone of a fully scheduled contract, the
\* contract and its project complete" (ReleaseMilestone): a fully released
\* contract with no transaction open is completed.
FullyReleasedCompletes ==
    /\ OpenMilestones = {}
    /\ Allocated = Total
    /\ Total > 0
    /\ \A m \in Milestones : Unlocked(m)
    => contract = "completed"

\* An intent waiting for the client's payment is eventually paid or failed, so
\* its milestone never stays blocked: it can neither be cancelled nor funded
\* again while the intent is live.  A request that ends half way and a capture
\* of the wrong amount are what a person has to look at.
PaymentSettles ==
    \A i \in Intents :
        intent[i] = "requires_payment" ~>
            \/ intent[i] # "requires_payment"
            \/ request[i] = "abandoned"
            \/ charge[i] = "mispaid"

\* "If creating the charge fails, the intent is marked failed so the client can
\* try again" (FundMilestone).
FailedChargeFreesMilestone ==
    \A i \in Intents : request[i] = "errored" ~> intent[i] = "failed"

\* Where the money of each charge is: the processor's refund and the recorded
\* payout are the two ways out.  A capture of the wrong amount is not escrow;
\* a person has to look at it.
MoneyPlace ==
    [i \in Intents |->
        IF i \in payouts THEN "freelancer"
        ELSE IF i \in refunds THEN "client"
        ELSE IF charge[i] = "paid" THEN "escrow"
        ELSE "uncollected"]
MoneyPaysFor ==
    [i \in Intents |-> IF charge[i] = "paid" THEN forMilestone[i] ELSE None]

Ledger == INSTANCE EscrowLedger WITH
              Charges <- Intents, Steps <- Milestones,
              money <- MoneyPlace, paysFor <- MoneyPaysFor

\* The escrow keeps the ledger's promise: money held in escrow leaves it in
\* exactly two ways, once (paymentIntentTransitions), and a step of work is not
\* collected for twice.
ImplementsLedger == Ledger!Spec
=============================================================================
