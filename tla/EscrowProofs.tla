---------------------------- MODULE EscrowProofs ----------------------------
(***************************************************************************)
(* Theorems about Escrow, for any number of milestones, payment attempts   *)
(* and disputes, any amounts and any of the failures.                      *)
(***************************************************************************)
EXTENDS EscrowInvariant, TLAPS

\* A verdict keeps the deliveries a sequence of deliveries.
LEMMA ReviewedType ==
    ASSUME NEW s \in Seq(DeliveryStatus), NEW verdict \in DeliveryStatus
    PROVE  Reviewed(s, verdict) \in Seq(DeliveryStatus)
  BY DEF Reviewed, DeliveryStatus

-----------------------------------------------------------------------------
(* Type correctness *)

LEMMA FundingTypes ==
    ASSUME TypeOK, NEW i \in Intents, FundingNext(i)
    PROVE  TypeOK'
  <1> USE DEF TypeOK, rowVars, moneyVars, disputeVars, processorVars
  <1>1. ASSUME NEW m \in Milestones, FundMilestone(i, m) PROVE TypeOK'
    BY <1>1 DEF FundMilestone, IntentStatus, LiveIntent, RequestStatus
  <1>2. CASE CreateCharge(i)
    BY <1>2 DEF CreateCharge, RequestStatus, ChargeStatus
  <1>3. CASE CreateChargeFails(i)
    BY <1>3 DEF CreateChargeFails, RequestStatus, ChargeStatus
  <1>4. CASE StoreReference(i)
    BY <1>4 DEF StoreReference, RequestStatus
  <1>5. CASE StoreReferenceFails(i)
    BY <1>5 DEF StoreReferenceFails, RequestStatus
  <1>6. CASE FailPaymentIntent(i)
    BY <1>6 DEF FailPaymentIntent, RequestStatus, IntentStatus, LiveIntent
  <1>7. CASE AbandonRequest(i)
    BY <1>7 DEF AbandonRequest, RequestStatus
  <1>8. CASE ClientPays(i)
    BY <1>8 DEF ClientPays, ChargeStatus
  <1>9. CASE ChargeFails(i)
    BY <1>9 DEF ChargeFails, ChargeStatus
  <1>10. CASE PaymentSucceeded(i)
    BY <1>10 DEF PaymentSucceeded, IntentStatus, LiveIntent, MilestoneStatus, HoldsEscrow,
                 ContractStatus, ProjectStatus
  <1>11. CASE PaymentFailed(i)
    BY <1>11 DEF PaymentFailed, IntentStatus, LiveIntent
  <1> QED
    BY <1>1, <1>2, <1>3, <1>4, <1>5, <1>6, <1>7, <1>8, <1>9, <1>10, <1>11 DEF FundingNext

LEMMA MilestoneTypes ==
    ASSUME TypeOK, NEW m \in Milestones, MilestoneNext(m)
    PROVE  TypeOK'
  <1> USE DEF TypeOK, rowVars, moneyVars, disputeVars, processorVars
  <1>1. ASSUME NEW a \in Amounts, AddMilestone(m, a) PROVE TypeOK'
    BY <1>1, EscrowAssumption DEF AddMilestone, MilestoneStatus
  <1>2. CASE CancelMilestone(m)
    BY <1>2 DEF CancelMilestone, MilestoneStatus
  <1>3. CASE SubmitMilestone(m)
    BY <1>3 DEF SubmitMilestone, MilestoneStatus, HoldsEscrow, DeliveryStatus
  <1>4. CASE RequestRevision(m)
    <2>1. Reviewed(deliveries[m], "revision_requested") \in Seq(DeliveryStatus)
      BY ReviewedType DEF DeliveryStatus
    <2> QED
      BY <1>4, <2>1 DEF RequestRevision, MilestoneStatus, HoldsEscrow
  <1>5. CASE ReleaseMilestone(m)
    BY <1>5 DEF ReleaseMilestone, Begin, Completes, TxnKind
  <1>6. CASE ReleaseCommits(m)
    <2>1. Reviewed(deliveries[m], "accepted") \in Seq(DeliveryStatus)
      BY ReviewedType DEF DeliveryStatus
    <2>2. Held(m) \subseteq Intents
      BY DEF Held, IntentsOf
    <2>3. project' \in ProjectStatus
      BY <1>6 DEF ReleaseCommits, CompleteProject, RestoredProject, ProjectStatus
    <2>4. contract' \in ContractStatus
      BY <1>6 DEF ReleaseCommits, RestoredContract, ContractStatus
    <2>5. dispute' \in [Disputes -> DisputeStatus]
      BY <1>6 DEF ReleaseCommits, DisputeStatus
    <2>6. txn' \in [Milestones -> [kind : TxnKind, completes : BOOLEAN,
                                   dispute : Disputes \cup {None}]]
      BY <1>6 DEF ReleaseCommits, NoTxn, TxnKind
    <2> QED
      BY <1>6, <2>1, <2>2, <2>3, <2>4, <2>5, <2>6
      DEF ReleaseCommits, MilestoneStatus, IntentStatus
  <1>7. CASE RefundMilestone(m)
    BY <1>7 DEF RefundMilestone, Begin, TxnKind
  <1>8. CASE ProcessorRefunds(m)
    BY <1>8 DEF ProcessorRefunds, Held, IntentsOf
  <1>9. CASE RefundCommits(m)
    <2>1. project' \in ProjectStatus
      BY <1>9 DEF RefundCommits, CompleteProject, RestoredProject, ProjectStatus
    <2>2. contract' \in ContractStatus
      BY <1>9 DEF RefundCommits, RestoredContract, ContractStatus
    <2>3. dispute' \in [Disputes -> DisputeStatus]
      BY <1>9 DEF RefundCommits, DisputeStatus
    <2>4. txn' \in [Milestones -> [kind : TxnKind, completes : BOOLEAN,
                                   dispute : Disputes \cup {None}]]
      BY <1>9 DEF RefundCommits, NoTxn, TxnKind
    <2> QED
      BY <1>9, <2>1, <2>2, <2>3, <2>4 DEF RefundCommits, MilestoneStatus, IntentStatus
  <1>10. CASE Rollback(m)
    BY <1>10 DEF Rollback, NoTxn, TxnKind
  <1> QED
    BY <1>1, <1>2, <1>3, <1>4, <1>5, <1>6, <1>7, <1>8, <1>9, <1>10 DEF MilestoneNext

LEMMA DisputeTypes ==
    ASSUME TypeOK, NEW d \in Disputes, DisputeNext(d)
    PROVE  TypeOK'
  <1> USE DEF TypeOK, rowVars, moneyVars, disputeVars, processorVars
  <1>1. ASSUME NEW m \in Milestones, OpenDispute(d, m) PROVE TypeOK'
    BY <1>1 DEF OpenDispute, MilestoneStatus, DisputeStatus, ContractStatus, ProjectStatus
  <1>2. CASE WithdrawDispute(d)
    BY <1>2 DEF WithdrawDispute, RestoredContract, RestoredProject, MilestoneStatus,
                HoldsEscrow, DisputeStatus, ContractStatus, ProjectStatus
  <1>3. CASE DecideRelease(d)
    BY <1>3 DEF DecideRelease, Begin, Completes, TxnKind
  <1>4. CASE DecideRefund(d)
    BY <1>4 DEF DecideRefund, Begin, TxnKind
  <1>5. CASE DecideResume(d)
    BY <1>5 DEF DecideResume, RestoredContract, RestoredProject, MilestoneStatus,
                HoldsEscrow, DisputeStatus, ContractStatus, ProjectStatus
  <1> QED
    BY <1>1, <1>2, <1>3, <1>4, <1>5 DEF DisputeNext

\* Every reachable state has the declared shape.
THEOREM TypeCorrect == Spec => []TypeOK
  <1>1. Init => TypeOK
    BY DEF Init, TypeOK, ContractStatus, ProjectStatus, MilestoneStatus, IntentStatus,
           DisputeStatus, RequestStatus, ChargeStatus, NoTxn, TxnKind
  <1>2. TypeOK /\ [Next]_vars => TypeOK'
    <2> SUFFICES ASSUME TypeOK, [Next]_vars PROVE TypeOK'
      OBVIOUS
    <2>1. ASSUME NEW status \in ProjectWrites, ProjectWritten(status) PROVE TypeOK'
      BY <2>1, EscrowAssumption
      DEF TypeOK, ProjectWritten, ProjectStatus, rowVars, moneyVars, disputeVars, processorVars
    <2>2. CASE UNCHANGED vars
      BY <2>2 DEF TypeOK, vars, rowVars, moneyVars, disputeVars, processorVars
    <2> QED
      BY <2>1, <2>2, FundingTypes, MilestoneTypes, DisputeTypes DEF Next
  <1> QED
    BY <1>1, <1>2, PTL DEF Spec

-----------------------------------------------------------------------------
(* Money.  Each action is shown to keep MoneyInv; the steps that move money  *)
(* or freeze it are taken apart, the others disturb too little to need it.   *)

\* A milestone holds at most one intent's money.
LEMMA OneHeldIntent ==
    ASSUME MoneyInv, NEW m \in Milestones, NEW i \in Held(m)
    PROVE  Held(m) = {i}
  BY DEF MoneyInv, OneCurrentIntent, Held, IntentsOf, LiveIntent

\* The statement that moves a milestone's held intent moves just that one.
LEMMA OneIntentMoves ==
    ASSUME intent \in [Intents -> IntentStatus], NEW m, NEW i \in Intents, Held(m) = {i},
           NEW status
    PROVE  [j \in Intents |-> IF j \in Held(m) THEN status ELSE intent[j]]
               = [intent EXCEPT ![i] = status]
  OBVIOUS

LEMMA FundingKeepsMoney ==
    ASSUME MoneyInv, NEW i \in Intents, FundingNext(i)
    PROVE  MoneyInv'
  <1> USE DEF MoneyInv, RequestsMakeIntents, IntentsFollowMilestones, OneCurrentIntent,
              PayoutsAndRefunds, TransactionsHoldTheirRows, DisputesFreezeMilestones,
              TypeOK, InEscrow, HoldsEscrow, LiveIntent,
              rowVars, moneyVars, disputeVars, processorVars
  <1>0. TypeOK'
    BY FundingTypes
  <1>1. ASSUME NEW m \in Milestones, FundMilestone(i, m) PROVE MoneyInv'
    <2>1. RequestsMakeIntents'
      BY <1>1 DEF FundMilestone
    <2>2. IntentsFollowMilestones'
      BY <1>1 DEF FundMilestone
    <2>3. \A j \in Intents : forMilestone[j] = m =>
              intent[j] \notin LiveIntent \cup {"released"}
      \* The milestone is pending, and locked while no live intent is found.
      BY <1>1 DEF FundMilestone, NoLiveIntent, IntentsOf
    <2>4. OneCurrentIntent'
      BY <1>1, <2>3 DEF FundMilestone
    <2>5. PayoutsAndRefunds'
      BY <1>1 DEF FundMilestone
    <2> QED
      BY <1>0, <1>1, <2>1, <2>2, <2>4, <2>5 DEF FundMilestone
  <1>2. CASE CreateCharge(i)
    BY <1>0, <1>2 DEF CreateCharge
  <1>3. CASE CreateChargeFails(i)
    BY <1>0, <1>3 DEF CreateChargeFails
  <1>4. CASE StoreReference(i)
    BY <1>0, <1>4 DEF StoreReference
  <1>5. CASE StoreReferenceFails(i)
    BY <1>0, <1>5 DEF StoreReferenceFails
  <1>6. CASE FailPaymentIntent(i)
    BY <1>0, <1>6 DEF FailPaymentIntent
  <1>7. CASE AbandonRequest(i)
    BY <1>0, <1>7 DEF AbandonRequest
  <1>8. CASE ClientPays(i)
    BY <1>0, <1>8 DEF ClientPays
  <1>9. CASE ChargeFails(i)
    BY <1>0, <1>9 DEF ChargeFails
  <1>10. CASE PaymentSucceeded(i)
    <2> DEFINE m == forMilestone[i]
    <2>1. m \in Milestones /\ intent[i] = "requires_payment" /\ milestone[m] = "pending"
      BY <1>10 DEF PaymentSucceeded, Confirmable
    <2>2. RequestsMakeIntents'
      BY <1>10 DEF PaymentSucceeded
    <2>3. \A j \in Intents \ {i} : forMilestone[j] = m =>
              intent[j] \notin LiveIntent \cup {"released"}
      BY <2>1
    <2>4. IntentsFollowMilestones'
      BY <1>10, <2>1, <2>3 DEF PaymentSucceeded
    <2>5. OneCurrentIntent' /\ PayoutsAndRefunds'
      BY <1>10, <2>1, <2>3 DEF PaymentSucceeded
    <2>6. TransactionsHoldTheirRows' /\ DisputesFreezeMilestones'
      BY <1>10, <2>1 DEF PaymentSucceeded, Unlocked
    <2> QED
      BY <1>0, <2>2, <2>4, <2>5, <2>6
  <1>11. CASE PaymentFailed(i)
    BY <1>0, <1>11 DEF PaymentFailed
  <1> QED
    BY <1>1, <1>2, <1>3, <1>4, <1>5, <1>6, <1>7, <1>8, <1>9, <1>10, <1>11 DEF FundingNext

LEMMA MilestoneKeepsMoney ==
    ASSUME MoneyInv, NEW m \in Milestones, MilestoneNext(m)
    PROVE  MoneyInv'
  <1> USE DEF MoneyInv, RequestsMakeIntents, IntentsFollowMilestones, OneCurrentIntent,
              PayoutsAndRefunds, TransactionsHoldTheirRows, DisputesFreezeMilestones,
              TypeOK, InEscrow, HoldsEscrow, LiveIntent, Unlocked,
              rowVars, moneyVars, disputeVars, processorVars
  <1>0. TypeOK'
    BY MilestoneTypes
  <1>1. ASSUME NEW a \in Amounts, AddMilestone(m, a) PROVE MoneyInv'
    BY <1>0, <1>1 DEF AddMilestone
  <1>2. CASE CancelMilestone(m)
    BY <1>0, <1>2 DEF CancelMilestone, NoLiveIntent, IntentsOf
  <1>3. CASE SubmitMilestone(m)
    BY <1>0, <1>3 DEF SubmitMilestone
  <1>4. CASE RequestRevision(m)
    BY <1>0, <1>4 DEF RequestRevision
  <1>5. CASE ReleaseMilestone(m)
    BY <1>0, <1>5 DEF ReleaseMilestone, Begin
  <1>6. CASE ReleaseCommits(m)
    <2>1. milestone[m] \in InEscrow
      BY <1>6 DEF ReleaseCommits
    <2>2. PICK i \in Intents : forMilestone[i] = m /\ intent[i] = "held_in_escrow"
      BY <2>1
    <2>3. Held(m) = {i}
      BY <2>2, OneHeldIntent DEF Held, IntentsOf
    <2>4. \A j \in Intents \ {i} : forMilestone[j] = m =>
              intent[j] \notin LiveIntent \cup {"released"}
      BY <2>2
    <2>5. intent' = [intent EXCEPT ![i] = "released"] /\ payouts' = payouts \cup {i}
      <3>1. intent' = [j \in Intents |-> IF j \in Held(m) THEN "released" ELSE intent[j]]
        BY <1>6 DEF ReleaseCommits
      <3>2. payouts' = payouts \cup Held(m)
        BY <1>6 DEF ReleaseCommits
      <3>3. intent' = [intent EXCEPT ![i] = "released"]
        BY <2>3, <3>1, OneIntentMoves
      <3> QED
        BY <2>3, <3>2, <3>3
    <2>6. RequestsMakeIntents' /\ PayoutsAndRefunds'
      BY <1>6, <2>2, <2>5 DEF ReleaseCommits
    <2>7. IntentsFollowMilestones' /\ OneCurrentIntent'
      BY <1>6, <2>2, <2>4, <2>5 DEF ReleaseCommits
    <2>8. TransactionsHoldTheirRows' /\ DisputesFreezeMilestones'
      BY <1>6 DEF ReleaseCommits, NoTxn
    <2> QED
      BY <1>0, <2>6, <2>7, <2>8
  <1>7. CASE RefundMilestone(m)
    BY <1>0, <1>7 DEF RefundMilestone, Begin
  <1>8. CASE ProcessorRefunds(m)
    BY <1>0, <1>8 DEF ProcessorRefunds, Held, IntentsOf
  <1>9. CASE RefundCommits(m)
    <2>1. milestone[m] \in InEscrow
      BY <1>9 DEF RefundCommits
    <2>2. PICK i \in Intents : forMilestone[i] = m /\ intent[i] = "held_in_escrow"
      BY <2>1
    <2>3. Held(m) = {i}
      BY <2>2, OneHeldIntent DEF Held, IntentsOf
    <2>4. \A j \in Intents \ {i} : forMilestone[j] = m =>
              intent[j] \notin LiveIntent \cup {"released"}
      BY <2>2
    <2>5. /\ intent' = [intent EXCEPT ![i] = "refunded"]
          /\ i \in refunds
          /\ milestone' = [milestone EXCEPT ![m] = "cancelled"]
          /\ UNCHANGED <<forMilestone, reference, payouts, disputed, request, charge, refunds>>
      <3>1. intent' = [j \in Intents |-> IF j \in Held(m) THEN "refunded" ELSE intent[j]]
        BY <1>9 DEF RefundCommits
      <3>2. intent' = [intent EXCEPT ![i] = "refunded"]
        BY <2>3, <3>1, OneIntentMoves
      <3> QED
        BY <1>9, <2>3, <3>2 DEF RefundCommits
    <2>6. RequestsMakeIntents' /\ PayoutsAndRefunds'
      BY <2>2, <2>5
    <2>7. IntentsFollowMilestones' /\ OneCurrentIntent'
      BY <2>2, <2>4, <2>5
    <2>8. /\ txn' = [txn EXCEPT ![m] = NoTxn]
          /\ dispute' = IF txn[m].kind = "decide_refund"
                        THEN [dispute EXCEPT ![txn[m].dispute] = "resolved"] ELSE dispute
      BY <1>9 DEF RefundCommits
    <2>9. txn[m].kind \in {"refund", "decide_refund"}
      BY <1>9 DEF RefundCommits
    <2>10. DisputesFreezeMilestones' /\ TransactionsHoldTheirRows'
      <3>1. CASE txn[m].kind = "refund"
        <4>1. dispute' = dispute /\ milestone[m] \in HoldsEscrow
          BY <2>8, <3>1
        <4>2. \A e \in Disputes : dispute[e] = "open" => disputed[e] # m
          BY <4>1
        <4> QED
          BY <2>5, <2>8, <4>1, <4>2 DEF NoTxn
      <3>2. CASE txn[m].kind = "decide_refund"
        \* The dispute that ends is the only open one.
        <4>1. \A e \in Disputes : dispute'[e] # "open"
          BY <2>8, <3>2
        <4>2. \A n \in Milestones \ {m} :
                  txn[n].kind \notin {"decide_release", "decide_refund"}
          BY <3>2
        <4> QED
          BY <2>5, <2>8, <3>2, <4>1, <4>2 DEF NoTxn
      <3> QED
        BY <2>9, <3>1, <3>2
    <2> QED
      BY <1>0, <2>6, <2>7, <2>10
  <1>10. CASE Rollback(m)
    BY <1>0, <1>10 DEF Rollback, NoTxn
  <1> QED
    BY <1>1, <1>2, <1>3, <1>4, <1>5, <1>6, <1>7, <1>8, <1>9, <1>10 DEF MilestoneNext

LEMMA DisputeKeepsMoney ==
    ASSUME MoneyInv, NEW d \in Disputes, DisputeNext(d)
    PROVE  MoneyInv'
  <1> USE DEF MoneyInv, RequestsMakeIntents, IntentsFollowMilestones, OneCurrentIntent,
              PayoutsAndRefunds, TransactionsHoldTheirRows, DisputesFreezeMilestones,
              TypeOK, InEscrow, HoldsEscrow, LiveIntent, Unlocked, DisputeLockable,
              Decidable, rowVars, moneyVars, disputeVars, processorVars
  <1>0. TypeOK'
    BY DisputeTypes
  <1>1. ASSUME NEW m \in Milestones, OpenDispute(d, m) PROVE MoneyInv'
    BY <1>0, <1>1 DEF OpenDispute
  <1>2. CASE WithdrawDispute(d)
    \* The frozen milestone returns to a status that holds escrow, whatever
    \* status the dispute remembers, so its money stays accounted for.
    <2>1. RequestsMakeIntents' /\ OneCurrentIntent' /\ PayoutsAndRefunds'
      BY <1>2 DEF WithdrawDispute
    <2>2. IntentsFollowMilestones'
      BY <1>2 DEF WithdrawDispute
    <2>3. TransactionsHoldTheirRows'
      BY <1>2 DEF WithdrawDispute
    <2>4. DisputesFreezeMilestones'
      BY <1>2 DEF WithdrawDispute
    <2> QED
      BY <1>0, <2>1, <2>2, <2>3, <2>4
  <1>3. CASE DecideRelease(d)
    BY <1>0, <1>3 DEF DecideRelease, Begin
  <1>4. CASE DecideRefund(d)
    BY <1>0, <1>4 DEF DecideRefund, Begin
  <1>5. CASE DecideResume(d)
    BY <1>0, <1>5 DEF DecideResume
  <1> QED
    BY <1>1, <1>2, <1>3, <1>4, <1>5 DEF DisputeNext

\* The money, milestone and dispute tables agree in every reachable state.
THEOREM MoneyInvariant == Spec => []MoneyInv
  <1>1. Init => MoneyInv
    <2> SUFFICES ASSUME Init PROVE MoneyInv
      OBVIOUS
    <2>1. TypeOK
      BY DEF Init, TypeOK, ContractStatus, ProjectStatus, MilestoneStatus, IntentStatus,
             DisputeStatus, RequestStatus, ChargeStatus, NoTxn, TxnKind
    <2> QED
      BY <2>1 DEF Init, MoneyInv, RequestsMakeIntents, IntentsFollowMilestones,
          OneCurrentIntent, PayoutsAndRefunds, TransactionsHoldTheirRows,
          DisputesFreezeMilestones, InEscrow, HoldsEscrow, LiveIntent, NoTxn
  <1>2. MoneyInv /\ [Next]_vars => MoneyInv'
    <2> SUFFICES ASSUME MoneyInv, [Next]_vars PROVE MoneyInv'
      OBVIOUS
    <2> USE DEF MoneyInv, RequestsMakeIntents, IntentsFollowMilestones, OneCurrentIntent,
                PayoutsAndRefunds, TransactionsHoldTheirRows, DisputesFreezeMilestones,
                TypeOK, rowVars, moneyVars, disputeVars, processorVars
    <2>1. ASSUME NEW status \in ProjectWrites, ProjectWritten(status) PROVE MoneyInv'
      BY <2>1, EscrowAssumption DEF ProjectWritten, ProjectStatus
    <2>2. CASE UNCHANGED vars
      BY <2>2 DEF vars
    <2> QED
      BY <2>1, <2>2, FundingKeepsMoney, MilestoneKeepsMoney, DisputeKeepsMoney DEF Next
  <1> QED
    BY <1>1, <1>2, PTL DEF Spec

-----------------------------------------------------------------------------
(* What follows from it *)

\* The milestone and intent tables tell the same story of each milestone's
\* money, and payouts are recorded for released intents only.
THEOREM MoneyAlwaysMatches == Spec => []MoneyMatchesMilestone
  <1>1. MoneyInv => MoneyMatchesMilestone
    <2> SUFFICES ASSUME MoneyInv, NEW m \in Milestones
                 PROVE  /\ milestone[m] \in InEscrow <=> \E i \in Intents : Held(m) = {i}
                        /\ milestone[m] = "released"
                             <=> \E i \in Intents :
                                   {j \in IntentsOf(m) : intent[j] = "released"} = {i}
                        /\ \A i \in IntentsOf(m) : i \in payouts <=> intent[i] = "released"
      BY DEF MoneyMatchesMilestone, InEscrow
    <2>1. ASSUME milestone[m] \in InEscrow PROVE \E i \in Intents : Held(m) = {i}
      <3>1. PICK i \in Intents : forMilestone[i] = m /\ intent[i] = "held_in_escrow"
        BY <2>1 DEF MoneyInv, IntentsFollowMilestones
      <3>2. i \in Held(m)
        BY <3>1 DEF Held, IntentsOf
      <3> QED
        BY <3>2, OneHeldIntent
    <2>2. ASSUME NEW i \in Intents, Held(m) = {i} PROVE milestone[m] \in InEscrow
      <3>1. forMilestone[i] = m /\ intent[i] = "held_in_escrow"
        BY <2>2 DEF Held, IntentsOf
      <3> QED
        BY <3>1 DEF MoneyInv, IntentsFollowMilestones
    <2>3. ASSUME milestone[m] = "released"
          PROVE  \E i \in Intents : {j \in IntentsOf(m) : intent[j] = "released"} = {i}
      <3>1. PICK i \in Intents : forMilestone[i] = m /\ intent[i] = "released"
        BY <2>3 DEF MoneyInv, IntentsFollowMilestones
      <3>2. \A j \in IntentsOf(m) : intent[j] = "released" => j = i
        BY <3>1 DEF MoneyInv, OneCurrentIntent, IntentsOf
      <3> QED
        BY <3>1, <3>2 DEF IntentsOf
    <2>4. ASSUME NEW i \in Intents, {j \in IntentsOf(m) : intent[j] = "released"} = {i}
          PROVE  milestone[m] = "released"
      <3>1. forMilestone[i] = m /\ intent[i] = "released"
        BY <2>4 DEF IntentsOf
      <3> QED
        BY <3>1 DEF MoneyInv, IntentsFollowMilestones
    <2>5. \A i \in IntentsOf(m) : i \in payouts <=> intent[i] = "released"
      BY DEF MoneyInv, PayoutsAndRefunds, IntentsOf
    <2> QED
      BY <2>1, <2>2, <2>3, <2>4, <2>5
  <1> QED
    BY <1>1, MoneyInvariant, PTL

\* An intent whose client may still pay, or has paid and not been refunded, is
\* live or released.
LEMMA ChargeableIsCurrent ==
    ASSUME MoneyInv, NEW i \in Intents, Chargeable(i)
    PROVE  intent[i] \in LiveIntent \cup {"released"}
  <1>1. request[i] = "returned" /\ charge[i] # "failed" /\ i \notin refunds
    BY DEF MoneyInv, RequestsMakeIntents, Chargeable
  <1>2. intent[i] \notin {"none", "failed", "refunded"}
    BY <1>1 DEF MoneyInv, RequestsMakeIntents, PayoutsAndRefunds
  <1>3. intent[i] \in IntentStatus
    BY DEF MoneyInv, TypeOK
  <1> QED
    BY <1>2, <1>3 DEF IntentStatus

\* No client can be charged twice for a milestone, however the funding requests,
\* their retries and the notifications interleave.
THEOREM NeverChargedTwice == Spec => []ChargedOncePerMilestone
  <1>1. MoneyInv => ChargedOncePerMilestone
    <2> SUFFICES ASSUME MoneyInv, NEW i \in Intents, NEW j \in Intents,
                        forMilestone[i] = forMilestone[j], Chargeable(i), Chargeable(j)
                 PROVE  i = j
      BY DEF ChargedOncePerMilestone
    <2> QED
      BY ChargeableIsCurrent DEF MoneyInv, OneCurrentIntent
  <1> QED
    BY <1>1, MoneyInvariant, PTL

\* Captured money that was not returned stays attached to an intent that is live
\* or released, of a milestone that is not cancelled.
THEOREM CapturedMoneyKept == Spec => []CapturedMoneyHasAHome
  <1>1. MoneyInv => CapturedMoneyHasAHome
    <2> SUFFICES ASSUME MoneyInv, NEW i \in Intents, charge[i] = "paid", i \notin refunds
                 PROVE  /\ intent[i] \in LiveIntent \cup {"released"}
                        /\ milestone[forMilestone[i]] # "cancelled"
      BY DEF CapturedMoneyHasAHome
    <2>1. intent[i] \in LiveIntent \cup {"released"}
      BY ChargeableIsCurrent DEF Chargeable
    <2> QED
      BY <2>1 DEF MoneyInv, IntentsFollowMilestones, LiveIntent, InEscrow, HoldsEscrow
  <1> QED
    BY <1>1, MoneyInvariant, PTL
=============================================================================
