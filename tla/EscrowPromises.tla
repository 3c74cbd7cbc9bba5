--------------------------- MODULE EscrowPromises ---------------------------
(***************************************************************************)
(* Theorems about Escrow beyond its money rows: disputes freeze what they  *)
(* are about, what is reviewed was delivered; while no refund's            *)
(* transaction is lost, payouts are backed and the ledger is kept; the     *)
(* schedule and the payouts fit the contract; a capture is always taken.   *)
(***************************************************************************)
EXTENDS EscrowProofs, FiniteSetTheorems, WellFoundedInduction

-----------------------------------------------------------------------------
(* The contract follows its milestones and disputes *)

LEMMA FundingKeepsContract ==
    ASSUME MoneyInv, ContractFollowsMilestones, NEW i \in Intents, FundingNext(i)
    PROVE  ContractFollowsMilestones'
  <1> USE DEF MoneyInv, TypeOK, ContractFollowsMilestones, OpenMilestones,
              rowVars, moneyVars, disputeVars, processorVars
  <1>1. CASE PaymentSucceeded(i)
    <2> DEFINE m == forMilestone[i]
    <2>1. /\ m \in Milestones /\ milestone[m] = "pending"
          /\ milestone' = [milestone EXCEPT ![m] = "funded"]
          /\ contract' = IF contract = "pending" THEN "active" ELSE contract
          /\ UNCHANGED <<dispute, disputed, txn>>
      BY <1>1 DEF PaymentSucceeded, Confirmable, RequestsMakeIntents
    <2>2. OpenMilestones' = OpenMilestones
      BY <2>1
    <2> QED
      BY <2>1, <2>2
  <1>2. CASE ~PaymentSucceeded(i)
    <2>1. UNCHANGED <<contract, milestone, dispute, disputed, txn>>
      BY <1>2 DEF FundingNext, FundMilestone, CreateCharge, CreateChargeFails,
          StoreReference, StoreReferenceFails, FailPaymentIntent, AbandonRequest,
          ClientPays, ChargeFails, PaymentFailed
    <2> QED
      BY <2>1
  <1> QED
    BY <1>1, <1>2

\* A commit takes its milestone out of the open ones, and with it the dispute
\* it decides, which is the only one.
LEMMA EndsOne ==
    ASSUME MoneyInv, ContractFollowsMilestones, NEW m \in Milestones,
           NEW status \in {"released", "cancelled"},
           milestone' = [milestone EXCEPT ![m] = status],
           txn' = [txn EXCEPT ![m] = NoTxn],
           disputed' = disputed,
           txn[m].kind # "none",
           LET decided == txn[m].kind \in {"decide_release", "decide_refund"} IN
           /\ dispute' = IF decided THEN [dispute EXCEPT ![txn[m].dispute] = "resolved"]
                         ELSE dispute
           /\ \/ contract' = "completed" /\ OpenMilestones = {m}
              \/ contract' = IF decided THEN RestoredContract ELSE contract
    PROVE  ContractFollowsMilestones'
  <1> DEFINE decided == txn[m].kind \in {"decide_release", "decide_refund"}
  <1> USE DEF MoneyInv, TypeOK, TransactionsHoldTheirRows, DisputesFreezeMilestones,
              ContractFollowsMilestones, HoldsEscrow
  <1>1. m \in OpenMilestones /\ milestone[m] \in HoldsEscrow \cup {"disputed"}
    BY DEF OpenMilestones, TxnKind
  <1>2. OpenMilestones' = OpenMilestones \ {m}
    BY DEF OpenMilestones
  <1>3. \A n \in Milestones : txn'[n].completes => n # m /\ txn[n].completes
    BY DEF NoTxn
  <1>4. \A n \in Milestones : ~txn'[n].completes
    BY <1>1, <1>3
  <1>5. \A d \in Disputes : dispute'[d] = "open" =>
            dispute[d] = "open" /\ ~decided /\ disputed[d] # m
    <2> SUFFICES ASSUME NEW d \in Disputes, dispute'[d] = "open"
                 PROVE  dispute[d] = "open" /\ ~decided /\ disputed[d] # m
      OBVIOUS
    <2>1. CASE decided
      <3>1. txn[m].dispute \in Disputes /\ dispute[txn[m].dispute] = "open"
        BY <2>1
      <3>2. dispute' = [dispute EXCEPT ![txn[m].dispute] = "resolved"]
        BY <2>1
      <3>3. d # txn[m].dispute /\ dispute[d] = "open"
        BY <3>1, <3>2
      <3> QED
        BY <3>1, <3>3
    <2>2. CASE ~decided
      <3>1. dispute[d] = "open"
        BY <2>2
      <3>2. txn[m] \in [kind : TxnKind, completes : BOOLEAN, dispute : Disputes \cup {None}]
        OBVIOUS
      <3>3. txn[m].kind \in {"release", "refund"}
        BY <2>2, <3>2 DEF TxnKind
      <3>4. milestone[m] # "disputed"
        BY <3>3
      <3> QED
        BY <2>2, <3>1, <3>4
    <2> QED
      BY <2>1, <2>2
  <1>6. contract' = "disputed" <=> \E d \in Disputes : dispute'[d] = "open"
    <2>1. CASE contract' = "completed" /\ OpenMilestones = {m}
      <3>1. \A d \in Disputes : dispute[d] = "open" => disputed[d] \in OpenMilestones
        BY DEF OpenMilestones
      <3> QED
        BY <1>5, <2>1, <3>1
    <2>2. CASE contract' = IF decided THEN RestoredContract ELSE contract
      BY <1>5, <2>2 DEF RestoredContract
    <2> QED
      BY <2>1, <2>2
  <1>7. \A n \in Milestones : milestone'[n] = "disputed" =>
            \E d \in Disputes : dispute'[d] = "open" /\ disputed'[d] = n
    OBVIOUS
  <1>8. contract' # "pending"
    BY <1>1 DEF RestoredContract
  <1>9. contract' = "completed" => OpenMilestones' = {}
    BY <1>1, <1>2 DEF RestoredContract
  <1> QED
    BY <1>4, <1>6, <1>7, <1>8, <1>9

LEMMA MilestoneKeepsContract ==
    ASSUME MoneyInv, ContractFollowsMilestones, NEW m \in Milestones, MilestoneNext(m)
    PROVE  ContractFollowsMilestones'
  <1> USE DEF MoneyInv, TypeOK, TransactionsHoldTheirRows, DisputesFreezeMilestones,
              ContractFollowsMilestones, OpenMilestones, HoldsEscrow, Unlocked,
              rowVars, moneyVars, disputeVars, processorVars
  <1>1. ASSUME NEW a \in Amounts, AddMilestone(m, a) PROVE ContractFollowsMilestones'
    BY <1>1 DEF AddMilestone
  <1>2. CASE CancelMilestone(m)
    BY <1>2 DEF CancelMilestone
  <1>3. CASE SubmitMilestone(m)
    <2>1. /\ milestone[m] \in {"funded", "in_progress"}
          /\ milestone' = [milestone EXCEPT ![m] = "submitted"]
          /\ UNCHANGED <<contract, dispute, disputed, txn>>
      BY <1>3 DEF SubmitMilestone
    <2>2. OpenMilestones' = OpenMilestones
      BY <2>1
    <2>3. \A n \in Milestones : milestone'[n] = "disputed" => milestone[n] = "disputed"
      BY <2>1
    <2> QED
      BY <2>1, <2>2, <2>3
  <1>4. CASE RequestRevision(m)
    BY <1>4 DEF RequestRevision
  <1>5. CASE ReleaseMilestone(m)
    BY <1>5 DEF ReleaseMilestone, Begin, Completes
  <1>6. CASE ReleaseCommits(m)
    <2>1. /\ milestone' = [milestone EXCEPT ![m] = "released"]
          /\ txn' = [txn EXCEPT ![m] = NoTxn]
          /\ txn[m].kind \in {"release", "decide_release"}
          /\ disputed' = disputed
      BY <1>6 DEF ReleaseCommits
    <2>2. /\ contract' = IF txn[m].completes THEN "completed"
                         ELSE IF txn[m].kind = "decide_release" THEN RestoredContract
                         ELSE contract
          /\ dispute' = IF txn[m].kind = "decide_release"
                        THEN [dispute EXCEPT ![txn[m].dispute] = "resolved"] ELSE dispute
      BY <1>6 DEF ReleaseCommits
    <2> QED
      BY <2>1, <2>2, EndsOne
  <1>7. CASE RefundMilestone(m)
    BY <1>7 DEF RefundMilestone, Begin
  <1>8. CASE ProcessorRefunds(m)
    BY <1>8 DEF ProcessorRefunds
  <1>9. CASE RefundCommits(m)
    <2>1. /\ milestone' = [milestone EXCEPT ![m] = "cancelled"]
          /\ txn' = [txn EXCEPT ![m] = NoTxn]
          /\ txn[m].kind \in {"refund", "decide_refund"}
          /\ disputed' = disputed
      BY <1>9 DEF RefundCommits
    <2>2. /\ \/ contract' = "completed" /\ OpenMilestones = {m} /\ txn[m].kind = "decide_refund"
             \/ contract' = IF txn[m].kind = "decide_refund" THEN RestoredContract ELSE contract
          /\ dispute' = IF txn[m].kind = "decide_refund"
                        THEN [dispute EXCEPT ![txn[m].dispute] = "resolved"] ELSE dispute
      BY <1>9 DEF RefundCommits
    <2> QED
      BY <2>1, <2>2, EndsOne
  <1>10. CASE Rollback(m)
    BY <1>10 DEF Rollback, NoTxn
  <1> QED
    BY <1>1, <1>2, <1>3, <1>4, <1>5, <1>6, <1>7, <1>8, <1>9, <1>10 DEF MilestoneNext

LEMMA DisputeKeepsContract ==
    ASSUME MoneyInv, ContractFollowsMilestones, NEW d \in Disputes, DisputeNext(d)
    PROVE  ContractFollowsMilestones'
  <1> USE DEF MoneyInv, TypeOK, TransactionsHoldTheirRows, DisputesFreezeMilestones,
              ContractFollowsMilestones, OpenMilestones, HoldsEscrow, Unlocked,
              DisputeLockable, Decidable, RestoredContract,
              rowVars, moneyVars, disputeVars, processorVars
  <1>1. ASSUME NEW m \in Milestones, OpenDispute(d, m) PROVE ContractFollowsMilestones'
    <2>1. milestone[m] \in HoldsEscrow /\ \A e \in Disputes : dispute[e] # "open"
      BY <1>1 DEF OpenDispute
    <2>2. contract = "active"
      BY <2>1 DEF ContractStatus
    <2>3. contract' = "disputed" /\ OpenMilestones' = OpenMilestones
      BY <1>1, <2>1, <2>2 DEF OpenDispute
    <2>4. dispute'[d] = "open" /\ disputed'[d] = m
      BY <1>1 DEF OpenDispute
    <2>5. \A n \in Milestones : milestone'[n] = "disputed" => n = m
      BY <1>1, <2>1 DEF OpenDispute
    <2>6. txn' = txn
      BY <1>1 DEF OpenDispute
    <2>7. \A n \in Milestones : txn'[n].completes =>
              txn[n].kind \in {"release", "decide_release"} /\ OpenMilestones' = {n}
      BY <2>3, <2>6
    <2> QED
      BY <2>3, <2>4, <2>5, <2>6, <2>7
  <1>2. CASE WithdrawDispute(d)
    BY <1>2 DEF WithdrawDispute
  <1>3. CASE DecideRelease(d)
    BY <1>3 DEF DecideRelease, Begin, Completes
  <1>4. CASE DecideRefund(d)
    BY <1>4 DEF DecideRefund, Begin
  <1>5. CASE DecideResume(d)
    BY <1>5 DEF DecideResume
  <1> QED
    BY <1>1, <1>2, <1>3, <1>4, <1>5 DEF DisputeNext

LEMMA ContractInvariant == Spec => [](MoneyInv /\ ContractFollowsMilestones)
  <1>1. Init => ContractFollowsMilestones
    BY DEF Init, ContractFollowsMilestones, NoTxn
  <1>2. MoneyInv /\ ContractFollowsMilestones /\ [Next]_vars => ContractFollowsMilestones'
    <2> SUFFICES ASSUME MoneyInv, ContractFollowsMilestones, [Next]_vars
                 PROVE  ContractFollowsMilestones'
      OBVIOUS
    <2>1. ASSUME NEW status \in ProjectWrites, ProjectWritten(status)
          PROVE  ContractFollowsMilestones'
      BY <2>1 DEF ProjectWritten, ContractFollowsMilestones, OpenMilestones,
                  rowVars, moneyVars, disputeVars, processorVars
    <2>2. CASE UNCHANGED vars
      BY <2>2 DEF ContractFollowsMilestones, OpenMilestones, vars,
                  rowVars, moneyVars, disputeVars, processorVars
    <2> QED
      BY <2>1, <2>2, FundingKeepsContract, MilestoneKeepsContract, DisputeKeepsContract
      DEF Next
  <1> QED
    BY <1>1, <1>2, MoneyInvariant, PTL DEF Spec

\* The open dispute, the frozen milestone and the disputed contract never come
\* apart, whichever transactions race.
THEOREM DisputesFreeze == Spec => []DisputeFreezesContract
  <1>1. MoneyInv /\ ContractFollowsMilestones => DisputeFreezesContract
    BY DEF MoneyInv, DisputesFreezeMilestones, ContractFollowsMilestones,
           DisputeFreezesContract
  <1> QED
    BY <1>1, ContractInvariant, PTL

-----------------------------------------------------------------------------
(* What is under review was delivered *)

LEMMA NewestIsLast ==
    ASSUME NEW s \in Seq(DeliveryStatus)
    PROVE  LET t == Append(s, "submitted") IN t # <<>> /\ t[Len(t)] = "submitted"
  BY DEF DeliveryStatus

\* Nothing but a delivery makes a milestone submitted, and nothing but a
\* verdict, which ends the review, touches the newest delivery.
LEMMA MilestoneKeepsReview ==
    ASSUME MoneyInv, ReviewHasDelivery, NEW m \in Milestones, MilestoneNext(m)
    PROVE  ReviewHasDelivery'
  <1> USE DEF MoneyInv, TypeOK, TransactionsHoldTheirRows, DisputesFreezeMilestones,
              ReviewHasDelivery, AwaitsVerdict, HoldsEscrow, Unlocked,
              rowVars, moneyVars, disputeVars, processorVars
  <1>1. ASSUME NEW a \in Amounts, AddMilestone(m, a) PROVE ReviewHasDelivery'
    BY <1>1 DEF AddMilestone
  <1>2. CASE CancelMilestone(m)
    BY <1>2 DEF CancelMilestone
  <1>3. CASE SubmitMilestone(m)
    <2>1. /\ milestone' = [milestone EXCEPT ![m] = "submitted"]
          /\ deliveries' = [deliveries EXCEPT ![m] = Append(@, "submitted")]
          /\ UNCHANGED <<dispute, disputed, statusBefore>>
          /\ milestone[m] \in {"funded", "in_progress"}
      BY <1>3 DEF SubmitMilestone
    <2>2. AwaitsVerdict(m)'
      <3>1. deliveries'[m] = Append(deliveries[m], "submitted")
        BY <2>1
      <3>2. deliveries[m] \in Seq(DeliveryStatus)
        OBVIOUS
      <3> QED
        BY <3>1, <3>2, NewestIsLast
    <2>3. \A n \in Milestones \ {m} : deliveries'[n] = deliveries[n]
      BY <2>1
    <2>4. \A d \in Disputes : dispute[d] = "open" => disputed[d] \in Milestones \ {m}
      BY <2>1
    <2> QED
      BY <2>1, <2>2, <2>3, <2>4
  <1>4. CASE RequestRevision(m)
    <2>1. /\ milestone[m] = "submitted"
          /\ milestone' = [milestone EXCEPT ![m] = "in_progress"]
          /\ \A n \in Milestones \ {m} : deliveries'[n] = deliveries[n]
          /\ UNCHANGED <<dispute, disputed, statusBefore>>
      BY <1>4 DEF RequestRevision
    <2>2. \A d \in Disputes : dispute[d] = "open" => disputed[d] \in Milestones \ {m}
      BY <2>1
    <2> QED
      BY <2>1, <2>2
  <1>5. CASE ReleaseMilestone(m)
    BY <1>5 DEF ReleaseMilestone
  <1>6. CASE ReleaseCommits(m)
    <2>1. /\ milestone' = [milestone EXCEPT ![m] = "released"]
          /\ \A n \in Milestones \ {m} : deliveries'[n] = deliveries[n]
          /\ UNCHANGED <<disputed, statusBefore>>
      BY <1>6 DEF ReleaseCommits
    <2>2. \A d \in Disputes : dispute'[d] = "open" =>
              dispute[d] = "open" /\ disputed[d] \in Milestones \ {m}
      <3>1. CASE txn[m].kind = "release"
        BY <1>6, <3>1 DEF ReleaseCommits
      <3>2. CASE txn[m].kind = "decide_release"
        <4>1. dispute' = [dispute EXCEPT ![txn[m].dispute] = "resolved"]
          BY <1>6, <3>2 DEF ReleaseCommits
        <4> QED
          BY <3>2, <4>1
      <3> QED
        BY <1>6, <3>1, <3>2 DEF ReleaseCommits
    <2> QED
      BY <2>1, <2>2
  <1>7. CASE RefundMilestone(m)
    BY <1>7 DEF RefundMilestone
  <1>8. CASE ProcessorRefunds(m)
    BY <1>8 DEF ProcessorRefunds
  <1>9. CASE RefundCommits(m)
    <2>1. /\ milestone' = [milestone EXCEPT ![m] = "cancelled"]
          /\ UNCHANGED <<deliveries, disputed, statusBefore>>
          /\ \A d \in Disputes : dispute'[d] = "open" => dispute[d] = "open"
      BY <1>9 DEF RefundCommits
    <2> QED
      BY <2>1
  <1>10. CASE Rollback(m)
    BY <1>10 DEF Rollback
  <1> QED
    BY <1>1, <1>2, <1>3, <1>4, <1>5, <1>6, <1>7, <1>8, <1>9, <1>10 DEF MilestoneNext

LEMMA DisputeKeepsReview ==
    ASSUME MoneyInv, ReviewHasDelivery, NEW d \in Disputes, DisputeNext(d)
    PROVE  ReviewHasDelivery'
  <1> USE DEF MoneyInv, TypeOK, DisputesFreezeMilestones, ReviewHasDelivery,
              AwaitsVerdict, DisputeLockable, Decidable,
              rowVars, moneyVars, disputeVars, processorVars
  <1>1. ASSUME NEW m \in Milestones, OpenDispute(d, m) PROVE ReviewHasDelivery'
    BY <1>1 DEF OpenDispute
  <1>2. CASE WithdrawDispute(d)
    BY <1>2 DEF WithdrawDispute
  <1>3. CASE DecideRelease(d)
    BY <1>3 DEF DecideRelease
  <1>4. CASE DecideRefund(d)
    BY <1>4 DEF DecideRefund
  <1>5. CASE DecideResume(d)
    BY <1>5 DEF DecideResume
  <1> QED
    BY <1>1, <1>2, <1>3, <1>4, <1>5 DEF DisputeNext

\* A milestone under review has a newest delivery that awaits the verdict, also
\* when a dispute froze it under review and was withdrawn.
THEOREM ReviewedWasDelivered == Spec => []SubmittedIsDelivered
  <1>1. Init => ReviewHasDelivery
    BY DEF Init, ReviewHasDelivery
  <1>2. MoneyInv /\ ReviewHasDelivery /\ [Next]_vars => ReviewHasDelivery'
    <2> SUFFICES ASSUME MoneyInv, ReviewHasDelivery, [Next]_vars
                 PROVE  ReviewHasDelivery'
      OBVIOUS
    <2>1. ASSUME NEW i \in Intents, FundingNext(i) PROVE ReviewHasDelivery'
      <3>1. UNCHANGED <<deliveries, dispute, disputed, statusBefore>>
        BY <2>1 DEF FundingNext, FundMilestone, CreateCharge, CreateChargeFails,
            StoreReference, StoreReferenceFails, FailPaymentIntent, AbandonRequest,
            ClientPays, ChargeFails, PaymentSucceeded, PaymentFailed,
            rowVars, moneyVars, disputeVars, processorVars
      <3>2. \A m \in Milestones : milestone'[m] = "submitted" => milestone[m] = "submitted"
        BY <2>1 DEF FundingNext, FundMilestone, CreateCharge, CreateChargeFails,
            StoreReference, StoreReferenceFails, FailPaymentIntent, AbandonRequest,
            ClientPays, ChargeFails, PaymentSucceeded, PaymentFailed,
            rowVars, moneyVars, disputeVars, processorVars, MoneyInv, TypeOK
      <3> QED
        BY <3>1, <3>2 DEF ReviewHasDelivery, AwaitsVerdict
    <2>2. ASSUME NEW status \in ProjectWrites, ProjectWritten(status)
          PROVE  ReviewHasDelivery'
      BY <2>2 DEF ProjectWritten, ReviewHasDelivery, AwaitsVerdict,
                  rowVars, moneyVars, disputeVars, processorVars
    <2>3. CASE UNCHANGED vars
      BY <2>3 DEF ReviewHasDelivery, AwaitsVerdict, vars,
                  rowVars, moneyVars, disputeVars, processorVars
    <2> QED
      BY <2>1, <2>2, <2>3, MilestoneKeepsReview, DisputeKeepsReview DEF Next
  <1>3. ReviewHasDelivery => SubmittedIsDelivered
    BY DEF ReviewHasDelivery, AwaitsVerdict, SubmittedIsDelivered
  <1> QED
    BY <1>1, <1>2, <1>3, MoneyInvariant, PTL DEF Spec

-----------------------------------------------------------------------------
(* What a dispute freezes *)

\* An intent that moves belongs to a milestone that no dispute froze, or to the
\* one its transaction decides.
LEMMA FundingLeavesFrozen ==
    ASSUME MoneyInv, NEW d \in Disputes, dispute[d] = "open",
           NEW i \in Intents, FundingNext(i), NEW j \in IntentsOf(disputed[d])
    PROVE  /\ milestone'[disputed[d]] = milestone[disputed[d]]
           /\ UNCHANGED <<deliveries, payouts>>
           /\ intent'[j] = intent[j]
  <1> USE DEF MoneyInv, TypeOK, RequestsMakeIntents, IntentsFollowMilestones,
              DisputesFreezeMilestones, rowVars, moneyVars, disputeVars, processorVars
  <1>1. milestone[disputed[d]] = "disputed" /\ j \in Intents /\ forMilestone[j] = disputed[d]
    BY DEF IntentsOf
  <1>2. intent[j] # "requires_payment" /\ intent[j] # "none"
    BY <1>1, EscrowAssumption
  <1>3. UNCHANGED <<deliveries, payouts>>
    BY DEF FundingNext, FundMilestone, CreateCharge, CreateChargeFails, StoreReference,
        StoreReferenceFails, FailPaymentIntent, AbandonRequest, ClientPays, ChargeFails,
        PaymentSucceeded, PaymentFailed
  <1>4. intent'[j] = intent[j]
    BY <1>1, <1>2 DEF FundingNext, FundMilestone, CreateCharge, CreateChargeFails,
        StoreReference, StoreReferenceFails, FailPaymentIntent, AbandonRequest, ClientPays,
        ChargeFails, PaymentSucceeded, Confirmable, PaymentFailed
  <1>5. milestone'[disputed[d]] = milestone[disputed[d]]
    BY <1>1 DEF FundingNext, FundMilestone, CreateCharge, CreateChargeFails,
        StoreReference, StoreReferenceFails, FailPaymentIntent, AbandonRequest, ClientPays,
        ChargeFails, PaymentSucceeded, Confirmable, PaymentFailed
  <1> QED
    BY <1>3, <1>4, <1>5

LEMMA MilestoneLeavesFrozen ==
    ASSUME MoneyInv, NEW d \in Disputes, dispute[d] = "open", dispute'[d] = "open",
           NEW m \in Milestones, MilestoneNext(m), NEW j \in IntentsOf(disputed[d])
    PROVE  /\ milestone'[disputed[d]] = milestone[disputed[d]]
           /\ deliveries'[disputed[d]] = deliveries[disputed[d]]
           /\ intent'[j] = intent[j]
           /\ j \in payouts' <=> j \in payouts
  <1> USE DEF MoneyInv, TypeOK, TransactionsHoldTheirRows, DisputesFreezeMilestones,
              HoldsEscrow, rowVars, moneyVars, disputeVars, processorVars
  <1>1. /\ disputed[d] \in Milestones /\ milestone[disputed[d]] = "disputed"
        /\ j \in Intents /\ forMilestone[j] = disputed[d]
    BY DEF IntentsOf
  <1>2. ASSUME NEW a \in Amounts, AddMilestone(m, a)
        PROVE  /\ milestone'[disputed[d]] = milestone[disputed[d]]
               /\ UNCHANGED <<deliveries, intent, payouts>>
    BY <1>1, <1>2 DEF AddMilestone
  <1>3. CASE CancelMilestone(m)
    BY <1>1, <1>3 DEF CancelMilestone
  <1>4. CASE SubmitMilestone(m)
    BY <1>1, <1>4 DEF SubmitMilestone
  <1>5. CASE RequestRevision(m)
    BY <1>1, <1>5 DEF RequestRevision
  <1>6. CASE ReleaseMilestone(m) \/ RefundMilestone(m) \/ ProcessorRefunds(m) \/ Rollback(m)
    BY <1>6 DEF ReleaseMilestone, RefundMilestone, ProcessorRefunds, Rollback
  <1>7. CASE ReleaseCommits(m)
    <2>1. m # disputed[d]
      <3>1. CASE txn[m].kind = "release"
        BY <1>1, <3>1
      <3>2. CASE txn[m].kind = "decide_release"
        <4>1. dispute' = [dispute EXCEPT ![txn[m].dispute] = "resolved"]
          BY <1>7, <3>2 DEF ReleaseCommits
        <4> QED
          BY <3>2, <4>1
      <3> QED
        BY <1>7, <3>1, <3>2 DEF ReleaseCommits
    <2>2. j \notin Held(m)
      BY <1>1, <2>1 DEF Held, IntentsOf
    <2> QED
      BY <1>1, <1>7, <2>1, <2>2 DEF ReleaseCommits
  <1>8. CASE RefundCommits(m)
    <2>1. m # disputed[d]
      <3>1. CASE txn[m].kind = "refund"
        BY <1>1, <3>1
      <3>2. CASE txn[m].kind = "decide_refund"
        <4>1. dispute' = [dispute EXCEPT ![txn[m].dispute] = "resolved"]
          BY <1>8, <3>2 DEF RefundCommits
        <4> QED
          BY <3>2, <4>1
      <3> QED
        BY <1>8, <3>1, <3>2 DEF RefundCommits
    <2>2. j \notin Held(m)
      BY <1>1, <2>1 DEF Held, IntentsOf
    <2> QED
      BY <1>1, <1>8, <2>1, <2>2 DEF RefundCommits
  <1> QED
    BY <1>2, <1>3, <1>4, <1>5, <1>6, <1>7, <1>8 DEF MilestoneNext

\* While a dispute is open, nothing but its withdrawal or its decision moves the
\* frozen milestone, its deliveries, its money or its payout.
THEOREM DisputedStaysFrozen == Spec => FrozenWhileDisputed
  <1> DEFINE Kept(d) ==
          LET m == disputed[d] IN
          /\ milestone'[m] = milestone[m]
          /\ deliveries'[m] = deliveries[m]
          /\ \A i \in IntentsOf(m) :
                 intent'[i] = intent[i] /\ (i \in payouts' <=> i \in payouts)
  <1>1. ASSUME MoneyInv, [Next]_vars,
               NEW d \in Disputes, dispute[d] = "open", dispute'[d] = "open"
        PROVE  Kept(d)
    <2>1. PICK j \in IntentsOf(disputed[d]) : TRUE
      BY <1>1 DEF MoneyInv, DisputesFreezeMilestones, IntentsFollowMilestones, InEscrow,
                  IntentsOf
    <2>2. ASSUME NEW i \in Intents, FundingNext(i) PROVE Kept(d)
      BY <1>1, <2>1, <2>2, FundingLeavesFrozen
    <2>3. ASSUME NEW m \in Milestones, MilestoneNext(m) PROVE Kept(d)
      BY <1>1, <2>1, <2>3, MilestoneLeavesFrozen
    <2>4. ASSUME NEW e \in Disputes, DisputeNext(e) PROVE Kept(d)
      <3> USE DEF MoneyInv, TypeOK, DisputesFreezeMilestones, DisputeLockable, Decidable,
                  rowVars, moneyVars, disputeVars, processorVars
      <3>1. ASSUME NEW m \in Milestones, OpenDispute(e, m) PROVE Kept(d)
        BY <1>1, <3>1 DEF OpenDispute
      <3>2. CASE WithdrawDispute(e)
        BY <1>1, <3>2 DEF WithdrawDispute
      <3>3. CASE DecideRelease(e) \/ DecideRefund(e)
        BY <3>3 DEF DecideRelease, DecideRefund
      <3>4. CASE DecideResume(e)
        BY <1>1, <3>4 DEF DecideResume
      <3> QED
        BY <2>4, <3>1, <3>2, <3>3, <3>4 DEF DisputeNext
    <2>5. ASSUME NEW status \in ProjectWrites, ProjectWritten(status) PROVE Kept(d)
      BY <2>5 DEF ProjectWritten, rowVars, moneyVars
    <2>6. CASE UNCHANGED vars
      BY <2>6 DEF vars, rowVars, moneyVars
    <2> QED
      BY <1>1, <2>2, <2>3, <2>4, <2>5, <2>6 DEF Next
  <1>2. MoneyInv /\ [Next]_vars =>
            [\A d \in Disputes : dispute[d] = "open" /\ dispute'[d] = "open" => Kept(d)]_vars
    BY <1>1
  <1> QED
    BY <1>2, MoneyInvariant, PTL DEF Spec, FrozenWhileDisputed

-----------------------------------------------------------------------------
(* While no refund is lost.  The processor refunds inside the transaction    *)
(* that records it, so the row and the money agree as long as a transaction  *)
(* whose refund went through also commits.                                   *)

NeverLost == "lost" \notin Faults

LEMMA MilestoneKeepsRefunds ==
    ASSUME NeverLost, MoneyInv, RefundsAreRecorded, NEW m \in Milestones, MilestoneNext(m)
    PROVE  RefundsAreRecorded'
  <1> USE DEF MoneyInv, TypeOK, PayoutsAndRefunds, RefundsAreRecorded, Unlocked, Held,
              IntentsOf, NoTxn, rowVars, moneyVars, disputeVars, processorVars
  <1>1. ASSUME NEW a \in Amounts, AddMilestone(m, a) PROVE RefundsAreRecorded'
    BY <1>1 DEF AddMilestone
  <1>2. CASE CancelMilestone(m) \/ SubmitMilestone(m) \/ RequestRevision(m)
    BY <1>2 DEF CancelMilestone, SubmitMilestone, RequestRevision
  <1>3. CASE ReleaseMilestone(m)
    BY <1>3 DEF ReleaseMilestone, Begin
  <1>4. CASE ReleaseCommits(m)
    BY <1>4 DEF ReleaseCommits
  <1>5. CASE RefundMilestone(m)
    BY <1>5 DEF RefundMilestone, Begin
  <1>6. CASE ProcessorRefunds(m)
    BY <1>6 DEF ProcessorRefunds
  <1>7. CASE RefundCommits(m)
    BY <1>7 DEF RefundCommits
  <1>8. CASE Rollback(m)
    BY <1>8 DEF Rollback, NeverLost
  <1> QED
    BY <1>1, <1>2, <1>3, <1>4, <1>5, <1>6, <1>7, <1>8 DEF MilestoneNext

LEMMA RefundInvariant == NeverLost /\ Spec => [](MoneyInv /\ RefundsAreRecorded)
  <1> SUFFICES ASSUME NeverLost PROVE Spec => [](MoneyInv /\ RefundsAreRecorded)
    OBVIOUS
  <1>1. Init => RefundsAreRecorded
    BY DEF Init, RefundsAreRecorded
  <1>2. MoneyInv /\ RefundsAreRecorded /\ [Next]_vars => RefundsAreRecorded'
    <2> SUFFICES ASSUME MoneyInv, RefundsAreRecorded, [Next]_vars
                 PROVE  RefundsAreRecorded'
      OBVIOUS
    <2> USE DEF MoneyInv, TypeOK, RequestsMakeIntents, PayoutsAndRefunds, RefundsAreRecorded,
                rowVars, moneyVars, disputeVars, processorVars
    <2>1. ASSUME NEW i \in Intents, FundingNext(i) PROVE RefundsAreRecorded'
      <3>1. UNCHANGED <<refunds, txn>>
        BY <2>1 DEF FundingNext, FundMilestone, CreateCharge, CreateChargeFails,
            StoreReference, StoreReferenceFails, FailPaymentIntent, AbandonRequest,
            ClientPays, ChargeFails, PaymentSucceeded, PaymentFailed
      <3>2. \A j \in refunds : intent'[j] = intent[j] /\ forMilestone'[j] = forMilestone[j]
        BY <2>1 DEF FundingNext, FundMilestone, CreateCharge, CreateChargeFails,
            StoreReference, StoreReferenceFails, FailPaymentIntent, AbandonRequest,
            ClientPays, ChargeFails, PaymentSucceeded, Confirmable, PaymentFailed
      <3> QED
        BY <3>1, <3>2
    <2>2. ASSUME NEW d \in Disputes, DisputeNext(d) PROVE RefundsAreRecorded'
      <3>1. UNCHANGED <<intent, forMilestone, refunds>>
        BY <2>2 DEF DisputeNext, OpenDispute, WithdrawDispute, DecideRelease, DecideRefund,
                    DecideResume
      <3>2. \A m \in Milestones : txn'[m] = txn[m] \/ txn[m].kind = "none"
        BY <2>2 DEF DisputeNext, OpenDispute, WithdrawDispute, DecideRelease, DecideRefund,
                    DecideResume, Decidable, DisputeLockable, Unlocked, Begin
      <3> QED
        BY <3>1, <3>2
    <2>3. ASSUME NEW status \in ProjectWrites, ProjectWritten(status)
          PROVE  RefundsAreRecorded'
      BY <2>3 DEF ProjectWritten
    <2>4. CASE UNCHANGED vars
      BY <2>4 DEF vars
    <2> QED
      BY <2>1, <2>2, <2>3, <2>4, MilestoneKeepsRefunds DEF Next
  <1> QED
    BY <1>1, <1>2, MoneyInvariant, PTL DEF Spec

LEMMA PaidOutIsNotReturned == MoneyInv /\ RefundsAreRecorded => PayoutBackedByMoney
  BY DEF MoneyInv, TypeOK, RequestsMakeIntents, PayoutsAndRefunds, RefundsAreRecorded,
         PayoutBackedByMoney

\* A payout is never recorded for money that was not collected or has gone
\* back, as long as no transaction is lost after its refund.
THEOREM PayoutsAreBacked == NeverLost /\ Spec => []PayoutBackedByMoney
  BY RefundInvariant, PaidOutIsNotReturned, PTL

-----------------------------------------------------------------------------
(* The ledger *)

\* A step that collects, pays out and returns nothing is a stutter of the ledger.
LEMMA NothingMoves ==
    ASSUME TypeOK, TypeOK', UNCHANGED <<payouts, refunds>>,
           \A i \in Intents : /\ charge'[i] = "paid" <=> charge[i] = "paid"
                              /\ charge[i] = "paid" => forMilestone'[i] = forMilestone[i]
    PROVE  UNCHANGED Ledger!ledger
  BY DEF TypeOK, Ledger!ledger, MoneyPlace, MoneyPaysFor

LEMMA PaymentCollects ==
    ASSUME MoneyInv, MoneyInv', RefundsAreRecorded, NEW i \in Intents, ClientPays(i),
           charge' = [charge EXCEPT ![i] = "paid"]
    PROVE  Ledger!Collect(i, forMilestone[i])
  <1> DEFINE m == forMilestone[i]
  <1> USE DEF MoneyInv, TypeOK, RequestsMakeIntents, PayoutsAndRefunds
  <1>1. /\ charge[i] = "open" /\ request[i] = "returned" /\ m \in Milestones
        /\ i \notin payouts /\ i \notin refunds
        /\ UNCHANGED <<payouts, refunds, forMilestone>>
    BY DEF ClientPays, rowVars, moneyVars
  <1>2. MoneyPlace[i] = "uncollected"
    BY <1>1 DEF MoneyPlace
  <1>3. ASSUME NEW d \in Intents, MoneyPaysFor[d] = m PROVE MoneyPlace[d] = "client"
    <2>1. charge[d] = "paid" /\ forMilestone[d] = m /\ d # i
      BY <1>1, <1>3, EscrowAssumption DEF MoneyPaysFor
    <2>2. intent[i] \in LiveIntent \cup {"released"}
      BY <1>1, ChargeableIsCurrent DEF Chargeable
    <2>3. ~Chargeable(d)
      <3>1. Chargeable(d) => intent[d] \in LiveIntent \cup {"released"}
        BY ChargeableIsCurrent
      <3> QED
        BY <2>1, <2>2, <3>1 DEF OneCurrentIntent
    <2>4. d \in refunds
      BY <2>1, <2>3 DEF Chargeable
    <2>5. d \notin payouts
      BY <2>4, PaidOutIsNotReturned DEF PayoutBackedByMoney
    <2> QED
      BY <2>4, <2>5 DEF MoneyPlace
  <1>4. MoneyPlace' = [MoneyPlace EXCEPT ![i] = "escrow"]
    BY <1>1 DEF MoneyPlace
  <1>5. MoneyPaysFor' = [MoneyPaysFor EXCEPT ![i] = m]
    BY <1>1 DEF MoneyPaysFor
  <1> QED
    BY <1>2, <1>3, <1>4, <1>5 DEF Ledger!Collect

LEMMA ReleasePaysOut ==
    ASSUME MoneyInv, RefundsAreRecorded, NEW m \in Milestones, ReleaseCommits(m)
    PROVE  \E i \in Intents : Ledger!PayOut(i)
  <1> USE DEF MoneyInv, TypeOK
  <1>1. milestone[m] \in InEscrow /\ txn[m].kind \notin {"refund", "decide_refund"}
    BY DEF ReleaseCommits, TransactionsHoldTheirRows, DisputesFreezeMilestones, InEscrow,
           HoldsEscrow
  <1>2. PICK i \in Intents : forMilestone[i] = m /\ intent[i] = "held_in_escrow"
    BY <1>1 DEF IntentsFollowMilestones
  <1>3. Held(m) = {i}
    BY <1>2, OneHeldIntent DEF Held, IntentsOf
  <1>4. charge[i] = "paid" /\ i \notin refunds /\ i \notin payouts
    BY <1>1, <1>2 DEF RequestsMakeIntents, RefundsAreRecorded, PayoutsAndRefunds
  <1>5. payouts' = payouts \cup {i} /\ UNCHANGED <<charge, refunds, forMilestone>>
    BY <1>3 DEF ReleaseCommits, processorVars
  <1>6. MoneyPlace' = [MoneyPlace EXCEPT ![i] = "freelancer"]
    BY <1>5 DEF MoneyPlace
  <1> QED
    BY <1>4, <1>5, <1>6 DEF Ledger!PayOut, MoneyPlace, MoneyPaysFor

LEMMA RefundReturns ==
    ASSUME MoneyInv, RefundsAreRecorded, NEW m \in Milestones, ProcessorRefunds(m)
    PROVE  \E i \in Intents : Ledger!Return(i)
  <1> USE DEF MoneyInv, TypeOK
  <1>1. milestone[m] \in InEscrow
    BY DEF ProcessorRefunds, TransactionsHoldTheirRows, DisputesFreezeMilestones, InEscrow,
           HoldsEscrow
  <1>2. PICK i \in Intents : forMilestone[i] = m /\ intent[i] = "held_in_escrow"
    BY <1>1 DEF IntentsFollowMilestones
  <1>3. Held(m) = {i}
    BY <1>2, OneHeldIntent DEF Held, IntentsOf
  <1>4. charge[i] = "paid" /\ i \notin refunds /\ i \notin payouts
    BY <1>2, <1>3 DEF ProcessorRefunds, RequestsMakeIntents, PayoutsAndRefunds
  <1>5. refunds' = refunds \cup {i} /\ UNCHANGED <<charge, payouts, forMilestone>>
    BY <1>3 DEF ProcessorRefunds, moneyVars
  <1>6. MoneyPlace' = [MoneyPlace EXCEPT ![i] = "client"]
    BY <1>4, <1>5 DEF MoneyPlace
  <1> QED
    BY <1>4, <1>5, <1>6 DEF Ledger!Return, MoneyPlace, MoneyPaysFor

\* The escrow keeps the ledger's promise as long as no transaction is lost after
\* its refund: a client's payment is the collection, a committed release the pay
\* out, the processor's refund the return, and no other step moves money.
THEOREM EscrowKeepsLedger == NeverLost /\ Spec => ImplementsLedger
  <1> SUFFICES ASSUME NeverLost PROVE Spec => ImplementsLedger
    OBVIOUS
  <1>1. Init => Ledger!Init
    BY DEF Init, Ledger!Init, MoneyPlace, MoneyPaysFor
  <1>2. ASSUME MoneyInv, MoneyInv', RefundsAreRecorded, [Next]_vars
        PROVE  [Ledger!Next]_(Ledger!ledger)
    <2> USE <1>2 DEF MoneyInv, rowVars, moneyVars, disputeVars, processorVars
    <2>1. ASSUME NEW i \in Intents, ClientPays(i) PROVE [Ledger!Next]_(Ledger!ledger)
      <3>1. CASE charge' = [charge EXCEPT ![i] = "paid"]
        <4>1. forMilestone[i] \in Milestones
          BY <2>1 DEF ClientPays, RequestsMakeIntents
        <4> QED
          BY <2>1, <3>1, <4>1, PaymentCollects DEF Ledger!Next
      <3>2. CASE charge' = [charge EXCEPT ![i] = "mispaid"]
        BY <2>1, <3>2, NothingMoves DEF ClientPays, TypeOK
      <3> QED
        BY <2>1, <3>1, <3>2 DEF ClientPays
    <2>2. ASSUME NEW i \in Intents, FundingNext(i), ~ClientPays(i)
          PROVE  UNCHANGED Ledger!ledger
      <3>1. UNCHANGED <<payouts, refunds>>
        BY <2>2 DEF FundingNext, FundMilestone, CreateCharge, CreateChargeFails,
            StoreReference, StoreReferenceFails, FailPaymentIntent, AbandonRequest,
            ChargeFails, PaymentSucceeded, PaymentFailed
      <3>2. \A j \in Intents : charge'[j] = "paid" <=> charge[j] = "paid"
        BY <2>2 DEF TypeOK, RequestsMakeIntents, FundingNext, FundMilestone, CreateCharge,
            CreateChargeFails, StoreReference, StoreReferenceFails, FailPaymentIntent,
            AbandonRequest, ChargeFails, PaymentSucceeded, PaymentFailed
      <3>3. \A j \in Intents : charge[j] = "paid" => forMilestone'[j] = forMilestone[j]
        BY <2>2 DEF TypeOK, RequestsMakeIntents, FundingNext, FundMilestone, CreateCharge,
            CreateChargeFails, StoreReference, StoreReferenceFails, FailPaymentIntent,
            AbandonRequest, ChargeFails, PaymentSucceeded, PaymentFailed
      <3> QED
        BY <3>1, <3>2, <3>3, NothingMoves
    <2>3. ASSUME NEW m \in Milestones, MilestoneNext(m) PROVE [Ledger!Next]_(Ledger!ledger)
      <3>1. CASE ReleaseCommits(m)
        BY <3>1, ReleasePaysOut DEF Ledger!Next
      <3>2. CASE ProcessorRefunds(m)
        BY <3>2, RefundReturns DEF Ledger!Next
      <3>3. CASE ~ReleaseCommits(m) /\ ~ProcessorRefunds(m)
        <4>1. UNCHANGED <<payouts, refunds, charge, forMilestone>>
          BY <2>3, <3>3 DEF MilestoneNext, AddMilestone, CancelMilestone, SubmitMilestone,
              RequestRevision, ReleaseMilestone, RefundMilestone, RefundCommits, Rollback
        <4> QED
          BY <4>1, NothingMoves
      <3> QED
        BY <3>1, <3>2, <3>3
    <2>4. ASSUME NEW d \in Disputes, DisputeNext(d) PROVE UNCHANGED Ledger!ledger
      <3>1. UNCHANGED <<payouts, refunds, charge, forMilestone>>
        BY <2>4 DEF DisputeNext, OpenDispute, WithdrawDispute, DecideRelease, DecideRefund,
                    DecideResume
      <3> QED
        BY <3>1, NothingMoves
    <2>5. ASSUME NEW status \in ProjectWrites, ProjectWritten(status)
          PROVE  UNCHANGED Ledger!ledger
      BY <2>5, NothingMoves DEF ProjectWritten
    <2>6. CASE UNCHANGED vars
      BY <2>6, NothingMoves DEF vars
    <2> QED
      BY <2>1, <2>2, <2>3, <2>4, <2>5, <2>6 DEF Next
  <1>3. Spec => [](MoneyInv /\ RefundsAreRecorded)
    BY RefundInvariant
  <1> QED
    BY <1>1, <1>2, <1>3, PTL DEF Spec, ImplementsLedger, Ledger!Spec

-----------------------------------------------------------------------------
(* Sums.  SumFunctionOnSet is the recursive function AddsUp on the subsets of *)
(* a finite set.  What follows holds of the smallest subset on which it could *)
(* fail, and so of all.                                                       *)

\* Sets of subsets of a finite set have minimal elements.
LEMMA SmallestSubset ==
    ASSUME NEW S, IsFiniteSet(S), NEW T \in SUBSET SUBSET S, T # {}
    PROVE  \E s \in T : \A t \in T : t \subseteq s => t = s
  <1> DEFINE R == StrictSubsetOrdering(S)
  <1>1. IsWellFoundedOn(R, FiniteSubsetsOf(S))
    BY FS_StrictSubsetOrderingWellFounded
  <1>2. T \subseteq FiniteSubsetsOf(S)
    BY FS_FiniteSubsetsOfFinite
  <1>3. PICK s \in T : \A t \in T : <<t, s>> \notin R
    <2> HIDE DEF R
    <2> QED
      BY <1>1, <1>2, WFMin
  <1>4. \A t \in T : t \subseteq s => t = s
    BY <1>3 DEF StrictSubsetOrdering
  <1> QED
    BY <1>4

\* The element of s that a sum over s takes first.
First(s) == CHOOSE x \in s : TRUE

\* F adds up f, in the order in which CHOOSE picks the elements.
AddsUp(F, f, S) ==
    F = [s \in SUBSET S |->
           IF s = {} THEN 0 ELSE f[First(s)] + F[s \ {First(s)}]]

LEMMA SumIsRecursive ==
    ASSUME NEW f, NEW S
    PROVE  SumFunctionOnSet(f, S) = (CHOOSE F : AddsUp(F, f, S))[S]
  BY DEF SumFunctionOnSet, FoldFunctionOnSet, MapThenFoldSet, AddsUp, First

\* Where the summands agree the sums do.
LEMMA AddsUpUnique ==
    ASSUME NEW F, NEW f, NEW S, AddsUp(F, f, S),
           NEW G, NEW g, NEW T, AddsUp(G, g, T),
           NEW s, IsFiniteSet(s), s \subseteq S, s \subseteq T,
           \A x \in s : f[x] = g[x]
    PROVE  F[s] = G[s]
  <1> DEFINE Bad == {u \in SUBSET s : F[u] # G[u]}
  <1> SUFFICES ASSUME Bad # {} PROVE FALSE
    OBVIOUS
  <1>1. PICK u \in Bad : \A t \in Bad : t \subseteq u => t = u
    <2> HIDE DEF Bad
    <2>1. Bad \in SUBSET SUBSET s
      BY DEF Bad
    <2> QED
      BY <2>1, SmallestSubset
  <1>2. u \subseteq s /\ F[u] # G[u]
    OBVIOUS
  <1>3. u # {}
    BY <1>2 DEF AddsUp
  <1>4. First(u) \in u
    BY <1>3 DEF First
  <1>5. F[u \ {First(u)}] = G[u \ {First(u)}]
    BY <1>1, <1>2, <1>4
  <1>6. F[u] = f[First(u)] + F[u \ {First(u)}]
    BY <1>2, <1>3 DEF AddsUp
  <1>7. G[u] = g[First(u)] + G[u \ {First(u)}]
    BY <1>2, <1>3 DEF AddsUp
  <1> QED
    BY <1>2, <1>4, <1>5, <1>6, <1>7

\* The recursion defines a function.
LEMMA AddsUpExists ==
    ASSUME NEW f, NEW S, IsFiniteSet(S)
    PROVE  \E F : AddsUp(F, f, S)
  <1> DEFINE Bad == {s \in SUBSET S : ~\E F : AddsUp(F, f, s)}
  <1> SUFFICES ASSUME Bad # {} PROVE FALSE
    OBVIOUS
  <1>1. PICK s \in Bad : \A t \in Bad : t \subseteq s => t = s
    <2> HIDE DEF Bad
    <2>1. Bad \in SUBSET SUBSET S
      BY DEF Bad
    <2> QED
      BY <2>1, SmallestSubset
  <1> DEFINE V(u) == CHOOSE F : AddsUp(F, f, u)
             G == [u \in SUBSET s |->
                     IF u = {} THEN 0
                     ELSE f[First(u)] + V(u \ {First(u)})[u \ {First(u)}]]
  <1>2. ASSUME NEW u, u \subseteq s, u # s PROVE AddsUp(V(u), f, u)
    <2>1. \E F : AddsUp(F, f, u)
      BY <1>1, <1>2
    <2> QED
      BY <2>1
  <1>3. ASSUME NEW u, u \subseteq s, u # s PROVE G[u] = V(u)[u]
    <2>1. AddsUp(V(u), f, u)
      BY <1>2, <1>3
    <2>2. CASE u = {}
      BY <2>1, <2>2, <1>3 DEF AddsUp
    <2>3. CASE u # {}
      <3> DEFINE v == u \ {First(u)}
      <3>1. First(u) \in u
        BY <2>3 DEF First
      <3>2. AddsUp(V(v), f, v)
        BY <3>1, <1>2, <1>3
      <3>3. IsFiniteSet(v)
        BY <1>1, <1>3, FS_Subset
      <3>4. V(u)[v] = V(v)[v]
        <4> HIDE DEF V
        <4> QED
          BY <2>1, <3>2, <3>3, AddsUpUnique
      <3>5. V(u)[u] = f[First(u)] + V(u)[v]
        BY <2>1, <2>3 DEF AddsUp
      <3>6. G[u] = f[First(u)] + V(v)[v]
        BY <2>3, <1>3
      <3> QED
        BY <3>4, <3>5, <3>6
    <2> QED
      BY <2>2, <2>3
  <1>4. ASSUME NEW u \in SUBSET s, u # {}
        PROVE  G[u] = f[First(u)] + G[u \ {First(u)}]
    <2>1. First(u) \in u
      BY <1>4 DEF First
    <2>2. G[u \ {First(u)}] = V(u \ {First(u)})[u \ {First(u)}]
      BY <2>1, <1>3
    <2> QED
      BY <2>2, <1>4
  <1>5. G = [u \in SUBSET s |->
               IF u = {} THEN 0 ELSE f[First(u)] + G[u \ {First(u)}]]
    <2> DEFINE H == [u \in SUBSET s |->
                       IF u = {} THEN 0 ELSE f[First(u)] + G[u \ {First(u)}]]
    <2>1. \A u \in SUBSET s : G[u] = H[u]
      <3> SUFFICES ASSUME NEW u \in SUBSET s PROVE G[u] = H[u]
        OBVIOUS
      <3>1. CASE u = {}
        BY <3>1
      <3>2. CASE u # {}
        <4>1. G[u] = f[First(u)] + G[u \ {First(u)}]
          BY <3>2, <1>4
        <4> HIDE DEF G
        <4> QED
          BY <3>2, <4>1
      <3> QED
        BY <3>1, <3>2
    <2>2. G = [u \in SUBSET s |-> G[u]] /\ H = [u \in SUBSET s |-> H[u]]
      OBVIOUS
    <2>3. G = H
      <3> HIDE DEF G, H
      <3> QED
        BY <2>1, <2>2
    <2> QED
      BY <2>3
  <1>6. AddsUp(G, f, s)
    BY <1>5 DEF AddsUp
  <1> QED
    BY <1>1, <1>6

LEMMA SumAddsUp ==
    ASSUME NEW f, NEW S, IsFiniteSet(S)
    PROVE  \E F : AddsUp(F, f, S) /\ SumFunctionOnSet(f, S) = F[S]
  <1> DEFINE F == CHOOSE F : AddsUp(F, f, S)
  <1>1. AddsUp(F, f, S)
    BY AddsUpExists
  <1>2. SumFunctionOnSet(f, S) = F[S]
    BY SumIsRecursive
  <1> QED
    BY <1>1, <1>2

\* The sum is determined by the summands.
LEMMA SumSame ==
    ASSUME NEW f, NEW g, NEW S, IsFiniteSet(S), \A x \in S : f[x] = g[x]
    PROVE  SumFunctionOnSet(f, S) = SumFunctionOnSet(g, S)
  <1>1. PICK F : AddsUp(F, f, S) /\ SumFunctionOnSet(f, S) = F[S]
    BY SumAddsUp
  <1>2. PICK G : AddsUp(G, g, S) /\ SumFunctionOnSet(g, S) = G[S]
    BY SumAddsUp
  <1> QED
    BY <1>1, <1>2, AddsUpUnique

LEMMA SumOfNone ==
    ASSUME NEW f
    PROVE  SumFunctionOnSet(f, {}) = 0
  <1>1. PICK F : AddsUp(F, f, {}) /\ SumFunctionOnSet(f, {}) = F[{}]
    BY SumAddsUp, FS_EmptySet
  <1> QED
    BY <1>1 DEF AddsUp

LEMMA AddsUpNat ==
    ASSUME NEW f, NEW S, IsFiniteSet(S), NEW F, AddsUp(F, f, S),
           \A x \in S : f[x] \in Nat
    PROVE  \A s \in SUBSET S : F[s] \in Nat
  <1> DEFINE Bad == {u \in SUBSET S : F[u] \notin Nat}
  <1> SUFFICES ASSUME Bad # {} PROVE FALSE
    OBVIOUS
  <1>1. PICK u \in Bad : \A t \in Bad : t \subseteq u => t = u
    <2> HIDE DEF Bad
    <2>1. Bad \in SUBSET SUBSET S
      BY DEF Bad
    <2> QED
      BY <2>1, SmallestSubset
  <1>2. u # {}
    BY <1>1 DEF AddsUp
  <1>3. First(u) \in u
    BY <1>2 DEF First
  <1>4. F[u \ {First(u)}] \in Nat
    BY <1>1, <1>3
  <1>5. F[u] = f[First(u)] + F[u \ {First(u)}]
    BY <1>1, <1>2 DEF AddsUp
  <1> QED
    BY <1>3, <1>4, <1>5

\* Any element may be taken first.
LEMMA AddsUpAnyOrder ==
    ASSUME NEW f, NEW S, IsFiniteSet(S), NEW F, AddsUp(F, f, S),
           \A x \in S : f[x] \in Nat
    PROVE  \A s \in SUBSET S : \A x \in s : F[s] = f[x] + F[s \ {x}]
  <1> DEFINE Bad == {u \in SUBSET S : \E x \in u : F[u] # f[x] + F[u \ {x}]}
  <1> SUFFICES ASSUME Bad # {} PROVE FALSE
    OBVIOUS
  <1>1. PICK u \in Bad : \A t \in Bad : t \subseteq u => t = u
    <2> HIDE DEF Bad
    <2>1. Bad \in SUBSET SUBSET S
      BY DEF Bad
    <2> QED
      BY <2>1, SmallestSubset
  <1>2. PICK x \in u : F[u] # f[x] + F[u \ {x}]
    OBVIOUS
  <1> DEFINE c == First(u)
             v == u \ {c, x}
  <1>3. c \in u /\ u \in SUBSET S
    BY <1>2 DEF First
  <1>4. F[u] = f[c] + F[u \ {c}]
    BY <1>2, <1>3 DEF AddsUp
  <1>5. c # x
    BY <1>2, <1>4
  <1>6. F[u \ {c}] = f[x] + F[v]
    <2>1. u \ {c} \notin Bad /\ x \in u \ {c} /\ (u \ {c}) \ {x} = v
      BY <1>1, <1>3, <1>5
    <2> QED
      BY <2>1, <1>3
  <1>7. F[u \ {x}] = f[c] + F[v]
    <2>1. u \ {x} \notin Bad /\ c \in u \ {x} /\ (u \ {x}) \ {c} = v
      BY <1>1, <1>2, <1>3, <1>5
    <2> QED
      BY <2>1, <1>3
  <1>8. F[v] \in Nat /\ f[c] \in Nat /\ f[x] \in Nat
    BY <1>2, <1>3, AddsUpNat
  <1> QED
    BY <1>2, <1>4, <1>6, <1>7, <1>8

LEMMA SumNat ==
    ASSUME NEW f, NEW S, IsFiniteSet(S), \A x \in S : f[x] \in Nat
    PROVE  SumFunctionOnSet(f, S) \in Nat
  <1>1. PICK F : AddsUp(F, f, S) /\ SumFunctionOnSet(f, S) = F[S]
    BY SumAddsUp
  <1> QED
    BY <1>1, AddsUpNat

\* A summand can be taken out of the sum.
LEMMA SumTakesOut ==
    ASSUME NEW f, NEW S, IsFiniteSet(S), \A x \in S : f[x] \in Nat, NEW x \in S
    PROVE  SumFunctionOnSet(f, S) = f[x] + SumFunctionOnSet(f, S \ {x})
  <1>1. PICK F : AddsUp(F, f, S) /\ SumFunctionOnSet(f, S) = F[S]
    BY SumAddsUp
  <1>2. IsFiniteSet(S \ {x})
    BY FS_Subset
  <1>3. PICK G : /\ AddsUp(G, f, S \ {x})
                 /\ SumFunctionOnSet(f, S \ {x}) = G[S \ {x}]
    BY <1>2, SumAddsUp
  <1>4. F[S \ {x}] = G[S \ {x}]
    BY <1>1, <1>2, <1>3, AddsUpUnique
  <1>5. F[S] = f[x] + F[S \ {x}]
    BY <1>1, AddsUpAnyOrder
  <1> QED
    BY <1>1, <1>3, <1>4, <1>5

\* Leaving summands out can only make a sum smaller.
LEMMA SumOfFewer ==
    ASSUME NEW f, NEW S, IsFiniteSet(S), \A x \in S : f[x] \in Nat,
           NEW T, T \subseteq S
    PROVE  SumFunctionOnSet(f, T) <= SumFunctionOnSet(f, S)
  <1> DEFINE Bad == {u \in SUBSET S :
                        /\ T \subseteq u
                        /\ ~(SumFunctionOnSet(f, T) <= SumFunctionOnSet(f, u))}
  <1> SUFFICES ASSUME Bad # {} PROVE FALSE
    OBVIOUS
  <1>1. PICK u \in Bad : \A t \in Bad : t \subseteq u => t = u
    <2> HIDE DEF Bad
    <2>1. Bad \in SUBSET SUBSET S
      BY DEF Bad
    <2> QED
      BY <2>1, SmallestSubset
  <1>2. /\ IsFiniteSet(T) /\ IsFiniteSet(u)
        /\ SumFunctionOnSet(f, T) \in Nat /\ SumFunctionOnSet(f, u) \in Nat
    <2>1. u \subseteq S
      OBVIOUS
    <2> HIDE DEF Bad
    <2>2. IsFiniteSet(T) /\ IsFiniteSet(u)
      BY <2>1, FS_Subset
    <2>3. (\A y \in T : f[y] \in Nat) /\ (\A y \in u : f[y] \in Nat)
      BY <2>1
    <2> QED
      BY <2>2, <2>3, SumNat
  <1>3. PICK x \in u : x \notin T
    <2>1. T \subseteq u /\ ~(SumFunctionOnSet(f, T) <= SumFunctionOnSet(f, u))
      OBVIOUS
    <2>2. u # T
      BY <1>2, <2>1
    <2> QED
      BY <2>1, <2>2
  <1>4. /\ SumFunctionOnSet(f, u) = f[x] + SumFunctionOnSet(f, u \ {x})
        /\ SumFunctionOnSet(f, u \ {x}) \in Nat
    <2>1. IsFiniteSet(u \ {x}) /\ \A y \in u : f[y] \in Nat
      BY <1>1, <1>2, FS_Subset
    <2> QED
      BY <1>2, <2>1, SumTakesOut, SumNat
  <1>5. SumFunctionOnSet(f, T) <= SumFunctionOnSet(f, u \ {x})
    BY <1>1, <1>3
  <1> QED
    BY <1>1, <1>2, <1>3, <1>4, <1>5

\* Summands may be added up under other names.
LEMMA SumOfImage ==
    ASSUME NEW f, NEW g, NEW h, NEW S, IsFiniteSet(S),
           \A x \in S : g[x] = f[h[x]] /\ g[x] \in Nat,
           \A x, y \in S : h[x] = h[y] => x = y
    PROVE  SumFunctionOnSet(g, S) = SumFunctionOnSet(f, {h[x] : x \in S})
  <1> DEFINE Image(u) == {h[x] : x \in u}
             Bad == {u \in SUBSET S :
                        SumFunctionOnSet(g, u) # SumFunctionOnSet(f, Image(u))}
  <1> SUFFICES ASSUME Bad # {} PROVE FALSE
    OBVIOUS
  <1>1. PICK u \in Bad : \A t \in Bad : t \subseteq u => t = u
    <2> HIDE DEF Bad
    <2>1. Bad \in SUBSET SUBSET S
      BY DEF Bad
    <2> QED
      BY <2>1, SmallestSubset
  <1>2. u \subseteq S /\ SumFunctionOnSet(g, u) # SumFunctionOnSet(f, Image(u))
    OBVIOUS
  <1>3. u # {}
    <2> SUFFICES ASSUME u = {} PROVE FALSE
      OBVIOUS
    <2>1. Image(u) = {}
      OBVIOUS
    <2> HIDE DEF Image
    <2> QED
      BY <1>2, <2>1, SumOfNone
  <1>4. PICK x \in u : TRUE
    BY <1>3
  <1>5. Image(u) \ {h[x]} = Image(u \ {x}) /\ h[x] \in Image(u)
    BY <1>2
  <1>6. SumFunctionOnSet(g, u \ {x}) = SumFunctionOnSet(f, Image(u \ {x}))
    BY <1>1, <1>2
  <1>7. SumFunctionOnSet(g, u) = g[x] + SumFunctionOnSet(g, u \ {x})
    BY <1>2, FS_Subset, SumTakesOut
  <1>8. SumFunctionOnSet(f, Image(u)) = f[h[x]] + SumFunctionOnSet(f, Image(u \ {x}))
    <2> DEFINE J == Image(u)
               y == h[x]
    <2>1. IsFiniteSet(J)
      <3>1. [z \in u |-> h[z]] \in Surjection(u, J)
        BY DEF Surjection
      <3>2. IsFiniteSet(u)
        BY <1>2, FS_Subset
      <3> HIDE DEF J
      <3> QED
        BY <3>1, <3>2, FS_Surjection
    <2>2. (\A z \in J : f[z] \in Nat) /\ y \in J
      BY <1>2
    <2>3. SumFunctionOnSet(f, J) = f[y] + SumFunctionOnSet(f, J \ {y})
      <3> HIDE DEF J, y
      <3> QED
        BY <2>1, <2>2, SumTakesOut
    <2> QED
      BY <1>5, <2>3
  <1> QED
    BY <1>2, <1>6, <1>7, <1>8

-----------------------------------------------------------------------------
(* The schedule fits the contract *)

LEMMA AllocatedIsSum ==
    /\ Allocated = SumFunctionOnSet(amount, Scheduled)
    /\ Allocated' = SumFunctionOnSet(amount', Scheduled')
  BY DEF Allocated, Scheduled

\* A step that schedules nothing and cancels nothing leaves the sum alone.
LEMMA SameSchedule ==
    ASSUME ScheduleInv, UNCHANGED <<Scheduled, amount>>,
           \A m \in Milestones : txn'[m].completes =>
               txn[m].completes \/ Allocated = Total,
           contract' = "completed" =>
               contract = "completed" \/ \E m \in Milestones : txn[m].completes
    PROVE  ScheduleInv'
  <1>1. Allocated' = Allocated
    BY AllocatedIsSum
  <1> QED
    BY <1>1 DEF ScheduleInv

\* Cancelling a milestone takes its amount out of the sum.
LEMMA CancellingFrees ==
    ASSUME TypeOK, IsFiniteSet(Scheduled), NEW m \in Scheduled,
           milestone' = [milestone EXCEPT ![m] = "cancelled"], amount' = amount
    PROVE  /\ IsFiniteSet(Scheduled)'
           /\ Allocated = amount[m] + Allocated'
           /\ amount[m] \in Nat /\ Allocated' \in Nat
  <1>1. Scheduled' = Scheduled \ {m}
    BY DEF Scheduled, TypeOK
  <1>2. \A n \in Scheduled : amount[n] \in Nat
    BY DEF Scheduled, TypeOK
  <1>3. IsFiniteSet(Scheduled \ {m})
    BY FS_Subset
  <1>4. /\ Allocated = SumFunctionOnSet(amount, Scheduled)
        /\ Allocated' = SumFunctionOnSet(amount, Scheduled \ {m})
    BY <1>1, AllocatedIsSum
  <1>5. SumFunctionOnSet(amount, Scheduled)
            = amount[m] + SumFunctionOnSet(amount, Scheduled \ {m})
    BY <1>2, SumTakesOut
  <1>6. SumFunctionOnSet(amount, Scheduled \ {m}) \in Nat
    BY <1>2, <1>3, SumNat
  <1> QED
    BY <1>1, <1>2, <1>3, <1>4, <1>5, <1>6

LEMMA AddingFits ==
    ASSUME MoneyInv, ContractFollowsMilestones, ScheduleInv,
           NEW m \in Milestones, NEW a \in Amounts, AddMilestone(m, a)
    PROVE  ScheduleInv'
  <1>1. /\ milestone[m] = "none" /\ Allocated + a <= Total
        /\ milestone' = [milestone EXCEPT ![m] = "pending"]
        /\ amount' = [amount EXCEPT ![m] = a]
        /\ contract # "completed" /\ UNCHANGED <<contract, txn>>
        /\ \A n \in Milestones : txn[n].kind \notin {"release", "decide_release"}
    BY DEF AddMilestone, FitsContract
  <1>2. m \notin Scheduled /\ Scheduled' = Scheduled \cup {m}
    BY <1>1 DEF Scheduled, MoneyInv, TypeOK
  <1>3. IsFiniteSet(Scheduled')
    BY <1>2, FS_AddElement DEF ScheduleInv
  <1>4. amount'[m] = a /\ \A n \in Scheduled : amount'[n] = amount[n]
    BY <1>1, <1>2 DEF MoneyInv, TypeOK, Scheduled
  <1>5. \A n \in Scheduled' : amount'[n] \in Nat
    BY <1>2, <1>4, EscrowAssumption DEF MoneyInv, TypeOK, Scheduled
  <1>6. SumFunctionOnSet(amount', Scheduled')
            = a + SumFunctionOnSet(amount', Scheduled)
    <2>1. Scheduled' \ {m} = Scheduled /\ m \in Scheduled'
      BY <1>2
    <2> QED
      BY <2>1, <1>3, <1>4, <1>5, SumTakesOut
  <1>7. SumFunctionOnSet(amount', Scheduled) = SumFunctionOnSet(amount, Scheduled)
    BY <1>4, SumSame DEF ScheduleInv
  <1>8. Allocated' = a + Allocated /\ Allocated \in Nat
    <2>1. \A n \in Scheduled : amount[n] \in Nat
      BY DEF MoneyInv, TypeOK, Scheduled
    <2>2. SumFunctionOnSet(amount, Scheduled) \in Nat
      BY <2>1, SumNat DEF ScheduleInv
    <2> QED
      BY <2>2, <1>6, <1>7, AllocatedIsSum
  <1>9. Allocated' <= Total
    <2>1. a \in Nat /\ Total \in Nat
      BY EscrowAssumption
    <2> HIDE DEF Allocated
    <2> QED
      BY <1>1, <1>8, <2>1
  <1>10. \A n \in Milestones : ~txn'[n].completes
    BY <1>1 DEF ContractFollowsMilestones
  <1> QED
    BY <1>1, <1>3, <1>9, <1>10 DEF ScheduleInv

LEMMA MilestoneKeepsSchedule ==
    ASSUME MoneyInv, ContractFollowsMilestones, ScheduleInv,
           NEW m \in Milestones, MilestoneNext(m)
    PROVE  ScheduleInv'
  <1> USE DEF rowVars, moneyVars, disputeVars, processorVars
  <1>1. ASSUME NEW a \in Amounts, AddMilestone(m, a) PROVE ScheduleInv'
    BY <1>1, AddingFits
  <1>2. CASE CancelMilestone(m)
    <2>1. /\ milestone[m] = "pending" /\ txn[m].kind = "none"
          /\ milestone' = [milestone EXCEPT ![m] = "cancelled"]
          /\ UNCHANGED <<amount, txn, contract>>
      BY <1>2 DEF CancelMilestone, Unlocked
    <2>2. m \in Scheduled /\ m \in OpenMilestones
      BY <2>1 DEF Scheduled, OpenMilestones
    <2>3. Allocated' <= Total /\ IsFiniteSet(Scheduled)'
      <3>1. /\ IsFiniteSet(Scheduled)'
            /\ Allocated = amount[m] + Allocated'
            /\ amount[m] \in Nat /\ Allocated' \in Nat
        BY <2>1, <2>2, CancellingFrees DEF ScheduleInv, MoneyInv
      <3> QED
        BY <3>1, EscrowAssumption DEF ScheduleInv
    <2>4. contract' # "completed" /\ \A n \in Milestones : ~txn'[n].completes
      BY <2>1, <2>2 DEF ContractFollowsMilestones
    <2> QED
      BY <2>3, <2>4 DEF ScheduleInv
  <1>3. CASE SubmitMilestone(m)
    <2>1. UNCHANGED <<Scheduled, amount, txn, contract>>
      BY <1>3 DEF SubmitMilestone, Scheduled, MoneyInv, TypeOK
    <2> QED
      BY <2>1, SameSchedule
  <1>4. CASE RequestRevision(m)
    <2>1. UNCHANGED <<Scheduled, amount, txn, contract>>
      BY <1>4 DEF RequestRevision, Scheduled, MoneyInv, TypeOK
    <2> QED
      BY <2>1, SameSchedule
  <1>5. CASE ReleaseMilestone(m)
    <2>1. UNCHANGED <<Scheduled, amount, contract>>
      BY <1>5 DEF ReleaseMilestone, Scheduled
    <2>2. \A n \in Milestones : txn'[n].completes => txn[n].completes \/ Allocated = Total
      BY <1>5 DEF ReleaseMilestone, Begin, Completes, MoneyInv, TypeOK
    <2> QED
      BY <2>1, <2>2, SameSchedule
  <1>6. CASE ReleaseCommits(m)
    <2>1. milestone[m] \in InEscrow
      BY <1>6 DEF ReleaseCommits, MoneyInv, TransactionsHoldTheirRows,
                  DisputesFreezeMilestones, InEscrow, HoldsEscrow
    <2>2. UNCHANGED <<Scheduled, amount>>
      BY <1>6, <2>1 DEF ReleaseCommits, Scheduled, MoneyInv, TypeOK, InEscrow, HoldsEscrow
    <2>3. \A n \in Milestones : txn'[n].completes => txn[n].completes
      BY <1>6 DEF ReleaseCommits, NoTxn, MoneyInv, TypeOK
    <2>4. contract' = "completed" => contract = "completed" \/ txn[m].completes
      BY <1>6 DEF ReleaseCommits, RestoredContract
    <2> QED
      BY <2>2, <2>3, <2>4, SameSchedule
  <1>7. CASE RefundMilestone(m)
    <2>1. UNCHANGED <<Scheduled, amount, contract>>
      BY <1>7 DEF RefundMilestone, Scheduled
    <2>2. \A n \in Milestones : txn'[n].completes => txn[n].completes
      BY <1>7 DEF RefundMilestone, Begin, MoneyInv, TypeOK
    <2> QED
      BY <2>1, <2>2, SameSchedule
  <1>8. CASE ProcessorRefunds(m)
    <2>1. UNCHANGED <<Scheduled, amount, txn, contract>>
      BY <1>8 DEF ProcessorRefunds, Scheduled
    <2> QED
      BY <2>1, SameSchedule
  <1>9. CASE RefundCommits(m)
    <2>1. m \in Scheduled /\ m \in OpenMilestones
      BY <1>9 DEF RefundCommits, MoneyInv, TransactionsHoldTheirRows,
                  DisputesFreezeMilestones, HoldsEscrow, Scheduled, OpenMilestones
    <2>2. /\ milestone' = [milestone EXCEPT ![m] = "cancelled"]
          /\ amount' = amount /\ txn' = [txn EXCEPT ![m] = NoTxn]
          /\ contract' = "completed" =>
                 contract = "completed" \/ Allocated - amount[m] = Total
      BY <1>9 DEF RefundCommits, RestoredContract
    <2>3. /\ IsFiniteSet(Scheduled)'
          /\ Allocated = amount[m] + Allocated'
          /\ amount[m] \in Nat /\ Allocated' \in Nat
      BY <2>1, <2>2, CancellingFrees DEF ScheduleInv, MoneyInv
    <2>4. contract # "completed"
      BY <2>1 DEF ContractFollowsMilestones
    <2>5. \A n \in Milestones : ~txn'[n].completes
      <3>1. \A n \in Milestones : txn'[n].completes => n # m /\ txn[n].completes
        BY <2>2 DEF NoTxn, MoneyInv, TypeOK
      <3> QED
        BY <2>1, <3>1 DEF ContractFollowsMilestones
    <2>6. Allocated' <= Total /\ (contract' = "completed" => Allocated' = Total)
      BY <2>2, <2>3, <2>4, EscrowAssumption DEF ScheduleInv
    <2> QED
      BY <2>3, <2>5, <2>6 DEF ScheduleInv
  <1>10. CASE Rollback(m)
    <2>1. UNCHANGED <<Scheduled, amount, contract>>
      BY <1>10 DEF Rollback, Scheduled
    <2>2. \A n \in Milestones : txn'[n].completes => txn[n].completes
      BY <1>10 DEF Rollback, NoTxn, MoneyInv, TypeOK
    <2> QED
      BY <2>1, <2>2, SameSchedule
  <1> QED
    BY <1>1, <1>2, <1>3, <1>4, <1>5, <1>6, <1>7, <1>8, <1>9, <1>10 DEF MilestoneNext

LEMMA OthersKeepSchedule ==
    ASSUME MoneyInv, ContractFollowsMilestones, ScheduleInv,
           \/ \E i \in Intents : FundingNext(i)
           \/ \E d \in Disputes : DisputeNext(d)
           \/ \E status \in ProjectWrites : ProjectWritten(status)
    PROVE  ScheduleInv'
  <1> USE DEF rowVars, moneyVars, disputeVars, processorVars
  <1>1. ASSUME NEW i \in Intents, FundingNext(i) PROVE ScheduleInv'
    <2>1. CASE PaymentSucceeded(i)
      <3>1. /\ forMilestone[i] \in Milestones /\ milestone[forMilestone[i]] = "pending"
            /\ milestone' = [milestone EXCEPT ![forMilestone[i]] = "funded"]
            /\ UNCHANGED <<amount, txn>>
            /\ contract' = "completed" => contract = "completed"
        BY <2>1 DEF PaymentSucceeded, Confirmable, MoneyInv, RequestsMakeIntents
      <3>2. Scheduled' = Scheduled
        BY <3>1 DEF Scheduled, MoneyInv, TypeOK
      <3> QED
        BY <3>1, <3>2, SameSchedule
    <2>2. CASE ~PaymentSucceeded(i)
      <3>1. UNCHANGED <<contract, milestone, amount, txn>>
        BY <1>1, <2>2 DEF FundingNext, FundMilestone, CreateCharge, CreateChargeFails,
            StoreReference, StoreReferenceFails, FailPaymentIntent, AbandonRequest,
            ClientPays, ChargeFails, PaymentFailed
      <3>2. Scheduled' = Scheduled
        BY <3>1 DEF Scheduled
      <3> QED
        BY <3>1, <3>2, SameSchedule
    <2> QED
      BY <2>1, <2>2
  <1>2. ASSUME NEW d \in Disputes, DisputeNext(d) PROVE ScheduleInv'
    <2>1. UNCHANGED <<Scheduled, amount>>
      BY <1>2 DEF DisputeNext, OpenDispute, WithdrawDispute, DecideRelease, DecideRefund,
                  DecideResume, Decidable, DisputeLockable, Scheduled, HoldsEscrow, MoneyInv,
                  TypeOK, DisputesFreezeMilestones
    <2>2. contract' = "completed" => contract = "completed"
      BY <1>2 DEF DisputeNext, OpenDispute, WithdrawDispute, DecideRelease, DecideRefund,
                  DecideResume, RestoredContract
    <2>3. \A n \in Milestones : txn'[n].completes => txn[n].completes \/ Allocated = Total
      <3>1. CASE DecideRelease(d)
        <4>1. txn' = [txn EXCEPT ![disputed[d]] =
                        [kind |-> "decide_release",
                         completes |-> Completes(disputed[d], RestoredContract),
                         dispute |-> d]]
          BY <3>1 DEF DecideRelease, Begin
        <4> QED
          BY <4>1 DEF Completes, MoneyInv, TypeOK
      <3>2. CASE DecideRefund(d)
        <4>1. txn' = [txn EXCEPT ![disputed[d]] =
                        [kind |-> "decide_refund", completes |-> FALSE, dispute |-> d]]
          BY <3>2 DEF DecideRefund, Begin
        <4> QED
          BY <4>1 DEF MoneyInv, TypeOK
      <3>3. CASE ~DecideRelease(d) /\ ~DecideRefund(d)
        BY <1>2, <3>3 DEF DisputeNext, OpenDispute, WithdrawDispute, DecideResume
      <3> QED
        BY <3>1, <3>2, <3>3
    <2> QED
      BY <2>1, <2>2, <2>3, SameSchedule
  <1>3. ASSUME NEW status \in ProjectWrites, ProjectWritten(status) PROVE ScheduleInv'
    <2>1. UNCHANGED <<Scheduled, amount, txn, contract>>
      BY <1>3 DEF ProjectWritten, Scheduled
    <2> QED
      BY <2>1, SameSchedule
  <1> QED
    BY <1>1, <1>2, <1>3

LEMMA ScheduleInvariant ==
    Spec => [](MoneyInv /\ ContractFollowsMilestones /\ ScheduleInv)
  <1>1. Init => ScheduleInv
    <2> SUFFICES ASSUME Init PROVE ScheduleInv
      OBVIOUS
    <2>1. Scheduled = {}
      BY DEF Init, Scheduled
    <2>2. Allocated = 0
      BY <2>1, AllocatedIsSum, SumOfNone
    <2>3. contract # "completed" /\ \A m \in Milestones : ~txn[m].completes
      BY DEF Init, NoTxn
    <2> QED
      BY <2>1, <2>2, <2>3, FS_EmptySet, EscrowAssumption DEF ScheduleInv
  <1>2. /\ MoneyInv /\ ContractFollowsMilestones /\ ScheduleInv
        /\ [Next]_vars
        => ScheduleInv'
    <2> SUFFICES ASSUME MoneyInv, ContractFollowsMilestones, ScheduleInv, [Next]_vars
                 PROVE  ScheduleInv'
      OBVIOUS
    <2>1. CASE UNCHANGED vars
      <3>1. UNCHANGED <<Scheduled, amount, txn, contract>>
        BY <2>1 DEF vars, rowVars, Scheduled
      <3> QED
        BY <3>1, SameSchedule
    <2> QED
      BY <2>1, MilestoneKeepsSchedule, OthersKeepSchedule DEF Next
  <1> QED
    BY <1>1, <1>2, ContractInvariant, PTL DEF Spec

\* The live milestones never add up to more than the contract is worth,
\* whatever is scheduled, cancelled and refunded in whatever order.
THEOREM ScheduleFits == Spec => []ScheduleWithinTotal
  <1>1. ScheduleInv => ScheduleWithinTotal
    BY DEF ScheduleInv, ScheduleWithinTotal
  <1> QED
    BY <1>1, ScheduleInvariant, PTL

\* A completed contract is finished: nothing scheduled, disputed, open or
\* still to be paid, and its whole value allocated.
THEOREM CompletedIsSettled == Spec => []CompletedMeansSettled
  <1>1. MoneyInv /\ ContractFollowsMilestones /\ ScheduleInv => CompletedMeansSettled
    <2> SUFFICES ASSUME MoneyInv, ContractFollowsMilestones, ScheduleInv,
                        contract = "completed"
                 PROVE  /\ OpenMilestones = {}
                        /\ Allocated = Total
                        /\ \A i \in Intents : intent[i] \notin LiveIntent
                        /\ \A d \in Disputes : dispute[d] # "open"
                        /\ \A m \in Milestones : Unlocked(m)
      BY DEF CompletedMeansSettled
    <2>1. OpenMilestones = {} /\ \A d \in Disputes : dispute[d] # "open"
      BY DEF ContractFollowsMilestones
    <2>2. \A m \in Milestones : milestone[m] \in {"none", "released", "cancelled"}
      BY <2>1 DEF OpenMilestones
    <2>3. Allocated = Total
      BY DEF ScheduleInv
    <2>4. ASSUME NEW i \in Intents PROVE intent[i] \notin LiveIntent
      <3>1. intent[i] # "none" => forMilestone[i] \in Milestones
        BY DEF MoneyInv, RequestsMakeIntents
      <3> QED
        BY <2>2, <3>1 DEF MoneyInv, IntentsFollowMilestones, LiveIntent, InEscrow, HoldsEscrow
    <2>5. ASSUME NEW m \in Milestones PROVE Unlocked(m)
      <3>1. txn[m].kind \in TxnKind
        BY DEF MoneyInv, TypeOK
      <3>2. txn[m].kind \notin {"release", "refund"}
        BY <2>2 DEF MoneyInv, TransactionsHoldTheirRows, HoldsEscrow
      <3>3. txn[m].kind \notin {"decide_release", "decide_refund"}
        BY <2>1 DEF MoneyInv, TransactionsHoldTheirRows
      <3> QED
        BY <3>1, <3>2, <3>3 DEF TxnKind, Unlocked
    <2> QED
      BY <2>1, <2>3, <2>4, <2>5
  <1> QED
    BY <1>1, ScheduleInvariant, PTL

\* The payouts of a contract never add up to more than it is worth, and add up
\* to exactly that once it is completed: each is for a released milestone of
\* its own, and those are part of the schedule.
THEOREM PaysNoMoreThanTheContract == Spec => []PaysTheContract
  <1>1. MoneyInv /\ ContractFollowsMilestones /\ ScheduleInv => PaysTheContract
    <2> SUFFICES ASSUME MoneyInv, ContractFollowsMilestones, ScheduleInv
                 PROVE  PaysTheContract
      OBVIOUS
    <2> DEFINE Paid == {m \in Milestones : milestone[m] = "released"}
               worth == [i \in payouts |-> amount[forMilestone[i]]]
    <2>1. payouts = {i \in Intents : intent[i] = "released"}
      BY DEF MoneyInv, TypeOK, PayoutsAndRefunds
    <2>2. \A i \in payouts : forMilestone[i] \in Milestones
      BY <2>1 DEF MoneyInv, RequestsMakeIntents
    <2>3. Paid = {forMilestone[i] : i \in payouts}
      BY <2>1, <2>2 DEF MoneyInv, IntentsFollowMilestones
    <2>4. \A i, j \in payouts : forMilestone[i] = forMilestone[j] => i = j
      BY <2>1 DEF MoneyInv, OneCurrentIntent
    <2>5. \A i \in payouts : worth[i] = amount[forMilestone[i]] /\ worth[i] \in Nat
      BY <2>2 DEF MoneyInv, TypeOK
    <2>6. Paid \subseteq Scheduled
      BY DEF Scheduled
    <2>7. IsFiniteSet(payouts)
      <3>1. IsFiniteSet(Paid)
        BY <2>6, FS_Subset DEF ScheduleInv
      <3>2. [i \in payouts |-> forMilestone[i]] \in Injection(payouts, Paid)
        BY <2>3, <2>4 DEF Injection, IsInjective
      <3> HIDE DEF Paid
      <3> QED
        BY <3>1, <3>2, FS_Injection
    <2>8. PaidOut = SumFunctionOnSet(amount, Paid)
      <3>1. SumFunctionOnSet(worth, payouts)
                = SumFunctionOnSet(amount, {forMilestone[i] : i \in payouts})
        <4> HIDE DEF worth
        <4> QED
          BY <2>4, <2>5, <2>7, SumOfImage
      <3> QED
        BY <2>3, <3>1 DEF PaidOut
    <2>9. PaidOut <= Total
      <3>1. \A m \in Scheduled : amount[m] \in Nat
        BY DEF Scheduled, MoneyInv, TypeOK
      <3>2. /\ SumFunctionOnSet(amount, Paid) <= Allocated
            /\ Allocated \in Nat
        <4> HIDE DEF Paid
        <4> QED
          BY <2>6, <3>1, AllocatedIsSum, SumOfFewer, SumNat DEF ScheduleInv
      <3>3. SumFunctionOnSet(amount, Paid) \in Nat
        <4>1. IsFiniteSet(Paid) /\ \A m \in Paid : amount[m] \in Nat
          BY <2>6, <3>1, FS_Subset DEF ScheduleInv
        <4> HIDE DEF Paid
        <4> QED
          BY <4>1, SumNat
      <3> QED
        BY <2>8, <3>2, <3>3, EscrowAssumption DEF ScheduleInv
    <2>10. contract = "completed" => PaidOut = Total
      <3>1. contract = "completed" => Paid = Scheduled
        BY DEF ContractFollowsMilestones, OpenMilestones, Scheduled
      <3> QED
        BY <2>8, <3>1, AllocatedIsSum DEF ScheduleInv
    <2> QED
      BY <2>9, <2>10 DEF PaysTheContract
  <1> QED
    BY <1>1, ScheduleInvariant, PTL

-----------------------------------------------------------------------------
(* A capture is taken *)

\* Nothing takes a stored reference away.
LEMMA AnswersAreStored == Spec => []AnsweredIsStored
  <1>1. Init => AnsweredIsStored
    BY DEF Init, AnsweredIsStored
  <1>2. TypeOK /\ AnsweredIsStored /\ [Next]_vars => AnsweredIsStored'
    <2> SUFFICES ASSUME TypeOK, AnsweredIsStored, [Next]_vars PROVE AnsweredIsStored'
      OBVIOUS
    <2> USE DEF AnsweredIsStored, TypeOK, moneyVars
    <2>1. ASSUME NEW i \in Intents, FundingNext(i) PROVE AnsweredIsStored'
      BY <2>1 DEF FundingNext, FundMilestone, CreateCharge, CreateChargeFails,
          StoreReference, StoreReferenceFails, FailPaymentIntent, AbandonRequest,
          ClientPays, ChargeFails, PaymentSucceeded, PaymentFailed
    <2>2. ASSUME NEW m \in Milestones, MilestoneNext(m) PROVE AnsweredIsStored'
      BY <2>2 DEF MilestoneNext, AddMilestone, CancelMilestone, SubmitMilestone,
          RequestRevision, ReleaseMilestone, ReleaseCommits, RefundMilestone,
          ProcessorRefunds, RefundCommits, Rollback
    <2>3. ASSUME NEW d \in Disputes, DisputeNext(d) PROVE AnsweredIsStored'
      BY <2>3 DEF DisputeNext, OpenDispute, WithdrawDispute, DecideRelease, DecideRefund,
                  DecideResume
    <2>4. ASSUME NEW status \in ProjectWrites, ProjectWritten(status)
          PROVE  AnsweredIsStored'
      BY <2>4 DEF ProjectWritten
    <2>5. CASE UNCHANGED vars
      BY <2>5 DEF vars
    <2> QED
      BY <2>1, <2>2, <2>3, <2>4, <2>5 DEF Next
  <1> QED
    BY <1>1, <1>2, TypeCorrect, PTL DEF Spec

\* The notification of a capture that is waited for always finds what
\* ConfirmPaymentHeld requires: no cancellation, failure or transaction can
\* have come between the payment and its confirmation.
THEOREM CapturesAreTaken == Spec => []CaptureIsTaken
  <1>1. MoneyInv /\ AnsweredIsStored => CaptureIsTaken
    <2> SUFFICES ASSUME MoneyInv, AnsweredIsStored, NEW i \in Intents,
                        charge[i] = "paid", intent[i] = "requires_payment"
                 PROVE  reference[i] /\ Confirmable(i) /\ Unlocked(forMilestone[i])
      BY DEF CaptureIsTaken
    <2>1. reference[i] /\ forMilestone[i] \in Milestones
      BY DEF AnsweredIsStored, MoneyInv, RequestsMakeIntents
    <2>2. milestone[forMilestone[i]] = "pending"
      BY DEF MoneyInv, IntentsFollowMilestones
    <2>3. Unlocked(forMilestone[i])
      <3>1. txn[forMilestone[i]].kind \in TxnKind
        BY <2>1 DEF MoneyInv, TypeOK
      <3>2. txn[forMilestone[i]].kind \notin {"release", "refund"}
        BY <2>1, <2>2 DEF MoneyInv, TransactionsHoldTheirRows, HoldsEscrow
      <3>3. txn[forMilestone[i]].kind \notin {"decide_release", "decide_refund"}
        BY <2>1, <2>2 DEF MoneyInv, TransactionsHoldTheirRows, DisputesFreezeMilestones
      <3> QED
        BY <3>1, <3>2, <3>3 DEF TxnKind, Unlocked
    <2> QED
      BY <2>1, <2>2, <2>3 DEF Confirmable
  <1> QED
    BY <1>1, MoneyInvariant, AnswersAreStored, PTL
=============================================================================
