--------------------------- MODULE PayoutsProofs ---------------------------
(***************************************************************************)
(* Theorems about Payouts, for any payouts, freelancers, replicas, batch   *)
(* size and number of attempts.                                            *)
(***************************************************************************)
EXTENDS Payouts, FiniteSetTheorems, TLAPS

\* An accepted answer is about a transfer that was made.
AnswersAreTrue ==
    \A r \in Replicas :
        answer[r].known /\ answer[r].accepted => answer[r].payout \in transfers

\* While no replica stalls, each payout in hand is fresh, in one hand, once,
\* and its claim is the row's latest.
HandsAreFresh ==
    /\ \A r \in Replicas, p \in Payouts :
        InHand(r, p) =>
            /\ payout[p] = "processing"
            /\ ~stale[p]
            /\ \A s \in Replicas \ {r} : ~InHand(s, p)
    /\ \A r \in Replicas :
        /\ \A c, d \in claims[r] : c.payout = d.payout => c = d
        /\ \A c \in claims[r] : c.attempts = attempts[c.payout]
        /\ answer[r].known =>
               /\ answer[r].attempts = attempts[answer[r].payout]
               /\ \A c \in claims[r] : c.payout # answer[r].payout

-----------------------------------------------------------------------------
LEMMA PayoutTypes ==
    ASSUME TypeOK, NEW p \in Payouts, PayoutNext(p)
    PROVE  TypeOK'
  <1> USE PayoutsAssumption
      DEF TypeOK, PayoutStatus, rows, senders, outside, bounds
  <1>1. CASE Recorded(p)
    BY <1>1 DEF Recorded
  <1>2. CASE BackoffElapses(p)
    BY <1>2 DEF BackoffElapses
  <1>3. CASE GoesStale(p)
    BY <1>3 DEF GoesStale
  <1>4. CASE RetryFailedPayout(p)
    BY <1>4 DEF RetryFailedPayout
  <1> QED
    BY <1>1, <1>2, <1>3, <1>4 DEF PayoutNext

LEMMA AccountTypes ==
    ASSUME TypeOK, NEW f \in Freelancers, AccountNext(f)
    PROVE  TypeOK'
  <1> USE DEF TypeOK, AccountStatus, rows, senders, outside, bounds
  <1>1. CASE CreatePayoutAccount(f)
    BY <1>1 DEF CreatePayoutAccount
  <1>2. CASE SavePayoutAccount(f)
    BY <1>2 DEF SavePayoutAccount
  <1>3. CASE AccountChanges(f)
    BY <1>3 DEF AccountChanges
  <1>4. CASE RefreshPayoutAccount(f)
    BY <1>4 DEF RefreshPayoutAccount
  <1>5. ASSUME NEW state \in AccountStatus, ApplyPayoutAccountState(f, state) PROVE TypeOK'
    BY <1>5 DEF ApplyPayoutAccountState
  <1>6. CASE SetCapability(f)
    BY <1>6 DEF SetCapability
  <1> QED
    BY <1>1, <1>2, <1>3, <1>4, <1>5, <1>6 DEF AccountNext

LEMMA SenderTypes ==
    ASSUME TypeOK, NEW r \in Replicas, SenderNext(r)
    PROVE  TypeOK'
  <1> USE PayoutsAssumption
      DEF TypeOK, PayoutStatus, rows, senders, outside, bounds
  <1>1. CASE Wake(r)
    BY <1>1 DEF Wake
  <1>2. CASE ClaimDuePayouts(r)
    <2>1. PICK S \in SUBSET Claimable :
            /\ payout' = [p \in Payouts |-> IF p \in S THEN "processing" ELSE payout[p]]
            /\ attempts' = [p \in Payouts |-> IF p \in S THEN attempts[p] + 1 ELSE attempts[p]]
            /\ stale' = [p \in Payouts |-> stale[p] /\ p \notin S]
            /\ claims' = [claims EXCEPT ![r] =
                            {[payout |-> p, attempts |-> attempts[p] + 1] : p \in S}]
            /\ batches' = [batches EXCEPT ![r] = IF Cardinality(S) = Batch THEN @ - 1 ELSE 0]
      BY <1>2 DEF ClaimDuePayouts
    <2>2. {[payout |-> p, attempts |-> attempts[p] + 1] : p \in S} \subseteq Claim
      BY DEF Claim, Claimable
    <2>3. batches' \in [Replicas -> 0..MaxBatches]
      BY <1>2, <2>1 DEF ClaimDuePayouts
    <2> QED
      BY <1>2, <2>1, <2>2, <2>3 DEF ClaimDuePayouts
  <1>3. ASSUME NEW c \in claims[r], SendPayout(r, c) PROVE TypeOK'
    <2>1. c.payout \in Payouts /\ c.attempts \in Nat
      BY DEF Claim
    <2>2. PICK made \in BOOLEAN, heard \in BOOLEAN :
            /\ transfers' = IF made THEN transfers \cup {c.payout} ELSE transfers
            /\ answer' = [answer EXCEPT ![r] =
                            [known |-> TRUE, payout |-> c.payout, attempts |-> c.attempts,
                             accepted |-> made /\ heard]]
      BY <1>3 DEF SendPayout
    <2>3. [known |-> TRUE, payout |-> c.payout, attempts |-> c.attempts,
           accepted |-> made /\ heard] \in Answer
      BY <2>1 DEF Answer
    <2>4. answer' \in [Replicas -> {NoAnswer} \cup Answer] /\ transfers' \subseteq Payouts
      BY <2>1, <2>2, <2>3
    <2>5. claims' \in [Replicas -> SUBSET Claim]
      BY <1>3 DEF SendPayout
    <2> QED
      BY <1>3, <2>4, <2>5 DEF SendPayout
  <1>4. CASE MarkPayoutPaid(r)
    BY <1>4 DEF MarkPayoutPaid
  <1>5. CASE MarkPayoutAttemptFailed(r)
    BY <1>5 DEF MarkPayoutAttemptFailed, StatusAfterFailure, TriesAgain
  <1>6. CASE RecordingFails(r)
    BY <1>6 DEF RecordingFails
  <1>7. CASE Crash(r)
    BY <1>7 DEF Crash
  <1> QED
    BY <1>1, <1>2, <1>3, <1>4, <1>5, <1>6, <1>7 DEF SenderNext

\* Every reachable state has the declared shape.
THEOREM TypeCorrect == Spec => []TypeOK
  <1>1. Init => TypeOK
    BY PayoutsAssumption DEF Init, TypeOK, PayoutStatus, AccountStatus
  <1>2. TypeOK /\ [Next]_vars => TypeOK'
    <2> SUFFICES ASSUME TypeOK, [Next]_vars PROVE TypeOK'
      OBVIOUS
    <2>1. CASE UNCHANGED vars
      BY <2>1 DEF TypeOK, vars, rows, senders, outside, bounds
    <2> QED
      BY <2>1, PayoutTypes, AccountTypes, SenderTypes DEF Next
  <1> QED
    BY <1>1, <1>2, PTL DEF Spec

-----------------------------------------------------------------------------
(* Paid means transferred, and stays so *)

\* A payout is marked paid on the word of the processor only.
THEOREM PaidIsTransferred == Spec => []PaidMeansTransferred
  <1> DEFINE Inv == TypeOK /\ AnswersAreTrue /\ PaidMeansTransferred
  <1>1. Init => Inv
    BY PayoutsAssumption
    DEF Init, TypeOK, PayoutStatus, AccountStatus, AnswersAreTrue, PaidMeansTransferred, NoAnswer
  <1>2. Inv /\ [Next]_vars => Inv'
    <2> SUFFICES ASSUME Inv, [Next]_vars, TypeOK' PROVE (AnswersAreTrue /\ PaidMeansTransferred)'
      BY PayoutTypes, AccountTypes, SenderTypes
      DEF Next, TypeOK, vars, rows, senders, outside, bounds
    <2> USE DEF AnswersAreTrue, PaidMeansTransferred, TypeOK, rows, senders, outside, bounds
    <2>1. ASSUME NEW p \in Payouts, PayoutNext(p) PROVE (AnswersAreTrue /\ PaidMeansTransferred)'
      BY <2>1 DEF PayoutNext, Recorded, BackoffElapses, GoesStale, RetryFailedPayout
    <2>2. ASSUME NEW f \in Freelancers, AccountNext(f)
          PROVE  (AnswersAreTrue /\ PaidMeansTransferred)'
      BY <2>2 DEF AccountNext, CreatePayoutAccount, SavePayoutAccount, AccountChanges,
                  RefreshPayoutAccount, ApplyPayoutAccountState, SetCapability
    <2>3. ASSUME NEW r \in Replicas, SenderNext(r) PROVE (AnswersAreTrue /\ PaidMeansTransferred)'
      <3>1. CASE Wake(r)
        BY <3>1 DEF Wake
      <3>2. CASE ClaimDuePayouts(r)
        <4>1. \A p \in Payouts : payout'[p] = "paid" => payout[p] = "paid"
          BY <3>2 DEF ClaimDuePayouts
        <4> QED
          BY <3>2, <4>1 DEF ClaimDuePayouts
      <3>3. ASSUME NEW c \in claims[r], SendPayout(r, c)
            PROVE  (AnswersAreTrue /\ PaidMeansTransferred)'
        BY <3>3 DEF SendPayout, Claim
      <3>4. CASE MarkPayoutPaid(r)
        \* The only step that makes a payout paid, from an accepted answer.
        BY <3>4 DEF MarkPayoutPaid, NoAnswer, Answer
      <3>5. CASE MarkPayoutAttemptFailed(r)
        BY <3>5 DEF MarkPayoutAttemptFailed, StatusAfterFailure, NoAnswer
      <3>6. CASE RecordingFails(r) \/ Crash(r)
        BY <3>6 DEF RecordingFails, Crash, NoAnswer
      <3> QED
        BY <2>3, <3>1, <3>2, <3>3, <3>4, <3>5, <3>6 DEF SenderNext
    <2>4. CASE UNCHANGED vars
      BY <2>4 DEF vars
    <2> QED
      BY <2>1, <2>2, <2>3, <2>4 DEF Next
  <1> QED
    BY <1>1, <1>2, PTL DEF Spec

\* No step moves a paid payout, not even the answer of a stalled sender.
THEOREM PaidStaysPaid == Spec => PaidIsFinal
  <1>1. TypeOK /\ [Next]_vars => [\A p \in Payouts : payout[p] = "paid" => payout'[p] = "paid"]_vars
    <2> SUFFICES ASSUME TypeOK, Next, NEW p \in Payouts, payout[p] = "paid"
                 PROVE  payout'[p] = "paid"
      OBVIOUS
    <2> USE DEF TypeOK, rows, senders, outside, bounds
    <2>1. ASSUME NEW q \in Payouts, PayoutNext(q) PROVE payout'[p] = "paid"
      BY <2>1 DEF PayoutNext, Recorded, BackoffElapses, GoesStale, RetryFailedPayout
    <2>2. ASSUME NEW f \in Freelancers, AccountNext(f) PROVE payout'[p] = "paid"
      BY <2>2 DEF AccountNext, CreatePayoutAccount, SavePayoutAccount, AccountChanges,
                  RefreshPayoutAccount, ApplyPayoutAccountState, SetCapability
    <2>3. ASSUME NEW r \in Replicas, SenderNext(r) PROVE payout'[p] = "paid"
      <3>1. CASE ClaimDuePayouts(r)
        BY <3>1 DEF ClaimDuePayouts, Claimable, ClaimableRow
      <3>2. CASE Wake(r) \/ RecordingFails(r) \/ Crash(r)
        BY <3>2 DEF Wake, RecordingFails, Crash
      <3>3. CASE \E c \in claims[r] : SendPayout(r, c)
        BY <3>3 DEF SendPayout
      <3>4. CASE MarkPayoutPaid(r) \/ MarkPayoutAttemptFailed(r)
        BY <3>4 DEF MarkPayoutPaid, MarkPayoutAttemptFailed, Recordable, StatusAfterFailure
      <3> QED
        BY <2>3, <3>1, <3>2, <3>3, <3>4 DEF SenderNext
    <2> QED
      BY <2>1, <2>2, <2>3 DEF Next
  <1> QED
    BY <1>1, TypeCorrect, PTL DEF Spec, PaidIsFinal

-----------------------------------------------------------------------------
(* One sender per payout, while no replica stalls past payoutStaleAfter *)

\* A payout not recorded yet has had no attempt.
NewIsUntried == \A p \in Payouts : payout[p] = "none" => attempts[p] = 0

HandsInv == TypeOK /\ HandsAreFresh /\ AttemptsSpent /\ NewIsUntried

LEMMA KnownAnswers ==
    ASSUME TypeOK, NEW r \in Replicas, answer[r].known
    PROVE  answer[r] \in Answer
  <1>1. answer[r] \in {NoAnswer} \cup Answer
    BY DEF TypeOK
  <1>2. answer[r] # NoAnswer
    BY DEF NoAnswer
  <1> QED
    BY <1>1, <1>2

LEMMA ClaimKeepsHands ==
    ASSUME HandsInv, NEW r \in Replicas, ClaimDuePayouts(r)
    PROVE  (HandsAreFresh /\ AttemptsSpent /\ NewIsUntried)'
  <1> USE DEF HandsInv, TypeOK, Claim
  <1>1. PICK S \in SUBSET Claimable :
          /\ payout' = [p \in Payouts |-> IF p \in S THEN "processing" ELSE payout[p]]
          /\ attempts' = [p \in Payouts |-> IF p \in S THEN attempts[p] + 1 ELSE attempts[p]]
          /\ stale' = [p \in Payouts |-> stale[p] /\ p \notin S]
          /\ claims' = [claims EXCEPT ![r] =
                          {[payout |-> p, attempts |-> attempts[p] + 1] : p \in S}]
    BY DEF ClaimDuePayouts
  <1>2. claims[r] = {} /\ ~answer[r].known /\ answer' = answer
    BY DEF ClaimDuePayouts
  \* What is claimed is in nobody's hand: it is pending, or stale.
  <1>3. \A p \in S, s \in Replicas : ~InHand(s, p)
    BY DEF Claimable, ClaimableRow, HandsAreFresh
  <1>4. \A p \in Payouts, s \in Replicas :
            InHand(s, p)' <=> InHand(s, p) \/ (s = r /\ p \in S)
    <2> SUFFICES ASSUME NEW p \in Payouts, NEW s \in Replicas
                 PROVE  InHand(s, p)' <=> InHand(s, p) \/ (s = r /\ p \in S)
      OBVIOUS
    <2>1. CASE s = r
      <3>1. claims'[s] = {[payout |-> q, attempts |-> attempts[q] + 1] : q \in S}
        BY <1>1, <2>1
      <3>2. (\E c \in claims'[s] : c.payout = p) <=> p \in S
        <4>1. ASSUME NEW c \in claims'[s], c.payout = p PROVE p \in S
          BY <3>1, <4>1
        <4>2. ASSUME p \in S PROVE \E c \in claims'[s] : c.payout = p
          <5>1. [payout |-> p, attempts |-> attempts[p] + 1] \in claims'[s]
            BY <3>1, <4>2
          <5> QED
            BY <5>1
        <4> QED
          BY <4>1, <4>2
      <3>3. ~answer'[s].known /\ ~answer[s].known /\ claims[s] = {}
        BY <1>2, <2>1
      <3> QED
        BY <2>1, <3>2, <3>3 DEF InHand
    <2>2. CASE s # r
      BY <1>1, <1>2, <2>2 DEF InHand
    <2> QED
      BY <2>1, <2>2
  <1>5. \A s \in Replicas, p \in Payouts :
            InHand(s, p)' =>
                /\ payout'[p] = "processing"
                /\ ~stale'[p]
                /\ \A t \in Replicas \ {s} : ~InHand(t, p)'
    <2> SUFFICES ASSUME NEW s \in Replicas, NEW p \in Payouts, InHand(s, p)'
                 PROVE  /\ payout'[p] = "processing"
                        /\ ~stale'[p]
                        /\ \A t \in Replicas \ {s} : ~InHand(t, p)'
      OBVIOUS
    <2>1. CASE p \in S
      <3>1. s = r
        BY <1>3, <1>4, <2>1
      <3>2. \A t \in Replicas \ {s} : ~InHand(t, p)'
        BY <1>3, <1>4, <2>1, <3>1
      <3>3. payout'[p] = "processing" /\ ~stale'[p]
        BY <1>1, <2>1
      <3> QED
        BY <3>2, <3>3
    <2>2. CASE p \notin S
      <3>1. InHand(s, p) /\ \A t \in Replicas : InHand(t, p)' <=> InHand(t, p)
        BY <1>4, <2>2
      <3>2. payout[p] = "processing" /\ ~stale[p] /\ \A t \in Replicas \ {s} : ~InHand(t, p)
        BY <3>1 DEF HandsAreFresh
      <3>3. payout'[p] = payout[p] /\ stale'[p] = stale[p]
        BY <1>1, <2>2
      <3> QED
        BY <3>1, <3>2, <3>3
    <2> QED
      BY <2>1, <2>2
  <1>6. ASSUME NEW s \in Replicas
        PROVE  /\ \A c, d \in claims'[s] : c.payout = d.payout => c = d
               /\ \A c \in claims'[s] : c.attempts = attempts'[c.payout]
               /\ answer'[s].known =>
                      /\ answer'[s].attempts = attempts'[answer'[s].payout]
                      /\ \A c \in claims'[s] : c.payout # answer'[s].payout
    <2>1. CASE s = r
      BY <1>1, <1>2, <2>1 DEF Claimable
    <2>2. CASE s # r
      <3>1. claims'[s] = claims[s] /\ answer'[s] = answer[s]
        BY <1>1, <1>2, <2>2
      <3>2. \A c \in claims[s] : c.payout \in Payouts /\ c.payout \notin S
        BY <1>3 DEF InHand
      <3>3. answer[s].known => answer[s].payout \in Payouts /\ answer[s].payout \notin S
        BY <1>3, KnownAnswers DEF InHand, Answer
      <3> QED
        BY <1>1, <3>1, <3>2, <3>3 DEF HandsAreFresh
    <2> QED
      BY <2>1, <2>2
  <1>7. AttemptsSpent' /\ NewIsUntried'
    BY <1>1 DEF AttemptsSpent, NewIsUntried
  <1> QED
    BY <1>5, <1>6, <1>7 DEF HandsAreFresh

LEMMA SendKeepsHands ==
    ASSUME HandsInv, NEW r \in Replicas, NEW c \in claims[r], SendPayout(r, c)
    PROVE  (HandsAreFresh /\ AttemptsSpent /\ NewIsUntried)'
  <1> USE DEF HandsInv, TypeOK, Claim, rows
  <1>1. /\ answer'[r].known
        /\ answer'[r].payout = c.payout
        /\ answer'[r].attempts = c.attempts
        /\ claims'[r] = claims[r] \ {c}
        /\ ~answer[r].known
        /\ \A s \in Replicas \ {r} : claims'[s] = claims[s] /\ answer'[s] = answer[s]
        /\ UNCHANGED rows
    BY DEF SendPayout
  <1>2. \A p \in Payouts, s \in Replicas : InHand(s, p)' <=> InHand(s, p)
    <2> SUFFICES ASSUME NEW p \in Payouts, NEW s \in Replicas
                 PROVE  InHand(s, p)' <=> InHand(s, p)
      OBVIOUS
    <2>1. CASE s = r
      BY <1>1, <2>1 DEF InHand
    <2>2. CASE s # r
      BY <1>1, <2>2 DEF InHand
    <2> QED
      BY <2>1, <2>2
  <1>3. AttemptsSpent' /\ NewIsUntried'
    BY <1>1 DEF AttemptsSpent, NewIsUntried
  <1>4. ASSUME NEW s \in Replicas
        PROVE  /\ \A a, d \in claims'[s] : a.payout = d.payout => a = d
               /\ \A d \in claims'[s] : d.attempts = attempts'[d.payout]
               /\ answer'[s].known =>
                      /\ answer'[s].attempts = attempts'[answer'[s].payout]
                      /\ \A d \in claims'[s] : d.payout # answer'[s].payout
    <2>1. CASE s = r
      BY <1>1, <2>1 DEF HandsAreFresh
    <2>2. CASE s # r
      BY <1>1, <2>2 DEF HandsAreFresh
    <2> QED
      BY <2>1, <2>2
  <1> QED
    BY <1>1, <1>2, <1>3, <1>4 DEF HandsAreFresh

LEMMA RecordKeepsHands ==
    ASSUME HandsInv, NEW r \in Replicas, MarkPayoutPaid(r) \/ MarkPayoutAttemptFailed(r)
    PROVE  (HandsAreFresh /\ AttemptsSpent /\ NewIsUntried)'
  <1> USE DEF HandsInv, TypeOK, Claim
  <1> DEFINE p == answer[r].payout
  <1>1. p \in Payouts /\ InHand(r, p) /\ answer[r].known
    <2>1. answer[r].known
      BY DEF MarkPayoutPaid, MarkPayoutAttemptFailed
    <2> QED
      BY <2>1, KnownAnswers DEF Answer, InHand
  <1>2. \A s \in Replicas : \A c \in claims[s] : c.payout # p
    BY <1>1 DEF HandsAreFresh, InHand
  <1>3. \A s \in Replicas \ {r} : answer[s].known => answer[s].payout # p
    BY <1>1 DEF HandsAreFresh, InHand
  <1>4. /\ claims' = claims /\ attempts' = attempts
        /\ answer' = [answer EXCEPT ![r] = NoAnswer]
        /\ \A q \in Payouts \ {p} : payout'[q] = payout[q] /\ stale'[q] = stale[q]
    BY DEF MarkPayoutPaid, MarkPayoutAttemptFailed
  <1>5. ~answer'[r].known
    BY <1>4 DEF NoAnswer
  <1>6. \A s \in Replicas, q \in Payouts : InHand(s, q)' => InHand(s, q) /\ q # p
    BY <1>2, <1>3, <1>4, <1>5 DEF InHand
  <1>7. \A s \in Replicas : answer'[s].known => answer'[s] = answer[s]
    BY <1>4, <1>5
  <1>8. AttemptsSpent'
    <2>1. CASE MarkPayoutPaid(r)
      BY <1>4, <2>1 DEF MarkPayoutPaid, AttemptsSpent
    <2>2. CASE MarkPayoutAttemptFailed(r)
      <3>1. answer[r].attempts = attempts[p]
        BY <1>1 DEF HandsAreFresh
      <3> QED
        BY <1>1, <1>4, <2>2, <3>1, PayoutsAssumption
        DEF MarkPayoutAttemptFailed, AttemptsSpent, StatusAfterFailure, TriesAgain
    <2> QED
      BY <2>1, <2>2
  <1>9. NewIsUntried'
    <2>1. payout'[p] # "none"
      BY <1>1 DEF HandsAreFresh, MarkPayoutPaid, MarkPayoutAttemptFailed, StatusAfterFailure
    <2> QED
      BY <1>4, <2>1 DEF NewIsUntried
  <1> QED
    BY <1>4, <1>6, <1>7, <1>8, <1>9 DEF HandsAreFresh

LEMMA DropKeepsHands ==
    ASSUME HandsInv, NEW r \in Replicas, RecordingFails(r) \/ Crash(r)
    PROVE  (HandsAreFresh /\ AttemptsSpent /\ NewIsUntried)'
  <1> USE DEF HandsInv, TypeOK, Claim, rows
  <1>1. /\ UNCHANGED rows
        /\ \A s \in Replicas : claims'[s] \subseteq claims[s]
        /\ ~answer'[r].known
        /\ \A s \in Replicas \ {r} : answer'[s] = answer[s]
    BY DEF RecordingFails, Crash, NoAnswer
  <1>2. \A s \in Replicas, q \in Payouts : InHand(s, q)' => InHand(s, q)
    BY <1>1 DEF InHand
  <1>3. \A s \in Replicas : answer'[s].known => answer'[s] = answer[s]
    BY <1>1
  <1>4. AttemptsSpent' /\ NewIsUntried'
    BY <1>1 DEF AttemptsSpent, NewIsUntried
  <1> QED
    BY <1>1, <1>2, <1>3, <1>4 DEF HandsAreFresh

\* While no replica stalls, a payout in hand is in one hand, its row is being
\* processed, and the number of its attempts decides its fate.
THEOREM HandsInvariant == ASSUME "slow" \notin Mishaps PROVE Spec => []HandsInv
  <1>1. Init => HandsInv
    BY PayoutsAssumption
    DEF Init, HandsInv, TypeOK, PayoutStatus, AccountStatus, HandsAreFresh, AttemptsSpent,
        NewIsUntried, InHand, NoAnswer
  <1>2. HandsInv /\ [Next]_vars => HandsInv'
    <2> SUFFICES ASSUME HandsInv, [Next]_vars PROVE HandsInv'
      OBVIOUS
    <2>1. TypeOK'
      BY PayoutTypes, AccountTypes, SenderTypes
      DEF HandsInv, Next, TypeOK, vars, rows, senders, outside, bounds
    <2>2. ASSUME NEW p \in Payouts, PayoutNext(p) PROVE (HandsAreFresh /\ AttemptsSpent /\ NewIsUntried)'
      <3> USE DEF HandsInv, TypeOK, HandsAreFresh, AttemptsSpent, NewIsUntried, InHand, senders
      <3>1. CASE Recorded(p)
        <4>1. /\ attempts' = attempts /\ stale' = stale /\ claims' = claims /\ answer' = answer
              /\ \A q \in Payouts \ {p} : payout'[q] = payout[q]
              /\ payout'[p] = "pending"
              /\ payout[p] = "none"
          BY <3>1 DEF Recorded
        <4>2. \A r \in Replicas : ~InHand(r, p)
          BY <4>1
        <4>3. attempts[p] < MaxAttempts
          BY <4>1, PayoutsAssumption
        <4> QED
          BY <4>1, <4>2, <4>3
      <3>2. CASE BackoffElapses(p)
        BY <3>2 DEF BackoffElapses
      <3>3. CASE GoesStale(p)
        BY <3>3 DEF GoesStale
      <3>4. CASE RetryFailedPayout(p)
        BY <3>4, PayoutsAssumption DEF RetryFailedPayout
      <3> QED
        BY <2>2, <3>1, <3>2, <3>3, <3>4 DEF PayoutNext
    <2>3. ASSUME NEW f \in Freelancers, AccountNext(f) PROVE (HandsAreFresh /\ AttemptsSpent /\ NewIsUntried)'
      BY <2>3 DEF HandsInv, HandsAreFresh, AttemptsSpent, NewIsUntried, InHand, rows, senders,
          AccountNext, CreatePayoutAccount, SavePayoutAccount, AccountChanges,
          RefreshPayoutAccount, ApplyPayoutAccountState, SetCapability
    <2>4. ASSUME NEW r \in Replicas, SenderNext(r) PROVE (HandsAreFresh /\ AttemptsSpent /\ NewIsUntried)'
      <3>1. CASE Wake(r)
        BY <3>1 DEF Wake, HandsInv, HandsAreFresh, AttemptsSpent, NewIsUntried, InHand, rows
      <3> QED
        BY <2>4, <3>1, ClaimKeepsHands, SendKeepsHands, RecordKeepsHands, DropKeepsHands
        DEF SenderNext
    <2>5. CASE UNCHANGED vars
      <3>1. UNCHANGED <<payout, attempts, stale, claims, answer>>
        BY <2>5 DEF vars, rows, senders
      <3>2. AttemptsSpent' /\ NewIsUntried'
        BY <3>1 DEF HandsInv, AttemptsSpent, NewIsUntried
      <3>3. HandsAreFresh'
        BY <3>1 DEF HandsInv, HandsAreFresh, InHand
      <3> QED
        BY <2>1, <3>2, <3>3 DEF HandsInv
    <2> QED
      BY <2>1, <2>2, <2>3, <2>4, <2>5 DEF HandsInv, Next
  <1> QED
    BY <1>1, <1>2, PTL DEF Spec

\* Replicas never send the same payout while none of them stalls.
THEOREM OneSender == ASSUME "slow" \notin Mishaps PROVE Spec => []OneSenderPerPayout
  <1>1. HandsInv => OneSenderPerPayout
    BY DEF HandsInv, HandsAreFresh, OneSenderPerPayout
  <1> QED
    BY <1>1, HandsInvariant, PTL

\* While none stalls, a payout waits only with attempts left, and parks only
\* without.
THEOREM AttemptsAreSpent == ASSUME "slow" \notin Mishaps PROVE Spec => []AttemptsSpent
  <1>1. HandsInv => AttemptsSpent
    BY DEF HandsInv
  <1> QED
    BY <1>1, HandsInvariant, PTL

-----------------------------------------------------------------------------
(* The attempts, stalled replicas included                                 *)

\* A replica has a payout in hand once.
HeldOnce ==
    \A r \in Replicas :
        /\ \A c, d \in claims[r] : c.payout = d.payout => c = d
        /\ answer[r].known => \A c \in claims[r] : c.payout # answer[r].payout

\* What r has in hand of p puts it back to pending should the transfer fail.
MayReturn(r, p) ==
    \/ \E c \in claims[r] : c.payout = p /\ c.attempts < MaxAttempts
    \/ answer[r].known /\ answer[r].payout = p /\ answer[r].attempts < MaxAttempts
Returning(p) == {r \in Replicas : MayReturn(r, p)}

\* p can be claimed, or will be once time has passed, with no mishap more.
Claims(p) ==
    \/ payout[p] \in {"none", "pending"}
    \/ payout[p] = "processing" /\ (stale[p] \/ \A r \in Replicas : ~InHand(r, p))
ToClaim(p) == IF Claims(p) THEN 1 ELSE 0

\* The attempts made, or all but the last: a claim below them costs nothing.
Made(n) == IF n < MaxAttempts THEN MaxAttempts - 1 ELSE n

\* The attempts a payout has and may still come to.
Account(p) ==
    Made(attempts[p]) + Cardinality(Returning(p)) + ToClaim(p)
      <= MaxAttempts + mishaps + retries[p]

AttemptsInv == TypeOK /\ HeldOnce /\ \A p \in Payouts : Account(p)

LEMMA Countable ==
    ASSUME NEW p
    PROVE  IsFiniteSet(Returning(p)) /\ Cardinality(Returning(p)) \in Nat
  BY PayoutsAssumption, FS_Subset, FS_CardinalityType DEF Returning

LEMMA NextCountable ==
    ASSUME NEW p
    PROVE  IsFiniteSet(Returning(p)') /\ Cardinality(Returning(p)') \in Nat
  BY PayoutsAssumption, FS_Subset, FS_CardinalityType DEF Returning

LEMMA AccountTyped ==
    ASSUME TypeOK, NEW p \in Payouts
    PROVE  /\ attempts[p] \in Nat /\ mishaps \in Nat /\ retries[p] \in Nat
           /\ MaxAttempts \in Nat \ {0}
           /\ Made(attempts[p]) \in Nat /\ ToClaim(p) \in 0..1
  BY PayoutsAssumption DEF TypeOK, Made, ToClaim

\* The account is kept by what spends, in mishaps and retries, at least what it
\* adds to the payouts that may return or be claimed.
LEMMA Balanced ==
    ASSUME AttemptsInv, TypeOK', NEW p \in Payouts,
           Made(attempts'[p]) + Cardinality(Returning(p)') + ToClaim(p)'
             <= Made(attempts[p]) + Cardinality(Returning(p)) + ToClaim(p)
                  + (mishaps' - mishaps) + (retries'[p] - retries[p])
    PROVE  Account(p)'
  <1>1. /\ mishaps \in Nat /\ retries[p] \in Nat /\ Made(attempts[p]) \in Nat
        /\ ToClaim(p) \in Int /\ MaxAttempts \in Nat
    BY AccountTyped DEF AttemptsInv
  <1>2. /\ mishaps' \in Nat /\ retries'[p] \in Nat /\ attempts'[p] \in Nat
        /\ ToClaim(p)' \in Int /\ Made(attempts'[p]) \in Int
    BY <1>1 DEF TypeOK, ToClaim, Made
  <1>3. Cardinality(Returning(p)) \in Nat /\ Cardinality(Returning(p)') \in Nat
    BY Countable, NextCountable
  <1>4. Made(attempts[p]) + Cardinality(Returning(p)) + ToClaim(p)
          <= MaxAttempts + mishaps + retries[p]
    BY DEF AttemptsInv, Account
  <1> QED
    BY <1>1, <1>2, <1>3, <1>4 DEF Account

\* Nothing in hand changes, and p becomes no more claimable.
LEMMA HandsStay ==
    ASSUME AttemptsInv, TypeOK', NEW p \in Payouts, claims' = claims, answer' = answer,
           Claims(p)' => Claims(p), attempts'[p] = attempts[p],
           mishaps <= mishaps', retries[p] <= retries'[p]
    PROVE  Account(p)'
  <1>1. Returning(p)' = Returning(p)
    BY DEF Returning, MayReturn
  <1>2. ToClaim(p)' <= ToClaim(p) /\ ToClaim(p)' \in Int /\ ToClaim(p) \in Int
    BY DEF ToClaim
  <1>3. /\ mishaps \in Nat /\ retries[p] \in Nat /\ Made(attempts[p]) \in Nat
        /\ mishaps' \in Nat /\ retries'[p] \in Nat
        /\ Made(attempts'[p]) = Made(attempts[p])
    BY AccountTyped DEF AttemptsInv, TypeOK
  <1>4. Cardinality(Returning(p)) \in Nat
    BY Countable
  <1> QED
    BY <1>1, <1>2, <1>3, <1>4, Balanced

LEMMA OutsideBalanced ==
    ASSUME AttemptsInv, TypeOK',
           \/ \E p \in Payouts : PayoutNext(p)
           \/ \E f \in Freelancers : AccountNext(f)
           \/ \E r \in Replicas : Wake(r)
           \/ UNCHANGED vars
    PROVE  AttemptsInv'
  <1> USE DEF rows, senders, outside, bounds
  <1>1. claims' = claims /\ answer' = answer
    BY DEF PayoutNext, Recorded, BackoffElapses, GoesStale, RetryFailedPayout, AccountNext,
        CreatePayoutAccount, SavePayoutAccount, AccountChanges, RefreshPayoutAccount,
        ApplyPayoutAccountState, SetCapability, Wake, vars
  <1>2. HeldOnce'
    BY <1>1 DEF AttemptsInv, HeldOnce
  <1>3. ASSUME NEW p \in Payouts, attempts'[p] = attempts[p], payout'[p] = payout[p],
               stale'[p] = stale[p], mishaps <= mishaps', retries'[p] = retries[p]
        PROVE  Account(p)'
    <2>1. Claims(p)' => Claims(p)
      BY <1>1, <1>3 DEF Claims, InHand
    <2>2. retries[p] <= retries'[p]
      BY <1>3, AccountTyped DEF AttemptsInv
    <2> QED
      BY <1>1, <1>3, <2>1, <2>2, HandsStay
  <1>4. ASSUME NEW q \in Payouts, PayoutNext(q), NEW p \in Payouts PROVE Account(p)'
    <2>0. /\ mishaps \in Nat /\ retries[p] \in Nat /\ attempts[p] \in Nat
          /\ Made(attempts[p]) \in Nat /\ ToClaim(p) \in 0..1 /\ MaxAttempts \in Nat \ {0}
      BY AccountTyped DEF AttemptsInv
    <2>1. CASE Recorded(q) \/ BackoffElapses(q)
      <3>1. Claims(p)' => Claims(p)
        BY <1>1, <2>1 DEF Recorded, BackoffElapses, Claims, InHand, AttemptsInv, TypeOK
      <3>2. /\ attempts'[p] = attempts[p]
            /\ mishaps <= mishaps' /\ retries[p] <= retries'[p]
        BY <2>0, <2>1 DEF Recorded, BackoffElapses
      <3> QED
        BY <1>1, <3>1, <3>2, HandsStay
    <2>2. CASE GoesStale(q)
      <3>1. /\ attempts' = attempts /\ payout' = payout /\ retries' = retries
            /\ payout[q] = "processing"
            /\ stale' = [stale EXCEPT ![q] = TRUE]
            /\ mishaps' = IF \E r \in Replicas : InHand(r, q) THEN mishaps + 1 ELSE mishaps
        BY <2>2 DEF GoesStale
      <3>2. CASE p # q
        <4>1. stale'[p] = stale[p]
          BY <3>1, <3>2 DEF AttemptsInv, TypeOK
        <4>2. mishaps <= mishaps'
          BY <2>0, <3>1
        <4> QED
          BY <1>3, <3>1, <4>1, <4>2
      <3>3. CASE p = q /\ \A r \in Replicas : ~InHand(r, q)
        <4>1. Claims(p)
          BY <3>1, <3>3 DEF Claims
        <4> QED
          BY <1>1, <2>0, <3>1, <3>3, <4>1, HandsStay
      <3>4. CASE p = q /\ \E r \in Replicas : InHand(r, q)
        <4>1. Returning(p)' = Returning(p)
          BY <1>1 DEF Returning, MayReturn
        <4>2. ToClaim(p)' \in 0..1
          BY DEF ToClaim
        <4> QED
          BY <2>0, <3>1, <3>4, <4>1, <4>2, Countable, Balanced
      <3> QED
        BY <3>2, <3>3, <3>4
    <2>3. CASE RetryFailedPayout(q)
      <3>1. /\ payout' = [payout EXCEPT ![q] = "pending"]
            /\ attempts' = [attempts EXCEPT ![q] = 0]
            /\ retries' = [retries EXCEPT ![q] = @ + 1]
            /\ stale' = stale /\ mishaps' = mishaps
        BY <2>3 DEF RetryFailedPayout
      <3>2. CASE p # q
        BY <1>3, <2>0, <3>1, <3>2 DEF AttemptsInv, TypeOK
      <3>3. CASE p = q
        <4>1. Returning(p)' = Returning(p)
          BY <1>1 DEF Returning, MayReturn
        <4>2. ToClaim(p)' \in 0..1
          BY DEF ToClaim
        <4>3. attempts'[p] = 0 /\ retries'[p] = retries[p] + 1
          BY <3>1, <3>3 DEF AttemptsInv, TypeOK
        <4>4. Made(attempts'[p]) <= Made(attempts[p]) /\ Made(attempts'[p]) \in Nat
          BY <2>0, <4>3 DEF Made
        <4> QED
          BY <2>0, <3>1, <4>1, <4>2, <4>3, <4>4, Countable, Balanced
      <3> QED
        BY <3>2, <3>3
    <2> QED
      BY <1>4, <2>1, <2>2, <2>3 DEF PayoutNext
  <1>5. CASE ~\E q \in Payouts : PayoutNext(q)
    <2>1. /\ attempts' = attempts /\ payout' = payout /\ stale' = stale
          /\ mishaps' = mishaps /\ retries' = retries
      BY <1>5 DEF AccountNext, CreatePayoutAccount, SavePayoutAccount, AccountChanges,
          RefreshPayoutAccount, ApplyPayoutAccountState, SetCapability, Wake, vars
    <2>2. mishaps <= mishaps'
      BY <2>1 DEF AttemptsInv, TypeOK
    <2> QED
      BY <1>2, <1>3, <2>1, <2>2 DEF AttemptsInv
  <1> QED
    BY <1>2, <1>4, <1>5 DEF AttemptsInv

LEMMA ClaimBalanced ==
    ASSUME AttemptsInv, TypeOK', NEW r \in Replicas, ClaimDuePayouts(r)
    PROVE  AttemptsInv'
  <1>1. PICK S \in SUBSET Claimable :
          /\ payout' = [p \in Payouts |-> IF p \in S THEN "processing" ELSE payout[p]]
          /\ attempts' = [p \in Payouts |-> IF p \in S THEN attempts[p] + 1 ELSE attempts[p]]
          /\ stale' = [p \in Payouts |-> stale[p] /\ p \notin S]
          /\ claims' = [claims EXCEPT ![r] =
                          {[payout |-> p, attempts |-> attempts[p] + 1] : p \in S}]
    BY DEF ClaimDuePayouts
  <1>2. /\ answer' = answer /\ mishaps' = mishaps /\ retries' = retries
        /\ claims[r] = {} /\ ~answer[r].known
        /\ claims'[r] = {[payout |-> p, attempts |-> attempts[p] + 1] : p \in S}
        /\ \A s \in Replicas \ {r} : claims'[s] = claims[s]
    BY <1>1 DEF ClaimDuePayouts, bounds, AttemptsInv, TypeOK
  <1>3. HeldOnce'
    BY <1>2 DEF HeldOnce, AttemptsInv
  <1>4. ASSUME NEW p \in Payouts PROVE Account(p)'
    <2>1. /\ mishaps \in Nat /\ retries[p] \in Nat /\ attempts[p] \in Nat
          /\ Made(attempts[p]) \in Nat /\ ToClaim(p) \in 0..1 /\ MaxAttempts \in Nat \ {0}
      BY AccountTyped DEF AttemptsInv
    <2>2. ~InHand(r, p) /\ ~MayReturn(r, p)
      BY <1>2 DEF InHand, MayReturn
    <2>3. \A s \in Replicas \ {r} :
             (InHand(s, p)' <=> InHand(s, p)) /\ (MayReturn(s, p)' <=> MayReturn(s, p))
      BY <1>2 DEF InHand, MayReturn
    <2>4. CASE p \notin S
      <3>1. ~InHand(r, p)' /\ ~MayReturn(r, p)'
        BY <1>2, <2>4 DEF InHand, MayReturn
      <3>2. Returning(p)' = Returning(p)
        BY <2>2, <2>3, <3>1 DEF Returning
      <3>3. payout'[p] = payout[p] /\ stale'[p] = stale[p] /\ attempts'[p] = attempts[p]
        BY <1>1, <2>4 DEF AttemptsInv, TypeOK
      <3>4. Claims(p)' <=> Claims(p)
        BY <2>2, <2>3, <3>1, <3>3 DEF Claims
      <3>5. ToClaim(p)' = ToClaim(p)
        BY <3>4 DEF ToClaim
      <3> QED
        BY <1>2, <2>1, <3>2, <3>3, <3>5, Countable, Balanced
    <2>5. CASE p \in S
      <3> DEFINE c == [payout |-> p, attempts |-> attempts[p] + 1]
      <3>1. c \in claims'[r]
        BY <1>2, <2>5
      <3>2. Claims(p)
        BY <2>5 DEF Claimable, ClaimableRow, Claims
      <3>3. ~Claims(p)'
        <4>1. InHand(r, p)'
          BY <3>1 DEF InHand
        <4> QED
          BY <1>1, <2>5, <4>1 DEF Claims
      <3>4. ToClaim(p) = 1 /\ ToClaim(p)' = 0
        BY <3>2, <3>3 DEF ToClaim
      <3>5. attempts'[p] = attempts[p] + 1
        BY <1>1, <2>5
      <3>6. MayReturn(r, p)' <=> attempts[p] + 1 < MaxAttempts
        <4>1. \A d \in claims'[r] : d.payout = p => d.attempts = attempts[p] + 1
          BY <1>2
        <4>2. c.payout = p /\ c.attempts = attempts[p] + 1
          OBVIOUS
        <4>3. ~answer'[r].known
          BY <1>2
        <4> HIDE DEF c
        <4> QED
          BY <3>1, <4>1, <4>2, <4>3 DEF MayReturn
      <3>7. r \notin Returning(p)
        BY <2>2 DEF Returning
      <3>8. Returning(p)' = IF attempts[p] + 1 < MaxAttempts
                            THEN Returning(p) \cup {r} ELSE Returning(p)
        BY <2>2, <2>3, <3>6 DEF Returning
      <3>9. Cardinality(Returning(p)') = IF attempts[p] + 1 < MaxAttempts
              THEN Cardinality(Returning(p)) + 1 ELSE Cardinality(Returning(p))
        BY <3>7, <3>8, Countable, FS_AddElement
      <3>10. Made(attempts'[p]) = IF attempts[p] + 1 < MaxAttempts
               THEN Made(attempts[p]) ELSE Made(attempts[p]) + 1
        BY <2>1, <3>5 DEF Made
      <3>11. Cardinality(Returning(p)) \in Nat
        BY Countable
      <3> QED
        BY <1>2, <2>1, <3>4, <3>9, <3>10, <3>11, Balanced
    <2> QED
      BY <2>4, <2>5
  <1> QED
    BY <1>3, <1>4 DEF AttemptsInv

LEMMA SendBalanced ==
    ASSUME AttemptsInv, TypeOK', NEW r \in Replicas, NEW c \in claims[r], SendPayout(r, c)
    PROVE  AttemptsInv'
  <1>1. PICK said \in BOOLEAN :
          answer' = [answer EXCEPT ![r] = [known |-> TRUE, payout |-> c.payout,
                                           attempts |-> c.attempts, accepted |-> said]]
    BY DEF SendPayout
  <1>2. /\ answer'[r].known /\ answer'[r].payout = c.payout
        /\ answer'[r].attempts = c.attempts
        /\ claims'[r] = claims[r] \ {c} /\ ~answer[r].known
        /\ \A s \in Replicas \ {r} : claims'[s] = claims[s] /\ answer'[s] = answer[s]
        /\ UNCHANGED <<payout, attempts, stale, mishaps, retries>>
    BY <1>1 DEF SendPayout, rows, bounds, AttemptsInv, TypeOK
  <1>3. HeldOnce'
    BY <1>2 DEF HeldOnce, AttemptsInv
  <1>4. ASSUME NEW p \in Payouts PROVE Account(p)'
    <2>1. \A s \in Replicas :
             (InHand(s, p)' <=> InHand(s, p)) /\ (MayReturn(s, p)' <=> MayReturn(s, p))
      BY <1>2 DEF InHand, MayReturn
    <2>2. Returning(p)' = Returning(p)
      BY <2>1 DEF Returning
    <2>3. ToClaim(p)' = ToClaim(p)
      BY <1>2, <2>1 DEF ToClaim, Claims
    <2>4. /\ mishaps \in Nat /\ retries[p] \in Nat
          /\ Made(attempts[p]) \in Nat /\ ToClaim(p) \in 0..1
      BY AccountTyped DEF AttemptsInv
    <2> QED
      BY <1>2, <2>2, <2>3, <2>4, Countable, Balanced
  <1> QED
    BY <1>3, <1>4 DEF AttemptsInv

\* An answer recorded gives up a hand for a row that may be claimed again.
LEMMA RecordBalanced ==
    ASSUME AttemptsInv, TypeOK', NEW r \in Replicas,
           MarkPayoutPaid(r) \/ MarkPayoutAttemptFailed(r)
    PROVE  AttemptsInv'
  <1> SUFFICES ASSUME NEW a, a = answer[r] PROVE AttemptsInv'
    OBVIOUS
  <1>1. /\ a.known /\ a.payout \in Payouts /\ a.attempts \in Nat
    BY KnownAnswers DEF MarkPayoutPaid, MarkPayoutAttemptFailed, AttemptsInv, Answer
  <1>2. /\ answer'[r] = NoAnswer /\ claims' = claims
        /\ \A s \in Replicas \ {r} : answer'[s] = answer[s]
        /\ UNCHANGED <<attempts, mishaps, retries>>
    BY DEF MarkPayoutPaid, MarkPayoutAttemptFailed, bounds, AttemptsInv, TypeOK
  <1>3. /\ ~answer'[r].known
        /\ \A c \in claims[r] : c.payout # a.payout
    BY <1>1, <1>2 DEF NoAnswer, AttemptsInv, HeldOnce
  <1>4. HeldOnce'
    BY <1>2, <1>3 DEF HeldOnce, AttemptsInv
  <1>5. ASSUME NEW p \in Payouts, p # a.payout PROVE Account(p)'
    <2>1. payout'[p] = payout[p] /\ stale'[p] = stale[p]
      BY <1>5 DEF MarkPayoutPaid, MarkPayoutAttemptFailed, AttemptsInv, TypeOK
    <2>2. \A s \in Replicas :
             (InHand(s, p)' <=> InHand(s, p)) /\ (MayReturn(s, p)' <=> MayReturn(s, p))
      BY <1>2, <1>3, <1>5 DEF InHand, MayReturn
    <2>3. Returning(p)' = Returning(p) /\ ToClaim(p)' = ToClaim(p)
      BY <2>1, <2>2 DEF Returning, ToClaim, Claims
    <2>4. /\ mishaps \in Nat /\ retries[p] \in Nat
          /\ Made(attempts[p]) \in Nat /\ ToClaim(p) \in 0..1
      BY AccountTyped DEF AttemptsInv
    <2> QED
      BY <1>2, <2>3, <2>4, Countable, Balanced
  <1>6. ASSUME NEW p, p = a.payout PROVE Account(p)'
    <2>0. p \in Payouts
      BY <1>1, <1>6
    <2>1. MayReturn(r, p) <=> a.attempts < MaxAttempts
      BY <1>1, <1>3, <1>6 DEF MayReturn
    <2>2. ~MayReturn(r, p)' /\ ~InHand(r, p)'
      BY <1>2, <1>3, <1>6 DEF MayReturn, InHand
    <2>3. \A s \in Replicas \ {r} : MayReturn(s, p)' <=> MayReturn(s, p)
      BY <1>2 DEF MayReturn
    <2>4. Returning(p)' = Returning(p) \ {r}
      BY <2>2, <2>3 DEF Returning
    <2>5. Cardinality(Returning(p)') = IF a.attempts < MaxAttempts
             THEN Cardinality(Returning(p)) - 1 ELSE Cardinality(Returning(p))
      <3>1. r \in Returning(p) <=> a.attempts < MaxAttempts
        BY <2>1 DEF Returning
      <3> QED
        BY <2>4, <3>1, Countable, FS_RemoveElement
    <2>6. Claims(p)' => Claims(p) \/ a.attempts < MaxAttempts
      <3>1. CASE ~Recordable(p)
        <4>1. payout'[p] = payout[p] /\ payout[p] # "processing"
          BY <1>6, <2>0, <3>1 DEF MarkPayoutPaid, MarkPayoutAttemptFailed, Recordable
        <4> QED
          BY <4>1 DEF Claims
      <3>2. CASE Recordable(p) /\ MarkPayoutPaid(r)
        <4>1. payout'[p] = "paid"
          BY <1>6, <2>0, <3>2 DEF MarkPayoutPaid, AttemptsInv, TypeOK
        <4> QED
          BY <4>1 DEF Claims
      <3>3. CASE Recordable(p) /\ MarkPayoutAttemptFailed(r)
        <4>1. payout'[p] = StatusAfterFailure(TriesAgain(a.attempts))
          BY <1>6, <2>0, <3>3 DEF MarkPayoutAttemptFailed, AttemptsInv, TypeOK
        <4> QED
          BY <4>1 DEF Claims, StatusAfterFailure, TriesAgain
      <3> QED
        BY <3>1, <3>2, <3>3
    <2>7. /\ mishaps \in Nat /\ retries[p] \in Nat
          /\ Made(attempts[p]) \in Nat /\ ToClaim(p) \in 0..1 /\ MaxAttempts \in Nat
      BY <2>0, AccountTyped DEF AttemptsInv
    <2>8. /\ ToClaim(p)' \in 0..1
          /\ ToClaim(p)' <= ToClaim(p) \/ a.attempts < MaxAttempts
      BY <2>6 DEF ToClaim
    <2>9. Cardinality(Returning(p)) \in Nat
      BY Countable
    <2> QED
      BY <1>1, <1>2, <2>0, <2>5, <2>7, <2>8, <2>9, Balanced
  <1> QED
    BY <1>1, <1>4, <1>5, <1>6 DEF AttemptsInv

\* A replica that drops what it had in hand has made a mishap of it.
LEMMA DropBalanced ==
    ASSUME AttemptsInv, TypeOK', NEW r \in Replicas, RecordingFails(r) \/ Crash(r)
    PROVE  AttemptsInv'
  <1>1. /\ answer'[r] = NoAnswer
        /\ claims'[r] \subseteq claims[r]
        /\ \A s \in Replicas \ {r} : answer'[s] = answer[s] /\ claims'[s] = claims[s]
        /\ mishaps' = mishaps + 1
        /\ UNCHANGED <<payout, attempts, stale, retries>>
    BY DEF RecordingFails, Crash, rows, AttemptsInv, TypeOK
  <1>2. ~answer'[r].known
    BY <1>1 DEF NoAnswer
  <1>3. HeldOnce'
    BY <1>1, <1>2 DEF HeldOnce, AttemptsInv
  <1>4. ASSUME NEW p \in Payouts PROVE Account(p)'
    <2>1. \A s \in Replicas : MayReturn(s, p)' => MayReturn(s, p)
      BY <1>1, <1>2 DEF MayReturn
    <2>2. Returning(p)' \subseteq Returning(p)
      BY <2>1 DEF Returning
    <2>3. /\ Cardinality(Returning(p)') <= Cardinality(Returning(p))
          /\ Cardinality(Returning(p)) \in Nat /\ Cardinality(Returning(p)') \in Nat
      BY <2>2, Countable, NextCountable, FS_Subset
    <2>4. /\ mishaps \in Nat /\ retries[p] \in Nat
          /\ Made(attempts[p]) \in Nat /\ ToClaim(p) \in 0..1 /\ ToClaim(p)' \in 0..1
      BY AccountTyped DEF AttemptsInv, ToClaim
    <2> QED
      BY <1>1, <2>3, <2>4, Balanced
  <1> QED
    BY <1>3, <1>4 DEF AttemptsInv

\* However replicas stop, stall and overwrite each other's outcomes, a payout
\* is claimed maxPayoutAttempts times, and once more for each mishap and retry.
THEOREM AttemptsAreBounded == Spec => []AttemptsBounded
  <1>1. Init => AttemptsInv
    <2> SUFFICES ASSUME Init PROVE AttemptsInv
      OBVIOUS
    <2>1. TypeOK
      BY PayoutsAssumption DEF Init, TypeOK, PayoutStatus, AccountStatus
    <2>2. \A r \in Replicas : claims[r] = {} /\ ~answer[r].known
      BY DEF Init, NoAnswer
    <2>3. HeldOnce
      BY <2>2 DEF HeldOnce
    <2>4. ASSUME NEW p \in Payouts PROVE Account(p)
      <3>1. Cardinality(Returning(p)) = 0
        BY <2>2, FS_EmptySet DEF Returning, MayReturn
      <3>2. ToClaim(p) = 1 /\ Made(attempts[p]) = MaxAttempts - 1
        BY PayoutsAssumption DEF Init, ToClaim, Claims, Made
      <3>3. mishaps = 0 /\ retries[p] = 0
        BY DEF Init
      <3> QED
        BY <3>1, <3>2, <3>3, PayoutsAssumption DEF Account
    <2> QED
      BY <2>1, <2>3, <2>4 DEF AttemptsInv
  <1>2. AttemptsInv /\ TypeOK' /\ [Next]_vars => AttemptsInv'
    BY OutsideBalanced, ClaimBalanced, SendBalanced, RecordBalanced, DropBalanced
    DEF Next, SenderNext
  <1>3. AttemptsInv => AttemptsBounded
    <2> SUFFICES ASSUME AttemptsInv, NEW p \in Payouts
                 PROVE  attempts[p] <= MaxAttempts + mishaps + retries[p]
      BY DEF AttemptsBounded
    <2>1. /\ mishaps \in Nat /\ retries[p] \in Nat /\ attempts[p] \in Nat
          /\ Made(attempts[p]) \in Nat /\ ToClaim(p) \in 0..1 /\ MaxAttempts \in Nat
          /\ attempts[p] <= Made(attempts[p])
      BY AccountTyped DEF AttemptsInv, Made
    <2>2. Cardinality(Returning(p)) \in Nat
      BY Countable
    <2> QED
      BY <2>1, <2>2 DEF AttemptsInv, Account
  <1> QED
    BY <1>1, <1>2, <1>3, TypeCorrect, PTL DEF Spec
=============================================================================
