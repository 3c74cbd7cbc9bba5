------------------------------ MODULE Payouts ------------------------------
(***************************************************************************)
(* Sending released money to freelancers (backend/internal/freelance:      *)
(* service/payouts.go over repository/payout_repository.go).               *)
(*                                                                         *)
(* Every API replica runs RunPayouts: it claims a batch of due payouts in  *)
(* one statement, then asks the processor for each transfer outside any    *)
(* transaction and records the answer in a guarded UPDATE.  A claimed      *)
(* payout whose row has not moved for payoutStaleAfter is taken over.      *)
(*                                                                         *)
(* Time is abstracted to what the claim tests: whether the next attempt of *)
(* a pending payout is due, and whether a processing row is stale.  The    *)
(* nudge channel only brings the next tick forward, so it is the tick.     *)
(*                                                                         *)
(* Mishaps names what may go wrong besides a refused transfer:             *)
(*   "crash"  a replica, or its database connection, stops; what it had    *)
(*            claimed stays processing;                                    *)
(*   "lost"   the processor's answer to a transfer does not arrive;        *)
(*   "slow"   a replica stalls past payoutStaleAfter with claims in hand.  *)
(***************************************************************************)
EXTENDS Naturals, FiniteSets

CONSTANTS Payouts,       \* ids of the payout rows
          Freelancers,
          PayeeOf,       \* the payee of each payout
          Replicas,
          Batch,         \* payoutBatch
          MaxBatches,    \* maxPayoutBatches
          MaxAttempts,   \* maxPayoutAttempts
          Mishaps,
          MaxMishaps,    \* bound: crashes and stalls in a behaviour
          MaxRetries     \* bound: administrator's retries per payout

ASSUME PayoutsAssumption ==
    /\ IsFiniteSet(Payouts)
    /\ IsFiniteSet(Replicas)
    /\ PayeeOf \in [Payouts -> Freelancers]
    /\ Batch \in Nat \ {0}
    /\ MaxBatches \in Nat \ {0}
    /\ MaxAttempts \in Nat \ {0}
    /\ Mishaps \subseteq {"crash", "lost", "slow"}
    /\ MaxMishaps \in Nat
    /\ MaxRetries \in Nat

VARIABLES
    payout,     \* status of each payout row, "none" before its release
    attempts,   \* its attempts column
    due,        \* whether its next_attempt_at has passed
    stale,      \* whether its updated_at is older than payoutStaleAfter
    account,    \* the stored state of each freelancer's payout account
    suspended,  \* whether the freelancer's capability is suspended
    batches,    \* batches the pass of a replica may still claim
    claims,     \* what it has claimed and not asked for yet
    answer,     \* the processor's answer it has not recorded yet
    transfers,  \* the payouts the processor has transferred
    processor,  \* the processor's own state of each account
    reports,    \* account states on their way here: webhooks and reads
    retries, mishaps  \* counters for the bounds

rows == <<payout, attempts, due, stale>>
senders == <<batches, claims, answer>>
outside == <<transfers, processor, reports>>
bounds == <<retries, mishaps>>
vars == <<rows, account, suspended, senders, outside, bounds>>

PayoutStatus == {"none", "pending", "processing", "paid", "failed"}
AccountStatus == {"none", "onboarding", "ready"}
Claim == [payout : Payouts, attempts : Nat]
NoAnswer == [known |-> FALSE]
Answer == [known : {TRUE}, payout : Payouts, attempts : Nat, accepted : BOOLEAN]

Init ==
    /\ payout = [p \in Payouts |-> "none"]
    /\ attempts = [p \in Payouts |-> 0]
    /\ due = [p \in Payouts |-> TRUE]
    /\ stale = [p \in Payouts |-> FALSE]
    /\ account = [f \in Freelancers |-> "none"]
    /\ suspended = [f \in Freelancers |-> FALSE]
    /\ batches = [r \in Replicas |-> 0]
    /\ claims = [r \in Replicas |-> {}]
    /\ answer = [r \in Replicas |-> NoAnswer]
    /\ transfers = {}
    /\ processor = [f \in Freelancers |-> "none"]
    /\ reports = [f \in Freelancers |-> {}]
    /\ retries = [p \in Payouts |-> 0]
    /\ mishaps = 0

-----------------------------------------------------------------------------
(* What happens to a payout outside the sender *)

\* A release records the payout (Escrow's ReleaseCommits).
Recorded(p) ==
    /\ payout[p] = "none"
    /\ payout' = [payout EXCEPT ![p] = "pending"]
    /\ UNCHANGED <<attempts, due, stale, account, suspended, senders, outside, bounds>>

BackoffElapses(p) ==
    /\ ~due[p]
    /\ due' = [due EXCEPT ![p] = TRUE]
    /\ UNCHANGED <<payout, attempts, stale, account, suspended, senders, outside, bounds>>

\* The replicas that still have p in hand.
InHand(r, p) ==
    \/ \E c \in claims[r] : c.payout = p
    \/ answer[r].known /\ answer[r].payout = p

\* payoutStaleAfter passes since the claim.  A batch of sends that each take
\* payoutSendTimeout ends before that, so the claimer has dropped the row,
\* unless it stalled.
GoesStale(p) ==
    /\ payout[p] = "processing"
    /\ ~stale[p]
    /\ \/ \A r \in Replicas : ~InHand(r, p)
       \/ "slow" \in Mishaps /\ mishaps < MaxMishaps
    /\ stale' = [stale EXCEPT ![p] = TRUE]
    /\ mishaps' = IF \E r \in Replicas : InHand(r, p) THEN mishaps + 1 ELSE mishaps
    /\ UNCHANGED <<payout, attempts, due, account, suspended, senders, outside, retries>>

\* AdminRetryPayout, with a fresh set of attempts.
RetryFailedPayout(p) ==
    /\ payout[p] = "failed"
    /\ retries[p] < MaxRetries
    /\ retries' = [retries EXCEPT ![p] = @ + 1]
    /\ payout' = [payout EXCEPT ![p] = "pending"]
    /\ attempts' = [attempts EXCEPT ![p] = 0]
    /\ due' = [due EXCEPT ![p] = TRUE]
    /\ UNCHANGED <<stale, account, suspended, senders, outside, mishaps>>

-----------------------------------------------------------------------------
(* Payout accounts and capability *)

\* StartPayoutOnboarding asks for an account, under an idempotency key per
\* user, and stores it unless a concurrent request has.
CreatePayoutAccount(f) ==
    /\ account[f] = "none"
    /\ processor[f] = "none"
    /\ processor' = [processor EXCEPT ![f] = "onboarding"]
    /\ UNCHANGED <<rows, account, suspended, senders, transfers, reports, bounds>>

SavePayoutAccount(f) ==
    /\ account[f] = "none"
    /\ processor[f] # "none"
    /\ account' = [account EXCEPT ![f] = "onboarding"]
    /\ UNCHANGED <<rows, suspended, senders, outside, bounds>>

\* The processor enables or disables the account and reports it.
AccountChanges(f) ==
    /\ processor[f] # "none"
    /\ processor' = [processor EXCEPT ![f] = IF @ = "ready" THEN "onboarding" ELSE "ready"]
    /\ reports' = [reports EXCEPT ![f] = @ \cup {processor'[f]}]
    /\ UNCHANGED <<rows, account, suspended, senders, transfers, bounds>>

\* RefreshPayoutAccount reads the state now and stores it later.
RefreshPayoutAccount(f) ==
    /\ account[f] # "none"
    /\ reports' = [reports EXCEPT ![f] = @ \cup {processor[f]}]
    /\ UNCHANGED <<rows, account, suspended, senders, transfers, processor, bounds>>

\* applyPayoutAccountState stores whatever it is given; the notification may
\* come again.
ApplyPayoutAccountState(f, state) ==
    /\ account[f] # "none"
    /\ state \in reports[f]
    /\ account' = [account EXCEPT ![f] = state]
    /\ reports' \in {reports, [reports EXCEPT ![f] = @ \ {state}]}
    /\ UNCHANGED <<rows, suspended, senders, transfers, processor, bounds>>

\* SuspendCapability and ReinstateCapability.
SetCapability(f) ==
    /\ suspended' = [suspended EXCEPT ![f] = ~@]
    /\ UNCHANGED <<rows, account, senders, outside, bounds>>

-----------------------------------------------------------------------------
(* The sender *)

\* A tick, or a nudge, ends the wait of a replica.
Wake(r) ==
    /\ batches[r] = 0
    /\ claims[r] = {}
    /\ ~answer[r].known
    /\ batches' = [batches EXCEPT ![r] = MaxBatches]
    /\ UNCHANGED <<rows, account, suspended, claims, answer, outside, bounds>>

\* Mutant: processing payouts are claimed as if they were pending.
AnyUnpaid(p) == payout[p] = "processing" \/ (payout[p] = "pending" /\ due[p])
\* Mutant: nothing is ever taken over.
OnlyPending(p) == payout[p] = "pending" /\ due[p]
\* The rows the claim looks for: pending and due, or abandoned in processing.
ClaimableRow(p) ==
    \/ payout[p] = "pending" /\ due[p]
    \/ payout[p] = "processing" /\ stale[p]
\* ... of a payee who can be paid.
Claimable ==
    {p \in Payouts : ClaimableRow(p) /\ account[PayeeOf[p]] = "ready" /\ ~suspended[PayeeOf[p]]}

\* The oldest of them, at most a batch; a short batch is the last of its pass.
ClaimDuePayouts(r) ==
    /\ batches[r] > 0
    /\ claims[r] = {}
    /\ ~answer[r].known
    /\ \E S \in SUBSET Claimable :
         /\ Cardinality(S) <= Batch
         /\ S = Claimable \/ Cardinality(S) = Batch
         /\ payout' = [p \in Payouts |-> IF p \in S THEN "processing" ELSE payout[p]]
         /\ attempts' = [p \in Payouts |-> IF p \in S THEN attempts[p] + 1 ELSE attempts[p]]
         /\ stale' = [p \in Payouts |-> stale[p] /\ p \notin S]
         /\ claims' = [claims EXCEPT ![r] =
                         {[payout |-> p, attempts |-> attempts[p] + 1] : p \in S}]
         /\ batches' = [batches EXCEPT ![r] = IF Cardinality(S) = Batch THEN @ - 1 ELSE 0]
    /\ UNCHANGED <<due, account, suspended, answer, outside, bounds>>

\* The processor is asked for a transfer under an idempotency key per payout:
\* it accepts one it has made already, makes it if the account can be paid, or
\* refuses.  A lost answer reads as a refusal.
SendPayout(r, c) ==
    /\ c \in claims[r]
    /\ ~answer[r].known
    /\ \E made \in BOOLEAN, heard \in BOOLEAN :
         /\ made \/ c.payout \notin transfers
         /\ made => c.payout \in transfers \/ processor[PayeeOf[c.payout]] = "ready"
         /\ heard \/ "lost" \in Mishaps
         /\ transfers' = IF made THEN transfers \cup {c.payout} ELSE transfers
         /\ answer' = [answer EXCEPT ![r] =
                         [known |-> TRUE, payout |-> c.payout, attempts |-> c.attempts,
                          accepted |-> made /\ heard]]
    /\ claims' = [claims EXCEPT ![r] = @ \ {c}]
    /\ UNCHANGED <<rows, account, suspended, batches, processor, reports, bounds>>

\* Mutant: the recording UPDATE has lost its status guard.
RecordableAlways(p) == TRUE
\* Both recordings are guarded on the row still being processing.
Recordable(p) == payout[p] = "processing"

\* Mutant: an answer without a transfer is recorded as paid.
PaidOnAnyAnswer(r) ==
    /\ answer[r].known
    /\ payout' = IF Recordable(answer[r].payout)
                 THEN [payout EXCEPT ![answer[r].payout] = "paid"] ELSE payout
    /\ answer' = [answer EXCEPT ![r] = NoAnswer]
    /\ UNCHANGED <<attempts, due, stale, account, suspended, batches, claims,
                   outside, bounds>>
MarkPayoutPaid(r) ==
    LET p == answer[r].payout IN
    /\ answer[r].known
    /\ answer[r].accepted
    /\ payout' = IF Recordable(p) THEN [payout EXCEPT ![p] = "paid"] ELSE payout
    /\ due' = IF Recordable(p) THEN [due EXCEPT ![p] = TRUE] ELSE due
    /\ stale' = IF Recordable(p) THEN [stale EXCEPT ![p] = FALSE] ELSE stale
    /\ answer' = [answer EXCEPT ![r] = NoAnswer]
    /\ UNCHANGED <<attempts, account, suspended, batches, claims, outside, bounds>>

\* Mutant: one attempt too many.
OneMoreAttempt(n) == n <= MaxAttempts
\* nextPayoutAttempt: whether a payout that has failed n times is tried again.
TriesAgain(n) == n < MaxAttempts

\* Mutant: the last failure cancels the payout.
CancelledAfterFailure(again) == IF again THEN "pending" ELSE "cancelled"
StatusAfterFailure(again) == IF again THEN "pending" ELSE "failed"

\* MarkPayoutAttemptFailed, with the attempts the claim returned.
MarkPayoutAttemptFailed(r) ==
    LET p == answer[r].payout
        again == TriesAgain(answer[r].attempts)
    IN
    /\ answer[r].known
    /\ ~answer[r].accepted
    /\ payout' = IF Recordable(p)
                 THEN [payout EXCEPT ![p] = StatusAfterFailure(again)] ELSE payout
    /\ due' = IF Recordable(p) THEN [due EXCEPT ![p] = ~again] ELSE due
    /\ stale' = IF Recordable(p) THEN [stale EXCEPT ![p] = FALSE] ELSE stale
    /\ answer' = [answer EXCEPT ![r] = NoAnswer]
    /\ UNCHANGED <<attempts, account, suspended, batches, claims, outside, bounds>>

\* The database refuses the recording.  The row stays processing until stale.
RecordingFails(r) ==
    /\ "crash" \in Mishaps
    /\ mishaps < MaxMishaps
    /\ answer[r].known
    /\ mishaps' = mishaps + 1
    /\ answer' = [answer EXCEPT ![r] = NoAnswer]
    /\ UNCHANGED <<rows, account, suspended, batches, claims, outside, retries>>

\* A replica stops, or is told to: its context ends and every call it still
\* makes fails.  What it had claimed stays as it is.
Crash(r) ==
    /\ "crash" \in Mishaps
    /\ mishaps < MaxMishaps
    /\ mishaps' = mishaps + 1
    /\ batches' = [batches EXCEPT ![r] = 0]
    /\ claims' = [claims EXCEPT ![r] = {}]
    /\ answer' = [answer EXCEPT ![r] = NoAnswer]
    /\ UNCHANGED <<rows, account, suspended, outside, retries>>

-----------------------------------------------------------------------------
PayoutNext(p) ==
    \/ Recorded(p)
    \/ BackoffElapses(p)
    \/ GoesStale(p)
    \/ RetryFailedPayout(p)

AccountNext(f) ==
    \/ CreatePayoutAccount(f)
    \/ SavePayoutAccount(f)
    \/ AccountChanges(f)
    \/ RefreshPayoutAccount(f)
    \/ \E state \in AccountStatus : ApplyPayoutAccountState(f, state)
    \/ SetCapability(f)

SenderNext(r) ==
    \/ Wake(r)
    \/ ClaimDuePayouts(r)
    \/ \E c \in claims[r] : SendPayout(r, c)
    \/ MarkPayoutPaid(r)
    \/ MarkPayoutAttemptFailed(r)
    \/ RecordingFails(r)
    \/ Crash(r)

Next ==
    \/ \E p \in Payouts : PayoutNext(p)
    \/ \E f \in Freelancers : AccountNext(f)
    \/ \E r \in Replicas : SenderNext(r)

Spec == Init /\ [][Next]_vars

\* Time passes and every replica keeps running its loop.
Fairness ==
    /\ \A p \in Payouts :
        /\ WF_vars(BackoffElapses(p))
        /\ WF_vars(GoesStale(p))
    /\ \A r \in Replicas :
        /\ WF_vars(Wake(r))
        /\ WF_vars(ClaimDuePayouts(r))
        /\ WF_vars(\E c \in claims[r] : SendPayout(r, c))
        /\ WF_vars(MarkPayoutPaid(r))
        /\ WF_vars(MarkPayoutAttemptFailed(r))

FairSpec == Spec /\ Fairness

-----------------------------------------------------------------------------
(* Properties *)

\* The shape of the state.
TypeOK ==
    /\ payout \in [Payouts -> PayoutStatus]
    /\ attempts \in [Payouts -> Nat]
    /\ due \in [Payouts -> BOOLEAN]
    /\ stale \in [Payouts -> BOOLEAN]
    /\ account \in [Freelancers -> AccountStatus]
    /\ suspended \in [Freelancers -> BOOLEAN]
    /\ batches \in [Replicas -> 0..MaxBatches]
    /\ claims \in [Replicas -> SUBSET Claim]
    /\ answer \in [Replicas -> {NoAnswer} \cup Answer]
    /\ transfers \subseteq Payouts
    /\ processor \in [Freelancers -> AccountStatus]
    /\ reports \in [Freelancers -> SUBSET AccountStatus]
    /\ retries \in [Payouts -> 0..MaxRetries]
    /\ mishaps \in 0..MaxMishaps

\* A payout is paid only if the processor made its transfer, whatever answers
\* were lost, recordings failed and senders were taken over (MarkPayoutPaid).
PaidMeansTransferred ==
    \A p \in Payouts : payout[p] = "paid" => p \in transfers

\* A paid payout stays paid: neither the late answer of a sender that was taken
\* over nor anything else moves it (both recordings' status guard).
PaidIsFinal ==
    [][\A p \in Payouts : payout[p] = "paid" => payout'[p] = "paid"]_vars

\* "The claim is row-locked, so replicas never send the same payout": while no
\* replica stalls, a payout is in one hand at a time, a takeover included, and a
\* payout in hand is being processed.
OneSenderPerPayout ==
    \A p \in Payouts, r \in Replicas :
        InHand(r, p) =>
            /\ payout[p] = "processing"
            /\ \A s \in Replicas \ {r} : ~InHand(s, p)
            /\ answer[r].known => \A c \in claims[r] : c.payout # answer[r].payout

\* A payout waits for another attempt only while it has one left, and is parked
\* only when it has had them all (maxPayoutAttempts).
AttemptsSpent ==
    \A p \in Payouts :
        /\ payout[p] = "pending" => attempts[p] < MaxAttempts
        /\ payout[p] = "failed" => attempts[p] >= MaxAttempts

\* maxPayoutAttempts bounds how often a payout is claimed, though the answer of
\* a sender that stalled while another took its claim over puts it back to
\* pending from whatever attempt that sender had read: one claim more for each
\* replica that stopped or stalled, and for each administrator's retry.
AttemptsBounded ==
    \A p \in Payouts : attempts[p] <= MaxAttempts + mishaps + retries[p]

\* A transfer the processor made is not recorded as something to send later:
\* "left in processing, the payout is taken over once stale and sent again"
\* (sendClaimedPayout).  An accepted answer finds its row processing or paid,
\* unless a sender stalled: then the late refusal another one recorded may have
\* put the row back to pending, or failed it.
AcceptedIsRecorded ==
    \A r \in Replicas :
        answer[r].known /\ answer[r].accepted =>
            payout[answer[r].payout] \in {"processing", "paid"}

\* A payout is "never [sent] to a freelancer whose capability is suspended"
\* (service/payouts.go).
NeverSentWhileSuspended ==
    [][\A p \in transfers' \ transfers : ~suspended[PayeeOf[p]]]_vars

\* Kirmya holds "the processor's last word" on an account: once every report
\* has arrived, the stored state is the processor's (UpdatePayoutAccountState).
StoredIsLastWord ==
    \A f \in Freelancers :
        account[f] # "none" /\ reports[f] = {} => account[f] = processor[f]

\* A payout whose payee can be paid from some time on is eventually paid or
\* parked: backoff, lost answers and senders that stopped only delay it.
CanBePaid(p) ==
    LET f == PayeeOf[p] IN
    account[f] = "ready" /\ processor[f] = "ready" /\ ~suspended[f]
OwedIsSettled ==
    \A p \in Payouts :
        <>[]CanBePaid(p) =>
            (payout[p] \in {"pending", "processing"} ~> payout[p] \in {"paid", "failed"})
=============================================================================
