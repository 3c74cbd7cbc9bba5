# Kirmya, specified and verified

Kirmya is a Go backend (about 110,000 lines without tests and generated API
docs), a web frontend and a mobile application for jobs, networking and
freelancing. Most of its packages store and list rows. This project models, in
TLA+, the parts in which several actors change the same rows and a wrong
interleaving costs somebody something, checks them with TLC and proves their
main properties with TLAPS:

* **the freelance money path** (`backend/internal/freelance`): a client pays a
  milestone of a contract into escrow through a payment processor, the
  freelancer delivers, the client approves or disputes, and the money goes to
  the freelancer's payout account or back to the client;
* **telling people** (`backend/internal/notification/delivery/outbox`,
  `backend/internal/job_alerts/matcher`): a notification's deliveries are
  queued in an outbox that workers of several replicas send from, and saved job
  alerts are one of its producers;
* **applying and interviewing** (`backend/internal/applications`,
  `backend/internal/recruiter`, `backend/internal/interview`): candidate and
  recruiter move one application, and interviews are booked under the locks of
  two persons while a calendar writes the same rows under none.

Line references without a package are to `src/backend/internal/freelance/`;
those to `notification/`, `job_alerts/`, `applications/`, `recruiter/`, `legal/`
and `interview/` are to `src/backend/internal/`.

## Inventory

| component | state | operations | talks to | what makes it hard | what makes it correct |
|---|---|---|---|---|---|
| Escrow (`service/escrow.go`, `repository/escrow_repository.go`, `domain/escrow.go`) | contract, project, milestone, delivery, payment intent and payout rows | add and cancel a milestone, fund it, submit, request a revision, approve; processor notifications | processor (charge), payouts (records one), hiring (contract, project rows) | two requests on the same rows, notifications that repeat or come late, a request that dies between its statements, a decision on rows it has not locked | money matches milestones, one charge per milestone, captured money keeps its place, the schedule fits the contract, completion means settled |
| Disputes and refunds (`service/disputes.go`, `repository/dispute_repository.go`) | dispute rows, evidence | open, withdraw, decide, refund | processor (refund, while row locks are held), escrow rows | the processor acts and the transaction rolls back; a verdict races an approval | a dispute freezes its milestone, the contract is restored, refunded money is not paid out |
| Payouts (`service/payouts.go`, `repository/payout_repository.go`) | payout rows, payout accounts | record, claim, send, record the answer, retry; onboard, refresh, apply account reports | processor (transfers, accounts), capability rows | one sender per replica, takeovers, lost answers, attempts at their limit, account reports out of order | paid means transferred and is final, one sender per payout, attempts decide its fate, what is owed is settled |
| Hiring (`service/freelance_service.go`, `service/projects.go`, `repository/freelance_repository.go`, `domain/states.go`) | project, proposal, contract rows | post, edit, cancel a project; bid; accept | escrow (contract, project), capability | every handler reads, decides and then writes, with nothing tying the two | contracts match acceptances, decided bids stand, and only a write by an outdated read gives a project a second contract or moves a finished one |
| Onboarding (the capability methods of the same files, `domain/freelance.go`) | freelancer profile and capability | save, enable, complete onboarding, suspend, reinstate | hiring, payouts (suspension) | the same reads before writes, by the account and by administrators | a suspension ends by decision only, the capability is granted by onboarding only |
| Notification outbox (`notification/delivery/outbox`) | notification, delivery, failure and dead-letter rows | enqueue, claim, send, record, give up; delete a notification; retry a dead letter | mailer; producers that write the notification | several workers, a claim that expires under a slow one, a crash or a failed write between send and record | one sender per delivery and one more per claim that runs out, bounded sends, recorded as sent only if it arrived, what is queued ends |
| Job alerts (`job_alerts/matcher`) | alerts with their watermark, matches, notifications | sweep: read alerts, match, claim a match, notify, enqueue per channel, move the watermark; pause, edit, delete an alert | outbox (queues deliveries), jobs and applications (reads) | one sweeper per replica over the same watermark, one statement at a time, any of which may fail | nobody is told twice, a match is lost only to a failure, a match's deliveries end |
| Applications and recruiter pipeline (`applications`, `recruiter`) | application stage and its timeline | apply, withdraw, archive, move, book and cancel interviews | interviews, notifications | candidate and recruiter move one application; a booking writes a stage it did not lock | closed applications stay closed, the timeline tells the stage |
| Interviews (`interview`) | interview rows | create, change status | the bookings of the recruiter pipeline (same rows) | bookings wait for two locks in an order that may cross; the calendar takes none | no double booking, every booking ends |
| Privacy jobs (`legal`) | export jobs, deletion requests, legal holds | request, cancel, claim, build, delete | rows of a user all over the database | crash after the claim, hold set while waiting, attempts at their limit | a request is answered, a held user is not deleted |
| Networking, company, auth, messaging, shared runtime | connection requests; memberships, verification; sessions; fan-out; worker pool, event bus, migration lock | see the packages | Redis, PostgreSQL | single statements or single transactions under row locks | see "Not modelled" |
| everything else | rows | CRUD, read-only queries, prompts to a language model | | no protocol of its own | |

`PROJECT.json` lists every package, the ones left out with the reason, and the
hazards at the line where they bite.

How the modelled parts interact: `ReleaseMilestone` and a decision to release
insert the payout row (`insertPayout`, repository/dispute_repository.go:604) in
the transaction that moves the milestone and its intent, and nudge the sender;
the payout then lives on its own. `Escrow` ends with the payout recorded
(`payouts`), `Payouts` begins there (`Recorded`). `matcher.go` writes a
notification and queues its deliveries through the outbox's `Enqueue`;
`JobAlerts` extends `Outbox`, runs its workers beside the sweepers, and its
sweeps are the outbox's producers. A recruiter's booking and the calendar write
the same `interviews` rows; both are in `Applications`.

## Modules

| module | role |
|---|---|
| `Escrow` | the contract, its milestones, intents, deliveries, disputes and the processor's charges and refunds |
| `EscrowLedger` | what `Escrow` promises about money: a charge is collected once and leaves escrow once, to one side |
| `EscrowInvariant` | the inductive invariant behind `Escrow`'s properties, in named parts |
| `EscrowProofs` | TLAPS theorems about `Escrow` |
| `EscrowPromises` | further theorems: disputes, deliveries, the schedule, backed payouts, the refinement of `EscrowLedger` |
| `MCEscrow` | instance for TLC (symmetry) |
| `Payouts` | the senders of all replicas, the payout rows, accounts, suspension and the processor's transfers |
| `PayoutsProofs` | TLAPS theorems about `Payouts` |
| `MCPayouts` | instance for TLC |
| `Hiring` | projects, bids, acceptance and contracts, as the handlers' reads and writes |
| `HiringProofs` | TLAPS theorems about `Hiring` |
| `MCHiring` | instance for TLC: who bids on what (symmetry of requests) |
| `Onboarding` | profiles and the freelancer capability |
| `OnboardingProofs` | TLAPS theorems about `Onboarding` |
| `MCOnboarding` | instance for TLC |
| `Delivery` | what a queued delivery promises: sent only if it arrived, and, unless its claim lapses under a sender, it ends once and is not sent afterwards |
| `Outbox` | notifications, delivery and dead-letter rows, the workers of all replicas, the claim's five minutes |
| `OutboxProofs` | TLAPS theorems about `Outbox`, with the refinement of `Delivery` |
| `MCOutbox` | instance for TLC (symmetry of workers) |
| `JobAlerts` | the sweepers of all replicas over `Outbox` (which it extends), alerts, matches, watermarks |
| `JobAlertsProofs` | TLAPS theorems about `JobAlerts`; the composition implements `Outbox` |
| `MCJobAlerts` | instance for TLC: the channels of an alert |
| `Applications` | application stages and timelines, bookings under advisory locks, the calendar |
| `ApplicationsProofs` | TLAPS theorems about `Applications` |
| `MCApplications` | instance for TLC: who recruits whom |

### Escrow and the code

One contract is modelled: every statement of the code is keyed by a contract, a
milestone, an intent or a dispute, so contracts do not interfere.

* **Granularity.** A transaction that holds its row locks from its first
  statement to its commit is one action. Two kinds are split. Those that call
  the processor under their locks (a refund, a decision to refund) are a begin
  action, the processor's refund, and a commit or a rollback. Those that end in
  `completeContractIfDone` (an approval, a decision to release) read, at READ
  COMMITTED, rows they have not locked: they are a begin, which takes the
  reading, and a commit, which acts on it. The variable `txn` holds the
  milestone row lock in between, and an action on a locked row is not enabled.
  `FundMilestone` is not a transaction: its insert, charge, reference and
  clean-up are four actions, and a request may be abandoned between any two.
* **State.** `contract`, `project`, `milestone`, `amount`, `deliveries`,
  `intent`, `forMilestone`, `reference`, `payouts`, `dispute`, `disputed`,
  `statusBefore` are columns; `charge` and `refunds` are the processor's;
  `request` is the program counter of the `FundMilestone` call that made an
  intent.
* **Actions** have the names of the handlers they model; the map in
  `PROJECT.json` gives the lines. Each processor notification
  (`PaymentSucceeded`, `PaymentFailed`) may arrive any number of times, in any
  order, also after the rows have moved on.
* **Left out**: titles, currencies, event publication, audit log, listings and
  the authorisation checks (who may call is not modelled, only what the call
  does), the in-memory repository used by tests, statuses no code path writes.
* **Database facts relied on**: migration 0103's unique index over a
  milestone's live intents, 0104's over a contract's open disputes and 0105's
  unique payout per intent.

### Payouts and the code

Each replica runs `RunPayouts`: `Wake` is its tick or nudge, `ClaimDuePayouts`
the single claiming statement, `SendPayout` one call to the processor outside
any transaction, `MarkPayoutPaid`/`MarkPayoutAttemptFailed` the guarded updates
that record its answer, `RecordingFails` and `Crash` what can stop in between.
Time is reduced to the two tests the claim makes: whether a pending payout is
due and whether a processing row is older than `payoutStaleAfter`. A batch of
25 sends of at most 30 seconds ends within the 15 minutes of
`payoutStaleAfter`, so a row goes stale in a sender's hand only if the sender
stalls; that is the mishap `"slow"`. The processor is modelled from the
adapter: a transfer is idempotent per payout (the model assumes it keeps the
idempotency key as long as the payout is retried), a transfer needs an enabled
account, and an answer may be lost. Account reports are a set, applied in any
order and possibly again.

### Hiring, Onboarding and the code

The handlers of `service/freelance_service.go` and `service/projects.go` read
rows in single statements, consult the transition tables of `domain/states.go`
and write in another statement, outside any transaction that covers both. Each
is an action with the handler's name, whose guard is what the handler checks and
which leaves in `request` what it is about to write, and an action with the name
of the repository method, which writes it to whatever the rows have become.
`RequestFails` is a request that ends without its write. `AcceptProposalTx` is
one action: its four statements are one transaction, the rows it updates stay
locked to its end, and of two acceptances that wait for each other PostgreSQL
aborts one (a `RequestFails`).

Anything may happen between a read and its write. A request keeps the project
status it `saw`, and `outdated`, which no action reads, remembers the projects a
bid was inserted on or an edit was written to although they had moved on from
that. With it the module says what the handlers' checks still guarantee when
requests overlap; what they guarantee only one at a time is where the findings
are.

An edit that does not name a status writes back the status it read; it is the
move of a status to itself. What the escrow does to a contract and its project
(`FirstFunding`, `OpenDispute`, ...) comes at any time here: `Escrow` has the
detail. A profile is reduced to whether it has what `RequiredForActivation`
asks for. No code path writes the proposal statuses viewed, shortlisted,
withdrawn and draft (`UpdateProposalStatus` has no caller). Database facts
relied on: migration 0102's unique index over the live bids of a freelancer on a
project and migration 0101's default of `capability_status`.

### Outbox and the code

A producer writes a notification (`CreateNotification`) and queues a delivery
per channel (`EnqueueAt`, an insert that does nothing on a conflict and needs
the notification to exist). On every replica a worker claims a batch in one
transaction (`ClaimDue`: `FOR UPDATE SKIP LOCKED`, status Retrying, and
`scheduled_at` five minutes ahead, which hides the rows from the others), sends
one message after another outside any transaction (`Send`, `NoSender`) and
records each outcome by the row's id (`MarkSent`, `MarkFailed`). A worker holds
its batch in `batch` and an outcome not recorded yet in `outcome`.

* `Mishaps` is what may go wrong beyond a refused message: `"crash"` (a worker
  stops in its batch), `"unrecorded"` (the recording transaction fails, which
  the worker only logs) and `"slow"` (a claim runs out in a worker's hand). The
  code does not exclude the last: a batch is 25 messages
  (`src/backend/cmd/kirmya/main.go:487`), sent one after another over SMTP, each
  up to about 20 seconds, and the claim hides it for 300. `overruns` counts it
  per delivery. A message may arrive although the mailer's answer is an error;
  `arrived`, `tries` and `overruns` are history.
* Time is what the claim tests: `due` is `"now"`, or names what moved
  `scheduled_at` into the future.
* Deleting a notification takes its deliveries with it (a cascade), whatever a
  worker has in hand; the late outcome finds no row.
* **Left out**: preferences and quiet hours (a delivery may be due now or
  later), templates, statistics, listings, and what comes before the
  notification: the event's idempotency key (notification/service/notification_service.go:60),
  and that a recipient who turned the in-app channel off has no notification
  row, so the email's insert fails on the foreign key.

### Job alerts and the code

Each action of a sweep is one statement, since `matcher.go` uses no transaction:
`dueAlerts`, `matchOne`'s query, `claimMatch` (the insert that decides),
`insertNotification`, `enqueue` per channel, `advanceWatermark`. A statement
that fails is logged and the sweep goes on with the next hit or alert
(`notifyFails`, `matchFails`), and a sweeper may stop (`sweeperStops`); these are
the lapses. The watermark is a time; it is modelled by the set `fresh` of jobs
published after it. What an alert asks for is whether a job `fits`, which may
change at any moment. **Left out**: an alert that has not been matched for a day
looks back a day only, a pass takes 200 alerts, and saved searches, digests and
statistics.

### Applications, interviews and the code

A move of the candidate or the recruiter reads the stage under the application's
row lock and writes stage and timeline in the same transaction: one action.
`ScheduleOwnedInterview` is longer and is split where others come in between:
begin, the recruiter's advisory lock, the candidate's, the check (stage and
conflicts read; a conflict ends the request), and the commit, which writes the
interview, the stage `Interview` whatever it is by then, and an entry by the
stage it read. Waiting for a lock is a guard that is not enabled; a cycle of
waiters is broken by `DeadlockDetected`, as PostgreSQL does. `internal/interview`
creates and revives interviews of the same table with no lock at all; the only
thing in its way are the unique indexes over a person's exact slot (migrations
0093 and 0095).

* An interview's status is abstracted to booked, cancelled, or revived (it stood
  again after a cancellation). A timeline is the set of stages told and the one
  written last; the code orders it by `moved_at`, the time at which the writing
  transaction began, which the model leaves out.
* **Left out**: offers, notes, ratings, saved jobs; the two-statement
  `UpdateJobStatus` (recruiter/repository/recruiter_repo.go:794), which closes a
  job and no application; the deletion of applications with their account
  (legal/repository/legal_repo.go:460); rounds, participants, feedback and
  availability, which are single-row writes.

## Runs

| run | bounds | question | result |
|---|---|---|---|
| `escrow` | 2 milestones, 2 intents, 1 dispute, 2 deliveries each, amounts 1 and 2 of a total of 2, project written to active or cancelled at any time, all faults | do the tables stay consistent whatever is retried, redelivered, rolled back or raced | pass, 103k states |
| `escrow_ledger` | the same without lost refunds and project writes, amount 1, 1 delivery | does the escrow implement `EscrowLedger`; is every payout backed; is a waiting intent settled | pass, 28k states |
| `escrow_write_skew` | 2 milestones, no fault | is a fully released contract completed | violated |
| `payouts` | 2 payouts of one freelancer, 2 replicas, batch of 1, 2 attempts, 1 crash or failed recording, lost answers | one sender per payout, attempts, paid means transferred | pass, 493k states |
| `payouts_live` | 1 payout, 2 replicas, 1 mishap: a crash, a failed recording or a stalled sender | is what is owed settled; is paid final; are the attempts bounded though a late answer takes them back | pass, 31k states |
| `hiring` | 1 project, 3 bids of 2 freelancers, 2 overlapping requests | do contracts, acceptances and rejections agree; do decisions stand; do a second contract, an open bid after the hire and a finished project that moves all take a write by an outdated read | pass, 592k states |
| `hiring_twice` | 2 bids, overlapping | one contract per project | violated |
| `onboarding` | 1 account, 3 requests | does a suspension hold | pass, 3k states |
| `outbox` | 2 notifications, 1 channel, 2 workers, batch of 2, 2 attempts, 1 mishap: a crash, a failed recording or a claim that runs out | is `Delivery` implemented; does what is queued end | pass, 80k states |
| `outbox_slow` | 1 notification, 3 workers, 3 attempts, 4 mishaps of the same kinds | how many workers hold a delivery, and how often it is sent, when claims run out under them | pass, 93k states |
| `job_alerts` | 1 alert, 1 job, 2 sweepers, 1 worker, 2 notifications, 2 channels of which one has no sender, 1 lapse, 1 crash | told once, lost only to lapses, deliveries of a match end | pass, 365k states (the longest run, about two minutes) |
| `applications` | 3 applications of persons who recruit each other, 2 interview rows, 2 bookings at once, 2 overlapping slots, 1 application that is moved, 2 moves, 1 pair in the calendar | no double booking, timeline, reopening, bookings end | pass, 239k states |

The bounds are the smallest in which the interesting cases meet.

* Escrow: two milestones for a race on completion and a schedule that just fits,
  two intents for a retry racing the first attempt, two deliveries for a
  revision. Amounts 1 and 2 of a total of 2 reach under-, exactly and
  over-allocated schedules.
* Payouts: two payouts so that a full batch leaves one behind, two replicas for
  a takeover, two attempts for a retry and a parking.
* Hiring: every row is keyed by its project except the freelancer's capability,
  so one project is enough; three bids let a freelancer bid again after a
  rejection while another one's is decided, and two requests are a check and the
  write that invalidates it. Onboarding: rows are keyed by the account, and three
  requests are a save, a completion and a decision.
* Outbox: two workers and two deliveries, so that one batch can be claimed while
  the other is being sent, and two attempts for a retry and a dead letter.
  `MaxMishaps` bounds what goes wrong in a behaviour; one mishap is enough to
  reach a takeover. In `outbox_slow` a third worker can take over from the one
  that took over, and four mishaps let two claims run out beside a crash and a
  failed recording; with three attempts a late failure takes the count back by
  more than one. The theorems hold for any number.
* Job alerts: two sweepers are two readers of one watermark; a second
  notification is what a second telling would use; `MaxLapses` and `MaxMishaps`
  bound failures.
* Applications: two bookings of persons who applied to each other take the same
  locks crosswise; the two slots overlap without being equal, so that the
  conflict check and the unique indexes are told apart. `Moving` and `MaxMoves`
  bound who is moved and how often, `RowLeft` keeps an interview row for every
  booking under way, `CalendarPairs` bounds whom the calendar books.

Deadlock is not checked where a settled contract, payout or delivery has nothing
left to do and the bounds end every behaviour; `Hiring`, `Onboarding` and
`Applications` are checked for it, as requests can always arrive.

**Fairness.** `Escrow`: a request that is not abandoned runs to its end, the
processor redelivers a notification until it is acknowledged (its documented
behaviour, which the handler relies on by answering 5xx), and a checkout that
is not paid expires. Nobody is obliged to pay, deliver, approve or decide.
`Payouts`: time passes (a backoff ends, an abandoned row goes stale) and each
replica's loop keeps running; nothing is assumed of the processor, the
administrators or the freelancers. `Outbox`: time passes (a backoff, a claim's
five minutes) and every worker runs, or is restarted, and claims, sends and
records; the mailer may refuse for ever. `JobAlerts` adds that the sweepers tick
on. `Applications`: a booking proceeds under strong fairness, because
PostgreSQL queues the waiters of a lock and a waiter whose lock becomes free
again and again gets it; its deadlock detector runs. Nobody is obliged to apply,
move or book.

## What the runs found

1. **Write skew on completion** (repository/escrow_repository.go:932). Two
   approvals of the last two milestones at once each count the other's as open;
   nobody completes the contract, and nothing looks again.
2. **A bid after the hire** (repository/freelance_repository.go:449). A bid
   checked before the hire and inserted after it stays open on a hired project;
   the client accepts it, since hired may move to hired, and the work has two
   contracts.

The modules also state properties that TLC finds violated and that have no run
of their own. Most are promised by a comment of the code. Each takes adding the
property to the configuration named, with the constants changed as noted:

| property, configuration | what happens | what the code says |
|---|---|---|
| `PayoutBackedByMoney`, `MCEscrow.cfg` | the processor has refunded and the transaction that records it is lost; nothing obliges anyone to retry, and the milestone can be delivered and approved: a payout for money that went back. Idempotency protects the retry, not its absence | repository/dispute_repository.go:623 |
| `FailedChargeFreesMilestone`, `MCEscrowLedger.cfg` | the clean-up after a failed charge uses the request's context and drops its error; the intent stays live, has no reference a notification could name, and the milestone can be neither funded nor cancelled | "If creating the charge fails, the intent is marked failed so the client can try again", service/escrow.go:322; the clean-up is at :368 |
| `NeverSentWhileSuspended`, `MCPayouts.cfg` | only the claim reads the suspension; a payee suspended afterwards is paid up to a batch of sends later | service/payouts.go:143 |
| `StoredIsLastWord`, `MCPayouts.cfg` | account reports carry no version: the last one applied wins, not the last one sent | repository/payout_repository.go:186 |
| `AcceptedIsRecorded`, `MCPayoutsLive.cfg` | a stalled sender's failure is recorded over the claim of the replica that took over: the guard is the status, not the claim. `AttemptsBounded` says what that may cost | repository/payout_repository.go:417 |
| `FinishedStaysFinished`, `MCHiring.cfg` | a project's status is written by id only; a write checked before a cancellation revives the project, even an edit of the title. `FinishedMovesByOldReads` says that nothing else does | "Terminal. A finished project is history", domain/states.go:74 |
| `HiredHasContract`, `MCHiring.cfg` | the client's edit may make every move of the table, the ones that belong to acceptance included | "a proposal was accepted and a contract exists", domain/states.go:29 |
| `OnlyOnboardingGrants`, `MCOnboarding.cfg` | reinstating a profile that is pending makes it active | "it is the only way in", service/freelance_service.go:494 |
| `EnableKeepsProfile`, `MCOnboarding.cfg` | the empty profile of an enable request goes through the upsert and overwrites one saved since | "must not reset a profile somebody has filled in", service/projects.go:232 |
| `AuditTellsWhatChanged`, `MCOnboarding.cfg` | two overlapping decisions: the second entry names a state that was no longer there | "The real previous state", service/freelance_service.go:585 |
| `RetriedIsQueued`, `MCOutbox.cfg` | the administrator's retry marks the dead letter retried and queues nothing (notification/repository/notification_repo.go:1040) | "so a message that ran out of attempts can be replayed deliberately", notification/delivery/outbox/outbox.go:277 |
| `WatermarkPassesMatched`, `MCJobAlerts.cfg` | the watermark moves to the time of its update: a job published since the query, beyond the first ten, or whose notification failed is passed unmatched | job_alerts/matcher/matcher.go:238 |
| `TerminalStays`, `MCApplications.cfg` | a booking that read an open stage overwrites a withdrawal or a rejection (recruiter/repository/recruiter_repo.go:495) | "Terminal states cannot transition to other states except archiving", applications/models/applications.go:32 |
| `TimelineTellsStage`, `MCApplications.cfg` | the entry is written by the stage that was read, so a stage overwritten since has none | recruiter/repository/recruiter_repo.go:498 |
| `NobodyInTwoPlaces`, `MCApplications.cfg` | the conflict is looked for by role: a recruiter of one interview is booked as the candidate of another at the same time, though the locks are by person | recruiter/repository/recruiter_repo.go:483 |

## What is proved

`EscrowProofs`, for any milestones, intents, disputes, amounts and faults (no
finiteness is assumed):

* `TypeCorrect`: `Spec => []TypeOK`.
* `MoneyInvariant`: `Spec => []MoneyInv`, the inductive invariant. The safety
  properties are not inductive as they stand. `MoneyMatchesMilestone` says
  nothing of how far a funding request has got, so a state in which a failed
  intent can still be paid satisfies it and its next step does not;
  `RequestsMakeIntents` rules that state out. `OneCurrentIntent` is what the
  unique index keeps; `IntentsFollowMilestones` ties the two state machines
  together; `TransactionsHoldTheirRows` carries what a begin action found to
  its commit; `DisputesFreezeMilestones` does so for an open dispute.
* From it: `MoneyAlwaysMatches`, `NeverChargedTwice` and `CapturedMoneyKept`,
  the theorems of three properties the run `escrow` checks.

`PayoutsProofs`, for any payouts, freelancers, replicas, batch and attempts:

* `TypeCorrect`; `PaidIsTransferred`, by way of `AnswersAreTrue` (an accepted
  answer is about a transfer that was made); `PaidStaysPaid`, an action
  property. These hold with stalled senders too.
* `HandsInvariant`, under `"slow" \notin Mishaps`: a payout in hand is in one
  hand, once, its row is processing and not stale, and the claim's attempts are
  the row's. From it `OneSender` and `AttemptsAreSpent`. A batch's time limits
  give the assumption (see above), save for a sender that is suspended whole.
* `AttemptsAreBounded` (`AttemptsBounded`), stalled senders included: beyond
  `MaxAttempts` a payout is claimed once per mishap and once per administrator's
  retry. The bound is not inductive, since a late failure puts the row back to
  pending from whatever its sender had read. `Account` adds up, besides the
  attempts made, every hand whose failure would make the row claimable again
  (`Returning`) and the claim that is open now; a claim, a failure and a
  takeover move one from term to term, and only a mishap or a retry adds one.

`HiringProofs`, for any projects, freelancers, proposals and requests:

* `TypeCorrect`, and with overlapping requests `ContractsMatchAcceptances`,
  `RejectionsHaveAReason` and `DecisionsStand`. They rest on `BidsInv`, which
  adds `FreshIds`: without it an insert could land on an id that was decided.
* However requests overlap: `SecondContractsCostARead`, `OpenBidsCostARead` and
  `OnlyOldReadsRevive`, the first two from `HiringInv`. It adds
  `ReadsWereChecked`, what a request in progress checked about the status it saw,
  and `ContractsPastHiring`, that a project with a contract takes no bids unless
  an outdated write moved it. Two acceptances that race need no reading that is
  still true: the guard of `AcceptProposalTx` on the bid and its rejection of the
  others are enough. Run `hiring_twice` and the table above show that without
  the outdated read the first and the last are violated.

`OnboardingProofs`: `TypeCorrect` and `SuspensionsHold`, with any number of
requests at once.

`EscrowPromises`, from the same invariant:

* `DisputesFreeze` (`DisputeFreezesContract`) adds `ContractFollowsMilestones`.
  The property says nothing of transactions under way, and a commit that
  completes a contract with another milestone disputed would break it; the
  addition says that a transaction about to complete the contract holds its last
  open milestone, which the lock of `AddMilestone` keeps true. `EndsOne` is the
  common step of a release and a refund.
* `ReviewedWasDelivered` (`SubmittedIsDelivered`) adds `ReviewHasDelivery`, which
  remembers the delivery across a dispute that froze the milestone under review.
* `DisputedStaysFrozen`: the action property `FrozenWhileDisputed`.
* Under `NeverLost` (no transaction is lost after its refund):
  `PayoutsAreBacked`, by way of `RefundsAreRecorded`, and `EscrowKeepsLedger`,
  the refinement `Spec => ImplementsLedger`: the client's payment is `Collect`, a
  committed release `PayOut`, the processor's refund `Return`, and every other
  step leaves the ledger alone. The assumption is needed, as the table above
  shows for the first of them.
* `ScheduleFits` (`ScheduleWithinTotal`) and `CompletedIsSettled`
  (`CompletedMeansSettled`), from `ScheduleInv`. The sum over the milestones is
  bounded by the check of `AddMilestone`, and shrinks where a milestone is
  cancelled or refunded; that a completed contract was scheduled in full is not
  inductive, because the sum is compared where the release begins and the
  contract is written where it commits. The addition says that a transaction
  about to complete the contract still finds all of it scheduled: it holds the
  last open milestone, and no other can be cancelled meanwhile. That only finitely
  many milestones are scheduled is part of the invariant and not assumed.
* `PaysNoMoreThanTheContract`: what the recorded payouts add up to
  (`PaysTheContract` in `EscrowInvariant`) is at most the contract's total, and
  exactly that once it is completed; three tables and no constraint between them.
  A payout's amount is its milestone's (service/escrow.go:639). The proof maps
  each payout to a released milestone of its own (`SumOfImage`).
* `CapturesAreTaken`: the notification of a capture that is still waited for is
  never refused (`CaptureIsTaken`): its intent is found by the reference, both
  rows are as `ConfirmPaymentHeld` requires them, and no transaction holds the
  milestone. `PaymentSettles` adds that the processor delivers it in the end. It
  needs `AnsweredIsStored`: who has the checkout link has a stored reference.
* The sums: `SumFunctionOnSet` is a recursive function on the subsets of a
  finite set. The library's induction theorems cannot be instantiated here, so
  each fact (`SumIsRecursive`, `SumNat`, `SumTakesOut`, `SumOfFewer`,
  `SumOfImage`, ...) is shown of the smallest subset on which it could fail,
  which exists because strict inclusion of finite sets is well-founded.

`OutboxProofs`, for any notifications, channels, workers, batch and attempts:

* `TypeCorrect`.
* `RecordsStayTrue`: whatever crashes, goes unrecorded or outlasts its claim, a
  delivery recorded as sent has arrived, and one given up has its dead letter.
* `OneSenderAtATime`, `TriesAreBounded` and `KeepsItsPromises`, the refinement
  of `Delivery`, from `OutboxInv`; none assumes anything of how long a batch
  takes. They count what an overrun costs: one more worker with the delivery in
  hand, and up to `max_attempts - 1` more tries, because a worker that was taken
  over records its failure last and puts back the attempts its own claim had
  read. `Account` is the balance: the hands on a row, and the claim that is
  open, are at most one and the overruns; the tries made, those each hand can
  still lead to and those the open row allows are at most `max_attempts`, the
  mishaps and the overruns' share. To add up over the workers, each has a share
  between 0 and `max_attempts`, and `Total` is the number of pairs of a worker
  and a unit of its share (`TotalSplits`, `TotalOfOne`, `TotalOfTwo`), which
  needs no induction. With no overrun `OneSender` says one worker, and
  `Delivery` that a delivery ends once and is not sent afterwards.

`JobAlertsProofs`:

* `AlertsTypeCorrect`; `SweepsRunTheOutbox`, `AlertsSpec => Spec`: the sweeps are
  producers `Outbox` allows for, so everything proved of it holds under them,
  which `AlertsAreDeliveredOnce` spells out.
* `NobodyIsToldTwice` (`NotifiedOnce`), with `ClaimsReserve`: until its
  notification is there, a match is in the table, told of by nobody and in the
  hands of one sweeper. Deleting an alert deletes its matches, and only the
  foreign key keeps a sweep from claiming them again; `Spent` says so.
* `MatchesAreLostToLapsesOnly` (`MatchesLostToLapses`), from `LapseInv`. It adds
  `NoticesTell`: a notification that is not there tells of nothing, and the one
  a sweeper has in hand tells of what it writes about, so a sweeper that goes on
  after the insert loses nothing. `NothingIsLost` covers every step but a lapse,
  deletions of any number of matches included; `LapseCountsOne` the lapse. The
  lost matches are finitely many by the invariant; alerts and jobs may be
  infinite.

`ApplicationsProofs`, for any jobs, persons, slots and number of bookings:

* `TypeCorrect`.
* `NobodyIsDoubleBooked` (`NoDoubleBooking`), from `BookingInv`: two bookings past
  their locks share no person (`LocksApart`), a booked row has its application's
  persons (`RowsOfApplications`), and what a booking has checked is still clear
  of booked rows (`CheckedIsClear`), although the calendar comes in between.
* `TimelineIsTold` (`StageIsTold`) and `OnlyInterviewsReopen`
  (`ReopenedByInterview`).
* `CirclesCrossRoles`: bookings that wait for one another in a circle cross the
  roles. Whoever in it holds a lock holds its recruiter's, and waits for a
  candidate who is the recruiter of another booking in it that holds that lock.
  Nothing in the code keeps the roles apart, so the circles are there
  (`BookingsEnd` rests on PostgreSQL breaking them); this says that there are no
  others.

Every safety property a passing run checks is the subject of a theorem. Only
model-checked is liveness (`PaymentSettles`, `OwedIsSettled`, `DeliverySettles`,
`MatchIsDelivered`, `BookingsEnd`), which the prover does not reach;
`CapturesAreTaken` is the part of the first of them that is a matter of safety.

## Not modelled, and why

Everything under `components` in `PROJECT.json` with the status not_modelled:

* **Generated and presentational code**: the API documentation
  (`internal/docs`, 61,000 lines), the Swagger annotations, the HTTP handlers of
  every package, the web and mobile applications. They keep no state of their
  own.
* **Rows without a protocol**: profile, community, mentorship, compliance,
  resume, learning, billing and the others listed one by one. Each operation is
  one statement or one transaction over rows of one user; a model of it would
  restate the statement, and its properties would hold by construction.
* **Read-only and text-producing code**: search, analytics, recommendation and
  the language-model packages.
* **Company membership, networking, auth, messaging**: transitions made by
  single statements, or single transactions under row locks, with nothing that
  spans two of them; the fan-out of messages promises nothing that survives a
  disconnect.
* **Privacy jobs**: an export is claimed by one statement that nothing undoes,
  and a held deletion spends its attempts, one a second. Both faults are read
  off single statements (they are in the hazards); what a deletion removes walks
  every table of the database, which is data and not control.
* **The runtime** (worker pool, event bus, caches, rate limits, migrations):
  the modelled components queue nothing in the worker pool, and publish to the
  event bus after they commit, where nothing they promise depends on it.

The models therefore cover most of the freelance service and repository and the
statements of the other packages that race, and a small share of the
repository's lines; the rest has no behaviour of several steps to check.
