------------------------------- MODULE Outbox -------------------------------
(***************************************************************************)
(* The notification outbox (backend/internal/notification/delivery/outbox: *)
(* outbox.go and worker.go): producers record a delivery per notification  *)
(* and channel, and a worker on every replica claims a batch of due rows   *)
(* in one transaction, sends them one after another outside any            *)
(* transaction, and records each outcome by the row's id alone.            *)
(*                                                                         *)
(* Time is abstracted to what the claim tests: whether scheduled_at has    *)
(* passed, and if not whether a claim or something else (a retry's         *)
(* backoff, the recipient's quiet hours) moved it into the future.         *)
(*                                                                         *)
(* Mishaps names what may go wrong besides a refused or lost message:      *)
(*   "crash"       a worker stops, in the middle of its batch;             *)
(*   "unrecorded"  the transaction that records an outcome fails, which    *)
(*                 the worker only logs;                                   *)
(*   "slow"        a batch takes longer than the five minutes of a claim.  *)
(***************************************************************************)
EXTENDS Naturals, FiniteSets

CONSTANTS Notifications,
          Channels,
          Wired,         \* the channels a sender is registered for
          Workers,
          Batch,
          MaxAttempts,   \* max_attempts, 5 by default
          Mishaps,
          MaxMishaps     \* bound: mishaps in a behaviour

ASSUME OutboxAssumption ==
    /\ Batch \in Nat \ {0}
    /\ MaxAttempts \in Nat \ {0}
    /\ MaxMishaps \in Nat
    /\ IsFiniteSet(Workers)
    /\ Mishaps \subseteq {"crash", "unrecorded", "slow"}

VARIABLES
    notification,  \* the row each delivery hangs on
    status,        \* of each delivery, "none" before it is queued
    attempts,      \* its attempts column
    due,           \* "now", or what moved its scheduled_at into the future
    deadLetter,    \* status of its dead-letter row
    batch,         \* what each worker has claimed and not tried yet
    outcome,       \* the try each worker has yet to record
    tries,         \* how often each delivery was sent, recorded or not
    arrived,       \* whether it ever reached the recipient
    mishaps,
    overruns       \* how often a claim on it ran out in a worker's hand

rows == <<notification, status, attempts, due, deadLetter>>
workers == <<batch, outcome>>
history == <<tries, arrived, mishaps, overruns>>
outboxVars == <<rows, workers, history>>

Deliveries == Notifications \X Channels
DeliveryStatus == {"none", "Pending", "Retrying", "Sent", "DeadLettered", "deleted"}
Queued == {"Pending", "Retrying"}

\* A claimed message carries the attempts the claim read.
Message == [delivery : Deliveries, attempts : Nat]
Outcome == [delivery : Deliveries, attempts : Nat, result : {"ok", "error", "unsendable"}]
NoOutcome == [result |-> "none"]

Init ==
    /\ notification = [n \in Notifications |-> "none"]
    /\ status = [d \in Deliveries |-> "none"]
    /\ attempts = [d \in Deliveries |-> 0]
    /\ due = [d \in Deliveries |-> "now"]
    /\ deadLetter = [d \in Deliveries |-> "none"]
    /\ batch = [w \in Workers |-> {}]
    /\ outcome = [w \in Workers |-> NoOutcome]
    /\ tries = [d \in Deliveries |-> 0]
    /\ arrived = [d \in Deliveries |-> FALSE]
    /\ mishaps = 0
    /\ overruns = [d \in Deliveries |-> 0]

-----------------------------------------------------------------------------
(* Producers and recipients *)

CreateNotification(n) ==
    /\ notification[n] = "none"
    /\ notification' = [notification EXCEPT ![n] = "there"]
    /\ UNCHANGED <<status, attempts, due, deadLetter, workers, history>>

\* Mutant: the status named first in the column's comment.
EnqueueAsQueued(d, when) ==
    /\ notification[d[1]] = "there"
    /\ status[d] = "none"
    /\ status' = [status EXCEPT ![d] = "Queued"]
    /\ due' = [due EXCEPT ![d] = when]
    /\ UNCHANGED <<notification, attempts, deadLetter, workers, history>>
\* ON CONFLICT (notification_id, channel) DO NOTHING, under a foreign key to
\* the notification; when is "later" in the recipient's quiet hours.
EnqueueAt(d, when) ==
    /\ notification[d[1]] = "there"
    /\ status[d] = "none"
    /\ status' = [status EXCEPT ![d] = "Pending"]
    /\ due' = [due EXCEPT ![d] = when]
    /\ UNCHANGED <<notification, attempts, deadLetter, workers, history>>

\* The recipient deletes the notification: its deliveries go with it.
Delete(n) ==
    /\ notification[n] = "there"
    /\ notification' = [notification EXCEPT ![n] = "deleted"]
    /\ status' = [d \in Deliveries |-> IF d[1] = n THEN "deleted" ELSE status[d]]
    /\ deadLetter' = [d \in Deliveries |-> IF d[1] = n THEN "none" ELSE deadLetter[d]]
    /\ UNCHANGED <<attempts, due, workers, history>>

\* The administrator's retry endpoint writes the dead-letter row, only.
RetryDeadLetter(d) ==
    /\ deadLetter[d] = "dead_lettered"
    /\ deadLetter' = [deadLetter EXCEPT ![d] = "retried"]
    /\ UNCHANGED <<notification, status, attempts, due, workers, history>>

-----------------------------------------------------------------------------
(* Time, which only matters to queued rows *)

BackoffElapses(d) ==
    /\ status[d] \in Queued
    /\ due[d] = "later"
    /\ due' = [due EXCEPT ![d] = "now"]
    /\ UNCHANGED <<notification, status, attempts, deadLetter, workers, history>>

InHand(w, d) ==
    \/ \E m \in batch[w] : m.delivery = d
    \/ outcome[w] # NoOutcome /\ outcome[w].delivery = d

\* The five minutes of a claim pass.  Whoever claimed has stopped, or is done
\* with the row, unless its batch is slow.
ClaimRunsOut(d) ==
    /\ status[d] \in Queued
    /\ due[d] = "claimed"
    /\ due' = [due EXCEPT ![d] = "now"]
    /\ IF \E w \in Workers : InHand(w, d)
       THEN /\ "slow" \in Mishaps
            /\ mishaps < MaxMishaps
            /\ mishaps' = mishaps + 1
            /\ overruns' = [overruns EXCEPT ![d] = @ + 1]
       ELSE UNCHANGED <<mishaps, overruns>>
    /\ UNCHANGED <<notification, status, attempts, deadLetter, workers, tries, arrived>>

-----------------------------------------------------------------------------
(* The worker *)

\* Mutant: rows that are claimed stay due.
ClaimableAnyTime(d) == status[d] \in Queued
\* Mutant: what has failed once, or was claimed by a crashed worker, is left.
ClaimableFirstTime(d) == status[d] = "Pending" /\ due[d] = "now"
Claimable(d) == status[d] \in Queued /\ due[d] = "now"

Idle(w) == batch[w] = {} /\ outcome[w] = NoOutcome

\* One transaction selects due rows and puts them out of the others' way.
ClaimDue(w) ==
    /\ Idle(w)
    /\ \E S \in SUBSET {d \in Deliveries : Claimable(d)} :
          /\ S # {}
          /\ Cardinality(S) <= Batch
          /\ batch' = [batch EXCEPT ![w] =
                         {[delivery |-> d, attempts |-> attempts[d]] : d \in S}]
          /\ status' = [d \in Deliveries |-> IF d \in S THEN "Retrying" ELSE status[d]]
          /\ due' = [d \in Deliveries |-> IF d \in S THEN "claimed" ELSE due[d]]
    /\ UNCHANGED <<notification, attempts, deadLetter, outcome, history>>

Tried(w, m, result) ==
    /\ batch' = [batch EXCEPT ![w] = @ \ {m}]
    /\ outcome' = [outcome EXCEPT ![w] =
                     [delivery |-> m.delivery, attempts |-> m.attempts, result |-> result]]
    /\ UNCHANGED <<rows, mishaps, overruns>>

\* A message may arrive although the mail server's answer does not.
Send(w, m) ==
    /\ outcome[w] = NoOutcome
    /\ m \in batch[w]
    /\ m.delivery[2] \in Wired
    /\ tries' = [tries EXCEPT ![m.delivery] = @ + 1]
    /\ \/ /\ arrived' = [arrived EXCEPT ![m.delivery] = TRUE]
          /\ \E result \in {"ok", "error"} : Tried(w, m, result)
       \/ UNCHANGED arrived /\ Tried(w, m, "error")

NoSender(w, m) ==
    /\ outcome[w] = NoOutcome
    /\ m \in batch[w]
    /\ m.delivery[2] \notin Wired
    /\ Tried(w, m, "unsendable")
    /\ UNCHANGED <<tries, arrived>>

Drops(w) == outcome' = [outcome EXCEPT ![w] = NoOutcome]

\* Mutant: every outcome but the terminal one is recorded as a delivery.
MarkSentWhenTried(w) ==
    LET d == outcome[w].delivery
    IN  /\ outcome[w].result \in {"ok", "error"}
        /\ Drops(w)
        /\ status' = [status EXCEPT ![d] = IF @ = "deleted" THEN @ ELSE "Sent"]
        /\ attempts' = [attempts EXCEPT ![d] = IF status[d] = "deleted" THEN @ ELSE @ + 1]
        /\ UNCHANGED <<notification, due, deadLetter, batch, history>>
\* WHERE id, and nothing else: only a deleted row is out of its reach.
MarkSent(w) ==
    LET d == outcome[w].delivery
    IN  /\ outcome[w].result = "ok"
        /\ Drops(w)
        /\ status' = [status EXCEPT ![d] = IF @ = "deleted" THEN @ ELSE "Sent"]
        /\ attempts' = [attempts EXCEPT ![d] = IF status[d] = "deleted" THEN @ ELSE @ + 1]
        /\ UNCHANGED <<notification, due, deadLetter, batch, history>>

\* Mutant: one attempt too many.
ExhaustedLate(o) == o.result = "unsendable" \/ o.attempts + 1 > MaxAttempts
Exhausted(o) == o.result = "unsendable" \/ o.attempts + 1 >= MaxAttempts

MarkFailed(w) ==
    LET o == outcome[w]
        d == o.delivery
    IN  /\ o.result \in {"error", "unsendable"}
        /\ Drops(w)
        /\ IF status[d] = "deleted"
           THEN UNCHANGED <<status, attempts, due, deadLetter>>
           ELSE /\ status' = [status EXCEPT ![d] =
                                IF Exhausted(o) THEN "DeadLettered" ELSE "Retrying"]
                /\ attempts' = [attempts EXCEPT ![d] = o.attempts + 1]
                /\ due' = [due EXCEPT ![d] = "later"]
                /\ deadLetter' = [deadLetter EXCEPT ![d] =
                                    IF Exhausted(o) THEN "dead_lettered" ELSE @]
        /\ UNCHANGED <<notification, batch, history>>

Mishap(kind) ==
    /\ kind \in Mishaps
    /\ mishaps < MaxMishaps
    /\ mishaps' = mishaps + 1
    /\ UNCHANGED <<tries, arrived, overruns>>

RecordingFails(w) ==
    /\ outcome[w] # NoOutcome
    /\ Mishap("unrecorded")
    /\ Drops(w)
    /\ UNCHANGED <<rows, batch>>

Crash(w) ==
    /\ ~Idle(w)
    /\ Mishap("crash")
    /\ batch' = [batch EXCEPT ![w] = {}]
    /\ Drops(w)
    /\ UNCHANGED rows

-----------------------------------------------------------------------------
Tries(w) == \E m \in batch[w] : Send(w, m) \/ NoSender(w, m)
Records(w) == MarkSent(w) \/ MarkFailed(w)

WorkerStep(w) ==
    \/ ClaimDue(w)
    \/ Tries(w)
    \/ Records(w)
    \/ RecordingFails(w)
    \/ Crash(w)

\* All but what the producers do.
OutboxNext ==
    \/ \E w \in Workers : WorkerStep(w)
    \/ \E d \in Deliveries : BackoffElapses(d) \/ ClaimRunsOut(d) \/ RetryDeadLetter(d)
    \/ \E n \in Notifications : Delete(n)

Next ==
    \/ OutboxNext
    \/ \E n \in Notifications : CreateNotification(n)
    \/ \E d \in Deliveries, when \in {"now", "later"} : EnqueueAt(d, when)

Spec == Init /\ [][Next]_outboxVars

\* Time passes, and every replica's worker is running or restarted.
Fairness ==
    /\ \A w \in Workers : WF_outboxVars(ClaimDue(w)) /\ WF_outboxVars(Tries(w) \/ Records(w))
    /\ \A d \in Deliveries : WF_outboxVars(BackoffElapses(d) \/ ClaimRunsOut(d))

FairSpec == Spec /\ Fairness
-----------------------------------------------------------------------------
(* Types of the rows and of what the workers have in hand.                 *)
TypeOK ==
    /\ notification \in [Notifications -> {"none", "there", "deleted"}]
    /\ status \in [Deliveries -> DeliveryStatus]
    /\ attempts \in [Deliveries -> Nat]
    /\ due \in [Deliveries -> {"now", "claimed", "later"}]
    /\ deadLetter \in [Deliveries -> {"none", "dead_lettered", "retried"}]
    /\ batch \in [Workers -> SUBSET Message]
    /\ outcome \in [Workers -> Outcome \cup {NoOutcome}]
    /\ tries \in [Deliveries -> Nat]
    /\ arrived \in [Deliveries -> BOOLEAN]
    /\ mishaps \in Nat
    /\ overruns \in [Deliveries -> Nat]

(* "What lets more than one worker - or more than one API replica - run    *)
(* this at the same time without two of them sending the same message"     *)
(* (ClaimDue): a delivery is in the hands of one worker at a time, crashed *)
(* and restarted ones included; a batch that outlasts its claim can let in *)
(* one more, and only one, however its outcomes then overwrite each other. *)
OneSender ==
    \A d \in Deliveries : Cardinality({w \in Workers : InHand(w, d)}) <= 1 + overruns[d]

(* Nobody is sent the same message without end: beyond max_attempts it     *)
(* goes out only for a worker that stopped or an outcome that could not be *)
(* recorded, once each (Pass: "a duplicate is the price of not silently    *)
(* losing the record"), and up to max_attempts times for a claim that ran  *)
(* out in a worker's hand, because the outcome then recorded takes the     *)
(* attempts back to what that worker had read.                             *)
TriesBounded ==
    \A d \in Deliveries : tries[d] <= MaxAttempts + mishaps + overruns[d] * (MaxAttempts - 1)

(* What Delivery promises of each row: it is recorded as sent only if it   *)
(* arrived, and unless a claim on it ran out in a worker's hand it ends    *)
(* once, and nothing is sent any more after it ended.                      *)
PromiseOf(s) ==
    CASE s = "none" -> "unmade"
      [] s \in Queued -> "open"
      [] s = "Sent" -> "sent"
      [] s = "DeadLettered" -> "abandoned"
      [] s = "deleted" -> "withdrawn"
Promised == [d \in Deliveries |-> PromiseOf(status[d])]
Overrun == {d \in Deliveries : overruns[d] > 0}
D == INSTANCE Delivery WITH promise <- Promised, received <- arrived, lapsed <- Overrun
ImplementsDelivery == D!Spec

(* "A queued delivery is a promise the worker can keep" (ProcessEvent):    *)
(* through crashes, lost answers and failed recordings, what is queued is  *)
(* eventually sent, dead-lettered or withdrawn.                            *)
DeliverySettles ==
    \A d \in Deliveries : status[d] \in Queued ~> status[d] \notin Queued

(* "The dead-letter row is what the admin retry endpoint acts on, so a     *)
(* message that ran out of attempts can be replayed deliberately rather    *)
(* than being lost" (MarkFailed): a retried dead letter is queued again.   *)
RetriedIsQueued ==
    [][\A d \in Deliveries : deadLetter[d] = "dead_lettered" /\ deadLetter'[d] = "retried"
                              => status'[d] \in Queued]_outboxVars
=============================================================================
