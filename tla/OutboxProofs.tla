---------------------------- MODULE OutboxProofs ----------------------------
(***************************************************************************)
(* What Outbox keeps true for any number of notifications, channels,       *)
(* workers, attempts and mishaps, batches that outlast their claim         *)
(* included.                                                               *)
(***************************************************************************)
EXTENDS Outbox, FiniteSetTheorems, TLAPS

-----------------------------------------------------------------------------
(* The types *)

LEMMA OutcomeTyped ==
    ASSUME TypeOK, NEW w \in Workers, outcome[w].result # "none"
    PROVE  /\ outcome[w] # NoOutcome
           /\ outcome[w] \in Outcome
           /\ outcome[w].delivery \in Deliveries
           /\ outcome[w].attempts \in Nat
<1>1. outcome[w] # NoOutcome
  BY DEF NoOutcome
<1>2. outcome[w] \in Outcome
  BY <1>1 DEF TypeOK
<1> QED BY <1>1, <1>2 DEF Outcome

LEMMA MessageTyped ==
    ASSUME TypeOK, NEW w \in Workers, NEW m \in batch[w]
    PROVE  m \in Message /\ m.delivery \in Deliveries /\ m.attempts \in Nat
<1>1. m \in Message
  BY DEF TypeOK
<1> QED BY <1>1 DEF Message

\* A try, whatever came of it.
Attempts(w, m) ==
    /\ outcome[w] = NoOutcome
    /\ m \in batch[w]
    /\ \E result \in {"ok", "error", "unsendable"} :
          /\ Tried(w, m, result)
          /\ \/ UNCHANGED <<tries, arrived>> /\ result # "ok"
             \/ /\ tries' = [tries EXCEPT ![m.delivery] = @ + 1]
                /\ UNCHANGED arrived /\ result # "ok"
             \/ /\ tries' = [tries EXCEPT ![m.delivery] = @ + 1]
                /\ arrived' = [arrived EXCEPT ![m.delivery] = TRUE]

LEMMA SendAttempts ==
    ASSUME NEW w, NEW m, Send(w, m) \/ NoSender(w, m) PROVE Attempts(w, m)
BY DEF Send, NoSender, Attempts

LEMMA TypeStep == TypeOK /\ [Next]_outboxVars => TypeOK'
<1> SUFFICES ASSUME TypeOK, [Next]_outboxVars PROVE TypeOK'
  OBVIOUS
<1> USE DEF TypeOK, DeliveryStatus, rows, workers, history
<1>1. ASSUME NEW n \in Notifications, CreateNotification(n) PROVE TypeOK'
  BY <1>1 DEF CreateNotification
<1>2. ASSUME NEW d \in Deliveries, NEW when \in {"now", "later"}, EnqueueAt(d, when)
      PROVE  TypeOK'
  BY <1>2 DEF EnqueueAt
<1>3. ASSUME NEW n \in Notifications, Delete(n) PROVE TypeOK'
  BY <1>3 DEF Delete
<1>4. ASSUME NEW d \in Deliveries, BackoffElapses(d) \/ ClaimRunsOut(d) \/ RetryDeadLetter(d)
      PROVE  TypeOK'
  BY <1>4 DEF BackoffElapses, ClaimRunsOut, RetryDeadLetter
<1>5. ASSUME NEW w \in Workers, ClaimDue(w) PROVE TypeOK'
  <2>1. PICK S \in SUBSET {d \in Deliveries : Claimable(d)} :
           /\ batch' = [batch EXCEPT ![w] =
                          {[delivery |-> d, attempts |-> attempts[d]] : d \in S}]
           /\ status' = [d \in Deliveries |-> IF d \in S THEN "Retrying" ELSE status[d]]
           /\ due' = [d \in Deliveries |-> IF d \in S THEN "claimed" ELSE due[d]]
    BY <1>5 DEF ClaimDue
  <2>2. {[delivery |-> d, attempts |-> attempts[d]] : d \in S} \in SUBSET Message
    BY DEF Message
  <2> QED BY <1>5, <2>1, <2>2 DEF ClaimDue
<1>6. ASSUME NEW w \in Workers, NEW m \in batch[w], Attempts(w, m) PROVE TypeOK'
  <2> HIDE DEF TypeOK
  <2>1. m \in Message /\ m.delivery \in Deliveries /\ m.attempts \in Nat
    BY MessageTyped
  <2>2. ASSUME NEW result \in {"ok", "error", "unsendable"}, Tried(w, m, result)
        PROVE  /\ batch' \in [Workers -> SUBSET Message]
               /\ outcome' \in [Workers -> Outcome \cup {NoOutcome}]
               /\ UNCHANGED <<rows, mishaps, overruns>>
    BY <2>1, <2>2 DEF Tried, Outcome, TypeOK
  <2>3. tries' \in [Deliveries -> Nat] /\ arrived' \in [Deliveries -> BOOLEAN]
    <3>1. tries \in [Deliveries -> Nat] /\ arrived \in [Deliveries -> BOOLEAN]
      BY DEF TypeOK
    <3>2. tries' = tries \/ tries' = [tries EXCEPT ![m.delivery] = @ + 1]
      BY <1>6 DEF Attempts
    <3>3. arrived' = arrived \/ arrived' = [arrived EXCEPT ![m.delivery] = TRUE]
      BY <1>6 DEF Attempts
    <3>4. tries' \in [Deliveries -> Nat]
      BY <2>1, <3>1, <3>2
    <3> QED BY <2>1, <3>1, <3>3, <3>4
  <2> QED BY <1>6, <2>2, <2>3 DEF TypeOK, Attempts
<1>7. ASSUME NEW w \in Workers, MarkSent(w) PROVE TypeOK'
  <2>1. outcome[w].delivery \in Deliveries
    BY <1>7, OutcomeTyped DEF MarkSent
  <2> QED BY <1>7, <2>1 DEF MarkSent, Drops
<1>8. ASSUME NEW w \in Workers, MarkFailed(w) PROVE TypeOK'
  <2>1. outcome[w].delivery \in Deliveries /\ outcome[w].attempts \in Nat
    BY <1>8, OutcomeTyped DEF MarkFailed
  <2>2. CASE status[outcome[w].delivery] = "deleted"
    BY <1>8, <2>2 DEF MarkFailed, Drops
  <2>3. CASE status[outcome[w].delivery] # "deleted"
    <3>1. outcome[w].attempts + 1 \in Nat
      BY <2>1
    <3> QED BY <1>8, <2>1, <2>3, <3>1 DEF MarkFailed, Drops
  <2> QED BY <2>2, <2>3
<1>9. ASSUME NEW w \in Workers, RecordingFails(w) \/ Crash(w) PROVE TypeOK'
  BY <1>9 DEF RecordingFails, Crash, Mishap, Drops, Idle
<1>10. CASE UNCHANGED outboxVars
  BY <1>10 DEF outboxVars
<1> QED BY <1>1, <1>2, <1>3, <1>4, <1>5, <1>6, <1>7, <1>8, <1>9, <1>10, SendAttempts
        DEF Next, OutboxNext, WorkerStep, Tries, Records

(* The types, for any constants.                                           *)
THEOREM TypeCorrect == Spec => []TypeOK
<1>1. Init => TypeOK
  BY OutboxAssumption DEF Init, TypeOK, DeliveryStatus
<1> QED BY <1>1, TypeStep, PTL DEF Spec

-----------------------------------------------------------------------------
(* What the rows record, slow batches included                             *)

RecordsAreTrue ==
    \A d \in Deliveries :
        /\ status[d] = "Sent" => arrived[d]
        /\ status[d] = "DeadLettered" => deadLetter[d] # "none"

\* What is about to be recorded as sent has arrived.
OkArrived ==
    \A w \in Workers : outcome[w].result = "ok" => arrived[outcome[w].delivery]

RecordInv == TypeOK /\ RecordsAreTrue /\ OkArrived

\* A step that ends no delivery, tells of no success and leaves dead letters there.
EndsNone ==
    /\ \A d \in Deliveries :
          /\ arrived[d] => arrived'[d]
          /\ status'[d] = status[d] \/ status'[d] \notin {"Sent", "DeadLettered"}
          /\ status'[d] = "DeadLettered" /\ deadLetter[d] # "none" => deadLetter'[d] # "none"
    /\ \A w \in Workers : outcome'[w].result = "ok" =>
          arrived'[outcome'[w].delivery] \/ outcome'[w] = outcome[w]

LEMMA EndsNoneRecords == ASSUME RecordInv, TypeOK', EndsNone PROVE RecordInv'
<1>1. RecordsAreTrue'
  BY DEF RecordInv, RecordsAreTrue, EndsNone
<1>2. ASSUME NEW w \in Workers, outcome'[w].result = "ok"
      PROVE  arrived'[outcome'[w].delivery]
  <2>1. CASE outcome'[w] = outcome[w]
    <3>1. outcome[w].result = "ok" /\ arrived[outcome[w].delivery]
      BY <1>2, <2>1 DEF RecordInv, OkArrived
    <3>2. outcome[w].delivery \in Deliveries
      BY <3>1, OutcomeTyped DEF RecordInv
    <3> QED BY <2>1, <3>1, <3>2 DEF EndsNone
  <2> QED BY <1>2, <2>1 DEF EndsNone
<1> QED BY <1>1, <1>2 DEF RecordInv, OkArrived

LEMMA MarkSentRecords ==
    ASSUME RecordInv, TypeOK', NEW w \in Workers, MarkSent(w) PROVE RecordInv'
<1> DEFINE d == outcome[w].delivery
<1>1. d \in Deliveries /\ arrived[d]
  BY OutcomeTyped DEF MarkSent, RecordInv, OkArrived
<1>2. /\ status' = [status EXCEPT ![d] = IF @ = "deleted" THEN @ ELSE "Sent"]
      /\ outcome' = [outcome EXCEPT ![w] = NoOutcome]
      /\ UNCHANGED <<arrived, deadLetter>>
  BY DEF MarkSent, Drops, history
<1>3. RecordsAreTrue'
  BY <1>1, <1>2 DEF RecordInv, RecordsAreTrue, TypeOK
<1>4. OkArrived'
  BY <1>2 DEF RecordInv, OkArrived, TypeOK, NoOutcome
<1> QED BY <1>3, <1>4 DEF RecordInv

LEMMA MarkFailedRecords ==
    ASSUME RecordInv, TypeOK', NEW w \in Workers, MarkFailed(w) PROVE RecordInv'
<1> DEFINE o == outcome[w]
           d == o.delivery
<1>1. d \in Deliveries
  BY OutcomeTyped DEF MarkFailed, RecordInv
<1>2. outcome' = [outcome EXCEPT ![w] = NoOutcome] /\ arrived' = arrived
  BY DEF MarkFailed, Drops, history
<1>3. OkArrived'
  BY <1>2 DEF RecordInv, OkArrived, TypeOK, NoOutcome
<1>4. CASE status[d] = "deleted"
  BY <1>2, <1>3, <1>4 DEF MarkFailed, RecordInv, RecordsAreTrue
<1>5. CASE status[d] # "deleted"
  <2>1. /\ status' = [status EXCEPT ![d] =
                        IF Exhausted(o) THEN "DeadLettered" ELSE "Retrying"]
        /\ deadLetter' = [deadLetter EXCEPT ![d] =
                            IF Exhausted(o) THEN "dead_lettered" ELSE @]
    BY <1>5 DEF MarkFailed
  <2>2. RecordsAreTrue'
    BY <1>1, <1>2, <2>1 DEF RecordInv, RecordsAreTrue, TypeOK
  <2> QED BY <1>3, <2>2 DEF RecordInv
<1> QED BY <1>4, <1>5

LEMMA RecordStep == ASSUME RecordInv, TypeOK', [Next]_outboxVars PROVE RecordInv'
<1> USE DEF rows, workers, history
<1>1. ASSUME NEW n \in Notifications, CreateNotification(n) \/ Delete(n) PROVE RecordInv'
  <2>1. EndsNone
    BY <1>1 DEF CreateNotification, Delete, EndsNone, RecordInv, TypeOK
  <2> QED BY <2>1, EndsNoneRecords
<1>2. ASSUME NEW d \in Deliveries, NEW when,
             EnqueueAt(d, when) \/ BackoffElapses(d) \/ RetryDeadLetter(d) \/ ClaimRunsOut(d)
      PROVE  RecordInv'
  <2>1. EndsNone
    BY <1>2 DEF EnqueueAt, BackoffElapses, RetryDeadLetter, ClaimRunsOut, EndsNone,
                RecordInv, TypeOK
  <2> QED BY <2>1, EndsNoneRecords
<1>3. ASSUME NEW w \in Workers, ClaimDue(w) PROVE RecordInv'
  <2>1. EndsNone
    BY <1>3 DEF ClaimDue, EndsNone, RecordInv, TypeOK
  <2> QED BY <2>1, EndsNoneRecords
<1>4. ASSUME NEW w \in Workers, NEW m \in batch[w], Send(w, m) \/ NoSender(w, m)
      PROVE  RecordInv'
  <2>1. m.delivery \in Deliveries
    BY MessageTyped DEF RecordInv
  <2>2. PICK result \in {"ok", "error", "unsendable"} :
          /\ Tried(w, m, result)
          /\ \/ arrived' = arrived /\ result # "ok"
             \/ arrived' = [arrived EXCEPT ![m.delivery] = TRUE]
    BY <1>4, SendAttempts DEF Attempts
  <2>3. /\ outcome' = [outcome EXCEPT ![w] = [delivery |-> m.delivery,
                                               attempts |-> m.attempts, result |-> result]]
        /\ UNCHANGED <<status, deadLetter>>
    BY <2>2 DEF Tried
  <2>4. EndsNone
    <3>1. \A d \in Deliveries : arrived[d] => arrived'[d]
      BY <2>1, <2>2 DEF RecordInv, TypeOK
    <3>2. \A v \in Workers \ {w} : outcome'[v] = outcome[v]
      BY <2>3 DEF RecordInv, TypeOK
    <3>3. /\ outcome'[w].result = result
          /\ outcome'[w].delivery = m.delivery
      BY <2>3 DEF RecordInv, TypeOK
    <3>4. result = "ok" => arrived'[m.delivery]
      BY <2>1, <2>2 DEF RecordInv, TypeOK
    <3> QED BY <2>3, <3>1, <3>2, <3>3, <3>4 DEF EndsNone
  <2> QED BY <2>4, EndsNoneRecords
<1>5. ASSUME NEW w \in Workers, RecordingFails(w) \/ Crash(w) PROVE RecordInv'
  <2>1. /\ UNCHANGED <<status, deadLetter, arrived>>
        /\ outcome' = [outcome EXCEPT ![w] = NoOutcome]
    BY <1>5 DEF RecordingFails, Crash, Mishap, Drops
  <2>2. EndsNone
    BY <2>1 DEF EndsNone, NoOutcome, RecordInv, TypeOK
  <2> QED BY <2>2, EndsNoneRecords
<1>6. CASE UNCHANGED outboxVars
  <2>1. EndsNone
    BY <1>6 DEF EndsNone, outboxVars
  <2> QED BY <2>1, EndsNoneRecords
<1> QED BY <1>1, <1>2, <1>3, <1>4, <1>5, <1>6, MarkSentRecords, MarkFailedRecords
        DEF Next, OutboxNext, WorkerStep, Tries, Records

(* Whatever crashes, is recorded twice or outlasts its claim: a delivery   *)
(* recorded as sent arrived, and one given up has a dead letter an         *)
(* administrator can find.                                                 *)
THEOREM RecordsStayTrue == Spec => []RecordsAreTrue
<1>1. Init => RecordInv
  <2> SUFFICES ASSUME Init PROVE RecordInv
    OBVIOUS
  <2>1. TypeOK
    BY OutboxAssumption DEF Init, TypeOK, DeliveryStatus
  <2>2. RecordsAreTrue /\ OkArrived
    BY DEF Init, RecordsAreTrue, OkArrived, NoOutcome
  <2> QED BY <2>1, <2>2 DEF RecordInv
<1>2. RecordInv /\ [Next]_outboxVars => RecordInv'
  BY RecordStep, TypeStep DEF RecordInv
<1>3. RecordInv => RecordsAreTrue
  BY DEF RecordInv
<1> QED BY <1>1, <1>2, <1>3, PTL DEF Spec
-----------------------------------------------------------------------------
(* Adding up what the workers hold: a share of 0..MaxAttempts each         *)

Shares == [Workers -> 0..MaxAttempts]
Portions(f) == {c \in Workers \X (1..MaxAttempts) : c[2] <= f[c[1]]}
Total(f) == Cardinality(Portions(f))

LEMMA PortionsFinite ==
    ASSUME NEW f \in Shares
    PROVE  IsFiniteSet(Portions(f)) /\ Total(f) \in Nat
<1>1. IsFiniteSet(1..MaxAttempts)
  BY OutboxAssumption, FS_Interval
<1>2. IsFiniteSet(Workers \X (1..MaxAttempts))
  BY <1>1, OutboxAssumption, FS_Product
<1>3. IsFiniteSet(Portions(f))
  BY <1>2, FS_Subset DEF Portions
<1> QED BY <1>3, FS_CardinalityType DEF Total

\* The portions of one worker are as many as its share.
LEMMA OwnPortions ==
    ASSUME NEW w \in Workers, NEW n \in 0..MaxAttempts
    PROVE  /\ IsFiniteSet({w} \X (1..n))
           /\ Cardinality({w} \X (1..n)) = n
<1>1. IsFiniteSet({w}) /\ Cardinality({w}) = 1
  BY FS_Singleton
<1>2. IsFiniteSet(1..n) /\ Cardinality(1..n) = n
  BY FS_Interval, OutboxAssumption
<1>3. /\ IsFiniteSet({w} \X (1..n))
      /\ Cardinality({w} \X (1..n)) = Cardinality({w}) * Cardinality(1..n)
  BY <1>1, <1>2, FS_Product
<1>4. n \in Nat
  BY OutboxAssumption
<1> QED BY <1>1, <1>2, <1>3, <1>4

LEMMA TotalSplits ==
    ASSUME NEW f \in Shares, NEW w \in Workers
    PROVE  LET others == {c \in Portions(f) : c[1] # w}
           IN  /\ Cardinality(others) \in Nat
               /\ Total(f) = Cardinality(others) + f[w]
<1> DEFINE others == {c \in Portions(f) : c[1] # w}
           own == {w} \X (1..f[w])
<1>1. f[w] \in 0..MaxAttempts
  BY DEF Shares
<1>2. Portions(f) = others \cup own
  BY <1>1, OutboxAssumption DEF Portions
<1>3. others \cap own = {}
  OBVIOUS
<1>4. IsFiniteSet(others) /\ Cardinality(others) \in Nat
  BY PortionsFinite, FS_Subset, FS_CardinalityType
<1>5. IsFiniteSet(own) /\ Cardinality(own) = f[w]
  BY <1>1, OwnPortions
<1>6. Cardinality(others \cap own) = 0
  BY <1>3, FS_EmptySet
<1>7. Cardinality(others \cup own) = Cardinality(others) + f[w]
  <2>1. Cardinality(others \cup own)
          = Cardinality(others) + Cardinality(own) - Cardinality(others \cap own)
    BY <1>4, <1>5, FS_Union
  <2> QED BY <1>1, <1>4, <1>5, <1>6, <2>1
<1> QED BY <1>2, <1>4, <1>7 DEF Total

LEMMA TotalOfOne ==
    ASSUME NEW f \in Shares, NEW g \in Shares, NEW w \in Workers,
           \A v \in Workers \ {w} : g[v] = f[v]
    PROVE  Total(g) = Total(f) - f[w] + g[w]
<1>1. {c \in Portions(g) : c[1] # w} = {c \in Portions(f) : c[1] # w}
  BY DEF Portions
<1>2. f[w] \in Nat /\ g[w] \in Nat
  BY OutboxAssumption DEF Shares
<1> DEFINE A == Cardinality({c \in Portions(f) : c[1] # w})
<1>3. A \in Nat /\ Total(f) = A + f[w]
  BY TotalSplits
<1>4. Total(g) = A + g[w]
  <2>1. Total(g) = Cardinality({c \in Portions(g) : c[1] # w}) + g[w]
    BY TotalSplits
  <2> QED BY <1>1, <2>1
<1> HIDE DEF A
<1> QED BY <1>2, <1>3, <1>4

LEMMA TotalOfNone ==
    ASSUME NEW f \in Shares, \A w \in Workers : f[w] = 0
    PROVE  Total(f) = 0
<1>1. Portions(f) = {}
  BY DEF Portions
<1> QED BY <1>1, FS_EmptySet DEF Total

\* Two shares are no more than all of them.
LEMMA TotalOfTwo ==
    ASSUME NEW f \in Shares, NEW v \in Workers, NEW w \in Workers, v # w
    PROVE  f[v] + f[w] <= Total(f)
<1> DEFINE g == [f EXCEPT ![w] = 0]
<1>1. g \in Shares /\ g[v] = f[v] /\ f[v] \in Nat /\ f[w] \in Nat
  BY OutboxAssumption DEF Shares
<1>2. Total(g) = Total(f) - f[w]
  <2>1. g[w] = 0 /\ \A u \in Workers \ {w} : g[u] = f[u]
    BY DEF Shares
  <2>2. Total(g) = Total(f) - f[w] + g[w]
    BY <1>1, <2>1, TotalOfOne
  <2> QED BY <1>1, <2>1, <2>2, PortionsFinite
<1>3. g[v] <= Total(g)
  <2> HIDE DEF g
  <2> DEFINE A == Cardinality({c \in Portions(g) : c[1] # v})
  <2>1. A \in Nat /\ Total(g) = A + g[v]
    BY <1>1, TotalSplits
  <2> HIDE DEF A
  <2> QED BY <1>1, <2>1
<1> HIDE DEF g
<1> QED BY <1>1, <1>2, <1>3, PortionsFinite

-----------------------------------------------------------------------------
(* What a worker holds of a delivery: B is its batch, o its outcome        *)

Holds(B, o, d) ==
    \/ \E m \in B : m.delivery = d
    \/ o # NoOutcome /\ o.delivery = d

\* It holds the delivery as of the a-th attempt.
Reads(B, o, d, a) ==
    \/ \E m \in B : m.delivery = d /\ m.attempts = a
    \/ o # NoOutcome /\ o.delivery = d /\ o.attempts = a

Counts(B, o, d) == IF Holds(B, o, d) THEN 1 ELSE 0

\* The tries that may still come of it, were it to fail at each of them.
TriesOf(B, o, d) ==
    IF \E m \in B : m.delivery = d
    THEN MaxAttempts - (CHOOSE m \in B : m.delivery = d).attempts
    ELSE IF o # NoOutcome /\ o.delivery = d THEN MaxAttempts - (o.attempts + 1)
    ELSE 0

\* A worker has a delivery in hand once, with a try to go.
Sound(B, o) ==
    /\ \A m \in B : m.attempts < MaxAttempts /\ \A n \in B : n.delivery = m.delivery => n = m
    /\ o # NoOutcome => o.attempts < MaxAttempts /\ \A m \in B : m.delivery # o.delivery

Hands(d) == [w \in Workers |-> Counts(batch[w], outcome[w], d)]
Left(d) == [w \in Workers |-> TriesOf(batch[w], outcome[w], d)]

LEMMA HoldsNothing ==
    ASSUME NEW B, NEW o, NEW d, ~Holds(B, o, d)
    PROVE  /\ Counts(B, o, d) = 0 /\ TriesOf(B, o, d) = 0
           /\ \A a : ~Reads(B, o, d, a)
BY DEF Holds, Counts, TriesOf, Reads

LEMMA HoldsMessage ==
    ASSUME NEW B, NEW o, Sound(B, o), NEW m \in B
    PROVE  /\ Counts(B, o, m.delivery) = 1
           /\ TriesOf(B, o, m.delivery) = MaxAttempts - m.attempts
           /\ \A a : Reads(B, o, m.delivery, a) <=> a = m.attempts
<1>1. (CHOOSE n \in B : n.delivery = m.delivery) = m
  BY DEF Sound
<1> QED BY <1>1 DEF Sound, Holds, Counts, TriesOf, Reads

LEMMA HoldsOutcome ==
    ASSUME NEW B, NEW o, Sound(B, o), o # NoOutcome
    PROVE  /\ Counts(B, o, o.delivery) = 1
           /\ TriesOf(B, o, o.delivery) = MaxAttempts - (o.attempts + 1)
           /\ \A a : Reads(B, o, o.delivery, a) <=> a = o.attempts
BY DEF Sound, Holds, Counts, TriesOf, Reads

LEMMA HoldsShare ==
    ASSUME NEW B \in SUBSET Message, NEW o \in Outcome \cup {NoOutcome}, Sound(B, o), NEW d
    PROVE  Counts(B, o, d) \in 0..MaxAttempts /\ TriesOf(B, o, d) \in 0..MaxAttempts
<1>1. CASE \E m \in B : m.delivery = d
  <2>1. PICK m \in B : m.delivery = d
    BY <1>1
  <2>2. m.attempts \in Nat /\ m.attempts < MaxAttempts
    BY DEF Message, Sound
  <2> QED BY <2>1, <2>2, HoldsMessage, OutboxAssumption
<1>2. CASE o # NoOutcome /\ o.delivery = d
  <2>1. o.attempts \in Nat /\ o.attempts < MaxAttempts
    BY <1>2 DEF Outcome, Sound
  <2> QED BY <1>2, <2>1, HoldsOutcome, OutboxAssumption
<1>3. CASE ~Holds(B, o, d)
  BY <1>3, HoldsNothing, OutboxAssumption
<1> QED BY <1>1, <1>2, <1>3 DEF Holds

\* A row from which more tries may come than from what is in hand: one that
\* is not queued yet, or not claimed, or claimed by a worker that has dropped it.
ReadBy(w, d) == Reads(batch[w], outcome[w], d, attempts[d])
Open(d) ==
    \/ status[d] = "none"
    \/ status[d] \in Queued /\ (due[d] = "claimed" => \A w \in Workers : ~ReadBy(w, d))

OpenHands(d) == IF Open(d) THEN 1 ELSE 0
OpenTries(d) == IF Open(d) THEN MaxAttempts - attempts[d] ELSE 0

\* The hands a delivery may be in and the tries that may be made, those
\* of an open row included.
Account(d) ==
    /\ Total(Hands(d)) + OpenHands(d) <= 1 + overruns[d]
    /\ tries[d] + Total(Left(d)) + OpenTries(d)
         <= MaxAttempts + mishaps + overruns[d] * (MaxAttempts - 1)

RowInv(d) ==
    /\ status[d] \in Queued \cup {"none"} => attempts[d] < MaxAttempts
    /\ (\E w \in Workers : InHand(w, d)) =>
           /\ status[d] # "none"
           /\ overruns[d] = 0 => status[d] \in {"Retrying", "deleted"}

SoundHands == \A w \in Workers : Sound(batch[w], outcome[w])

OutboxInv ==
    /\ RecordInv
    /\ SoundHands
    /\ \A d \in Deliveries : RowInv(d) /\ Account(d)

LEMMA HandIsShare == ASSUME NEW w, NEW d PROVE InHand(w, d) <=> Holds(batch[w], outcome[w], d)
BY DEF InHand, Holds

LEMMA SharesOf ==
    ASSUME NEW B \in [Workers -> SUBSET Message],
           NEW o \in [Workers -> Outcome \cup {NoOutcome}],
           \A w \in Workers : Sound(B[w], o[w]), NEW d
    PROVE  /\ [w \in Workers |-> Counts(B[w], o[w], d)] \in Shares
           /\ [w \in Workers |-> TriesOf(B[w], o[w], d)] \in Shares
<1>1. ASSUME NEW w \in Workers
      PROVE  /\ Counts(B[w], o[w], d) \in 0..MaxAttempts
             /\ TriesOf(B[w], o[w], d) \in 0..MaxAttempts
  BY HoldsShare
<1> QED BY <1>1 DEF Shares

LEMMA SharesTyped ==
    ASSUME TypeOK, SoundHands, NEW d PROVE Hands(d) \in Shares /\ Left(d) \in Shares
BY SharesOf DEF TypeOK, Hands, Left, SoundHands

LEMMA NextSharesTyped ==
    ASSUME TypeOK', SoundHands', NEW d PROVE Hands(d)' \in Shares /\ Left(d)' \in Shares
BY SharesOf DEF TypeOK, Hands, Left, SoundHands

LEMMA AccountTyped ==
    ASSUME TypeOK, NEW d \in Deliveries
    PROVE  /\ tries[d] \in Nat /\ attempts[d] \in Nat /\ overruns[d] \in Nat
           /\ mishaps \in Nat /\ MaxAttempts \in Nat \ {0}
           /\ OpenHands(d) \in 0..1 /\ OpenTries(d) \in Int
           /\ overruns[d] * (MaxAttempts - 1) \in Nat
BY OutboxAssumption DEF TypeOK, OpenHands, OpenTries

\* What one worker does to a delivery keeps the account when it makes up, in
\* hand or in the row, for what it takes.
LEMMA AccountMoved ==
    ASSUME OutboxInv, TypeOK', SoundHands', NEW w \in Workers, NEW d \in Deliveries,
           \A v \in Workers \ {w} : batch'[v] = batch[v] /\ outcome'[v] = outcome[v],
           overruns'[d] = overruns[d],
           Hands(d)'[w] + OpenHands(d)' <= Hands(d)[w] + OpenHands(d),
           tries'[d] + Left(d)'[w] + OpenTries(d)' - mishaps'
             <= tries[d] + Left(d)[w] + OpenTries(d) - mishaps
    PROVE  Account(d)'
<1>1. Hands(d) \in Shares /\ Left(d) \in Shares /\ Hands(d)' \in Shares /\ Left(d)' \in Shares
  BY SharesTyped, NextSharesTyped DEF OutboxInv, RecordInv, SoundHands
<1>2. \A v \in Workers \ {w} : Hands(d)'[v] = Hands(d)[v] /\ Left(d)'[v] = Left(d)[v]
  BY DEF Hands, Left
<1>3. /\ Total(Hands(d)') = Total(Hands(d)) - Hands(d)[w] + Hands(d)'[w]
      /\ Total(Left(d)') = Total(Left(d)) - Left(d)[w] + Left(d)'[w]
  BY <1>1, <1>2, TotalOfOne
<1>4. /\ Total(Hands(d)) \in Nat /\ Total(Left(d)) \in Nat
      /\ Hands(d)[w] \in Nat /\ Hands(d)'[w] \in Nat /\ Left(d)[w] \in Nat /\ Left(d)'[w] \in Nat
  BY <1>1, PortionsFinite, OutboxAssumption DEF Shares
<1>5. /\ tries[d] \in Nat /\ overruns[d] \in Nat /\ mishaps \in Nat /\ MaxAttempts \in Nat
      /\ OpenHands(d) \in Int /\ OpenTries(d) \in Int
  BY AccountTyped DEF OutboxInv, RecordInv
<1>6. /\ tries'[d] \in Nat /\ mishaps' \in Nat
      /\ OpenHands(d)' \in Int /\ OpenTries(d)' \in Int
  BY <1>5 DEF TypeOK, OpenHands, OpenTries
<1> DEFINE k == overruns[d] * (MaxAttempts - 1)
<1>7. k \in Int /\ overruns'[d] * (MaxAttempts - 1) = k
  BY <1>5
<1>8. Account(d)
  BY DEF OutboxInv
<1>9. Total(Hands(d)') + OpenHands(d)' <= 1 + overruns[d]
  BY <1>3, <1>4, <1>5, <1>6, <1>8 DEF Account
<1>10. tries'[d] + Total(Left(d)') + OpenTries(d)' <= MaxAttempts + mishaps' + k
  <2>1. tries[d] + Total(Left(d)) + OpenTries(d) <= MaxAttempts + mishaps + k
    BY <1>8 DEF Account
  <2> HIDE DEF k
  <2> QED BY <1>3, <1>4, <1>5, <1>6, <1>7, <2>1
<1> QED BY <1>7, <1>9, <1>10 DEF Account

\* Hands that stay as they are keep it, if the row opens no further.
LEMMA AccountKept ==
    ASSUME OutboxInv, TypeOK', NEW d \in Deliveries, batch' = batch, outcome' = outcome,
           tries'[d] = tries[d], attempts'[d] = attempts[d], overruns'[d] = overruns[d],
           mishaps <= mishaps', Open(d)' => Open(d)
    PROVE  Account(d)'
<1>1. Hands(d)' = Hands(d) /\ Left(d)' = Left(d)
  BY DEF Hands, Left
<1>2. Total(Hands(d)) \in Nat /\ Total(Left(d)) \in Nat
  BY SharesTyped, PortionsFinite DEF OutboxInv, RecordInv, SoundHands
<1>3. /\ tries[d] \in Nat /\ attempts[d] \in Nat /\ overruns[d] \in Nat
      /\ mishaps \in Nat /\ MaxAttempts \in Nat
  BY AccountTyped DEF OutboxInv, RecordInv
<1>4. mishaps' \in Nat
  BY DEF TypeOK
<1>5. Open(d) => attempts[d] < MaxAttempts
  BY DEF OutboxInv, RowInv, Open
<1>6. OpenHands(d)' <= OpenHands(d) /\ OpenTries(d)' <= OpenTries(d)
  BY <1>3, <1>5 DEF OpenHands, OpenTries
<1>7. OpenHands(d) \in Int /\ OpenHands(d)' \in Int /\ OpenTries(d) \in Int /\ OpenTries(d)' \in Int
  BY <1>3 DEF OpenHands, OpenTries
<1> DEFINE k == overruns[d] * (MaxAttempts - 1)
<1>8. k \in Int /\ overruns'[d] * (MaxAttempts - 1) = k
  BY <1>3
<1>9. /\ Total(Hands(d)) + OpenHands(d) <= 1 + overruns[d]
      /\ tries[d] + Total(Left(d)) + OpenTries(d) <= MaxAttempts + mishaps + k
  BY DEF OutboxInv, Account
<1>10. /\ Total(Hands(d)) + OpenHands(d)' <= 1 + overruns[d]
       /\ tries[d] + Total(Left(d)) + OpenTries(d)' <= MaxAttempts + mishaps' + k
  <2> HIDE DEF k
  <2> QED BY <1>2, <1>3, <1>4, <1>6, <1>7, <1>8, <1>9
<1> QED BY <1>1, <1>8, <1>10 DEF Account

LEMMA RowKept ==
    ASSUME OutboxInv, NEW d \in Deliveries,
           \A w \in Workers : InHand(w, d)' => InHand(w, d),
           attempts'[d] = attempts[d], overruns[d] <= overruns'[d], TypeOK',
           \/ status'[d] = "deleted"
           \/ status'[d] = status[d]
           \/ status[d] = "none" /\ status'[d] \in Queued
    PROVE  RowInv(d)'
<1>1. overruns[d] \in Nat /\ overruns'[d] \in Nat
  BY DEF OutboxInv, RecordInv, TypeOK
<1> QED BY <1>1 DEF OutboxInv, RowInv, Queued

LEMMA OutsideKeeps ==
    ASSUME OutboxInv, TypeOK', RecordInv',
           \/ \E n \in Notifications : CreateNotification(n) \/ Delete(n)
           \/ \E d \in Deliveries : BackoffElapses(d) \/ RetryDeadLetter(d)
           \/ \E d \in Deliveries, when \in {"now", "later"} : EnqueueAt(d, when)
    PROVE  OutboxInv'
<1>1. /\ batch' = batch /\ outcome' = outcome /\ attempts' = attempts
      /\ tries' = tries /\ overruns' = overruns /\ mishaps' = mishaps
  BY DEF CreateNotification, Delete, BackoffElapses, RetryDeadLetter, EnqueueAt, workers, history
<1>2. ASSUME NEW d \in Deliveries
      PROVE  \/ status'[d] = "deleted"
             \/ status'[d] = status[d] /\ (due'[d] = due[d] \/ due[d] = "later")
             \/ status[d] = "none" /\ status'[d] \in Queued
  BY DEF OutboxInv, RecordInv, TypeOK, Queued,
         CreateNotification, Delete, BackoffElapses, RetryDeadLetter, EnqueueAt
<1>3. ASSUME NEW d \in Deliveries PROVE Account(d)'
  <2>1. Open(d)' => Open(d)
    BY <1>1, <1>2 DEF Open, ReadBy, Queued
  <2>2. mishaps <= mishaps'
    BY <1>1, AccountTyped DEF OutboxInv, RecordInv
  <2> QED BY <1>1, <2>1, <2>2, AccountKept
<1>4. ASSUME NEW d \in Deliveries PROVE RowInv(d)'
  <2>1. overruns[d] <= overruns'[d]
    BY <1>1, AccountTyped DEF OutboxInv, RecordInv
  <2> QED BY <1>1, <1>2, <2>1, RowKept DEF InHand
<1> QED BY <1>1, <1>3, <1>4 DEF OutboxInv, SoundHands

LEMMA OnceMore == \A m, n \in Int : (m + 1) * n = m * n + n /\ m * n \in Int
OBVIOUS

LEMMA ClaimRunsOutKeeps ==
    ASSUME OutboxInv, TypeOK', RecordInv', NEW d \in Deliveries, ClaimRunsOut(d)
    PROVE  OutboxInv'
<1>1. /\ batch' = batch /\ outcome' = outcome /\ status' = status
      /\ attempts' = attempts /\ tries' = tries
      /\ status[d] \in Queued /\ due[d] = "claimed"
      /\ due' = [due EXCEPT ![d] = "now"]
  BY DEF ClaimRunsOut, workers
<1>2. \/ UNCHANGED <<mishaps, overruns>> /\ \A w \in Workers : ~InHand(w, d)
      \/ mishaps' = mishaps + 1 /\ overruns' = [overruns EXCEPT ![d] = @ + 1]
  BY DEF ClaimRunsOut
<1>3. /\ mishaps \in Nat /\ mishaps <= mishaps'
      /\ \A e \in Deliveries : overruns[e] \in Nat /\ overruns[e] <= overruns'[e]
      /\ \A e \in Deliveries \ {d} : overruns'[e] = overruns[e] /\ due'[e] = due[e]
  BY <1>1, <1>2 DEF OutboxInv, RecordInv, TypeOK
<1>4. ASSUME NEW e \in Deliveries PROVE RowInv(e)'
  BY <1>1, <1>3, RowKept DEF InHand
<1>5. ASSUME NEW e \in Deliveries \ {d} PROVE Account(e)'
  <2>1. Open(e)' => Open(e)
    BY <1>1, <1>3 DEF Open, ReadBy
  <2> QED BY <1>1, <1>3, <2>1, AccountKept
<1>6. CASE UNCHANGED <<mishaps, overruns>> /\ \A w \in Workers : ~InHand(w, d)
  <2>1. Open(d)
    BY <1>1, <1>6, HandIsShare, HoldsNothing DEF Open, ReadBy
  <2> QED BY <1>1, <1>3, <1>4, <1>5, <1>6, <2>1, AccountKept DEF OutboxInv, SoundHands
<1>7. CASE mishaps' = mishaps + 1 /\ overruns' = [overruns EXCEPT ![d] = @ + 1]
  <2>1. Hands(d)' = Hands(d) /\ Left(d)' = Left(d)
    BY <1>1 DEF Hands, Left
  <2>2. Total(Hands(d)) \in Nat /\ Total(Left(d)) \in Nat
    BY SharesTyped, PortionsFinite DEF OutboxInv, RecordInv
  <2>3. /\ tries[d] \in Nat /\ attempts[d] \in Nat /\ overruns[d] \in Nat /\ MaxAttempts \in Nat
        /\ OpenHands(d) \in 0..1 /\ OpenTries(d) \in Int
        /\ attempts[d] < MaxAttempts
    BY <1>1, AccountTyped DEF OutboxInv, RecordInv, RowInv
  <2>4. overruns'[d] = overruns[d] + 1
    BY <1>7 DEF OutboxInv, RecordInv, TypeOK
  <2>5. /\ OpenHands(d)' \in Int /\ OpenHands(d)' <= 1
        /\ OpenTries(d)' \in Int /\ OpenTries(d)' <= MaxAttempts
    <3>1. attempts'[d] = attempts[d]
      BY <1>1
    <3> QED BY <2>3, <3>1 DEF OpenHands, OpenTries
  <2> DEFINE k == overruns[d] * (MaxAttempts - 1)
  <2>6. k \in Int /\ overruns'[d] * (MaxAttempts - 1) = k + (MaxAttempts - 1)
    <3>1. overruns[d] \in Int /\ (MaxAttempts - 1) \in Int
      BY <2>3
    <3>2. /\ overruns[d] * (MaxAttempts - 1) \in Int
          /\ (overruns[d] + 1) * (MaxAttempts - 1)
               = overruns[d] * (MaxAttempts - 1) + (MaxAttempts - 1)
      BY <3>1, OnceMore
    <3> QED BY <2>4, <3>2
  <2>7. /\ Total(Hands(d)) + OpenHands(d) <= 1 + overruns[d]
        /\ tries[d] + Total(Left(d)) + OpenTries(d) <= MaxAttempts + mishaps + k
        /\ 0 <= OpenTries(d)
    BY <2>3 DEF OutboxInv, Account, OpenTries
  <2>8. /\ Total(Hands(d)) + OpenHands(d)' <= 1 + overruns'[d]
        /\ tries[d] + Total(Left(d)) + OpenTries(d)'
             <= MaxAttempts + mishaps' + (k + (MaxAttempts - 1))
    <3> HIDE DEF k
    <3> QED BY <1>3, <1>7, <2>2, <2>3, <2>4, <2>5, <2>6, <2>7
  <2>9. Account(d)'
    BY <1>1, <2>1, <2>6, <2>8 DEF Account
  <2> QED BY <1>1, <1>4, <1>5, <2>9 DEF OutboxInv, SoundHands
<1> QED BY <1>2, <1>6, <1>7

\* A worker that changes what it holds of the rows it leaves alone changes
\* nothing in their account.
LEMMA OthersKept ==
    ASSUME OutboxInv, TypeOK', SoundHands', NEW w \in Workers, NEW d \in Deliveries,
           \A v \in Workers \ {w} : batch'[v] = batch[v] /\ outcome'[v] = outcome[v],
           overruns'[d] = overruns[d], tries'[d] = tries[d], mishaps <= mishaps',
           status'[d] = status[d], due'[d] = due[d], attempts'[d] = attempts[d],
           \A a : Reads(batch'[w], outcome'[w], d, a) <=> Reads(batch[w], outcome[w], d, a),
           Hands(d)'[w] = Hands(d)[w], Left(d)'[w] = Left(d)[w]
    PROVE  Account(d)'
<1>1. ASSUME NEW v \in Workers PROVE ReadBy(v, d)' <=> ReadBy(v, d)
  BY DEF ReadBy
<1>2. Open(d)' <=> Open(d)
  BY <1>1 DEF Open
<1>3. Hands(d) \in Shares /\ Left(d) \in Shares
  BY SharesTyped DEF OutboxInv, RecordInv
<1>4. Hands(d)[w] \in Int /\ Left(d)[w] \in Int
  BY <1>3, OutboxAssumption DEF Shares
<1>5. /\ tries[d] \in Nat /\ mishaps \in Nat /\ mishaps' \in Nat
      /\ OpenHands(d) \in Int /\ OpenTries(d) \in Int
  BY AccountTyped DEF OutboxInv, RecordInv, TypeOK
<1>6. OpenHands(d)' = OpenHands(d) /\ OpenTries(d)' = OpenTries(d)
  BY <1>2 DEF OpenHands, OpenTries
<1> QED BY <1>4, <1>5, <1>6, AccountMoved

LEMMA ClaimKeeps ==
    ASSUME OutboxInv, TypeOK', RecordInv', NEW w \in Workers, ClaimDue(w)
    PROVE  OutboxInv'
<1>1. PICK S \in SUBSET {d \in Deliveries : Claimable(d)} :
         /\ batch' = [batch EXCEPT ![w] =
                        {[delivery |-> d, attempts |-> attempts[d]] : d \in S}]
         /\ status' = [d \in Deliveries |-> IF d \in S THEN "Retrying" ELSE status[d]]
         /\ due' = [d \in Deliveries |-> IF d \in S THEN "claimed" ELSE due[d]]
  BY DEF ClaimDue
<1>2. /\ outcome' = outcome /\ attempts' = attempts /\ tries' = tries
      /\ overruns' = overruns /\ mishaps' = mishaps
      /\ outcome[w] = NoOutcome /\ batch[w] = {}
      /\ \A v \in Workers \ {w} : batch'[v] = batch[v]
      /\ mishaps <= mishaps'
  BY <1>1 DEF ClaimDue, history, Idle, OutboxInv, RecordInv, TypeOK
<1>3. ASSUME NEW d \in S
      PROVE  d \in Deliveries /\ status[d] \in Queued /\ due[d] = "now" /\ attempts[d] < MaxAttempts
  BY DEF Claimable, OutboxInv, RowInv
<1>4. batch'[w] = {[delivery |-> d, attempts |-> attempts[d]] : d \in S}
  BY <1>1 DEF OutboxInv, RecordInv, TypeOK
<1>5. SoundHands'
  <2>1. Sound(batch'[w], outcome'[w])
    BY <1>2, <1>3, <1>4 DEF Sound
  <2> QED BY <1>2, <2>1 DEF OutboxInv, SoundHands
<1>6. ASSUME NEW d PROVE ~Holds(batch[w], outcome[w], d)
  BY <1>2 DEF Holds
<1>7. ASSUME NEW d \in Deliveries, d \in S PROVE Account(d)'
  <2> DEFINE m == [delivery |-> d, attempts |-> attempts[d]]
  <2>1. m \in batch'[w]
    BY <1>4, <1>7
  <2>2. Sound(batch'[w], outcome'[w])
    BY <1>5 DEF SoundHands
  <2>3. /\ Counts(batch'[w], outcome'[w], d) = 1
        /\ TriesOf(batch'[w], outcome'[w], d) = MaxAttempts - attempts[d]
        /\ Reads(batch'[w], outcome'[w], d, attempts[d])
    BY <2>1, <2>2, HoldsMessage
  <2>4. Open(d) /\ ~Open(d)'
    BY <1>1, <1>2, <1>3, <1>7, <2>3 DEF Open, ReadBy
  <2>5. Hands(d)'[w] = 1 /\ Left(d)'[w] = MaxAttempts - attempts[d]
    BY <2>3 DEF Hands, Left
  <2>6. Hands(d)[w] = 0 /\ Left(d)[w] = 0
    BY <1>6, HoldsNothing DEF Hands, Left
  <2>7. /\ tries[d] \in Nat /\ mishaps \in Nat /\ attempts[d] \in Nat /\ MaxAttempts \in Nat
    BY AccountTyped DEF OutboxInv, RecordInv
  <2>8. /\ OpenHands(d) = 1 /\ OpenHands(d)' = 0
        /\ OpenTries(d) = MaxAttempts - attempts[d] /\ OpenTries(d)' = 0
    BY <2>4 DEF OpenHands, OpenTries
  <2>9. /\ Hands(d)'[w] + OpenHands(d)' <= Hands(d)[w] + OpenHands(d)
        /\ tries'[d] + Left(d)'[w] + OpenTries(d)' - mishaps'
             <= tries[d] + Left(d)[w] + OpenTries(d) - mishaps
    BY <1>2, <2>5, <2>6, <2>7, <2>8
  <2> QED BY <1>2, <1>5, <2>9, AccountMoved
<1>8. ASSUME NEW d \in Deliveries, d \notin S PROVE Account(d)'
  <2>1. ~Holds(batch'[w], outcome'[w], d)
    BY <1>2, <1>4, <1>8 DEF Holds
  <2>2. /\ Hands(d)'[w] = Hands(d)[w] /\ Left(d)'[w] = Left(d)[w]
        /\ \A a : Reads(batch'[w], outcome'[w], d, a) <=> Reads(batch[w], outcome[w], d, a)
    BY <1>6, <2>1, HoldsNothing DEF Hands, Left
  <2> QED BY <1>1, <1>2, <1>5, <1>8, <2>2, OthersKept
<1>9. ASSUME NEW d \in Deliveries PROVE RowInv(d)'
  <2>1. CASE d \in S
    <3>1. status'[d] = "Retrying" /\ attempts'[d] < MaxAttempts
      BY <1>1, <1>2, <1>3, <2>1
    <3> QED BY <3>1 DEF RowInv
  <2>2. CASE d \notin S
    <3>1. \A v \in Workers : InHand(v, d)' => InHand(v, d)
      BY <1>2, <1>4, <2>2 DEF InHand
    <3>2. overruns[d] <= overruns'[d]
      BY <1>2, AccountTyped DEF OutboxInv, RecordInv
    <3> QED BY <1>1, <1>2, <2>2, <3>1, <3>2, RowKept
  <2> QED BY <2>1, <2>2
<1> QED BY <1>5, <1>7, <1>8, <1>9 DEF OutboxInv

LEMMA TryKeeps ==
    ASSUME OutboxInv, TypeOK', RecordInv', NEW w \in Workers, NEW m \in batch[w], Attempts(w, m)
    PROVE  OutboxInv'
<1> DEFINE d == m.delivery
<1>1. d \in Deliveries /\ m.attempts \in Nat /\ Sound(batch[w], outcome[w])
  BY MessageTyped DEF OutboxInv, RecordInv, SoundHands
<1>2. PICK got \in {"ok", "error", "unsendable"} : Tried(w, m, got)
  BY DEF Attempts
<1>3. /\ outcome[w] = NoOutcome
      /\ batch' = [batch EXCEPT ![w] = @ \ {m}]
      /\ outcome' = [outcome EXCEPT ![w] =
                       [delivery |-> d, attempts |-> m.attempts, result |-> got]]
      /\ status' = status /\ due' = due /\ attempts' = attempts
      /\ mishaps' = mishaps /\ overruns' = overruns
  BY <1>2 DEF Attempts, Tried, rows
<1>4. /\ batch'[w] = batch[w] \ {m}
      /\ outcome'[w] = [delivery |-> d, attempts |-> m.attempts, result |-> got]
      /\ outcome'[w] # NoOutcome
      /\ \A v \in Workers \ {w} : batch'[v] = batch[v] /\ outcome'[v] = outcome[v]
  <2>1. /\ batch'[w] = batch[w] \ {m}
        /\ outcome'[w] = [delivery |-> d, attempts |-> m.attempts, result |-> got]
        /\ \A v \in Workers \ {w} : batch'[v] = batch[v] /\ outcome'[v] = outcome[v]
    BY <1>3 DEF OutboxInv, RecordInv, TypeOK
  <2>2. outcome'[w].result # "none"
    BY <2>1
  <2> QED BY <2>1, <2>2 DEF NoOutcome
<1>5. SoundHands'
  <2>1. Sound(batch'[w], outcome'[w])
    BY <1>1, <1>4 DEF Sound
  <2> QED BY <1>4, <2>1 DEF OutboxInv, SoundHands
<1>6. /\ tries'[d] = tries[d] \/ tries'[d] = tries[d] + 1
      /\ \A e \in Deliveries \ {d} : tries'[e] = tries[e]
  <2>1. tries' = tries \/ tries' = [tries EXCEPT ![d] = @ + 1]
    BY DEF Attempts
  <2>2. tries \in [Deliveries -> Nat]
    BY DEF OutboxInv, RecordInv, TypeOK
  <2> QED BY <1>1, <2>1, <2>2
<1>7. /\ Counts(batch[w], outcome[w], d) = 1
      /\ TriesOf(batch[w], outcome[w], d) = MaxAttempts - m.attempts
      /\ \A a : Reads(batch[w], outcome[w], d, a) <=> a = m.attempts
  BY <1>1, HoldsMessage
<1>8. /\ Counts(batch'[w], outcome'[w], d) = 1
      /\ TriesOf(batch'[w], outcome'[w], d) = MaxAttempts - (m.attempts + 1)
      /\ \A a : Reads(batch'[w], outcome'[w], d, a) <=> a = m.attempts
  <2>1. Sound(batch'[w], outcome'[w])
    BY <1>5 DEF SoundHands
  <2>2. outcome'[w].delivery = d /\ outcome'[w].attempts = m.attempts
    BY <1>4
  <2> QED BY <1>4, <2>1, <2>2, HoldsOutcome
<1>9. Account(d)'
  <2>1. Open(d)' <=> Open(d)
    <3>1. ASSUME NEW v \in Workers PROVE ReadBy(v, d)' <=> ReadBy(v, d)
      BY <1>3, <1>4, <1>7, <1>8 DEF ReadBy
    <3> QED BY <1>3, <3>1 DEF Open
  <2>2. OpenHands(d)' = OpenHands(d) /\ OpenTries(d)' = OpenTries(d)
    BY <1>3, <2>1 DEF OpenHands, OpenTries
  <2>3. /\ Hands(d)[w] = 1 /\ Hands(d)'[w] = 1
        /\ Left(d)[w] = MaxAttempts - m.attempts /\ Left(d)'[w] = MaxAttempts - (m.attempts + 1)
    BY <1>7, <1>8 DEF Hands, Left
  <2>4. /\ tries[d] \in Nat /\ mishaps \in Nat /\ MaxAttempts \in Nat
        /\ OpenHands(d) \in Int /\ OpenTries(d) \in Int
    BY <1>1, AccountTyped DEF OutboxInv, RecordInv
  <2>5. tries'[d] = tries[d] \/ tries'[d] = tries[d] + 1
    BY <1>1, <1>6
  <2>6. /\ Hands(d)'[w] + OpenHands(d)' <= Hands(d)[w] + OpenHands(d)
        /\ tries'[d] + Left(d)'[w] + OpenTries(d)' - mishaps'
             <= tries[d] + Left(d)[w] + OpenTries(d) - mishaps
    BY <1>1, <1>3, <2>2, <2>3, <2>4, <2>5
  <2> QED BY <1>1, <1>3, <1>4, <1>5, <2>6, AccountMoved
<1>10. ASSUME NEW e \in Deliveries, e # d PROVE Account(e)'
  <2>1. /\ Holds(batch'[w], outcome'[w], e) <=> Holds(batch[w], outcome[w], e)
        /\ \A a : Reads(batch'[w], outcome'[w], e, a) <=> Reads(batch[w], outcome[w], e, a)
    BY <1>3, <1>4, <1>10 DEF Holds, Reads
  <2>2. TriesOf(batch'[w], outcome'[w], e) = TriesOf(batch[w], outcome[w], e)
    <3>1. CASE \E n \in batch[w] : n.delivery = e
      <4>1. PICK n \in batch[w] : n.delivery = e
        BY <3>1
      <4>2. n \in batch'[w] /\ Sound(batch'[w], outcome'[w])
        BY <1>4, <1>5, <1>10, <4>1 DEF SoundHands
      <4> QED BY <1>1, <4>1, <4>2, HoldsMessage
    <3>2. CASE ~\E n \in batch[w] : n.delivery = e
      BY <1>3, <1>4, <1>10, <3>2 DEF TriesOf
    <3> QED BY <3>1, <3>2
  <2>3. Hands(e)'[w] = Hands(e)[w] /\ Left(e)'[w] = Left(e)[w]
    BY <2>1, <2>2 DEF Hands, Left, Counts
  <2>4. mishaps <= mishaps' /\ tries'[e] = tries[e]
    BY <1>3, <1>6, <1>10, AccountTyped DEF OutboxInv, RecordInv
  <2> QED BY <1>3, <1>4, <1>5, <2>1, <2>3, <2>4, OthersKept
<1>11. ASSUME NEW e \in Deliveries PROVE RowInv(e)'
  <2>1. \A v \in Workers : InHand(v, e)' => InHand(v, e)
    BY <1>4 DEF InHand
  <2>2. overruns[e] <= overruns'[e]
    BY <1>3, AccountTyped DEF OutboxInv, RecordInv
  <2> QED BY <1>3, <2>1, <2>2, RowKept
<1> QED BY <1>5, <1>9, <1>10, <1>11 DEF OutboxInv

LEMMA OnlyHand ==
    ASSUME OutboxInv, NEW d \in Deliveries, overruns[d] = 0,
           NEW v \in Workers, NEW w \in Workers, InHand(v, d), InHand(w, d)
    PROVE  v = w
<1> SUFFICES ASSUME v # w PROVE FALSE
  OBVIOUS
<1>1. Hands(d) \in Shares
  BY SharesTyped DEF OutboxInv, RecordInv
<1>2. Hands(d)[v] = 1 /\ Hands(d)[w] = 1
  BY HandIsShare DEF Hands, Counts
<1>3. 2 <= Total(Hands(d))
  BY <1>1, <1>2, TotalOfTwo
<1>4. Total(Hands(d)) \in Nat /\ OpenHands(d) \in 0..1
  BY <1>1, PortionsFinite, AccountTyped DEF OutboxInv, RecordInv
<1> QED BY <1>3, <1>4 DEF OutboxInv, Account

\* What a worker records concerns the row of its outcome.
LEMMA RecordKeeps ==
    ASSUME OutboxInv, TypeOK', RecordInv', NEW w \in Workers, MarkSent(w) \/ MarkFailed(w)
    PROVE  OutboxInv'
<1> SUFFICES ASSUME NEW o, NEW d, o = outcome[w], d = o.delivery PROVE OutboxInv'
  OBVIOUS
<1>1. /\ d \in Deliveries /\ o # NoOutcome /\ o.attempts \in Nat /\ o.attempts < MaxAttempts
      /\ Sound(batch[w], o) /\ \A m \in batch[w] : m.delivery # d
  BY OutcomeTyped DEF OutboxInv, RecordInv, SoundHands, Sound, MarkSent, MarkFailed
<1>2. /\ batch' = batch /\ outcome' = [outcome EXCEPT ![w] = NoOutcome]
      /\ tries' = tries /\ mishaps' = mishaps /\ overruns' = overruns
  BY DEF MarkSent, MarkFailed, Drops, history
<1>3. /\ outcome'[w] = NoOutcome /\ batch'[w] = batch[w]
      /\ \A v \in Workers \ {w} : batch'[v] = batch[v] /\ outcome'[v] = outcome[v]
  BY <1>2 DEF OutboxInv, RecordInv, TypeOK
<1>4. \A e \in Deliveries \ {d} :
         status'[e] = status[e] /\ due'[e] = due[e] /\ attempts'[e] = attempts[e]
  <2>1. CASE MarkSent(w)
    BY <2>1 DEF MarkSent, OutboxInv, RecordInv, TypeOK
  <2>2. CASE MarkFailed(w) /\ status[d] = "deleted"
    BY <2>2 DEF MarkFailed
  <2>3. CASE MarkFailed(w) /\ status[d] # "deleted"
    BY <1>1, <2>3 DEF MarkFailed, OutboxInv, RecordInv, TypeOK
  <2> QED BY <2>1, <2>2, <2>3
<1>5. \/ status'[d] = "deleted"
      \/ status'[d] \in {"Sent", "DeadLettered"}
      \/ /\ status'[d] = "Retrying"
         /\ attempts'[d] = o.attempts + 1
         /\ o.attempts + 1 < MaxAttempts
  <2>1. CASE MarkSent(w)
    BY <1>1, <2>1 DEF MarkSent, OutboxInv, RecordInv, TypeOK
  <2>2. CASE MarkFailed(w) /\ status[d] = "deleted"
    BY <2>2 DEF MarkFailed
  <2>3. CASE MarkFailed(w) /\ status[d] # "deleted"
    <3>1. status'[d] = IF Exhausted(o) THEN "DeadLettered" ELSE "Retrying"
      BY <1>1, <2>3 DEF MarkFailed, OutboxInv, RecordInv, TypeOK
    <3>2. attempts'[d] = o.attempts + 1
      <4>1. attempts' = [attempts EXCEPT ![d] = o.attempts + 1]
        BY <2>3 DEF MarkFailed
      <4> QED BY <1>1, <4>1 DEF OutboxInv, RecordInv, TypeOK
    <3>3. ~Exhausted(o) => o.attempts + 1 < MaxAttempts
      BY <1>1, OutboxAssumption DEF Exhausted
    <3> QED BY <3>1, <3>2, <3>3
  <2> QED BY <2>1, <2>2, <2>3
<1>6. SoundHands'
  <2>1. Sound(batch'[w], outcome'[w])
    BY <1>1, <1>3 DEF Sound
  <2> QED BY <1>3, <2>1 DEF OutboxInv, SoundHands
<1>7. ~Holds(batch'[w], outcome'[w], d)
  BY <1>1, <1>3 DEF Holds
<1>8. Account(d)'
  <2>1. Hands(d)[w] = 1 /\ Left(d)[w] = MaxAttempts - (o.attempts + 1)
    BY <1>1, HoldsOutcome DEF Hands, Left
  <2>2. Hands(d)'[w] = 0 /\ Left(d)'[w] = 0
    BY <1>7, HoldsNothing DEF Hands, Left
  <2>3. /\ tries[d] \in Nat /\ mishaps \in Nat /\ MaxAttempts \in Nat /\ attempts[d] \in Nat
        /\ OpenHands(d) \in 0..1
    BY <1>1, AccountTyped DEF OutboxInv, RecordInv
  <2>4. OpenTries(d) \in Int /\ 0 <= OpenTries(d)
    <3>1. Open(d) => attempts[d] < MaxAttempts
      BY <1>1 DEF OutboxInv, RowInv, Open
    <3> QED BY <2>3, <3>1 DEF OpenTries
  <2>5. /\ OpenHands(d)' \in 0..1
        /\ OpenTries(d)' \in Int /\ OpenTries(d)' <= MaxAttempts - (o.attempts + 1)
    <3>1. Open(d)' => attempts'[d] = o.attempts + 1
      BY <1>5 DEF Open, Queued
    <3> QED BY <1>1, <2>3, <3>1 DEF OpenHands, OpenTries
  <2>6. /\ Hands(d)'[w] + OpenHands(d)' <= Hands(d)[w] + OpenHands(d)
        /\ tries'[d] + Left(d)'[w] + OpenTries(d)' - mishaps'
             <= tries[d] + Left(d)[w] + OpenTries(d) - mishaps
    BY <1>1, <1>2, <2>1, <2>2, <2>3, <2>4, <2>5
  <2> QED BY <1>1, <1>2, <1>3, <1>6, <2>6, AccountMoved
<1>9. ASSUME NEW e \in Deliveries, e # d PROVE Account(e)'
  <2>1. /\ Holds(batch'[w], outcome'[w], e) <=> Holds(batch[w], outcome[w], e)
        /\ \A a : Reads(batch'[w], outcome'[w], e, a) <=> Reads(batch[w], outcome[w], e, a)
        /\ TriesOf(batch'[w], outcome'[w], e) = TriesOf(batch[w], outcome[w], e)
    BY <1>3, <1>9 DEF Holds, Reads, TriesOf
  <2>2. Hands(e)'[w] = Hands(e)[w] /\ Left(e)'[w] = Left(e)[w]
    BY <2>1 DEF Hands, Left, Counts
  <2>3. mishaps <= mishaps'
    BY <1>2, AccountTyped DEF OutboxInv, RecordInv
  <2> QED BY <1>2, <1>3, <1>4, <1>6, <1>9, <2>1, <2>2, <2>3, OthersKept
<1>10. ASSUME NEW e \in Deliveries PROVE RowInv(e)'
  <2>1. \A v \in Workers : InHand(v, e)' => InHand(v, e)
    BY <1>3 DEF InHand
  <2>2. CASE e # d
    <3>1. overruns[e] <= overruns'[e]
      BY <1>2, AccountTyped DEF OutboxInv, RecordInv
    <3> QED BY <1>4, <2>1, <2>2, <3>1, RowKept
  <2>3. CASE e = d
    <3>1. status'[d] \in Queued => attempts'[d] < MaxAttempts
      BY <1>5 DEF Queued
    <3>2. status'[d] # "none"
      BY <1>5
    <3>3. ASSUME NEW v \in Workers, InHand(v, d)', overruns'[d] = 0 PROVE FALSE
      <4>1. InHand(v, d) /\ InHand(w, d)
        BY <1>1, <2>1, <2>3, <3>3 DEF InHand
      <4>2. v = w
        BY <1>1, <1>2, <3>3, <4>1, OnlyHand
      <4> QED BY <1>1, <1>3, <3>3, <4>2 DEF InHand
    <3> QED BY <2>3, <3>1, <3>2, <3>3 DEF RowInv
  <2> QED BY <2>2, <2>3
<1> QED BY <1>6, <1>8, <1>9, <1>10 DEF OutboxInv

\* A worker that drops what it has in hand has made one mishap, and one try
\* at most that it did not record.
LEMMA MishapKeeps ==
    ASSUME OutboxInv, TypeOK', RecordInv', NEW w \in Workers, RecordingFails(w) \/ Crash(w)
    PROVE  OutboxInv'
<1>1. /\ status' = status /\ due' = due /\ attempts' = attempts
      /\ tries' = tries /\ overruns' = overruns /\ mishaps' = mishaps + 1
      /\ outcome' = [outcome EXCEPT ![w] = NoOutcome]
      /\ batch' = batch \/ batch' = [batch EXCEPT ![w] = {}]
  BY DEF RecordingFails, Crash, Mishap, Drops, rows
<1>2. /\ outcome'[w] = NoOutcome
      /\ batch'[w] = batch[w] \/ batch'[w] = {}
      /\ \A v \in Workers \ {w} : batch'[v] = batch[v] /\ outcome'[v] = outcome[v]
  BY <1>1 DEF OutboxInv, RecordInv, TypeOK
<1>3. mishaps \in Nat /\ Sound(batch[w], outcome[w])
  BY DEF OutboxInv, RecordInv, TypeOK, SoundHands
<1>4. SoundHands'
  <2>1. Sound(batch'[w], outcome'[w])
    BY <1>2, <1>3 DEF Sound
  <2> QED BY <1>2, <2>1 DEF OutboxInv, SoundHands
<1>5. ASSUME NEW d \in Deliveries, Holds(batch'[w], outcome'[w], d) PROVE Account(d)'
  <2>1. PICK m \in batch[w] : m.delivery = d /\ m \in batch'[w]
    BY <1>2, <1>5 DEF Holds
  <2>2. Sound(batch'[w], outcome'[w])
    BY <1>4 DEF SoundHands
  <2>3. /\ Hands(d)'[w] = Hands(d)[w] /\ Left(d)'[w] = Left(d)[w]
        /\ \A a : Reads(batch'[w], outcome'[w], d, a) <=> Reads(batch[w], outcome[w], d, a)
    <3>1. /\ Counts(batch[w], outcome[w], d) = 1
          /\ TriesOf(batch[w], outcome[w], d) = MaxAttempts - m.attempts
          /\ \A a : Reads(batch[w], outcome[w], d, a) <=> a = m.attempts
      BY <1>3, <2>1, HoldsMessage
    <3>2. /\ Counts(batch'[w], outcome'[w], d) = 1
          /\ TriesOf(batch'[w], outcome'[w], d) = MaxAttempts - m.attempts
          /\ \A a : Reads(batch'[w], outcome'[w], d, a) <=> a = m.attempts
      BY <2>1, <2>2, HoldsMessage
    <3> QED BY <3>1, <3>2 DEF Hands, Left
  <2> QED BY <1>1, <1>2, <1>3, <1>4, <2>3, OthersKept
<1>6. ASSUME NEW d \in Deliveries,
             ~Holds(batch'[w], outcome'[w], d), ~Holds(batch[w], outcome[w], d)
      PROVE  Account(d)'
  <2>1. /\ Hands(d)'[w] = Hands(d)[w] /\ Left(d)'[w] = Left(d)[w]
        /\ \A a : Reads(batch'[w], outcome'[w], d, a) <=> Reads(batch[w], outcome[w], d, a)
    BY <1>6, HoldsNothing DEF Hands, Left
  <2> QED BY <1>1, <1>2, <1>3, <1>4, <2>1, OthersKept
<1>7. ASSUME NEW d \in Deliveries,
             ~Holds(batch'[w], outcome'[w], d), Holds(batch[w], outcome[w], d)
      PROVE  Account(d)'
  <2>1. PICK r \in Nat :
           /\ r < MaxAttempts
           /\ Hands(d)[w] = 1
           /\ Left(d)[w] \in {MaxAttempts - r, MaxAttempts - (r + 1)}
           /\ \A a : Reads(batch[w], outcome[w], d, a) <=> a = r
    <3>1. CASE \E m \in batch[w] : m.delivery = d
      <4>1. PICK m \in batch[w] : m.delivery = d
        BY <3>1
      <4>2. m.attempts \in Nat /\ m.attempts < MaxAttempts
        BY <1>3, MessageTyped DEF OutboxInv, RecordInv, Sound
      <4> QED BY <1>3, <4>1, <4>2, HoldsMessage DEF Hands, Left
    <3>2. CASE outcome[w] # NoOutcome /\ outcome[w].delivery = d
      <4>1. outcome[w].attempts \in Nat /\ outcome[w].attempts < MaxAttempts
        BY <1>3, <3>2 DEF OutboxInv, RecordInv, TypeOK, Outcome, Sound
      <4> QED BY <1>3, <3>2, <4>1, HoldsOutcome DEF Hands, Left
    <3> QED BY <1>7, <3>1, <3>2 DEF Holds
  <2>2. Hands(d)'[w] = 0 /\ Left(d)'[w] = 0 /\ ~ReadBy(w, d)'
    BY <1>7, HoldsNothing DEF Hands, Left, ReadBy
  <2>3. /\ tries[d] \in Nat /\ MaxAttempts \in Nat /\ attempts[d] \in Nat
        /\ OpenHands(d) \in 0..1
    BY AccountTyped DEF OutboxInv, RecordInv
  <2>4. ASSUME NEW v \in Workers \ {w} PROVE ReadBy(v, d)' <=> ReadBy(v, d)
    BY <1>1, <1>2 DEF ReadBy
  <2>5. Open(d) => Open(d)'
    BY <1>1, <2>2, <2>4 DEF Open
  <2>6. Open(d)' => Open(d) \/ attempts[d] = r
    BY <1>1, <2>1, <2>4 DEF Open, ReadBy
  <2>7. /\ OpenHands(d)' <= 1 /\ OpenHands(d)' \in Int
        /\ OpenHands(d) \in Int /\ 0 <= OpenHands(d)
        /\ OpenTries(d) \in Int /\ OpenTries(d)' \in Int
        /\ OpenTries(d)' <= OpenTries(d) + (MaxAttempts - r)
    <3>1. attempts'[d] = attempts[d]
      BY <1>1
    <3> QED BY <2>1, <2>3, <2>5, <2>6, <3>1 DEF OpenHands, OpenTries
  <2>8. /\ Hands(d)'[w] + OpenHands(d)' <= Hands(d)[w] + OpenHands(d)
        /\ tries'[d] + Left(d)'[w] + OpenTries(d)' - mishaps'
             <= tries[d] + Left(d)[w] + OpenTries(d) - mishaps
    BY <1>1, <1>3, <2>1, <2>2, <2>3, <2>7
  <2> QED BY <1>1, <1>2, <1>4, <2>8, AccountMoved
<1>8. ASSUME NEW d \in Deliveries PROVE RowInv(d)'
  <2>1. \A v \in Workers : InHand(v, d)' => InHand(v, d)
    BY <1>2 DEF InHand
  <2>2. overruns[d] <= overruns'[d]
    BY <1>1, AccountTyped DEF OutboxInv, RecordInv
  <2> QED BY <1>1, <2>1, <2>2, RowKept
<1> QED BY <1>4, <1>5, <1>6, <1>7, <1>8 DEF OutboxInv

LEMMA Inductive == Spec => []OutboxInv
<1>1. Init => OutboxInv
  <2> SUFFICES ASSUME Init PROVE OutboxInv
    OBVIOUS
  <2>1. TypeOK /\ RecordInv
    <3>1. TypeOK
      BY OutboxAssumption DEF Init, TypeOK, DeliveryStatus
    <3>2. RecordsAreTrue /\ OkArrived
      BY DEF Init, RecordsAreTrue, OkArrived, NoOutcome
    <3> QED BY <3>1, <3>2 DEF RecordInv
  <2>2. \A w \in Workers : batch[w] = {} /\ outcome[w] = NoOutcome
    BY DEF Init
  <2>3. SoundHands
    BY <2>2 DEF SoundHands, Sound
  <2>4. ASSUME NEW d \in Deliveries PROVE RowInv(d) /\ Account(d)
    <3>1. /\ status[d] = "none" /\ attempts[d] = 0 /\ tries[d] = 0 /\ overruns[d] = 0
          /\ mishaps = 0
      BY <2>4 DEF Init
    <3>2. RowInv(d)
      BY <2>2, <3>1, OutboxAssumption DEF RowInv, InHand
    <3>3. \A w \in Workers : Hands(d)[w] = 0 /\ Left(d)[w] = 0
      BY <2>2, HoldsNothing DEF Hands, Left, Holds
    <3>4. Total(Hands(d)) = 0 /\ Total(Left(d)) = 0
      BY <2>1, <2>3, <3>3, SharesTyped, TotalOfNone
    <3>5. OpenHands(d) = 1 /\ OpenTries(d) = MaxAttempts
      BY <3>1, OutboxAssumption DEF Open, OpenHands, OpenTries
    <3> QED BY <3>1, <3>2, <3>4, <3>5, OutboxAssumption DEF Account
  <2> QED BY <2>1, <2>3, <2>4 DEF OutboxInv
<1>2. OutboxInv /\ TypeOK' /\ [Next]_outboxVars => OutboxInv'
  <2> SUFFICES ASSUME OutboxInv, TypeOK', [Next]_outboxVars PROVE OutboxInv'
    OBVIOUS
  <2>1. RecordInv'
    BY RecordStep DEF OutboxInv
  <2>2. CASE UNCHANGED outboxVars
    BY <2>1, <2>2 DEF outboxVars, rows, workers, history, OutboxInv, SoundHands, RowInv, InHand,
         Account, Hands, Left, OpenHands, OpenTries, Open, ReadBy
  <2> QED BY <2>1, <2>2, OutsideKeeps, ClaimRunsOutKeeps, ClaimKeeps, TryKeeps, SendAttempts,
             RecordKeeps, MishapKeeps
          DEF Next, OutboxNext, WorkerStep, Tries, Records
<1> QED BY <1>1, <1>2, TypeCorrect, PTL DEF Spec

LEMMA HandsAreHolders ==
    ASSUME OutboxInv, NEW d
    PROVE  Cardinality({w \in Workers : InHand(w, d)}) <= Total(Hands(d))
<1> DEFINE H == {w \in Workers : InHand(w, d)}
           f == [w \in H |-> <<w, 1>>]
<1>1. Hands(d) \in Shares /\ IsFiniteSet(Portions(Hands(d)))
  BY SharesTyped, PortionsFinite DEF OutboxInv, RecordInv
<1>2. \A w \in H : Hands(d)[w] = 1
  BY HandIsShare DEF Hands, Counts
<1>3. f \in Injection(H, Portions(Hands(d)))
  <2>1. \A w \in H : <<w, 1>> \in Portions(Hands(d))
    BY <1>2, OutboxAssumption DEF Portions
  <2> QED BY <2>1 DEF Injection, IsInjective
<1> QED BY <1>1, <1>3, FS_Injection DEF Total

(* OneSender: the claim hands each delivery to one worker at a time, for   *)
(* any number of replicas, batches and crashes, and a batch that outlasts  *)
(* its claim lets in one more worker each time it does.                    *)
THEOREM OneSenderAtATime == Spec => []OneSender
<1>1. OutboxInv => OneSender
  <2> SUFFICES ASSUME OutboxInv, NEW d \in Deliveries
               PROVE  Cardinality({w \in Workers : InHand(w, d)}) <= 1 + overruns[d]
    BY DEF OneSender
  <2>1. Total(Hands(d)) \in Nat /\ OpenHands(d) \in 0..1 /\ overruns[d] \in Nat
    BY SharesTyped, PortionsFinite, AccountTyped DEF OutboxInv, RecordInv
  <2>2. Total(Hands(d)) + OpenHands(d) <= 1 + overruns[d]
    BY DEF OutboxInv, Account
  <2>3. Cardinality({w \in Workers : InHand(w, d)}) \in Nat
    BY OutboxAssumption, FS_Subset, FS_CardinalityType
  <2> QED BY <2>1, <2>2, <2>3, HandsAreHolders
<1> QED BY <1>1, Inductive, PTL

(* TriesBounded: max_attempts bounds what a recipient is sent, but for one *)
(* try per mishap and max_attempts per claim that a batch outlasts.        *)
THEOREM TriesAreBounded == Spec => []TriesBounded
<1>1. OutboxInv => TriesBounded
  <2> SUFFICES ASSUME OutboxInv, NEW d \in Deliveries
               PROVE  tries[d] <= MaxAttempts + mishaps + overruns[d] * (MaxAttempts - 1)
    BY DEF TriesBounded
  <2> DEFINE k == overruns[d] * (MaxAttempts - 1)
  <2>1. /\ Total(Left(d)) \in Nat /\ tries[d] \in Nat /\ mishaps \in Nat /\ MaxAttempts \in Nat
        /\ attempts[d] \in Nat /\ k \in Nat
    BY SharesTyped, PortionsFinite, AccountTyped DEF OutboxInv, RecordInv
  <2>2. OpenTries(d) \in Int /\ 0 <= OpenTries(d)
    <3>1. Open(d) => attempts[d] < MaxAttempts
      BY DEF OutboxInv, RowInv, Open
    <3> QED BY <2>1, <3>1 DEF OpenTries
  <2>3. tries[d] + Total(Left(d)) + OpenTries(d) <= MaxAttempts + mishaps + k
    BY DEF OutboxInv, Account
  <2>4. tries[d] <= MaxAttempts + mishaps + k
    <3> HIDE DEF k
    <3> QED BY <2>1, <2>2, <2>3
  <2> QED BY <2>4
<1> QED BY <1>1, Inductive, PTL

-----------------------------------------------------------------------------
(* The outbox implements Delivery                                          *)

LEMMA PromiseOfStatus ==
    /\ PromiseOf("none") = "unmade"
    /\ \A s \in Queued : PromiseOf(s) = "open"
    /\ PromiseOf("Sent") = "sent"
    /\ PromiseOf("DeadLettered") = "abandoned"
    /\ PromiseOf("deleted") = "withdrawn"
BY DEF PromiseOf, Queued

\* A step that moves one row to another status moves its promise.
LEMMA OneMoves ==
    ASSUME NEW d \in Deliveries,
           \A e \in Deliveries \ {d} : status'[e] = status[e]
    PROVE  Promised' = [Promised EXCEPT ![d] = PromiseOf(status'[d])]
BY DEF Promised

LEMMA SamePromises ==
    ASSUME \A e \in Deliveries : \/ status'[e] \in Queued /\ status[e] \in Queued
                                \/ status'[e] = status[e]
    PROVE  Promised' = Promised
<1>1. \A e \in Deliveries : PromiseOf(status'[e]) = PromiseOf(status[e])
  BY PromiseOfStatus
<1> QED BY <1>1 DEF Promised

LEMMA StepImplements ==
    ASSUME OutboxInv, TypeOK', Next
    PROVE  D!Next \/ UNCHANGED D!kept
<1> USE DEF OutboxInv, RecordInv
<1> SUFFICES D!Next \/ UNCHANGED <<Promised, arrived, Overrun>>
  BY DEF D!kept
<1>1. ASSUME NEW n \in Notifications, CreateNotification(n)
      PROVE  UNCHANGED <<Promised, arrived, Overrun>>
  BY <1>1, SamePromises DEF CreateNotification, history, Overrun
<1>2. ASSUME NEW d \in Deliveries, BackoffElapses(d) \/ RetryDeadLetter(d)
      PROVE  UNCHANGED <<Promised, arrived, Overrun>>
  BY <1>2, SamePromises DEF BackoffElapses, RetryDeadLetter, history, Overrun
<1>9. ASSUME NEW d \in Deliveries, ClaimRunsOut(d)
      PROVE  D!Next \/ UNCHANGED <<Promised, arrived, Overrun>>
  <2>1. Promised' = Promised /\ arrived' = arrived /\ status[d] \in Queued
    BY <1>9, SamePromises DEF ClaimRunsOut
  <2>2. CASE overruns' = overruns
    BY <2>1, <2>2 DEF Overrun
  <2>3. CASE overruns' = [overruns EXCEPT ![d] = @ + 1]
    <3>1. Overrun' = Overrun \cup {d}
      BY <2>3 DEF Overrun, TypeOK
    <3>2. Promised[d] = "open"
      BY <2>1, PromiseOfStatus DEF Promised
    <3> QED BY <2>1, <3>1, <3>2 DEF D!Next, D!Lapses
  <2> QED BY <1>9, <2>2, <2>3 DEF ClaimRunsOut
<1>3. ASSUME NEW w \in Workers, RecordingFails(w) \/ Crash(w)
      PROVE  UNCHANGED <<Promised, arrived, Overrun>>
  BY <1>3, SamePromises DEF RecordingFails, Crash, Mishap, rows, Overrun
<1>4. ASSUME NEW w \in Workers, ClaimDue(w) PROVE UNCHANGED <<Promised, arrived, Overrun>>
  <2>1. \A e \in Deliveries : \/ status'[e] \in Queued /\ status[e] \in Queued
                              \/ status'[e] = status[e]
    BY <1>4 DEF ClaimDue, Claimable, Queued
  <2> QED BY <1>4, <2>1, SamePromises DEF ClaimDue, history, Overrun
<1>5. ASSUME NEW d \in Deliveries, NEW when, EnqueueAt(d, when) PROVE D!Next
  <2>1. /\ status[d] = "none" /\ status'[d] = "Pending"
        /\ arrived' = arrived /\ Overrun' = Overrun
        /\ \A e \in Deliveries \ {d} : status'[e] = status[e]
    BY <1>5 DEF EnqueueAt, history, TypeOK, Overrun
  <2>2. Promised[d] = "unmade"
    BY <2>1, PromiseOfStatus DEF Promised
  <2>3. Promised' = [Promised EXCEPT ![d] = "open"]
    BY <2>1, OneMoves, PromiseOfStatus DEF Queued
  <2> QED BY <2>1, <2>2, <2>3 DEF D!Next, D!Moves
<1>6. ASSUME NEW n \in Notifications, Delete(n) PROVE D!Next
  <2> DEFINE S == {d \in Deliveries : d[1] = n}
  <2>1. /\ arrived' = arrived /\ Overrun' = Overrun
        /\ \A d \in Deliveries : status'[d] = IF d \in S THEN "deleted" ELSE status[d]
    BY <1>6 DEF Delete, history, Overrun
  <2>2. Promised' = [d \in Deliveries |-> IF d \in S THEN "withdrawn" ELSE Promised[d]]
    BY <2>1, PromiseOfStatus DEF Promised
  <2> QED BY <2>1, <2>2 DEF D!Next, D!Withdraw
<1>7. ASSUME NEW w \in Workers, NEW m \in batch[w], Attempts(w, m)
      PROVE  D!Next \/ UNCHANGED <<Promised, arrived, Overrun>>
  <2> DEFINE d == m.delivery
  <2>1. d \in Deliveries /\ InHand(w, d)
    BY MessageTyped DEF InHand
  <2>2. Promised[d] \in {"open", "withdrawn"} \/ d \in Overrun
    <3>1. overruns[d] \in Nat
      BY <2>1 DEF TypeOK
    <3>2. CASE overruns[d] = 0
      <4>1. status[d] \in {"Retrying", "deleted"}
        BY <2>1, <3>2 DEF RowInv
      <4> QED BY <2>1, <4>1, PromiseOfStatus DEF Promised, Queued
    <3>3. CASE overruns[d] > 0
      BY <2>1, <3>3 DEF Overrun
    <3> QED BY <3>1, <3>2, <3>3
  <2>3. Promised' = Promised
    BY <1>7, SamePromises DEF Attempts, Tried, rows
  <2>4. /\ arrived' = arrived \/ arrived' = [arrived EXCEPT ![d] = TRUE]
        /\ Overrun' = Overrun
    BY <1>7 DEF Attempts, Tried, Overrun
  <2> QED BY <2>1, <2>2, <2>3, <2>4 DEF D!Next, D!Arrives
<1>8. ASSUME NEW w \in Workers, MarkSent(w) \/ MarkFailed(w)
      PROVE  D!Next \/ UNCHANGED <<Promised, arrived, Overrun>>
  <2> SUFFICES ASSUME NEW d, d = outcome[w].delivery
               PROVE  D!Next \/ UNCHANGED <<Promised, arrived, Overrun>>
    OBVIOUS
  <2>1. /\ d \in Deliveries /\ InHand(w, d)
        /\ MarkSent(w) => arrived[d]
        /\ arrived' = arrived /\ Overrun' = Overrun
    BY <1>8, OutcomeTyped DEF OkArrived, InHand, MarkSent, MarkFailed, history, Overrun
  <2>2. \A e \in Deliveries \ {d} : status'[e] = status[e]
    BY <1>8, <2>1 DEF MarkSent, MarkFailed, TypeOK
  <2>3. CASE status[d] = "deleted"
    <3>1. status'[d] = status[d]
      BY <1>8, <2>1, <2>3 DEF MarkSent, MarkFailed, TypeOK
    <3> QED BY <2>1, <2>2, <3>1, SamePromises
  <2>4. CASE status[d] # "deleted"
    <3>1. PICK to \in {"open", "sent", "abandoned"} :
             /\ Promised' = [Promised EXCEPT ![d] = to]
             /\ to = "sent" => arrived[d]
      <4>1. CASE MarkSent(w)
        <5>1. status'[d] = "Sent"
          BY <2>1, <2>4, <4>1 DEF MarkSent, TypeOK
        <5>2. Promised' = [Promised EXCEPT ![d] = "sent"]
          BY <2>1, <2>2, <5>1, OneMoves, PromiseOfStatus
        <5> QED BY <2>1, <4>1, <5>2
      <4>2. CASE MarkFailed(w)
        <5>1. status'[d] \in {"DeadLettered", "Retrying"}
          BY <2>1, <2>4, <4>2 DEF MarkFailed, TypeOK
        <5>2. PromiseOf(status'[d]) \in {"open", "abandoned"}
          BY <5>1, PromiseOfStatus DEF Queued
        <5>3. Promised' = [Promised EXCEPT ![d] = PromiseOf(status'[d])]
          BY <2>1, <2>2, OneMoves
        <5> QED BY <5>2, <5>3
      <4> QED BY <1>8, <4>1, <4>2
    <3>2. overruns[d] \in Nat /\ status[d] # "none" /\ status[d] \in DeliveryStatus
      BY <2>1 DEF RowInv, TypeOK
    <3>3. CASE overruns[d] = 0
      <4>1. status[d] = "Retrying"
        BY <2>1, <2>4, <3>3 DEF RowInv
      <4>2. Promised[d] = "open"
        BY <2>1, <4>1, PromiseOfStatus DEF Promised, Queued
      <4>3. CASE to = "open"
        <5>1. Promised' = Promised
          BY <3>1, <4>2, <4>3 DEF Promised
        <5> QED BY <2>1, <5>1
      <4>4. CASE to \in {"sent", "abandoned"}
        BY <2>1, <3>1, <4>2, <4>4 DEF D!Next, D!Moves
      <4> QED BY <4>3, <4>4
    <3>4. CASE overruns[d] > 0
      <4>1. d \in Overrun
        BY <2>1, <3>4 DEF Overrun
      <4>2. Promised[d] \in {"open", "sent", "abandoned"}
        BY <2>1, <2>4, <3>2, PromiseOfStatus DEF Promised, Queued, DeliveryStatus
      <4> QED BY <2>1, <3>1, <4>1, <4>2 DEF D!Next, D!Revised, D!Moves
    <3> QED BY <3>2, <3>3, <3>4
  <2> QED BY <2>3, <2>4
<1> QED BY <1>1, <1>2, <1>3, <1>4, <1>5, <1>6, <1>7, <1>8, <1>9, SendAttempts
        DEF Next, OutboxNext, WorkerStep, Tries, Records

(* ImplementsDelivery: through any crashes, lost answers and failed        *)
(* recordings, each delivery is recorded as sent only if it arrived; it    *)
(* ends once, and is not sent after it ended, unless a batch outlasted its *)
(* claim on it.                                                            *)
THEOREM KeepsItsPromises == Spec => ImplementsDelivery
<1>1. Init => D!Init
  BY PromiseOfStatus DEF Init, D!Init, Promised, Overrun
<1>2. OutboxInv /\ TypeOK' /\ [Next]_outboxVars => [D!Next]_(D!kept)
  <2> SUFFICES ASSUME OutboxInv, TypeOK', [Next]_outboxVars
               PROVE  D!Next \/ UNCHANGED D!kept
    OBVIOUS
  <2>1. CASE UNCHANGED outboxVars
    BY <2>1, SamePromises DEF outboxVars, rows, history, D!kept, Overrun
  <2> QED BY <2>1, StepImplements
<1> QED BY <1>1, <1>2, Inductive, TypeCorrect, PTL DEF Spec, ImplementsDelivery, D!Spec
=============================================================================
