-------------------------- MODULE JobAlertsProofs ---------------------------
(***************************************************************************)
(* What the sweeps keep true for any number of alerts, jobs, sweepers,     *)
(* channels and lapses: whoever runs when, an alert tells of a job once,   *)
(* and the outbox under it behaves as Outbox says.                         *)
(***************************************************************************)
EXTENDS JobAlerts, OutboxProofs, FiniteSetTheorems

-----------------------------------------------------------------------------
(* The types of the sweep's own state                                      *)

SweepTypes ==
    /\ published \in Seq(Jobs)
    /\ fits \subseteq Alerts \X Jobs
    /\ alert \in [Alerts -> {"active", "paused", "deleted"}]
    /\ fresh \in [Alerts -> SUBSET Jobs]
    /\ matches \subseteq Alerts \X Jobs
    /\ about \in [Notifications -> (Alerts \X Jobs) \cup {None}]
    /\ todo \in [Sweepers -> SUBSET Due]
    /\ current \in [Sweepers -> Alerts \cup {None}]
    /\ hits \in [Sweepers -> SUBSET Jobs]
    /\ writing \in [Sweepers -> Writing \cup {None}]
    /\ lapses \in Nat

\* A sweeper that has hits or writes is matching an alert.
WritersMatch ==
    \A s \in Sweepers : writing[s] # None \/ hits[s] # {} => current[s] \in Alerts

LEMMA PublishedTyped == published \in Seq(Jobs) => Published \subseteq Jobs
BY DEF Published

LEMMA WritingTyped ==
    ASSUME SweepTypes, NEW s \in Sweepers, writing[s] # None
    PROVE  /\ writing[s] \in Writing
           /\ writing[s].job \in Jobs
           /\ writing[s].notice \in Notifications \cup {None}
           /\ writing[s].left \in Seq(Channels)
<1>1. writing[s] \in Writing
  BY DEF SweepTypes
<1> QED BY <1>1 DEF Writing

LEMMA WritingMoves ==
    ASSUME SweepTypes, NEW s \in Sweepers, writing[s] # None,
           NEW n \in Notifications, NEW l \in Seq(Channels)
    PROVE  /\ [writing EXCEPT ![s].notice = n] \in [Sweepers -> Writing \cup {None}]
           /\ [writing EXCEPT ![s].left = l] \in [Sweepers -> Writing \cup {None}]
<1>1. writing[s] \in Writing
  BY WritingTyped
<1>2. [writing[s] EXCEPT !.notice = n] \in Writing /\ [writing[s] EXCEPT !.left = l] \in Writing
  BY <1>1 DEF Writing
<1>3. writing \in [Sweepers -> Writing \cup {None}]
  BY DEF SweepTypes
<1> QED BY <1>2, <1>3

LEMMA SweepTypesStep ==
    ASSUME SweepTypes, WritersMatch, [AlertsNext]_vars PROVE SweepTypes' /\ WritersMatch'
<1> USE DEF SweepTypes, WritersMatch, board, told, sweepers
<1>1. ASSUME NEW j \in Jobs, PublishJob(j) PROVE SweepTypes' /\ WritersMatch'
  BY <1>1 DEF PublishJob
<1>2. ASSUME NEW a \in Alerts, NEW j \in Jobs, FitChanges(a, j)
      PROVE  SweepTypes' /\ WritersMatch'
  BY <1>2 DEF FitChanges
<1>3. ASSUME NEW a \in Alerts, ToggleAlert(a) \/ DeleteAlert(a)
      PROVE  SweepTypes' /\ WritersMatch'
  BY <1>3 DEF ToggleAlert, DeleteAlert
<1>4. ASSUME NEW s \in Sweepers, dueAlerts(s) PROVE SweepTypes' /\ WritersMatch'
  <2>1. {[alert |-> a, passed |-> Published \ fresh[a]] :
           a \in {b \in Alerts : alert[b] = "active"}} \in SUBSET Due
    BY PublishedTyped DEF Due
  <2> QED BY <1>4, <2>1 DEF dueAlerts
<1>5. ASSUME NEW s \in Sweepers, matchOne(s) PROVE SweepTypes' /\ WritersMatch'
  <2>1. PICK t \in todo[s] :
          /\ todo' = [todo EXCEPT ![s] = @ \ {t}]
          /\ current' = [current EXCEPT ![s] = t.alert]
          /\ hits' = [hits EXCEPT ![s] = Matches(t)]
    BY <1>5 DEF matchOne
  <2>2. t.alert \in Alerts
    BY DEF Due
  <2>3. Matches(t) \subseteq Jobs
    BY PublishedTyped DEF Matches, Newest
  <2> QED BY <1>5, <2>1, <2>2, <2>3 DEF matchOne
<1>6. ASSUME NEW s \in Sweepers, NEW j \in Jobs, claimMatch(s, j)
      PROVE  SweepTypes' /\ WritersMatch'
  <2>1. CASE ~Claims(current[s], j)
    BY <1>6, <2>1 DEF claimMatch
  <2>2. CASE Claims(current[s], j)
    <3>1. current[s] \in Alerts
      BY <1>6 DEF claimMatch
    <3>2. [job |-> j, notice |-> None, left |-> AlertChannels] \in Writing
      BY JobAlertsAssumption DEF Writing
    <3> QED BY <1>6, <2>2, <3>1, <3>2 DEF claimMatch
  <2> QED BY <2>1, <2>2
<1>7. ASSUME NEW s \in Sweepers, NEW n \in Notifications, insertNotification(s, n)
      PROVE  SweepTypes' /\ WritersMatch'
  BY <1>7, WritingTyped, WritingMoves DEF insertNotification
<1>8. ASSUME NEW s \in Sweepers, enqueue(s) PROVE SweepTypes' /\ WritersMatch'
  <2>1. writing[s] # None /\ writing[s].left # <<>> /\ Tail(writing[s].left) \in Seq(Channels)
    BY <1>8, WritingTyped DEF enqueue, Queueing
  <2>2. PICK n \in Notifications : n = writing[s].notice
    BY <1>8, WritingTyped DEF enqueue, Queueing
  <2>3. writing' \in [Sweepers -> Writing \cup {None}]
    BY <1>8, <2>1, <2>2, WritingMoves DEF enqueue
  <2>4. \A t \in Sweepers : writing'[t] # None => writing[t] # None
    BY <1>8, <2>1 DEF enqueue
  <2> QED BY <1>8, <2>3, <2>4 DEF enqueue
<1>9. ASSUME NEW s \in Sweepers, notified(s) \/ advanceWatermark(s)
      PROVE  SweepTypes' /\ WritersMatch'
  BY <1>9 DEF notified, advanceWatermark
<1>10. ASSUME NEW s \in Sweepers, notifyFails(s) \/ matchFails(s) \/ sweeperStops(s)
       PROVE  SweepTypes' /\ WritersMatch'
  <2>1. lapses' \in Nat /\ UNCHANGED <<board, told>>
    BY <1>10 DEF notifyFails, matchFails, sweeperStops, Lapse
  <2>2. CASE notifyFails(s)
    BY <2>1, <2>2 DEF notifyFails
  <2>3. CASE matchFails(s)
    BY <2>1, <2>3 DEF matchFails
  <2>4. CASE sweeperStops(s)
    BY <2>1, <2>4 DEF sweeperStops
  <2> QED BY <1>10, <2>2, <2>3, <2>4
<1>11. CASE UNCHANGED <<board, told, sweepers, lapses>>
  BY <1>11
<1> QED BY <1>1, <1>2, <1>3, <1>4, <1>5, <1>6, <1>7, <1>8, <1>9, <1>10, <1>11
        DEF AlertsNext, Sweeps, vars

-----------------------------------------------------------------------------
(* The outbox underneath                                                   *)

LEMMA StepOfTheOutbox ==
    ASSUME SweepTypes, [AlertsNext]_vars PROVE [Next]_outboxVars
<1>1. ASSUME NEW s \in Sweepers, NEW n \in Notifications, insertNotification(s, n)
      PROVE  Next
  BY <1>1 DEF insertNotification, Next
<1>2. ASSUME NEW s \in Sweepers, enqueue(s) PROVE Next
  <2>1. writing[s] # None /\ writing[s].notice # None /\ writing[s].left # <<>>
    BY <1>2 DEF enqueue, Queueing
  <2>2. writing[s].notice \in Notifications /\ Head(writing[s].left) \in Channels
    BY <2>1, WritingTyped
  <2>3. <<writing[s].notice, Head(writing[s].left)>> \in Deliveries
    BY <2>2 DEF Deliveries
  <2>4. EnqueueAt(<<writing[s].notice, Head(writing[s].left)>>, "now")
    BY <1>2 DEF enqueue
  <2> QED BY <2>3, <2>4 DEF Next
<1>3. ASSUME NEW s \in Sweepers,
             \/ dueAlerts(s) \/ matchOne(s) \/ notified(s) \/ advanceWatermark(s)
             \/ notifyFails(s) \/ matchFails(s) \/ sweeperStops(s)
             \/ \E j \in Jobs : claimMatch(s, j)
      PROVE  UNCHANGED outboxVars
  BY <1>3 DEF dueAlerts, matchOne, notified, advanceWatermark, notifyFails, matchFails,
              sweeperStops, claimMatch
<1>4. ASSUME NEW a \in Alerts, ToggleAlert(a) \/ DeleteAlert(a) PROVE UNCHANGED outboxVars
  BY <1>4 DEF ToggleAlert, DeleteAlert
<1>5. ASSUME NEW j \in Jobs, PublishJob(j) \/ \E a \in Alerts : FitChanges(a, j)
      PROVE  UNCHANGED outboxVars
  BY <1>5 DEF PublishJob, FitChanges
<1>6. CASE OutboxNext
  BY <1>6 DEF Next
<1>7. CASE UNCHANGED vars
  BY <1>7 DEF vars
<1> QED BY <1>1, <1>2, <1>3, <1>4, <1>5, <1>6, <1>7 DEF AlertsNext, Sweeps

LEMMA AlertsTypesInductive ==
    AlertsSpec => [](TypeOK /\ SweepTypes /\ WritersMatch)
<1> DEFINE Types == TypeOK /\ SweepTypes /\ WritersMatch
<1>1. AlertsInit => Types
  <2> SUFFICES ASSUME AlertsInit PROVE Types
    OBVIOUS
  <2>1. TypeOK
    BY OutboxAssumption DEF AlertsInit, Init, TypeOK, DeliveryStatus
  <2>2. SweepTypes /\ WritersMatch
    BY DEF AlertsInit, SweepTypes, WritersMatch
  <2> QED BY <2>1, <2>2
<1>2. Types /\ [AlertsNext]_vars => Types'
  BY TypeStep, StepOfTheOutbox, SweepTypesStep
<1> QED BY <1>1, <1>2, PTL DEF AlertsSpec

(* The types, for any constants.                                           *)
THEOREM AlertsTypeCorrect == AlertsSpec => []AlertsTypeOK
<1>1. TypeOK /\ SweepTypes => AlertsTypeOK
  BY DEF SweepTypes, AlertsTypeOK
<1> QED BY <1>1, AlertsTypesInductive, PTL

(* The sweeps are one of the producers the outbox allows for: what is      *)
(* proved of Outbox holds under them.                                      *)
THEOREM SweepsRunTheOutbox == AlertsSpec => Spec
<1>1. AlertsInit => Init
  BY DEF AlertsInit
<1>2. SweepTypes /\ [AlertsNext]_vars => [Next]_outboxVars
  BY StepOfTheOutbox
<1> QED BY <1>1, <1>2, AlertsTypesInductive, PTL DEF AlertsSpec, Spec

-----------------------------------------------------------------------------
(* Nobody is told twice                                                    *)

Pair(s) == <<current[s], writing[s].job>>
Announcing(s) == writing[s] # None /\ writing[s].notice = None

\* Once matched, a pair is never claimed again.
Spent(p) == p \in matches \/ alert[p[1]] = "deleted"

\* NotifiedOnce is inductive with what a claim reserves: until its notification
\* is there, a pair is spent, untold, and one sweeper's.
ClaimsReserve ==
    /\ \A n \in Notifications : about[n] # None => Spent(about[n])
    /\ \A s \in Sweepers : Announcing(s) =>
          /\ Spent(Pair(s))
          /\ \A n \in Notifications : about[n] # Pair(s)
    /\ \A s, t \in Sweepers : Announcing(s) /\ Announcing(t) /\ Pair(s) = Pair(t) => s = t

OnceInv == SweepTypes /\ WritersMatch /\ NotifiedOnce /\ ClaimsReserve

\* A step that ends or moves on what sweepers write, and nothing else of it.
Quiet ==
    /\ UNCHANGED <<alert, matches, about>>
    /\ \A t \in Sweepers : Announcing(t)' => Announcing(t) /\ Pair(t)' = Pair(t)

LEMMA QuietKeeps ==
    ASSUME OnceInv, SweepTypes', WritersMatch', Quiet PROVE OnceInv'
BY DEF OnceInv, NotifiedOnce, ClaimsReserve, Spent, Quiet

LEMMA ClaimMatchKeeps ==
    ASSUME OnceInv, SweepTypes', WritersMatch', NEW s \in Sweepers, NEW j \in Jobs,
           claimMatch(s, j), Claims(current[s], j)
    PROVE  OnceInv'
<1>1. /\ current[s] \in Alerts /\ alert[current[s]] # "deleted"
      /\ <<current[s], j>> \notin matches
  BY DEF claimMatch, OnceInv, WritersMatch, Claims
<1>2. /\ matches' = matches \cup {<<current[s], j>>}
      /\ writing' = [writing EXCEPT ![s] = [job |-> j, notice |-> None, left |-> AlertChannels]]
      /\ UNCHANGED <<alert, about, current>>
  BY DEF claimMatch, board
<1>3. \A p : Spent(p) => Spent(p)'
  BY <1>2 DEF Spent
<1>4. ~Spent(<<current[s], j>>) /\ Spent(<<current[s], j>>)'
  BY <1>1, <1>2 DEF Spent
<1>5. Pair(s)' = <<current[s], j>>
  BY <1>2 DEF Pair, OnceInv, SweepTypes
<1>6. \A t \in Sweepers \ {s} : Pair(t)' = Pair(t) /\ (Announcing(t)' <=> Announcing(t))
  BY <1>2 DEF Pair, Announcing, OnceInv, SweepTypes
<1>7. NotifiedOnce'
  BY <1>2 DEF OnceInv, NotifiedOnce
<1>8. \A n \in Notifications : about'[n] = about[n] /\ (about[n] # None => Spent(about[n]))
  BY <1>2 DEF OnceInv, ClaimsReserve
<1>9. \A t \in Sweepers \ {s} : Announcing(t) =>
          Spent(Pair(t)) /\ \A n \in Notifications : about[n] # Pair(t)
  BY DEF OnceInv, ClaimsReserve
<1>10. \A t, u \in Sweepers : Announcing(t) /\ Announcing(u) /\ Pair(t) = Pair(u) => t = u
  BY DEF OnceInv, ClaimsReserve
<1>11. \A n \in Notifications : (about[n] # None => Spent(about[n]))'
  BY <1>2, <1>8 DEF Spent
<1>12. ASSUME NEW t \in Sweepers, Announcing(t)'
       PROVE  (Spent(Pair(t)) /\ \A n \in Notifications : about[n] # Pair(t))'
  <2>1. CASE t = s
    <3>1. \A n \in Notifications : about'[n] # <<current[s], j>>
      BY <1>1, <1>4, <1>8, JobAlertsAssumption
    <3> QED BY <1>2, <1>5, <2>1, <3>1 DEF Spent
  <2>2. CASE t # s
    <3>1. Pair(t)' = Pair(t) /\ Spent(Pair(t)) /\ \A n \in Notifications : about[n] # Pair(t)
      BY <1>6, <1>9, <1>12, <2>2
    <3> QED BY <1>2, <3>1 DEF Spent
  <2> QED BY <2>1, <2>2
<1>13. \A t, u \in Sweepers : (Announcing(t) /\ Announcing(u) /\ Pair(t) = Pair(u) => t = u)'
  BY <1>4, <1>5, <1>6, <1>9, <1>10
<1>14. ClaimsReserve'
  BY <1>11, <1>12, <1>13 DEF ClaimsReserve
<1> QED BY <1>7, <1>14 DEF OnceInv

LEMMA InsertKeeps ==
    ASSUME OnceInv, SweepTypes', WritersMatch', NEW s \in Sweepers, NEW n \in Notifications,
           insertNotification(s, n)
    PROVE  OnceInv'
<1>1. /\ Announcing(s)
      /\ about' = [about EXCEPT ![n] = Pair(s)]
      /\ writing' = [writing EXCEPT ![s].notice = n]
      /\ UNCHANGED <<alert, matches, current>>
  BY DEF insertNotification, Announcing, Pair, board
<1>2. ~Announcing(s)'
  <2>1. writing'[s].notice = n
    BY <1>1, WritingTyped DEF Announcing, OnceInv, SweepTypes, Writing
  <2> QED BY <2>1, JobAlertsAssumption DEF Announcing
<1>3. \A t \in Sweepers \ {s} : Pair(t)' = Pair(t) /\ (Announcing(t)' <=> Announcing(t))
  BY <1>1 DEF Pair, Announcing, OnceInv, SweepTypes
<1>4. /\ about'[n] = Pair(s)
      /\ \A m \in Notifications \ {n} : about'[m] = about[m] /\ about[m] # Pair(s)
  BY <1>1 DEF OnceInv, SweepTypes, ClaimsReserve
<1>5. Spent(Pair(s)) /\ \A p : Spent(p)' <=> Spent(p)
  BY <1>1 DEF OnceInv, ClaimsReserve, Spent
<1>6. \A t \in Sweepers \ {s} : Announcing(t) => Pair(t) # Pair(s)
  BY <1>1 DEF OnceInv, ClaimsReserve
<1>7. NotifiedOnce'
  BY <1>4 DEF OnceInv, NotifiedOnce
<1>8. ClaimsReserve'
  BY <1>2, <1>3, <1>4, <1>5, <1>6 DEF OnceInv, ClaimsReserve
<1> QED BY <1>7, <1>8 DEF OnceInv

LEMMA OnceStep ==
    ASSUME OnceInv, SweepTypes', WritersMatch', [AlertsNext]_vars PROVE OnceInv'
<1>1. ASSUME NEW a \in Alerts, ToggleAlert(a) \/ DeleteAlert(a) PROVE OnceInv'
  <2>1. UNCHANGED <<about, sweepers>>
    BY <1>1 DEF ToggleAlert, DeleteAlert, told
  <2>2. \A t \in Sweepers : Pair(t)' = Pair(t) /\ (Announcing(t)' <=> Announcing(t))
    BY <2>1 DEF Pair, Announcing, sweepers
  <2>3. \A p \in Alerts \X Jobs : Spent(p) => Spent(p)'
    BY <1>1 DEF Spent, ToggleAlert, DeleteAlert, told, OnceInv, SweepTypes
  <2>4. \A n \in Notifications : about[n] # None => about[n] \in Alerts \X Jobs
    BY DEF OnceInv, SweepTypes
  <2>5. \A t \in Sweepers : Announcing(t) => Pair(t) \in Alerts \X Jobs
    BY WritingTyped DEF OnceInv, WritersMatch, Announcing, Pair
  <2> QED BY <2>1, <2>2, <2>3, <2>4, <2>5 DEF OnceInv, NotifiedOnce, ClaimsReserve
<1>2. ASSUME NEW s \in Sweepers, NEW j \in Jobs, claimMatch(s, j) PROVE OnceInv'
  <2>1. CASE Claims(current[s], j)
    BY <1>2, <2>1, ClaimMatchKeeps
  <2>2. CASE ~Claims(current[s], j)
    <3>1. UNCHANGED <<alert, about, current>>
      BY <1>2 DEF claimMatch, board
    <3>2. UNCHANGED <<matches, writing>>
      BY <1>2, <2>2 DEF claimMatch
    <3>3. Quiet
      BY <3>1, <3>2 DEF Quiet, Announcing, Pair
    <3> QED BY <3>3, QuietKeeps
  <2> QED BY <2>1, <2>2
<1>3. ASSUME NEW s \in Sweepers, NEW n \in Notifications, insertNotification(s, n)
      PROVE  OnceInv'
  BY <1>3, InsertKeeps
<1>4. ASSUME NEW s \in Sweepers, matchOne(s) PROVE OnceInv'
  <2>1. writing[s] = None
    BY <1>4, JobAlertsAssumption DEF matchOne, OnceInv, WritersMatch
  <2>2. Quiet
    BY <1>4, <2>1 DEF matchOne, Quiet, Announcing, Pair, board, told, OnceInv, SweepTypes
  <2> QED BY <2>2, QuietKeeps
<1>5. ASSUME NEW s \in Sweepers, enqueue(s) PROVE OnceInv'
  <2>1. writing'[s] = [writing[s] EXCEPT !.left = Tail(@)] /\ writing[s].notice # None
    BY <1>5 DEF enqueue, Queueing, OnceInv, SweepTypes
  <2>2. writing'[s].notice = writing[s].notice
    BY <1>5, <2>1, WritingTyped DEF enqueue, Queueing, OnceInv, Writing
  <2>3. Quiet
    BY <1>5, <2>1, <2>2
       DEF enqueue, Quiet, Announcing, Pair, board, told, OnceInv, SweepTypes
  <2> QED BY <2>3, QuietKeeps
<1>6. ASSUME NEW s \in Sweepers,
             dueAlerts(s) \/ notified(s) \/ advanceWatermark(s) PROVE OnceInv'
  <2>1. Quiet
    BY <1>6 DEF dueAlerts, notified, advanceWatermark, Quiet, Announcing, Pair, board, told,
                OnceInv, SweepTypes
  <2> QED BY <2>1, QuietKeeps
<1>7. ASSUME NEW s \in Sweepers, notifyFails(s) \/ matchFails(s) \/ sweeperStops(s)
      PROVE  OnceInv'
  <2>1. Quiet
    BY <1>7 DEF notifyFails, matchFails, sweeperStops, Quiet, Announcing, Pair, board, told,
                OnceInv, SweepTypes
  <2> QED BY <2>1, QuietKeeps
<1>8. CASE UNCHANGED <<alert, matches, about, current, writing>>
  BY <1>8 DEF OnceInv, NotifiedOnce, ClaimsReserve, Spent, Announcing, Pair
<1>9. ASSUME NEW j \in Jobs, PublishJob(j) \/ \E a \in Alerts : FitChanges(a, j)
      PROVE  UNCHANGED <<alert, matches, about, current, writing>>
  BY <1>9 DEF PublishJob, FitChanges, told, sweepers
<1>10. CASE UNCHANGED <<board, told, sweepers, lapses>>
  BY <1>8, <1>10 DEF board, told, sweepers
<1> QED BY <1>1, <1>2, <1>3, <1>4, <1>5, <1>6, <1>7, <1>8, <1>9, <1>10
        DEF AlertsNext, Sweeps, vars

(* NotifiedOnce, for any constants: however often the sweeps run, whatever *)
(* they read before another one wrote, and wherever they stop, no two      *)
(* notifications tell of the same job for the same alert.                  *)
THEOREM NobodyIsToldTwice == AlertsSpec => []NotifiedOnce
<1>1. AlertsInit => OnceInv
  <2> SUFFICES ASSUME AlertsInit PROVE OnceInv
    OBVIOUS
  <2>1. SweepTypes /\ WritersMatch
    BY DEF AlertsInit, SweepTypes, WritersMatch
  <2>2. NotifiedOnce /\ ClaimsReserve
    BY DEF AlertsInit, NotifiedOnce, ClaimsReserve, Announcing
  <2> QED BY <2>1, <2>2 DEF OnceInv
<1>2. OnceInv /\ [AlertsNext]_vars => OnceInv'
  <2> SUFFICES ASSUME OnceInv, [AlertsNext]_vars PROVE OnceInv'
    OBVIOUS
  <2>1. SweepTypes' /\ WritersMatch'
    BY SweepTypesStep DEF OnceInv
  <2> QED BY <2>1, OnceStep
<1>3. OnceInv => NotifiedOnce
  BY DEF OnceInv
<1> QED BY <1>1, <1>2, <1>3, PTL DEF AlertsSpec

(* What is proved of the outbox holds of the deliveries the sweeps queue:  *)
(* one sender at a time but for claims that ran out in a hand, no more     *)
(* sends than attempts and mishaps allow, and Delivery's promise.          *)
THEOREM AlertsAreDeliveredOnce ==
    AlertsSpec => []OneSender /\ []TriesBounded /\ ImplementsDelivery
BY SweepsRunTheOutbox, OneSenderAtATime, TriesAreBounded, KeepsItsPromises, PTL

-----------------------------------------------------------------------------
(* A match is lost to a lapse, one each                                    *)

Writes(s) == writing[s] # None
Lost == {m \in matches : ~Told(m[1], m[2]) /\ ~BeingTold(m[1], m[2])}

\* A notification that is not there tells of nothing, and the one a sweeper has
\* inserted tells of what it is writing about.
NoticesTell ==
    /\ \A n \in Notifications : notification[n] = "none" => about[n] = None
    /\ \A s \in Sweepers : Writes(s) /\ writing[s].notice # None =>
           about[writing[s].notice] = Pair(s)

LapseInv ==
    /\ TypeOK
    /\ SweepTypes
    /\ WritersMatch
    /\ NoticesTell
    /\ IsFiniteSet(Lost)
    /\ Cardinality(Lost) <= lapses

\* No notification changes what it tells of, and none goes back to not being
\* there.
NoticesStay ==
    \A n \in Notifications :
        /\ about[n] # None => about'[n] = about[n]
        /\ notification[n] # "none" => notification'[n] # "none"

\* A sweeper that has inserted a notification stays with it.
KeepsNotice(s) ==
    Writes(s)' /\ writing'[s].notice # None =>
        Writes(s) /\ Pair(s)' = Pair(s) /\ writing'[s].notice = writing[s].notice

\* A sweeper ends its writing once a notification tells of it.
EndsTold(s) ==
    Writes(s) => \/ Writes(s)' /\ Pair(s)' = Pair(s)
                 \/ writing[s].notice # None

LEMMA TypesOfPairs ==
    ASSUME SweepTypes, WritersMatch
    PROVE  /\ \A s \in Sweepers : Writes(s) => Pair(s) \in Alerts \X Jobs
           /\ \A p \in Alerts \X Jobs :
                /\ Told(p[1], p[2]) <=> \E n \in Notifications : about[n] = p
                /\ BeingTold(p[1], p[2]) <=> \E s \in Sweepers : Writes(s) /\ Pair(s) = p
<1>1. \A s \in Sweepers : Writes(s) => writing[s].job \in Jobs /\ current[s] \in Alerts
  BY WritingTyped DEF Writes, WritersMatch
<1>2. \A p \in Alerts \X Jobs : p = <<p[1], p[2]>>
  OBVIOUS
<1> QED BY <1>1, <1>2 DEF Writes, Pair, Told, BeingTold

\* A step that claims nothing but what it goes on to tell of, and ends nothing
\* that is not told, loses no match.
LEMMA NothingIsLost ==
    ASSUME LapseInv, SweepTypes', NoticesStay,
           \A s \in Sweepers : EndsTold(s),
           \A p \in matches' : p \in matches \/ \E s \in Sweepers : Writes(s)' /\ Pair(s)' = p
    PROVE  Lost' \subseteq Lost
<1> SUFFICES ASSUME NEW p \in matches', ~Told(p[1], p[2])', ~BeingTold(p[1], p[2])'
             PROVE  p \in Lost
  BY DEF Lost
<1>1. p \in Alerts \X Jobs
  BY DEF SweepTypes
<1>2. /\ ~\E n \in Notifications : about'[n] = p
      /\ ~\E s \in Sweepers : Writes(s)' /\ Pair(s)' = p
  <2>1. /\ Told(p[1], p[2])' <=> \E n \in Notifications : about'[n] = <<p[1], p[2]>>
        /\ BeingTold(p[1], p[2])' <=>
             \E s \in Sweepers :
                current'[s] = p[1] /\ writing'[s] # None /\ writing'[s].job = p[2]
    BY DEF Told, BeingTold
  <2>2. p = <<p[1], p[2]>>
    BY <1>1
  <2> QED BY <2>1, <2>2 DEF Writes, Pair
<1>3. p \in matches
  BY <1>2
<1>4. ~\E n \in Notifications : about[n] = p
  BY <1>1, <1>2, JobAlertsAssumption DEF NoticesStay
<1>5. ~\E s \in Sweepers : Writes(s) /\ Pair(s) = p
  <2> SUFFICES ASSUME NEW s \in Sweepers, Writes(s), Pair(s) = p PROVE FALSE
    OBVIOUS
  <2>1. writing[s].notice # None
    BY <1>2 DEF EndsTold
  <2>2. about[writing[s].notice] = p
    BY <2>1 DEF LapseInv, NoticesTell
  <2>3. writing[s].notice \in Notifications
    BY <2>1, WritingTyped DEF LapseInv, Writes
  <2> QED BY <1>4, <2>2, <2>3
<1> QED BY <1>1, <1>3, <1>4, <1>5, TypesOfPairs DEF Lost, LapseInv

LEMMA KeepsCount ==
    ASSUME LapseInv, TypeOK', SweepTypes', WritersMatch', NoticesTell',
           Lost' \subseteq Lost, lapses' = lapses
    PROVE  LapseInv'
<1>1. IsFiniteSet(Lost') /\ Cardinality(Lost') <= Cardinality(Lost)
  BY FS_Subset DEF LapseInv
<1>2. Cardinality(Lost) \in Nat /\ Cardinality(Lost') \in Nat /\ lapses \in Nat
  BY <1>1, FS_CardinalityType DEF LapseInv, SweepTypes
<1> QED BY <1>1, <1>2 DEF LapseInv

\* A lapse loses the one match its sweeper was writing about, if any.
LEMMA LapseCountsOne ==
    ASSUME LapseInv, TypeOK', SweepTypes', WritersMatch', NoticesTell', NEW p,
           Lost' \subseteq Lost \cup {p}, lapses' = lapses + 1
    PROVE  LapseInv'
<1>1. /\ IsFiniteSet(Lost \cup {p})
      /\ Cardinality(Lost \cup {p}) <= Cardinality(Lost) + 1
  <2>1. IsFiniteSet(Lost) /\ Cardinality(Lost) \in Nat
    BY FS_CardinalityType DEF LapseInv
  <2> QED BY <2>1, FS_AddElement
<1>2. IsFiniteSet(Lost') /\ Cardinality(Lost') <= Cardinality(Lost \cup {p})
  BY <1>1, FS_Subset
<1>3. /\ Cardinality(Lost) \in Nat /\ Cardinality(Lost') \in Nat
      /\ Cardinality(Lost \cup {p}) \in Nat /\ lapses \in Nat
  BY <1>1, <1>2, FS_CardinalityType DEF LapseInv, SweepTypes
<1>4. Cardinality(Lost) <= lapses
  BY DEF LapseInv
<1>5. Cardinality(Lost') <= lapses + 1
  BY <1>1, <1>2, <1>3, <1>4
<1> QED BY <1>2, <1>5 DEF LapseInv

LEMMA NotificationsStay ==
    ASSUME TypeOK, [Next]_outboxVars
    PROVE  \A n \in Notifications : notification[n] # "none" => notification'[n] # "none"
<1>1. ASSUME NEW n \in Notifications, CreateNotification(n) \/ Delete(n)
      PROVE  \A m \in Notifications : notification[m] # "none" => notification'[m] # "none"
  BY <1>1 DEF CreateNotification, Delete, TypeOK
<1>2. ASSUME NEW d \in Deliveries, NEW when,
             EnqueueAt(d, when) \/ BackoffElapses(d) \/ ClaimRunsOut(d) \/ RetryDeadLetter(d)
      PROVE  notification' = notification
  BY <1>2 DEF EnqueueAt, BackoffElapses, ClaimRunsOut, RetryDeadLetter
<1>3. ASSUME NEW w \in Workers, WorkerStep(w) PROVE notification' = notification
  BY <1>3 DEF WorkerStep, ClaimDue, Tries, Send, NoSender, Tried, Records, MarkSent,
              MarkFailed, RecordingFails, Crash, rows
<1>4. CASE UNCHANGED outboxVars
  BY <1>4 DEF outboxVars, rows
<1> QED BY <1>1, <1>2, <1>3, <1>4 DEF Next, OutboxNext

LEMMA NoticesTellStill ==
    ASSUME LapseInv, about' = about, NoticesStay, \A s \in Sweepers : KeepsNotice(s)
    PROVE  NoticesTell'
<1>1. \A n \in Notifications : notification'[n] = "none" => about'[n] = None
  BY DEF LapseInv, NoticesTell, NoticesStay
<1>2. ASSUME NEW s \in Sweepers, Writes(s)', writing'[s].notice # None
      PROVE  about'[writing'[s].notice] = Pair(s)'
  BY <1>2 DEF LapseInv, NoticesTell, KeepsNotice
<1> QED BY <1>1, <1>2 DEF NoticesTell, Writes

LEMMA InsertTells ==
    ASSUME LapseInv, TypeOK', SweepTypes', WritersMatch',
           NEW s \in Sweepers, NEW n \in Notifications, insertNotification(s, n)
    PROVE  LapseInv'
<1>1. /\ Writes(s) /\ writing[s].notice = None
      /\ notification[n] = "none" /\ about[n] = None
      /\ notification' = [notification EXCEPT ![n] = "there"]
      /\ about' = [about EXCEPT ![n] = Pair(s)]
      /\ writing' = [writing EXCEPT ![s].notice = n]
      /\ UNCHANGED <<matches, current, lapses>>
  BY DEF insertNotification, CreateNotification, Writes, Pair, LapseInv, NoticesTell
<1>2. writing'[s] # None /\ writing'[s].notice = n /\ writing'[s].job = writing[s].job
  <2>1. writing'[s] = [writing[s] EXCEPT !.notice = n] /\ writing[s] \in Writing
    BY <1>1, WritingTyped DEF LapseInv, SweepTypes, Writes
  <2>2. writing'[s].notice = n /\ writing'[s].job = writing[s].job
    BY <2>1 DEF Writing
  <2>3. writing'[s] \in Writing
    BY <2>1 DEF Writing
  <2> QED BY <2>2, <2>3, JobAlertsAssumption
<1>3. \A t \in Sweepers : Pair(t)' = Pair(t) /\ (Writes(t)' <=> Writes(t))
  BY <1>1, <1>2 DEF Pair, Writes, LapseInv, SweepTypes
<1>4. \A t \in Sweepers \ {s} : writing'[t] = writing[t]
  BY <1>1 DEF LapseInv, SweepTypes
<1>5. \A m \in Notifications \ {n} :
          about'[m] = about[m] /\ notification'[m] = notification[m]
  BY <1>1 DEF LapseInv, SweepTypes, TypeOK
<1>6. about'[n] = Pair(s) /\ notification'[n] = "there"
  BY <1>1 DEF LapseInv, SweepTypes, TypeOK
<1>7. NoticesStay
  BY <1>1, <1>5, <1>6 DEF NoticesStay
<1>8. NoticesTell'
  <2>1. \A m \in Notifications : notification'[m] = "none" => about'[m] = None
    BY <1>5, <1>6 DEF LapseInv, NoticesTell
  <2>2. ASSUME NEW t \in Sweepers, Writes(t)', writing'[t].notice # None
        PROVE  about'[writing'[t].notice] = Pair(t)'
    <3>1. CASE t = s
      BY <1>2, <1>3, <1>6, <3>1
    <3>2. CASE t # s
      <4>1. /\ Writes(t) /\ writing[t].notice # None
            /\ about[writing[t].notice] = Pair(t)
        BY <1>3, <1>4, <2>2, <3>2 DEF LapseInv, NoticesTell
      <4>2. writing[t].notice \in Notifications /\ Pair(t) \in Alerts \X Jobs
        BY <4>1, WritingTyped, TypesOfPairs DEF LapseInv, Writes
      <4>3. writing[t].notice # n
        BY <1>1, <4>1, <4>2, JobAlertsAssumption
      <4> QED BY <1>3, <1>4, <1>5, <3>2, <4>1, <4>2, <4>3
    <3> QED BY <3>1, <3>2
  <2> QED BY <2>1, <2>2 DEF NoticesTell, Writes
<1>9. Lost' \subseteq Lost
  BY <1>1, <1>3, <1>7, NothingIsLost DEF EndsTold
<1> QED BY <1>1, <1>8, <1>9, KeepsCount

LEMMA ClaimMatchLosesNothing ==
    ASSUME LapseInv, TypeOK', SweepTypes', WritersMatch',
           NEW s \in Sweepers, NEW j \in Jobs, claimMatch(s, j)
    PROVE  LapseInv'
<1>1. /\ ~Writes(s)
      /\ UNCHANGED <<notification, about, current, lapses>>
  BY DEF claimMatch, Writes, outboxVars, rows
<1>2. NoticesStay
  BY <1>1 DEF NoticesStay
<1>3. CASE Claims(current[s], j)
  <2>1. /\ matches' = matches \cup {<<current[s], j>>}
        /\ writing' = [writing EXCEPT ![s] =
                         [job |-> j, notice |-> None, left |-> AlertChannels]]
    BY <1>3 DEF claimMatch
  <2>2. /\ writing'[s] = [job |-> j, notice |-> None, left |-> AlertChannels]
        /\ \A t \in Sweepers \ {s} : writing'[t] = writing[t]
    BY <2>1 DEF LapseInv, SweepTypes
  <2>3. Writes(s)' /\ Pair(s)' = <<current[s], j>> /\ writing'[s].notice = None
    <3>1. [job |-> j, notice |-> None, left |-> AlertChannels] \in Writing
      BY JobAlertsAssumption DEF Writing
    <3>2. writing'[s] # None
      BY <2>2, <3>1, JobAlertsAssumption
    <3>3. current'[s] = current[s] /\ writing'[s].job = j /\ writing'[s].notice = None
      BY <1>1, <2>2
    <3> QED BY <3>2, <3>3 DEF Writes, Pair
  <2>4. \A t \in Sweepers \ {s} : Pair(t)' = Pair(t) /\ (Writes(t)' <=> Writes(t))
    BY <1>1, <2>2 DEF Writes, Pair
  <2>5. \A t \in Sweepers : KeepsNotice(t) /\ EndsTold(t)
    BY <1>1, <2>2, <2>3, <2>4 DEF KeepsNotice, EndsTold
  <2>6. NoticesTell'
    BY <1>1, <1>2, <2>5, NoticesTellStill
  <2>7. Lost' \subseteq Lost
    BY <1>2, <2>1, <2>3, <2>5, NothingIsLost
  <2> QED BY <1>1, <2>6, <2>7, KeepsCount
<1>4. CASE ~Claims(current[s], j)
  <2>1. UNCHANGED <<matches, writing>>
    BY <1>4 DEF claimMatch
  <2>2. \A t \in Sweepers : KeepsNotice(t) /\ EndsTold(t)
    BY <1>1, <2>1 DEF KeepsNotice, EndsTold, Writes, Pair
  <2>3. NoticesTell' /\ Lost' \subseteq Lost
    BY <1>1, <1>2, <2>1, <2>2, NoticesTellStill, NothingIsLost
  <2> QED BY <1>1, <2>3, KeepsCount
<1> QED BY <1>3, <1>4

LEMMA LapseLosesOne ==
    ASSUME LapseInv, TypeOK', SweepTypes', WritersMatch', NEW s \in Sweepers,
           notifyFails(s) \/ matchFails(s) \/ sweeperStops(s)
    PROVE  LapseInv'
<1>1. UNCHANGED <<notification, about, matches>> /\ lapses' = lapses + 1
  BY DEF notifyFails, matchFails, sweeperStops, Lapse, outboxVars, rows, told
<1>2. \A t \in Sweepers \ {s} : writing'[t] = writing[t] /\ current'[t] = current[t]
  BY DEF notifyFails, matchFails, sweeperStops, LapseInv, SweepTypes
<1>3. ~Writes(s)'
  BY DEF notifyFails, matchFails, sweeperStops, Writes, LapseInv, SweepTypes
<1>4. NoticesStay
  BY <1>1 DEF NoticesStay
<1>5. NoticesTell'
  <2>1. \A t \in Sweepers : KeepsNotice(t)
    BY <1>2, <1>3 DEF KeepsNotice, Writes, Pair
  <2> QED BY <1>1, <1>4, <2>1, NoticesTellStill
<1>6. Lost' \subseteq Lost \cup {Pair(s)}
  <2> SUFFICES ASSUME NEW p \in matches, ~Told(p[1], p[2])', ~BeingTold(p[1], p[2])',
                      p # Pair(s)
               PROVE  p \in Lost
    BY <1>1 DEF Lost
  <2>1. p \in Alerts \X Jobs
    BY DEF LapseInv, SweepTypes
  <2>2. ~Told(p[1], p[2])
    BY <1>1 DEF Told
  <2>3. ~BeingTold(p[1], p[2])
    <3> SUFFICES ASSUME NEW t \in Sweepers, Writes(t), Pair(t) = p PROVE FALSE
      BY <2>1, TypesOfPairs DEF LapseInv
    <3>1. t # s
      OBVIOUS
    <3>2. current'[t] = p[1] /\ writing'[t] # None /\ writing'[t].job = p[2]
      BY <1>2, <3>1 DEF Writes, Pair
    <3> QED BY <3>2 DEF BeingTold
  <2> QED BY <2>2, <2>3 DEF Lost
<1> QED BY <1>1, <1>5, <1>6, LapseCountsOne

\* What leaves the writing, the matches and what is told alone.
LEMMA OthersLoseNothing ==
    ASSUME LapseInv, TypeOK', SweepTypes', WritersMatch', NoticesStay,
           about' = about, lapses' = lapses, matches' \subseteq matches,
           \A s \in Sweepers : KeepsNotice(s) /\ EndsTold(s)
    PROVE  LapseInv'
<1>1. NoticesTell'
  BY NoticesTellStill
<1>2. Lost' \subseteq Lost
  BY NothingIsLost
<1> QED BY <1>1, <1>2, KeepsCount

LEMMA LapseStep ==
    ASSUME LapseInv, TypeOK', SweepTypes', WritersMatch', [AlertsNext]_vars PROVE LapseInv'
<1>1. about' = about => NoticesStay
  <2>1. \A n \in Notifications : notification[n] # "none" => notification'[n] # "none"
    BY StepOfTheOutbox, NotificationsStay DEF LapseInv
  <2> QED BY <2>1 DEF NoticesStay
<1>2. ASSUME UNCHANGED <<about, lapses, current, writing>>, matches' \subseteq matches
      PROVE  LapseInv'
  <2>1. \A s \in Sweepers : KeepsNotice(s) /\ EndsTold(s)
    BY <1>2 DEF KeepsNotice, EndsTold, Writes, Pair
  <2> QED BY <1>1, <1>2, <2>1, OthersLoseNothing
<1>3. ASSUME NEW j \in Jobs, PublishJob(j) \/ \E a \in Alerts : FitChanges(a, j)
      PROVE  LapseInv'
  BY <1>2, <1>3 DEF PublishJob, FitChanges, told, sweepers
<1>4. ASSUME NEW a \in Alerts, ToggleAlert(a) \/ DeleteAlert(a) PROVE LapseInv'
  BY <1>2, <1>4 DEF ToggleAlert, DeleteAlert, told, sweepers
<1>5. ASSUME NEW s \in Sweepers, dueAlerts(s) PROVE LapseInv'
  BY <1>2, <1>5 DEF dueAlerts, told
<1>6. ASSUME NEW s \in Sweepers, matchOne(s) \/ advanceWatermark(s) PROVE LapseInv'
  <2>1. ~Writes(s)
    BY <1>6, JobAlertsAssumption
       DEF matchOne, advanceWatermark, Writes, LapseInv, WritersMatch
  <2>2. /\ UNCHANGED <<about, lapses, matches, writing>>
        /\ \A t \in Sweepers \ {s} : current'[t] = current[t]
    BY <1>6 DEF matchOne, advanceWatermark, told, LapseInv, SweepTypes
  <2>3. \A t \in Sweepers : KeepsNotice(t) /\ EndsTold(t)
    BY <2>1, <2>2 DEF KeepsNotice, EndsTold, Writes, Pair
  <2> QED BY <1>1, <2>2, <2>3, OthersLoseNothing
<1>7. ASSUME NEW s \in Sweepers, NEW j \in Jobs, claimMatch(s, j) PROVE LapseInv'
  BY <1>7, ClaimMatchLosesNothing
<1>8. ASSUME NEW s \in Sweepers, NEW n \in Notifications, insertNotification(s, n)
      PROVE  LapseInv'
  BY <1>8, InsertTells
<1>9. ASSUME NEW s \in Sweepers, enqueue(s) PROVE LapseInv'
  <2>1. /\ Writes(s) /\ writing[s].notice # None /\ writing[s] \in Writing
        /\ writing' = [writing EXCEPT ![s].left = Tail(@)]
        /\ UNCHANGED <<about, lapses, matches, current>>
    BY <1>9, WritingTyped DEF enqueue, Queueing, Writes, told, LapseInv
  <2>2. writing'[s] = [writing[s] EXCEPT !.left = Tail(@)]
    BY <2>1 DEF LapseInv, SweepTypes
  <2>3. writing'[s].notice = writing[s].notice /\ writing'[s].job = writing[s].job
    BY <2>1, <2>2 DEF Writing
  <2>4. \A t \in Sweepers \ {s} : writing'[t] = writing[t]
    BY <2>1 DEF LapseInv, SweepTypes
  <2>5. \A t \in Sweepers : KeepsNotice(t) /\ EndsTold(t)
    BY <2>1, <2>3, <2>4 DEF KeepsNotice, EndsTold, Writes, Pair
  <2> QED BY <1>1, <2>1, <2>5, OthersLoseNothing
<1>10. ASSUME NEW s \in Sweepers, notified(s) PROVE LapseInv'
  <2>1. /\ writing[s].notice # None
        /\ writing' = [writing EXCEPT ![s] = None]
        /\ UNCHANGED <<about, lapses, matches, current>>
    BY <1>10 DEF notified, Queueing, told
  <2>2. ~Writes(s)' /\ \A t \in Sweepers \ {s} : writing'[t] = writing[t]
    BY <2>1 DEF Writes, LapseInv, SweepTypes
  <2>3. \A t \in Sweepers : KeepsNotice(t) /\ EndsTold(t)
    BY <2>1, <2>2 DEF KeepsNotice, EndsTold, Writes, Pair
  <2> QED BY <1>1, <2>1, <2>3, OthersLoseNothing
<1>11. ASSUME NEW s \in Sweepers, notifyFails(s) \/ matchFails(s) \/ sweeperStops(s)
       PROVE  LapseInv'
  BY <1>11, LapseLosesOne
<1>12. CASE UNCHANGED <<board, told, sweepers, lapses>>
  BY <1>2, <1>12 DEF told, sweepers
<1> QED BY <1>3, <1>4, <1>5, <1>6, <1>7, <1>8, <1>9, <1>10, <1>11, <1>12
        DEF AlertsNext, Sweeps, vars

(* MatchesLostToLapses, for any constants: the matches nobody is told of   *)
(* are at most as many as the sweepers that stopped and the statements     *)
(* that failed, whatever the other sweepers, the candidates and the outbox *)
(* do meanwhile.                                                           *)
THEOREM MatchesAreLostToLapsesOnly == AlertsSpec => []MatchesLostToLapses
<1>1. AlertsInit => LapseInv
  <2> SUFFICES ASSUME AlertsInit PROVE LapseInv
    OBVIOUS
  <2>1. TypeOK
    BY OutboxAssumption DEF AlertsInit, Init, TypeOK, DeliveryStatus
  <2>2. SweepTypes /\ WritersMatch
    BY DEF AlertsInit, SweepTypes, WritersMatch
  <2>3. NoticesTell
    BY DEF AlertsInit, NoticesTell, Writes
  <2>4. Lost = {} /\ lapses = 0
    BY DEF AlertsInit, Lost
  <2>5. IsFiniteSet(Lost) /\ Cardinality(Lost) <= lapses
    BY <2>4, FS_EmptySet
  <2> QED BY <2>1, <2>2, <2>3, <2>5 DEF LapseInv
<1>2. LapseInv /\ [AlertsNext]_vars => LapseInv'
  <2> SUFFICES ASSUME LapseInv, [AlertsNext]_vars PROVE LapseInv'
    OBVIOUS
  <2>1. TypeOK' /\ SweepTypes' /\ WritersMatch'
    BY TypeStep, StepOfTheOutbox, SweepTypesStep DEF LapseInv
  <2> QED BY <2>1, LapseStep
<1>3. LapseInv => MatchesLostToLapses
  BY DEF LapseInv, MatchesLostToLapses, Lost
<1> QED BY <1>1, <1>2, <1>3, PTL DEF AlertsSpec
=============================================================================
