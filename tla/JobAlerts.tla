------------------------------ MODULE JobAlerts ------------------------------
(***************************************************************************)
(* Saved job alerts (backend/internal/job_alerts/matcher/matcher.go) over  *)
(* the outbox they queue their notifications in.  On every replica a       *)
(* sweeper reads the active alerts, matches each against the jobs          *)
(* published since its watermark last_matched_at, writes a match, a        *)
(* notification and its deliveries per hit, one statement each, and moves  *)
(* the watermark to the present.                                           *)
(*                                                                         *)
(* The watermark is abstracted to the jobs published after it, and what an *)
(* alert asks for (open, unexpired, its keywords, place and pay, not yet   *)
(* applied to) to whether a job fits it.  Left out: an alert that was not   *)
(* matched for a day looks back a day only, and a pass takes 200 alerts.   *)
(***************************************************************************)
EXTENDS Outbox, Sequences

CONSTANTS Alerts, Jobs, Sweepers,
          MaxJobsPerAlert,
          AlertChannels,   \* the channels an alert is sent on, in notify's order
          MaxLapses,       \* bound: sweepers that stop, statements that fail
          None

\* What notify has in hand: the job, the notification once it is inserted, and
\* the channels left to queue it for.
Writing == [job : Jobs, notice : Notifications \cup {None}, left : Seq(Channels)]

ASSUME JobAlertsAssumption ==
    /\ MaxJobsPerAlert \in Nat \ {0}
    /\ AlertChannels \in Seq(Channels)
    /\ MaxLapses \in Nat
    /\ None \notin Alerts \cup Notifications \cup (Alerts \X Jobs)
    /\ None \notin Writing

VARIABLES
    published,  \* the published jobs, oldest first
    fits,       \* which job is what which alert asks for
    alert,      \* "active", "paused" or "deleted"
    fresh,      \* the jobs published since each alert's watermark
    matches,    \* job_alert_matches
    about,      \* the alert and the job each notification tells of
    todo,       \* the alerts each sweeper has read and not matched yet
    current,    \* the alert it is matching
    hits,       \* the jobs it found for it and has not told of yet
    writing,    \* how far notify has come with one of them
    lapses

board == <<published, fits, alert>>
told == <<fresh, matches, about>>
sweepers == <<todo, current, hits, writing>>
vars == <<outboxVars, board, told, sweepers, lapses>>

Published == {published[i] : i \in DOMAIN published}

\* An alert as dueAlerts read it, and the jobs its watermark had passed.
Due == [alert : Alerts, passed : SUBSET Jobs]

AlertsInit ==
    /\ Init
    /\ published = <<>>
    /\ fits = {}
    /\ alert = [a \in Alerts |-> "active"]
    /\ fresh = [a \in Alerts |-> {}]
    /\ matches = {}
    /\ about = [n \in Notifications |-> None]
    /\ todo = [s \in Sweepers |-> {}]
    /\ current = [s \in Sweepers |-> None]
    /\ hits = [s \in Sweepers |-> {}]
    /\ writing = [s \in Sweepers |-> None]
    /\ lapses = 0

-----------------------------------------------------------------------------
(* The board and the candidates *)

PublishJob(j) ==
    /\ j \notin Published
    /\ published' = Append(published, j)
    /\ fits' = fits \cup (Alerts \X {j})
    /\ fresh' = [a \in Alerts |-> fresh[a] \cup {j}]
    /\ UNCHANGED <<outboxVars, alert, matches, about, sweepers, lapses>>

\* The job closes, expires or reopens, the candidate applies, or edits the alert.
FitChanges(a, j) ==
    /\ j \in Published
    /\ fits' = IF <<a, j>> \in fits THEN fits \ {<<a, j>>} ELSE fits \cup {<<a, j>>}
    /\ UNCHANGED <<outboxVars, published, alert, told, sweepers, lapses>>

ToggleAlert(a) ==
    /\ alert[a] # "deleted"
    /\ alert' = [alert EXCEPT ![a] = IF @ = "active" THEN "paused" ELSE "active"]
    /\ UNCHANGED <<outboxVars, published, fits, told, sweepers, lapses>>

\* Its matches go with it.
DeleteAlert(a) ==
    /\ alert[a] # "deleted"
    /\ alert' = [alert EXCEPT ![a] = "deleted"]
    /\ matches' = {m \in matches : m[1] # a}
    /\ UNCHANGED <<outboxVars, published, fits, fresh, about, sweepers, lapses>>

-----------------------------------------------------------------------------
(* The sweep *)

Resting(s) == todo[s] = {} /\ current[s] = None

dueAlerts(s) ==
    /\ Resting(s)
    /\ todo' = [todo EXCEPT ![s] =
                  {[alert |-> a, passed |-> Published \ fresh[a]] :
                      a \in {b \in Alerts : alert[b] = "active"}}]
    /\ UNCHANGED <<outboxVars, board, told, current, hits, writing, lapses>>

\* ORDER BY published_at DESC LIMIT maxJobsPerAlert.
Newest(S) ==
    {j \in S : \E i \in DOMAIN published :
        /\ published[i] = j
        /\ Cardinality({k \in DOMAIN published : k > i /\ published[k] \in S})
             < MaxJobsPerAlert}

\* matchOne's query.
Matches(t) == Newest({j \in Published \ t.passed : <<t.alert, j>> \in fits})

matchOne(s) ==
    /\ current[s] = None
    /\ \E t \in todo[s] :
          /\ todo' = [todo EXCEPT ![s] = @ \ {t}]
          /\ current' = [current EXCEPT ![s] = t.alert]
          /\ hits' = [hits EXCEPT ![s] = Matches(t)]
    /\ UNCHANGED <<outboxVars, board, told, writing, lapses>>

\* Mutant: only a match of an earlier pass is looked for, by the watermark.
ClaimsAgain(a, j) == alert[a] # "deleted"
\* ON CONFLICT (alert_id, job_id) DO NOTHING, under a foreign key to the alert.
Claims(a, j) == <<a, j>> \notin matches /\ alert[a] # "deleted"

\* notify's first statement decides whether there is anything to tell.
claimMatch(s, j) ==
    /\ writing[s] = None
    /\ j \in hits[s]
    /\ hits' = [hits EXCEPT ![s] = @ \ {j}]
    /\ IF Claims(current[s], j)
       THEN /\ matches' = matches \cup {<<current[s], j>>}
            /\ writing' = [writing EXCEPT ![s] =
                             [job |-> j, notice |-> None, left |-> AlertChannels]]
       ELSE UNCHANGED <<matches, writing>>
    /\ UNCHANGED <<outboxVars, board, fresh, about, todo, current, lapses>>

\* Mutant: a job that no longer fits is not told of, though it was matched.
insertIfItFits(s, n) ==
    /\ writing[s] # None
    /\ writing[s].notice = None
    /\ IF <<current[s], writing[s].job>> \in fits
       THEN /\ CreateNotification(n)
            /\ about' = [about EXCEPT ![n] = <<current[s], writing[s].job>>]
            /\ writing' = [writing EXCEPT ![s].notice = n]
       ELSE writing' = [writing EXCEPT ![s] = None] /\ UNCHANGED <<outboxVars, about>>
    /\ UNCHANGED <<board, fresh, matches, todo, current, hits, lapses>>
insertNotification(s, n) ==
    /\ writing[s] # None
    /\ writing[s].notice = None
    /\ CreateNotification(n)
    /\ about' = [about EXCEPT ![n] = <<current[s], writing[s].job>>]
    /\ writing' = [writing EXCEPT ![s].notice = n]
    /\ UNCHANGED <<board, fresh, matches, todo, current, hits, lapses>>

Queueing(s) == writing[s] # None /\ writing[s].notice # None

\* Mutant: notify returns after the first channel it finds.
enqueueFirst(s) ==
    /\ Queueing(s)
    /\ writing[s].left # <<>>
    /\ EnqueueAt(<<writing[s].notice, Head(writing[s].left)>>, "now")
    /\ writing' = [writing EXCEPT ![s].left = <<>>]
    /\ UNCHANGED <<board, told, todo, current, hits, lapses>>
enqueue(s) ==
    /\ Queueing(s)
    /\ writing[s].left # <<>>
    /\ EnqueueAt(<<writing[s].notice, Head(writing[s].left)>>, "now")
    /\ writing' = [writing EXCEPT ![s].left = Tail(@)]
    /\ UNCHANGED <<board, told, todo, current, hits, lapses>>

\* Every channel is queued, or the notification is gone and none can be.
notified(s) ==
    /\ Queueing(s)
    /\ writing[s].left = <<>> \/ notification[writing[s].notice] = "deleted"
    /\ writing' = [writing EXCEPT ![s] = None]
    /\ UNCHANGED <<outboxVars, board, told, todo, current, hits, lapses>>

\* The watermark moves to NOW(), whatever was published since the query.
advanceWatermark(s) ==
    /\ current[s] # None
    /\ hits[s] = {}
    /\ writing[s] = None
    /\ fresh' = [fresh EXCEPT ![current[s]] = {}]
    /\ current' = [current EXCEPT ![s] = None]
    /\ UNCHANGED <<outboxVars, board, matches, about, todo, hits, writing, lapses>>

Lapse ==
    /\ lapses < MaxLapses
    /\ lapses' = lapses + 1

\* A statement of notify fails: logged, and on to the next hit.
notifyFails(s) ==
    /\ writing[s] # None
    /\ Lapse
    /\ writing' = [writing EXCEPT ![s] = None]
    /\ UNCHANGED <<outboxVars, board, told, todo, current, hits>>

\* The query or the watermark's update fails: logged, and on to the next alert.
matchFails(s) ==
    /\ current[s] # None
    /\ writing[s] = None
    /\ Lapse
    /\ current' = [current EXCEPT ![s] = None]
    /\ hits' = [hits EXCEPT ![s] = {}]
    /\ UNCHANGED <<outboxVars, board, told, todo, writing>>

sweeperStops(s) ==
    /\ ~Resting(s)
    /\ Lapse
    /\ todo' = [todo EXCEPT ![s] = {}]
    /\ current' = [current EXCEPT ![s] = None]
    /\ hits' = [hits EXCEPT ![s] = {}]
    /\ writing' = [writing EXCEPT ![s] = None]
    /\ UNCHANGED <<outboxVars, board, told>>

-----------------------------------------------------------------------------
Sweeps(s) ==
    \/ dueAlerts(s)
    \/ matchOne(s)
    \/ \E j \in Jobs : claimMatch(s, j)
    \/ \E n \in Notifications : insertNotification(s, n)
    \/ enqueue(s)
    \/ notified(s)
    \/ advanceWatermark(s)

AlertsNext ==
    \/ \E j \in Jobs : PublishJob(j)
    \/ \E a \in Alerts, j \in Jobs : FitChanges(a, j)
    \/ \E a \in Alerts : ToggleAlert(a) \/ DeleteAlert(a)
    \/ \E s \in Sweepers : Sweeps(s) \/ notifyFails(s) \/ matchFails(s) \/ sweeperStops(s)
    \/ OutboxNext /\ UNCHANGED <<board, told, sweepers, lapses>>

AlertsSpec == AlertsInit /\ [][AlertsNext]_vars

\* The sweeper ticks on, and the outbox is worked off as ever.
FairAlertsSpec == AlertsSpec /\ Fairness /\ \A s \in Sweepers : WF_vars(Sweeps(s))

-----------------------------------------------------------------------------
(* Types of the alerts, of the matches and of the sweeps.                  *)
AlertsTypeOK ==
    /\ TypeOK
    /\ published \in Seq(Jobs)
    /\ fits \subseteq Alerts \X Jobs
    /\ alert \in [Alerts -> {"active", "paused", "deleted"}]
    /\ fresh \in [Alerts -> SUBSET Jobs]
    /\ matches \subseteq Alerts \X Jobs
    /\ about \in [Notifications -> (Alerts \X Jobs) \cup {None}]
    /\ todo \in [Sweepers -> SUBSET Due]
    /\ current \in [Sweepers -> Alerts \cup {None}]
    /\ hits \in [Sweepers -> SUBSET Jobs]
    /\ writing \in [Sweepers -> Writing \cup {None}]
    /\ lapses \in Nat

(* "A candidate must not be told about the same job by the same alert      *)
(* twice, however often the sweep runs": no two notifications tell of the  *)
(* same job for the same alert, though two sweeps read the same watermark  *)
(* or a sweep stops before it moves it.                                    *)
NotifiedOnce ==
    \A m, n \in Notifications : about[m] # None /\ about[m] = about[n] => m = n

BeingTold(a, j) ==
    \E s \in Sweepers : current[s] = a /\ writing[s] # None /\ writing[s].job = j
Told(a, j) == \E n \in Notifications : about[n] = <<a, j>>

(* The match is written before the notification, so a sweep that stops or  *)
(* fails between the two takes the notification with it: a match nobody is *)
(* told of cost a crash or a failed statement, one each.                   *)
MatchesLostToLapses ==
    Cardinality({m \in matches : ~Told(m[1], m[2]) /\ ~BeingTold(m[1], m[2])}) <= lapses

(* Sweep and outbox together: unless a sweeper lapses, a match ends in a   *)
(* notification whose deliveries are all sent, dead-lettered or withdrawn, *)
(* whatever happens to the workers that send them.                         *)
Ended(n) == \A i \in DOMAIN AlertChannels :
               status[<<n, AlertChannels[i]>>] \in {"Sent", "DeadLettered", "deleted"}
MatchIsDelivered ==
    \A a \in Alerts, j \in Jobs :
        <<a, j>> \in matches ~>
            \/ lapses > 0
            \/ alert[a] = "deleted"
            \/ \E n \in Notifications : about[n] = <<a, j>> /\ Ended(n)

(* "Each pass finds jobs published since the alert was last matched, keeps *)
(* the ones that fit, and creates a notification per hit": a job the       *)
(* watermark passes while it fits has been matched.                        *)
WatermarkPassesMatched ==
    [][\A a \in Alerts :
         fresh'[a] = {} => \A j \in fresh[a] : <<a, j>> \in fits => <<a, j>> \in matches]_vars
=============================================================================
