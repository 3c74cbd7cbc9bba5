---------------------------- MODULE Applications ----------------------------
(***************************************************************************)
(* Job applications: the stage each is at, its timeline, and the           *)
(* interviews booked for it (backend/internal/applications/repository,     *)
(* backend/internal/recruiter/repository/recruiter_repo.go and             *)
(* backend/internal/interview).                                            *)
(*                                                                         *)
(* The candidate and the recruiter each move an application in one         *)
(* transaction that locks its row.  Booking an interview is a longer one:  *)
(* it takes the advisory locks of two persons, one after the other, reads  *)
(* the stage without locking the row, looks for a conflicting interview,   *)
(* and then inserts the interview and moves the application, whatever its  *)
(* stage is by then.  The calendar (internal/interview) writes the same    *)
(* interviews and takes no lock at all.                                    *)
(*                                                                         *)
(* An interview's status is abstracted to whether it is cancelled and, if  *)
(* not, whether it ever was.                                               *)
(***************************************************************************)
EXTENDS Naturals, FiniteSets

CONSTANTS Jobs, Persons,
          RecruiterOf,     \* the person who posted each job
          Applications,    \* the job and the candidate of each: never two of one
          Slots,           \* start and end
          CalendarPairs,   \* bound: organizer and candidate the calendar books
          Interviews,
          Requests,        \* bound: interviews being booked at a time
          Moving, MaxMoves, \* bound: the applications that are moved, and how often
          None

Stages == {"Applied", "Viewed", "Shortlisted", "Interview", "Offer",
           "Accepted", "Rejected", "Withdrawn", "Archived"}
InterviewStatus == {"booked", "cancelled", "revived"}

\* A row of interviews; the calendar's have no application.
Row == [app : Applications \cup {None}, organizer : Persons, candidate : Persons,
        slot : Slots, status : InterviewStatus]
\* A booking under way: its slot, and the stage it read.
Booking == [app : Applications, slot : Slots \cup {None},
            step : {"begun", "recruiter", "locked", "checked"},
            read : Stages \cup {None}]

ASSUME ApplicationsAssumption ==
    /\ RecruiterOf \in [Jobs -> Persons]
    /\ Applications \subseteq Jobs \X Persons
    /\ Slots \subseteq {s \in Nat \X Nat : s[1] < s[2]}
    /\ CalendarPairs \subseteq Persons \X Persons
    /\ MaxMoves \in Nat
    /\ None \notin Row \cup Booking \cup Applications \cup Slots \cup Stages \cup {"none"}

VARIABLES
    stage,      \* current_stage, "none" before the candidate applies
    told,       \* the stages its timeline has an entry to
    last,       \* the stage of the entry written last
    interview,
    request,
    moves

applications == <<stage, told, last>>
vars == <<applications, interview, request, moves>>

Recruiter(a) == RecruiterOf[a[1]]
Candidate(a) == a[2]

Init ==
    /\ stage = [a \in Applications |-> "none"]
    /\ told = [a \in Applications |-> {}]
    /\ last = [a \in Applications |-> "none"]
    /\ interview = [i \in Interviews |-> None]
    /\ request = [q \in Requests |-> None]
    /\ moves = 0

-----------------------------------------------------------------------------
(* Moves *)

Record(a, to) ==
    /\ told' = [told EXCEPT ![a] = @ \cup {to}]
    /\ last' = [last EXCEPT ![a] = to]

MoveTo(a, to) ==
    /\ a \in Moving
    /\ moves < MaxMoves
    /\ moves' = moves + 1
    /\ stage' = [stage EXCEPT ![a] = to]
    /\ Record(a, to)
    /\ UNCHANGED <<interview, request>>

\* Whether the job takes applications is left open.
CreateApplication(a) ==
    /\ stage[a] = "none"
    /\ stage' = [stage EXCEPT ![a] = "Applied"]
    /\ Record(a, "Applied")
    /\ UNCHANGED <<interview, request, moves>>

\* ValidateTransition, for a candidate who withdraws.
Withdrawable(s) == s \notin {"none", "Rejected", "Accepted"}

WithdrawApplication(a) == Withdrawable(stage[a]) /\ MoveTo(a, "Withdrawn")
ArchiveApplication(a) == stage[a] # "none" /\ MoveTo(a, "Archived")

\* Mutant: an archived application may be taken up again.
AllowedFromArchive(s) ==
    CASE s \in {"Applied", "Archived"} -> {"Viewed", "Shortlisted", "Interview", "Rejected"}
      [] s = "Viewed" -> {"Shortlisted", "Interview", "Rejected"}
      [] s = "Shortlisted" -> {"Interview", "Offer", "Rejected"}
      [] s = "Interview" -> {"Offer", "Rejected", "Shortlisted"}
      [] s = "Offer" -> {"Accepted", "Rejected"}
      [] OTHER -> {}
Allowed(s) ==
    CASE s = "Applied" -> {"Viewed", "Shortlisted", "Interview", "Rejected"}
      [] s = "Viewed" -> {"Shortlisted", "Interview", "Rejected"}
      [] s = "Shortlisted" -> {"Interview", "Offer", "Rejected"}
      [] s = "Interview" -> {"Offer", "Rejected", "Shortlisted"}
      [] s = "Offer" -> {"Accepted", "Rejected"}
      [] OTHER -> {}

UpdateOwnedApplicationStage(a, to) == to \in Allowed(stage[a]) /\ MoveTo(a, to)

-----------------------------------------------------------------------------
(* ScheduleOwnedInterview *)

Free == {i \in Interviews : interview[i] = None}
Booked == {i \in Interviews : interview[i] # None}
Standing(i) == interview[i] # None /\ interview[i].status # "cancelled"
Overlap(s, t) == s[1] < t[2] /\ t[1] < s[2]
UnderWay == {q \in Requests : request[q] # None}

\* The same instants of the same person: what the two unique indexes refuse.
Duplicates(i, organizer, candidate, slot) ==
    /\ Standing(i)
    /\ interview[i].slot = slot
    /\ interview[i].organizer = organizer \/ interview[i].candidate = candidate

\* The persons whose advisory locks a booking holds, until it ends.
Holds(q) ==
    IF request[q] = None \/ request[q].step = "begun" THEN {}
    ELSE IF request[q].step = "recruiter" THEN {Recruiter(request[q].app)}
    ELSE {Recruiter(request[q].app), Candidate(request[q].app)}

\* The person whose lock it wants next.
Wants(q) ==
    IF request[q] = None THEN {}
    ELSE IF request[q].step = "begun" THEN {Recruiter(request[q].app)}
    ELSE IF request[q].step = "recruiter" THEN {Candidate(request[q].app)}
    ELSE {}

WaitsFor(q, r) == r # q /\ Wants(q) \cap Holds(r) # {}

At(q, step) == request[q] # None /\ request[q].step = step
Step(q, step) ==
    /\ request' = [request EXCEPT ![q].step = step]
    /\ UNCHANGED <<applications, interview, moves>>
Ends(q) == request' = [request EXCEPT ![q] = None]

\* Bound: a row is left for every booking under way.
RowLeft == Cardinality(UnderWay) < Cardinality(Free)

\* The request may name a candidate who has not applied.
BeginBooking(q, a) ==
    /\ request[q] = None
    /\ RowLeft
    /\ request' = [request EXCEPT ![q] =
                     [app |-> a, slot |-> None, step |-> "begun", read |-> None]]
    /\ UNCHANGED <<applications, interview, moves>>

\* Mutant: the candidate's advisory lock is the only one.
LocksNobody(q) == At(q, "begun") /\ Step(q, "recruiter")
LockRecruiter(q) ==
    /\ At(q, "begun")
    /\ \A r \in Requests : ~WaitsFor(q, r)
    /\ Step(q, "recruiter")

LockCandidate(q) ==
    /\ At(q, "recruiter")
    /\ \A r \in Requests : ~WaitsFor(q, r)
    /\ Step(q, "locked")

\* An interview of the recruiter's as organizer, or of the candidate's as
\* candidate, standing in the way.
Conflict(a, slot) ==
    \E i \in Interviews :
        /\ Standing(i)
        /\ interview[i].organizer = Recruiter(a) \/ interview[i].candidate = Candidate(a)
        /\ Overlap(interview[i].slot, slot)

\* Mutant: the conflict is answered and the transaction left open.
CheckConflictLeaks(q, slot) ==
    /\ At(q, "locked")
    /\ stage[request[q].app] # "none" /\ ~Conflict(request[q].app, slot)
    /\ request' = [request EXCEPT ![q].step = "checked",
                                  ![q].slot = slot,
                                  ![q].read = stage[request[q].app]]
    /\ UNCHANGED <<applications, interview, moves>>
\* Here the slot the request asks for first matters.  The stage is read just
\* before the conflicts are: what changes the one changes none of the others.
CheckConflict(q, slot) ==
    /\ At(q, "locked")
    /\ LET a == request[q].app
       IN  IF stage[a] = "none" \/ Conflict(a, slot)
           THEN Ends(q)
           ELSE request' = [request EXCEPT ![q].step = "checked",
                                           ![q].slot = slot,
                                           ![q].read = stage[a]]
    /\ UNCHANGED <<applications, interview, moves>>

\* Mutant: the first interview's entry stands for the later ones.
RecordOnce(a, read) ==
    IF read = "Applied" THEN Record(a, "Interview") ELSE UNCHANGED <<told, last>>
\* By the stage that was read, not by the one that is overwritten.
RecordInterview(a, read) ==
    IF read # "Interview" THEN Record(a, "Interview") ELSE UNCHANGED <<told, last>>

\* The interview, the stage and the entry, or, on a duplicate the calendar made
\* meanwhile, nothing.
CommitBooking(q, i) ==
    /\ At(q, "checked")
    /\ i \in Free
    /\ LET a == request[q].app
           slot == request[q].slot
       IN  IF \E j \in Interviews : Duplicates(j, Recruiter(a), Candidate(a), slot)
           THEN UNCHANGED <<applications, interview>>
           ELSE /\ interview' = [interview EXCEPT ![i] =
                     [app |-> a, organizer |-> Recruiter(a), candidate |-> Candidate(a),
                      slot |-> slot, status |-> "booked"]]
                /\ stage' = [stage EXCEPT ![a] = "Interview"]
                /\ RecordInterview(a, request[q].read)
    /\ Ends(q)
    /\ UNCHANGED moves

\* Rolled back: the request is cancelled, or a statement fails.
BookingFails(q) ==
    /\ request[q] # None
    /\ Ends(q)
    /\ UNCHANGED <<applications, interview, moves>>

\* PostgreSQL aborts one of the transactions that wait for one another.
DeadlockDetected(q) ==
    /\ \E S \in SUBSET Requests :
          q \in S /\ \A r \in S : \E t \in S : WaitsFor(r, t)
    /\ Ends(q)
    /\ UNCHANGED <<applications, interview, moves>>

-----------------------------------------------------------------------------
(* The interviews, once they are there *)

\* The recruiter's; of the calendar's, Cancel is one status among others.
CancelOwnedInterview(i) ==
    /\ Standing(i)
    /\ interview' = [interview EXCEPT ![i].status = "cancelled"]
    /\ UNCHANGED <<applications, request, moves>>

\* The calendar: anyone books anyone, in conflict with whatever is there.
CreateInterview(i, pair, slot) ==
    /\ i \in Free
    /\ RowLeft
    /\ \A j \in Interviews : ~Duplicates(j, pair[1], pair[2], slot)
    /\ interview' = [interview EXCEPT ![i] =
          [app |-> None, organizer |-> pair[1], candidate |-> pair[2],
           slot |-> slot, status |-> "booked"]]
    /\ UNCHANGED <<applications, request, moves>>

\* A cancelled interview may stand again, in conflict with what was booked in
\* its place, unless the indexes refuse it.
UpdateInterviewStatus(i) ==
    LET row == interview[i]
    IN  /\ i \in Booked
        /\ IF Standing(i)
           THEN interview' = [interview EXCEPT ![i].status = "cancelled"]
           ELSE /\ \A j \in Interviews :
                      ~Duplicates(j, row.organizer, row.candidate, row.slot)
                /\ interview' = [interview EXCEPT ![i].status = "revived"]
        /\ UNCHANGED <<applications, request, moves>>

-----------------------------------------------------------------------------
Proceeds(q) ==
    \/ LockRecruiter(q)
    \/ LockCandidate(q)
    \/ \E slot \in Slots : CheckConflict(q, slot)
    \/ \E i \in Interviews : CommitBooking(q, i)

Moves(a) ==
    \/ CreateApplication(a)
    \/ WithdrawApplication(a)
    \/ ArchiveApplication(a)
    \/ \E to \in Stages : UpdateOwnedApplicationStage(a, to)

Books(q) ==
    \/ \E a \in Applications : BeginBooking(q, a)
    \/ Proceeds(q)
    \/ BookingFails(q)
    \/ DeadlockDetected(q)

Rewrites(i) ==
    \/ CancelOwnedInterview(i)
    \/ \E pair \in CalendarPairs, slot \in Slots : CreateInterview(i, pair, slot)
    \/ UpdateInterviewStatus(i)

Next ==
    \/ \E a \in Applications : Moves(a)
    \/ \E q \in Requests : Books(q)
    \/ \E i \in Interviews : Rewrites(i)

Spec == Init /\ [][Next]_vars

\* Transactions run on, PostgreSQL queues those that wait for a lock in the
\* order they came, and breaks deadlocks.
Fairness ==
    /\ \A q \in Requests : SF_vars(Proceeds(q))
    /\ WF_vars(\E q \in Requests : DeadlockDetected(q))

FairSpec == Spec /\ Fairness

-----------------------------------------------------------------------------
(* Types of the rows and of the bookings under way.                        *)
TypeOK ==
    /\ stage \in [Applications -> Stages \cup {"none"}]
    /\ told \in [Applications -> SUBSET Stages]
    /\ last \in [Applications -> Stages \cup {"none"}]
    /\ interview \in [Interviews -> Row \cup {None}]
    /\ request \in [Requests -> Booking \cup {None}]
    /\ moves \in Nat

(* "interview booking conflicts with an existing slot"                     *)
(* (ScheduleOwnedInterview): of the interviews booked for applications,    *)
(* and not brought back by the calendar after they were cancelled, no two  *)
(* overlap that share the recruiter or the candidate, however many are     *)
(* booked at once.                                                         *)
ByPipeline(i) ==
    interview[i] # None /\ interview[i].app # None /\ interview[i].status = "booked"
NoDoubleBooking ==
    \A i, j \in Interviews :
        /\ i # j
        /\ ByPipeline(i)
        /\ ByPipeline(j)
        /\ \/ interview[i].organizer = interview[j].organizer
           \/ interview[i].candidate = interview[j].candidate
        => ~Overlap(interview[i].slot, interview[j].slot)

(* A booking writes the stage whatever it is and the entry by the stage it *)
(* read: the timeline still tells how the application came to its stage,   *)
(* save that an interview it told of before may have come after what it    *)
(* tells last.                                                             *)
StageIsTold ==
    \A a \in Applications :
        stage[a] # last[a] => stage[a] = "Interview" /\ "Interview" \in told[a]

(* No move takes a closed application up again, and nobody's stale read    *)
(* does: only an interview that is booked for it reopens it.               *)
Closed == {"Accepted", "Rejected", "Withdrawn", "Archived"}
BookedFor(a) == {i \in Interviews : interview[i] # None /\ interview[i].app = a}
ReopenedByInterview ==
    [][\A a \in Applications :
         stage[a] \in Closed /\ stage'[a] \notin Closed =>
             stage'[a] = "Interview" /\ BookedFor(a)' # BookedFor(a)]_vars

(* Two bookings that take the locks of the same two persons crosswise wait *)
(* for each other, until one is aborted: every booking ends.               *)
BookingsEnd == \A q \in Requests : request[q] # None ~> request[q] = None

(* What the code does not keep.                                            *)
(*                                                                         *)
(* "Terminal states cannot transition to other states except archiving"    *)
(* (applications/models/applications.go).                                  *)
TerminalStays ==
    [][\A a \in Applications :
         stage[a] \in {"Withdrawn", "Rejected", "Accepted"} =>
             stage'[a] \in {stage[a], "Archived"}]_vars

(* The entry of a timeline written last is the application's stage.        *)
TimelineTellsStage == \A a \in Applications : stage[a] = last[a]

(* Nobody is in two interviews at once, whichever side they are on.        *)
NobodyInTwoPlaces ==
    \A i, j \in Interviews :
        /\ i # j
        /\ ByPipeline(i)
        /\ ByPipeline(j)
        /\ {interview[i].organizer, interview[i].candidate}
             \cap {interview[j].organizer, interview[j].candidate} # {}
        => ~Overlap(interview[i].slot, interview[j].slot)
=============================================================================
