------------------------- MODULE ApplicationsProofs -------------------------
(***************************************************************************)
(* What bookings keep true for any number of persons, jobs, slots and      *)
(* bookings at a time: two that are past their locks share no person, so   *)
(* the conflicts one has looked for stay looked for until it commits.      *)
(***************************************************************************)
EXTENDS Applications, TLAPS

-----------------------------------------------------------------------------
(* Types                                                                   *)

\* A booking that looked for conflicts did so for a slot.
CheckedHasSlot ==
    \A q \in Requests : At(q, "checked") => request[q].slot \in Slots

Typed == TypeOK /\ CheckedHasSlot

LEMMA NoneIsNoRow ==
    None \notin Row /\ None \notin Booking /\ None \notin Applications /\ None \notin Slots
BY ApplicationsAssumption

LEMMA PersonsTyped ==
    ASSUME NEW a \in Applications PROVE Recruiter(a) \in Persons /\ Candidate(a) \in Persons
BY ApplicationsAssumption DEF Recruiter, Candidate

LEMMA BookingTyped ==
    ASSUME TypeOK, NEW q \in Requests, request[q] # None
    PROVE  /\ request[q] \in Booking
           /\ request[q].app \in Applications
           /\ request[q].slot \in Slots \cup {None}
           /\ request[q].read \in Stages \cup {None}
<1>1. request[q] \in Booking
  BY DEF TypeOK
<1> QED BY <1>1 DEF Booking

LEMMA RowTyped ==
    ASSUME TypeOK, NEW i \in Interviews, interview[i] # None
    PROVE  /\ interview[i] \in Row
           /\ interview[i].app \in Applications \cup {None}
           /\ interview[i].slot \in Slots
           /\ interview[i].organizer \in Persons
           /\ interview[i].candidate \in Persons
<1>1. interview[i] \in Row
  BY DEF TypeOK
<1> QED BY <1>1 DEF Row

LEMMA AllowedTyped == ASSUME NEW s PROVE Allowed(s) \subseteq Stages
BY DEF Allowed, Stages

\* A move is of one application, to a stage, and leaves the rest alone.
LEMMA MovesOne ==
    ASSUME TypeOK, NEW a \in Applications, Moves(a)
    PROVE  \E to \in Stages :
              /\ stage' = [stage EXCEPT ![a] = to]
              /\ Record(a, to)
              /\ UNCHANGED <<interview, request>>
              /\ moves' \in Nat
              /\ stage[a] \in Closed => to \in Closed
<1> USE DEF TypeOK
<1>1. CASE CreateApplication(a)
  BY <1>1 DEF CreateApplication, Stages, Closed
<1>2. CASE WithdrawApplication(a)
  BY <1>2 DEF WithdrawApplication, MoveTo, Stages, Closed
<1>3. CASE ArchiveApplication(a)
  BY <1>3 DEF ArchiveApplication, MoveTo, Stages, Closed
<1>4. ASSUME NEW to \in Stages, UpdateOwnedApplicationStage(a, to)
      PROVE  /\ stage' = [stage EXCEPT ![a] = to]
             /\ Record(a, to)
             /\ UNCHANGED <<interview, request>>
             /\ moves' \in Nat
             /\ stage[a] \notin Closed
  <2>1. stage[a] \in Closed => Allowed(stage[a]) = {}
    BY DEF Closed, Allowed
  <2> QED BY <1>4, <2>1 DEF UpdateOwnedApplicationStage, MoveTo
<1> QED BY <1>1, <1>2, <1>3, <1>4 DEF Moves

\* A booking under way takes its next step.
LEMMA StepTyped ==
    ASSUME TypeOK, NEW q \in Requests, request[q] # None,
           NEW s \in {"begun", "recruiter", "locked", "checked"},
           NEW slot \in Slots \cup {None}, NEW read \in Stages \cup {None}
    PROVE  /\ [request EXCEPT ![q].step = s] \in [Requests -> Booking \cup {None}]
           /\ [request EXCEPT ![q].step = s, ![q].slot = slot, ![q].read = read]
                \in [Requests -> Booking \cup {None}]
<1>1. request[q] \in Booking
  BY BookingTyped
<1>2. /\ [request[q] EXCEPT !.step = s] \in Booking
      /\ [request[q] EXCEPT !.step = s, !.slot = slot, !.read = read] \in Booking
  BY <1>1 DEF Booking
<1>3. request \in [Requests -> Booking \cup {None}]
  BY DEF TypeOK
<1> QED BY <1>2, <1>3

\* One interview changes status.
LEMMA StatusTyped ==
    ASSUME TypeOK, NEW i \in Interviews, interview[i] # None, NEW s \in InterviewStatus
    PROVE  [interview EXCEPT ![i].status = s] \in [Interviews -> Row \cup {None}]
<1>1. interview[i] \in Row
  BY RowTyped
<1>2. [interview[i] EXCEPT !.status = s] \in Row
  BY <1>1 DEF Row
<1>3. interview \in [Interviews -> Row \cup {None}]
  BY DEF TypeOK
<1> QED BY <1>2, <1>3

\* What a booking that ends leaves of the requests.
LEMMA EndsTyped ==
    ASSUME Typed, NEW q \in Requests, Ends(q)
    PROVE  /\ request' \in [Requests -> Booking \cup {None}]
           /\ CheckedHasSlot'
BY DEF Typed, TypeOK, CheckedHasSlot, Ends, At

LEMMA TypedInit == Init => Typed
BY DEF Init, Typed, TypeOK, CheckedHasSlot, At

LEMMA TypedStep == ASSUME Typed, [Next]_vars PROVE Typed'
<1> USE DEF Typed
<1>1. ASSUME NEW a \in Applications, Moves(a) PROVE Typed'
  <2>1. PICK to \in Stages :
          /\ stage' = [stage EXCEPT ![a] = to]
          /\ Record(a, to)
          /\ UNCHANGED <<interview, request>>
          /\ moves' \in Nat
    BY <1>1, MovesOne
  <2> QED BY <2>1 DEF TypeOK, CheckedHasSlot, At, Record
<1>2. ASSUME NEW q \in Requests, NEW a \in Applications, BeginBooking(q, a) PROVE Typed'
  <2>1. [app |-> a, slot |-> None, step |-> "begun", read |-> None] \in Booking
    BY DEF Booking
  <2> QED BY <1>2, <2>1 DEF BeginBooking, TypeOK, CheckedHasSlot, At, applications
<1>3. ASSUME NEW q \in Requests, LockRecruiter(q) \/ LockCandidate(q) PROVE Typed'
  <2>1. PICK s \in {"recruiter", "locked"} : request[q] # None /\ Step(q, s)
    BY <1>3 DEF LockRecruiter, LockCandidate, At
  <2>2. request' \in [Requests -> Booking \cup {None}]
    BY <2>1, StepTyped, BookingTyped DEF Step
  <2>3. CheckedHasSlot'
    BY <2>1, NoneIsNoRow DEF Step, CheckedHasSlot, At, TypeOK
  <2> QED BY <2>1, <2>2, <2>3 DEF Step, TypeOK, applications
<1>4. ASSUME NEW q \in Requests, NEW slot \in Slots, CheckConflict(q, slot) PROVE Typed'
  <2>1. CASE Ends(q)
    BY <1>4, <2>1, EndsTyped DEF CheckConflict, TypeOK, applications
  <2>2. CASE /\ stage[request[q].app] # "none"
             /\ request' = [request EXCEPT ![q].step = "checked", ![q].slot = slot,
                                           ![q].read = stage[request[q].app]]
    <3>1. request[q] # None /\ stage[request[q].app] \in Stages
      BY <1>4, <2>2, BookingTyped DEF CheckConflict, At, TypeOK
    <3>2. request' \in [Requests -> Booking \cup {None}]
      BY <2>2, <3>1, StepTyped
    <3>3. CheckedHasSlot'
      BY <2>2, <3>1 DEF CheckedHasSlot, At, TypeOK
    <3> QED BY <1>4, <3>2, <3>3 DEF CheckConflict, TypeOK, applications
  <2> QED BY <1>4, <2>1, <2>2 DEF CheckConflict
<1>5. ASSUME NEW q \in Requests, NEW i \in Interviews, CommitBooking(q, i) PROVE Typed'
  <2> DEFINE a == request[q].app
             row == [app |-> a, organizer |-> Recruiter(a), candidate |-> Candidate(a),
                     slot |-> request[q].slot, status |-> "booked"]
  <2>1. a \in Applications /\ request[q].slot \in Slots
    BY <1>5, BookingTyped DEF CommitBooking, At, CheckedHasSlot
  <2>2. row \in Row
    BY <2>1, PersonsTyped DEF Row, InterviewStatus
  <2>3. CASE UNCHANGED <<applications, interview>>
    BY <1>5, <2>3, EndsTyped DEF CommitBooking, TypeOK, applications
  <2>4. CASE /\ interview' = [interview EXCEPT ![i] = row]
             /\ stage' = [stage EXCEPT ![a] = "Interview"]
             /\ RecordInterview(a, request[q].read)
    BY <1>5, <2>1, <2>2, <2>4, EndsTyped
       DEF CommitBooking, TypeOK, RecordInterview, Record, Stages
  <2> QED BY <1>5, <2>3, <2>4 DEF CommitBooking
<1>6. ASSUME NEW q \in Requests, BookingFails(q) \/ DeadlockDetected(q) PROVE Typed'
  BY <1>6, EndsTyped DEF BookingFails, DeadlockDetected, TypeOK, applications
<1>7. ASSUME NEW i \in Interviews, CancelOwnedInterview(i) PROVE Typed'
  BY <1>7, StatusTyped
     DEF CancelOwnedInterview, Standing, TypeOK, CheckedHasSlot, At, applications, InterviewStatus
<1>8. ASSUME NEW i \in Interviews, NEW pair \in CalendarPairs, NEW slot \in Slots,
             CreateInterview(i, pair, slot)
      PROVE  Typed'
  <2>1. pair[1] \in Persons /\ pair[2] \in Persons
    BY ApplicationsAssumption
  <2>2. [app |-> None, organizer |-> pair[1], candidate |-> pair[2],
         slot |-> slot, status |-> "booked"] \in Row
    BY <2>1 DEF Row, InterviewStatus
  <2> QED BY <1>8, <2>2 DEF CreateInterview, TypeOK, CheckedHasSlot, At, applications
<1>9. ASSUME NEW i \in Interviews, UpdateInterviewStatus(i) PROVE Typed'
  <2>1. PICK s \in InterviewStatus :
          interview[i] # None /\ interview' = [interview EXCEPT ![i].status = s]
    BY <1>9 DEF UpdateInterviewStatus, Booked, InterviewStatus
  <2> QED BY <1>9, <2>1, StatusTyped
          DEF UpdateInterviewStatus, TypeOK, CheckedHasSlot, At, applications
<1>10. CASE UNCHANGED vars
  BY <1>10 DEF vars, applications, TypeOK, CheckedHasSlot, At
<1> QED BY <1>1, <1>2, <1>3, <1>4, <1>5, <1>6, <1>7, <1>8, <1>9, <1>10
        DEF Next, Books, Proceeds, Rewrites

(* The rows of applications, timelines, interviews and bookings have their *)
(* types.                                                                  *)
THEOREM TypeCorrect == Spec => []TypeOK
<1>1. Init => Typed
  BY TypedInit
<1>2. Typed /\ [Next]_vars => Typed'
  BY TypedStep
<1>3. Typed => TypeOK
  BY DEF Typed
<1> QED BY <1>1, <1>2, <1>3, PTL DEF Spec

-----------------------------------------------------------------------------
(* Bookings and their locks                                                *)

\* What no two bookings hold at once.
LocksApart ==
    \A q, r \in Requests : q # r => Holds(q) \cap Holds(r) = {}

\* An interview booked for an application is its recruiter's and candidate's.
RowsOfApplications ==
    \A i \in Interviews :
        interview[i] # None /\ interview[i].app # None =>
            /\ interview[i].organizer = Recruiter(interview[i].app)
            /\ interview[i].candidate = Candidate(interview[i].app)

Shares(i, a) ==
    interview[i].organizer = Recruiter(a) \/ interview[i].candidate = Candidate(a)

\* No interview booked for an application came in the way of one that has
\* looked for conflicts and has not committed yet.
CheckedIsClear ==
    \A q \in Requests, i \in Interviews :
        /\ At(q, "checked")
        /\ ByPipeline(i)
        /\ Shares(i, request[q].app)
        => ~Overlap(interview[i].slot, request[q].slot)

LEMMA OverlapSymmetric ==
    ASSUME NEW s \in Slots, NEW t \in Slots, Overlap(s, t) PROVE Overlap(t, s)
BY ApplicationsAssumption DEF Overlap

LEMMA LocksOfChecked ==
    ASSUME NEW q \in Requests, At(q, "checked") \/ At(q, "locked")
    PROVE  Holds(q) = {Recruiter(request[q].app), Candidate(request[q].app)}
BY DEF At, Holds

\* A step of one booking, which leaves the others and what they hold alone.
LEMMA OthersHold ==
    ASSUME TypeOK, LocksApart, NEW q \in Requests,
           request' \in [Requests -> Booking \cup {None}],
           \A r \in Requests : r # q => request'[r] = request[r],
           \A r \in Requests : r # q => Holds(q)' \cap Holds(r) = {}
    PROVE  LocksApart'
<1>1. \A r \in Requests : r # q => Holds(r)' = Holds(r)
  BY DEF Holds, Recruiter, Candidate
<1> QED BY <1>1 DEF LocksApart

\* A booking takes a lock nobody else holds.
LEMMA LockKeepsApart ==
    ASSUME TypeOK, LocksApart, NEW q \in Requests, LockRecruiter(q) \/ LockCandidate(q)
    PROVE  LocksApart'
<1>1. PICK s \in {"recruiter", "locked"} : request' = [request EXCEPT ![q].step = s]
  BY DEF LockRecruiter, LockCandidate, Step
<1>2. request[q] # None /\ request[q] \in Booking
  BY BookingTyped DEF LockRecruiter, LockCandidate, At
<1>3. Holds(q)' \subseteq Holds(q) \cup Wants(q)
  <2>0. request'[q] = [request[q] EXCEPT !.step = s]
    BY <1>1 DEF TypeOK
  <2>1. request'[q] = [request[q] EXCEPT !.step = s] /\ request'[q] # None
    <3>1. [request[q] EXCEPT !.step = s] \in Booking
      BY <1>2 DEF Booking
    <3> QED BY <2>0, <3>1, NoneIsNoRow
  <2>2. request'[q].app = request[q].app
    BY <1>2, <2>1 DEF Booking
  <2>3. CASE LockRecruiter(q)
    <3>1. request'[q].step = "recruiter"
      BY <1>2, <2>3 DEF LockRecruiter, Step, Booking, TypeOK
    <3> QED BY <1>2, <2>1, <2>2, <2>3, <3>1 DEF LockRecruiter, At, Holds, Wants, Recruiter
  <2>4. CASE LockCandidate(q)
    <3>1. request'[q].step = "locked"
      BY <1>2, <2>4 DEF LockCandidate, Step, Booking, TypeOK
    <3> QED BY <1>2, <2>1, <2>2, <2>4, <3>1
            DEF LockCandidate, At, Holds, Wants, Recruiter, Candidate
  <2> QED BY <2>3, <2>4
<1>4. \A r \in Requests : r # q => Wants(q) \cap Holds(r) = {}
  BY DEF LockRecruiter, LockCandidate, WaitsFor
<1>5. \A r \in Requests : r # q => Holds(q)' \cap Holds(r) = {}
  BY <1>3, <1>4 DEF LocksApart
<1>6. request' \in [Requests -> Booking \cup {None}]
  BY <1>1, <1>2, StepTyped, BookingTyped
<1>7. \A r \in Requests : r # q => request'[r] = request[r]
  BY <1>1 DEF TypeOK
<1> QED BY <1>5, <1>6, <1>7, OthersHold

LEMMA LocksStep ==
    ASSUME Typed, LocksApart, [Next]_vars PROVE LocksApart'
<1> USE DEF Typed
<1>1. Typed'
  BY TypedStep
<1>2. CASE UNCHANGED request
  <2>1. \A q \in Requests : Holds(q)' = Holds(q)
    BY <1>2 DEF Holds, Recruiter, Candidate
  <2> QED BY <2>1 DEF LocksApart
<1>3. ASSUME NEW q \in Requests, Ends(q) PROVE LocksApart'
  <2>1. Holds(q)' = {}
    BY <1>3 DEF Ends, Holds, TypeOK
  <2>2. \A r \in Requests : r # q => request'[r] = request[r]
    BY <1>3 DEF Ends, TypeOK
  <2> QED BY <1>1, <2>1, <2>2, OthersHold DEF TypeOK
<1>4. ASSUME NEW q \in Requests, NEW a \in Applications, BeginBooking(q, a)
      PROVE  LocksApart'
  <2>1. Holds(q)' = {}
    BY <1>4 DEF BeginBooking, Holds, TypeOK
  <2>2. \A r \in Requests : r # q => request'[r] = request[r]
    BY <1>4 DEF BeginBooking, TypeOK
  <2> QED BY <1>1, <2>1, <2>2, OthersHold DEF TypeOK
<1>5. ASSUME NEW q \in Requests, LockRecruiter(q) \/ LockCandidate(q) PROVE LocksApart'
  BY <1>5, LockKeepsApart
<1>6. ASSUME NEW q \in Requests, NEW slot \in Slots, CheckConflict(q, slot), ~Ends(q)
      PROVE  LocksApart'
  <2>1. request' = [request EXCEPT ![q].step = "checked", ![q].slot = slot,
                                   ![q].read = stage[request[q].app]]
    BY <1>6 DEF CheckConflict
  <2>2. request[q] # None /\ request[q] \in Booking /\ At(q, "locked")
    BY <1>6, BookingTyped DEF CheckConflict, At
  <2>3. /\ request'[q] \in Booking
        /\ request'[q].step = "checked"
        /\ request'[q].app = request[q].app
    <3>1. request'[q] = [request[q] EXCEPT !.step = "checked", !.slot = slot,
                                           !.read = stage[request[q].app]]
      BY <2>1 DEF TypeOK
    <3>2. stage[request[q].app] \in Stages
      BY <1>6, <2>2, BookingTyped DEF CheckConflict, TypeOK
    <3> QED BY <2>2, <3>1, <3>2 DEF Booking
  <2>4. Holds(q)' = Holds(q)
    BY <2>2, <2>3, NoneIsNoRow DEF At, Holds, Recruiter, Candidate
  <2>5. \A r \in Requests : r # q => request'[r] = request[r]
    BY <2>1 DEF TypeOK
  <2>6. \A r \in Requests : r # q => Holds(q)' \cap Holds(r) = {}
    BY <2>4 DEF LocksApart
  <2> QED BY <1>1, <2>5, <2>6, OthersHold DEF TypeOK
<1>7. \/ UNCHANGED request
      \/ \E q \in Requests : Ends(q)
      \/ \E q \in Requests, a \in Applications : BeginBooking(q, a)
      \/ \E q \in Requests : LockRecruiter(q) \/ LockCandidate(q)
      \/ \E q \in Requests, slot \in Slots : CheckConflict(q, slot)
  <2>1. ASSUME NEW a \in Applications, Moves(a) PROVE UNCHANGED request
    BY <2>1, MovesOne
  <2>2. ASSUME NEW i \in Interviews, Rewrites(i) PROVE UNCHANGED request
    BY <2>2 DEF Rewrites, CancelOwnedInterview, CreateInterview, UpdateInterviewStatus
  <2> QED BY <2>1, <2>2
          DEF Next, Books, Proceeds, CommitBooking, BookingFails, DeadlockDetected, vars
<1> QED BY <1>2, <1>3, <1>4, <1>5, <1>6, <1>7

-----------------------------------------------------------------------------
(* Interviews that do not overlap                                          *)

BookingInv == Typed /\ LocksApart /\ RowsOfApplications /\ CheckedIsClear /\ NoDoubleBooking

\* The interviews change by a booking or the calendar's, or in status alone.
RowsKept ==
    \A i \in Interviews :
        ByPipeline(i)' => ByPipeline(i) /\ interview'[i] = interview[i]

\* The bookings past their check are those that were.
ChecksKept ==
    \A q \in Requests : At(q, "checked")' => At(q, "checked") /\ request'[q] = request[q]

LEMMA RowsKeptIsEnough ==
    ASSUME RowsKept, ChecksKept, CheckedIsClear, NoDoubleBooking
    PROVE  CheckedIsClear' /\ NoDoubleBooking'
<1>1. CheckedIsClear'
  BY DEF RowsKept, ChecksKept, CheckedIsClear, Shares, Recruiter, Candidate
<1>2. NoDoubleBooking'
  BY DEF RowsKept, NoDoubleBooking
<1> QED BY <1>1, <1>2

LEMMA EndsKeepsChecks == ASSUME TypeOK, NEW q \in Requests, Ends(q) PROVE ChecksKept
BY DEF Ends, ChecksKept, At, TypeOK

LEMMA SameRows == ASSUME UNCHANGED interview PROVE RowsKept
BY DEF RowsKept, ByPipeline

LEMMA SameRequests == ASSUME UNCHANGED request PROVE ChecksKept
BY DEF ChecksKept, At

\* A check that finds no conflict finds none with the interviews in question.
LEMMA CheckClears ==
    ASSUME BookingInv, NEW q \in Requests, NEW slot \in Slots, CheckConflict(q, slot)
    PROVE  CheckedIsClear' /\ NoDoubleBooking'
<1> USE DEF BookingInv, Typed
<1>1. RowsKept
  BY SameRows DEF CheckConflict
<1>2. CASE Ends(q)
  BY <1>1, <1>2, EndsKeepsChecks, RowsKeptIsEnough
<1>3. CASE /\ ~Conflict(request[q].app, slot)
           /\ request' = [request EXCEPT ![q].step = "checked", ![q].slot = slot,
                                         ![q].read = stage[request[q].app]]
  <2>1. \A r \in Requests : r # q => request'[r] = request[r]
    BY <1>3 DEF TypeOK
  <2>2. request[q] \in Booking
    BY <1>3, BookingTyped DEF CheckConflict, At
  <2>3. request'[q].app = request[q].app /\ request'[q].slot = slot
    BY <1>3, <2>2 DEF TypeOK, Booking
  <2>4. ASSUME NEW i \in Interviews, ByPipeline(i), Shares(i, request[q].app)
        PROVE  ~Overlap(interview[i].slot, slot)
    BY <1>3, <2>4 DEF Conflict, ByPipeline, Standing, Shares
  <2>5. UNCHANGED interview
    BY DEF CheckConflict
  <2>6. ASSUME NEW r \in Requests, NEW i \in Interviews,
               At(r, "checked")', ByPipeline(i)', Shares(i, request[r].app)'
        PROVE  ~Overlap(interview'[i].slot, request'[r].slot)
    <3>1. ByPipeline(i) /\ interview'[i] = interview[i]
      BY <2>5, <2>6 DEF ByPipeline
    <3>2. CASE r = q
      BY <2>3, <2>4, <2>6, <3>1, <3>2 DEF Shares, Recruiter, Candidate
    <3>3. CASE r # q
      BY <2>1, <2>6, <3>1, <3>3 DEF Shares, Recruiter, Candidate, At, CheckedIsClear
    <3> QED BY <3>2, <3>3
  <2>7. CheckedIsClear'
    BY <2>6 DEF CheckedIsClear
  <2>8. NoDoubleBooking'
    BY <1>1 DEF RowsKept, NoDoubleBooking
  <2> QED BY <2>7, <2>8
<1> QED BY <1>2, <1>3 DEF CheckConflict

\* The interview a booking inserts overlaps none it shares a person with, and
\* its persons are no other booking's that is past its locks.
LEMMA CommitIsClear ==
    ASSUME BookingInv, NEW q \in Requests, NEW i \in Interviews, CommitBooking(q, i)
    PROVE  RowsOfApplications' /\ CheckedIsClear' /\ NoDoubleBooking'
<1> USE DEF BookingInv, Typed
<1> DEFINE a == request[q].app
           slot == request[q].slot
           row == [app |-> a, organizer |-> Recruiter(a), candidate |-> Candidate(a),
                   slot |-> slot, status |-> "booked"]
<1>1. a \in Applications /\ slot \in Slots /\ At(q, "checked")
  BY BookingTyped DEF CommitBooking, At, CheckedHasSlot
<1>2. ChecksKept
  BY EndsKeepsChecks DEF CommitBooking
<1>3. CASE UNCHANGED interview
  <2>1. RowsOfApplications'
    BY <1>3 DEF RowsOfApplications, Recruiter, Candidate
  <2> QED BY <1>2, <1>3, <2>1, SameRows, RowsKeptIsEnough
<1>4. CASE interview' = [interview EXCEPT ![i] = row]
  <2>1. interview'[i] = row
    BY <1>4 DEF TypeOK
  <2>2. \A j \in Interviews : j # i => interview'[j] = interview[j]
    BY <1>4 DEF TypeOK
  <2> HIDE DEF row
  <2>3. /\ row.app = a
        /\ row.organizer = Recruiter(a)
        /\ row.candidate = Candidate(a)
        /\ row.slot = slot
    BY DEF row
  <2>4. RowsOfApplications'
    <3>1. ASSUME NEW j \in Interviews, interview'[j] # None, interview'[j].app # None
          PROVE  /\ interview'[j].organizer = Recruiter(interview'[j].app)
                 /\ interview'[j].candidate = Candidate(interview'[j].app)
      <4>1. CASE j = i
        BY <2>1, <2>3, <4>1
      <4>2. CASE j # i
        BY <2>2, <3>1, <4>2 DEF RowsOfApplications
      <4> QED BY <4>1, <4>2
    <3> QED BY <3>1 DEF RowsOfApplications, Recruiter, Candidate
  <2>5. ASSUME NEW j \in Interviews, j # i, ByPipeline(j)',
               \/ interview'[j].organizer = row.organizer
               \/ interview'[j].candidate = row.candidate
        PROVE  ~Overlap(interview'[j].slot, slot) /\ ~Overlap(slot, interview'[j].slot)
    <3>1. ByPipeline(j) /\ interview'[j] = interview[j]
      BY <2>2, <2>5 DEF ByPipeline
    <3>2. Shares(j, a)
      BY <2>3, <2>5, <3>1 DEF Shares
    <3>3. ~Overlap(interview[j].slot, slot)
      BY <1>1, <3>1, <3>2 DEF CheckedIsClear
    <3>4. interview[j].slot \in Slots
      BY <3>1, RowTyped DEF ByPipeline
    <3> QED BY <1>1, <3>1, <3>3, <3>4, OverlapSymmetric
  <2>6. NoDoubleBooking'
    <3>1. ASSUME NEW j \in Interviews, NEW k \in Interviews, j # k,
                 ByPipeline(j)', ByPipeline(k)',
                 \/ interview'[j].organizer = interview'[k].organizer
                 \/ interview'[j].candidate = interview'[k].candidate
          PROVE  ~Overlap(interview'[j].slot, interview'[k].slot)
      <4>1. CASE j = i
        BY <2>1, <2>3, <2>5, <3>1, <4>1
      <4>2. CASE k = i
        BY <2>1, <2>3, <2>5, <3>1, <4>2
      <4>3. CASE j # i /\ k # i
        BY <2>2, <3>1, <4>3 DEF NoDoubleBooking, ByPipeline
      <4> QED BY <4>1, <4>2, <4>3
    <3> QED BY <3>1 DEF NoDoubleBooking
  <2>7. CheckedIsClear'
    <3>1. ASSUME NEW r \in Requests, NEW j \in Interviews,
                 At(r, "checked")', ByPipeline(j)', Shares(j, request[r].app)'
          PROVE  ~Overlap(interview'[j].slot, request'[r].slot)
      <4>1. At(r, "checked") /\ request'[r] = request[r]
        BY <1>2, <3>1 DEF ChecksKept
      <4>2. r # q
        BY <3>1 DEF CommitBooking, Ends, At, TypeOK
      <4>3. CASE j = i
        <5>1. Recruiter(a) = Recruiter(request[r].app) \/ Candidate(a) = Candidate(request[r].app)
          BY <2>1, <2>3, <3>1, <4>1, <4>3 DEF Shares, Recruiter, Candidate
        <5>2. Holds(q) \cap Holds(r) # {}
          BY <1>1, <4>1, <5>1, LocksOfChecked
        <5> QED BY <4>2, <5>2 DEF LocksApart
      <4>4. CASE j # i
        <5>1. ByPipeline(j) /\ interview'[j] = interview[j]
          BY <2>2, <3>1, <4>4 DEF ByPipeline
        <5> QED BY <3>1, <4>1, <5>1 DEF Shares, Recruiter, Candidate, CheckedIsClear
      <4> QED BY <4>3, <4>4
    <3> QED BY <3>1 DEF CheckedIsClear
  <2> QED BY <2>4, <2>6, <2>7
<1> QED BY <1>3, <1>4 DEF CommitBooking

\* The calendar's writes: no row of it is the pipeline's, nor becomes it.
LEMMA CalendarKeepsRows ==
    ASSUME Typed, RowsOfApplications, NEW i \in Interviews, Rewrites(i)
    PROVE  RowsOfApplications' /\ RowsKept /\ ChecksKept
<1> USE DEF Typed
<1>1. ChecksKept
  BY SameRequests DEF Rewrites, CancelOwnedInterview, CreateInterview, UpdateInterviewStatus
<1>2. ASSUME NEW pair \in CalendarPairs, NEW slot \in Slots, CreateInterview(i, pair, slot)
      PROVE  RowsOfApplications' /\ RowsKept
  <2>1. interview'[i].app = None
    BY <1>2 DEF CreateInterview, TypeOK
  <2>2. \A j \in Interviews : j # i => interview'[j] = interview[j]
    BY <1>2 DEF CreateInterview, TypeOK
  <2>3. RowsOfApplications'
    BY <2>1, <2>2 DEF RowsOfApplications, Recruiter, Candidate
  <2>4. RowsKept
    BY <2>1, <2>2 DEF RowsKept, ByPipeline
  <2> QED BY <2>3, <2>4
<1>3. ASSUME NEW s \in {"cancelled", "revived"}, interview[i] # None,
             interview' = [interview EXCEPT ![i].status = s]
      PROVE  RowsOfApplications' /\ RowsKept
  <2>1. interview[i] \in Row
    BY <1>3, RowTyped
  <2>2. /\ interview'[i].app = interview[i].app
        /\ interview'[i].organizer = interview[i].organizer
        /\ interview'[i].candidate = interview[i].candidate
        /\ interview'[i].status = s
    BY <1>3, <2>1 DEF TypeOK, Row
  <2>3. \A j \in Interviews : j # i => interview'[j] = interview[j]
    BY <1>3 DEF TypeOK
  <2>4. RowsOfApplications'
    BY <1>3, <2>2, <2>3 DEF RowsOfApplications, Recruiter, Candidate
  <2>5. RowsKept
    BY <2>2, <2>3 DEF RowsKept, ByPipeline
  <2> QED BY <2>4, <2>5
<1>4. CASE CancelOwnedInterview(i)
  BY <1>1, <1>3, <1>4 DEF CancelOwnedInterview, Standing
<1>5. CASE UpdateInterviewStatus(i)
  BY <1>1, <1>3, <1>5 DEF UpdateInterviewStatus, Booked
<1> QED BY <1>1, <1>2, <1>4, <1>5 DEF Rewrites

LEMMA BookingStep == ASSUME BookingInv, [Next]_vars PROVE BookingInv'
<1> USE DEF BookingInv
<1>1. Typed' /\ LocksApart'
  BY TypedStep, LocksStep
<1>2. ASSUME UNCHANGED interview PROVE RowsOfApplications'
  BY <1>2 DEF RowsOfApplications, Recruiter, Candidate
<1>3. ASSUME NEW a \in Applications, Moves(a) PROVE BookingInv'
  <2>1. UNCHANGED interview /\ UNCHANGED request
    BY <1>3, MovesOne DEF Typed
  <2> QED BY <1>1, <1>2, <2>1, SameRows, SameRequests, RowsKeptIsEnough
<1>4. ASSUME NEW q \in Requests, NEW a \in Applications, BeginBooking(q, a) PROVE BookingInv'
  <2>1. UNCHANGED interview
    BY <1>4 DEF BeginBooking
  <2>2. ChecksKept
    BY <1>4 DEF BeginBooking, ChecksKept, At, Typed, TypeOK
  <2> QED BY <1>1, <1>2, <2>1, <2>2, SameRows, RowsKeptIsEnough
<1>5. ASSUME NEW q \in Requests, LockRecruiter(q) \/ LockCandidate(q) PROVE BookingInv'
  <2>1. UNCHANGED interview
    BY <1>5 DEF LockRecruiter, LockCandidate, Step
  <2>2. PICK s \in {"recruiter", "locked"} :
          request[q] # None /\ request' = [request EXCEPT ![q].step = s]
    BY <1>5 DEF LockRecruiter, LockCandidate, Step, At
  <2>3. request[q] \in Booking
    BY <2>2, BookingTyped DEF Typed
  <2>4. ChecksKept
    BY <2>2, <2>3 DEF ChecksKept, At, Typed, TypeOK, Booking
  <2> QED BY <1>1, <1>2, <2>1, <2>4, SameRows, RowsKeptIsEnough
<1>6. ASSUME NEW q \in Requests, NEW slot \in Slots, CheckConflict(q, slot) PROVE BookingInv'
  <2>1. UNCHANGED interview
    BY <1>6 DEF CheckConflict
  <2> QED BY <1>1, <1>2, <1>6, <2>1, CheckClears
<1>7. ASSUME NEW q \in Requests, NEW i \in Interviews, CommitBooking(q, i) PROVE BookingInv'
  BY <1>1, <1>7, CommitIsClear
<1>8. ASSUME NEW q \in Requests, BookingFails(q) \/ DeadlockDetected(q) PROVE BookingInv'
  <2>1. UNCHANGED interview /\ Ends(q)
    BY <1>8 DEF BookingFails, DeadlockDetected
  <2> QED BY <1>1, <1>2, <2>1, SameRows, EndsKeepsChecks, RowsKeptIsEnough DEF Typed
<1>9. ASSUME NEW i \in Interviews, Rewrites(i) PROVE BookingInv'
  BY <1>1, <1>9, CalendarKeepsRows, RowsKeptIsEnough
<1>10. CASE UNCHANGED vars
  <2>1. UNCHANGED interview /\ UNCHANGED request
    BY <1>10 DEF vars
  <2> QED BY <1>1, <1>2, <2>1, SameRows, SameRequests, RowsKeptIsEnough
<1> QED BY <1>3, <1>4, <1>5, <1>6, <1>7, <1>8, <1>9, <1>10 DEF Next, Books, Proceeds

LEMMA BookingInit == Init => BookingInv
<1> SUFFICES ASSUME Init PROVE BookingInv
  OBVIOUS
<1>1. Typed
  BY TypedInit
<1>2. \A q \in Requests : request[q] = None /\ Holds(q) = {}
  BY DEF Init, Holds
<1>3. \A i \in Interviews : interview[i] = None
  BY DEF Init
<1> QED BY <1>1, <1>2, <1>3
        DEF BookingInv, LocksApart, RowsOfApplications, CheckedIsClear, NoDoubleBooking,
            At, ByPipeline

(* Of the interviews booked for applications no two overlap that share the *)
(* recruiter or the candidate, however many bookings run at once and       *)
(* whatever the calendar does beside them.                                 *)
THEOREM NobodyIsDoubleBooked == Spec => []NoDoubleBooking
<1>1. Init => BookingInv
  BY BookingInit
<1>2. BookingInv /\ [Next]_vars => BookingInv'
  BY BookingStep
<1>3. BookingInv => NoDoubleBooking
  BY DEF BookingInv
<1> QED BY <1>1, <1>2, <1>3, PTL DEF Spec

-----------------------------------------------------------------------------
(* Stages and timelines                                                    *)

\* The newest entry is one of the entries, and what a booking read was told.
TimelineInv ==
    /\ Typed
    /\ StageIsTold
    /\ \A a \in Applications :
          /\ last[a] # "none" => last[a] \in told[a]
          /\ stage[a] = "none" => last[a] = "none"
    /\ \A q \in Requests :
          At(q, "checked") =>
              /\ request[q].read \in Stages
              /\ request[q].read = "Interview" => "Interview" \in told[request[q].app]

LEMMA TimelineStep == ASSUME TimelineInv, [Next]_vars PROVE TimelineInv'
<1> USE DEF TimelineInv
<1>1. Typed'
  BY TypedStep
<1>2. ASSUME UNCHANGED applications, ChecksKept PROVE TimelineInv'
  BY <1>1, <1>2 DEF applications, ChecksKept, StageIsTold
<1>3. ASSUME NEW a \in Applications, Moves(a) PROVE TimelineInv'
  <2>1. PICK to \in Stages :
          /\ stage' = [stage EXCEPT ![a] = to]
          /\ Record(a, to)
          /\ UNCHANGED request
    BY <1>3, MovesOne DEF Typed
  <2>2. \A b \in Applications : told[b] \subseteq told'[b]
    BY <2>1 DEF Record, Typed, TypeOK
  <2>3. \A q \in Requests : At(q, "checked") => request[q].app \in Applications
    BY BookingTyped DEF At, Typed
  <2>4. StageIsTold' /\ \A b \in Applications :
                            /\ last'[b] # "none" => last'[b] \in told'[b]
                            /\ stage'[b] = "none" => last'[b] = "none"
    BY <2>1 DEF Record, StageIsTold, Typed, TypeOK, Stages
  <2> QED BY <1>1, <2>1, <2>2, <2>3, <2>4 DEF At
<1>4. ASSUME NEW q \in Requests, NEW a \in Applications, BeginBooking(q, a)
      PROVE  TimelineInv'
  BY <1>2, <1>4 DEF BeginBooking, ChecksKept, At, Typed, TypeOK
<1>5. ASSUME NEW q \in Requests, LockRecruiter(q) \/ LockCandidate(q) PROVE TimelineInv'
  <2>1. PICK s \in {"recruiter", "locked"} :
          request[q] # None /\ request' = [request EXCEPT ![q].step = s]
    BY <1>5 DEF LockRecruiter, LockCandidate, Step, At
  <2>2. request[q] \in Booking
    BY <2>1, BookingTyped DEF Typed
  <2>3. ChecksKept
    BY <2>1, <2>2 DEF ChecksKept, At, Typed, TypeOK, Booking
  <2> QED BY <1>2, <1>5, <2>3 DEF LockRecruiter, LockCandidate, Step
<1>6. ASSUME NEW q \in Requests, NEW slot \in Slots, CheckConflict(q, slot) PROVE TimelineInv'
  <2>1. CASE Ends(q)
    BY <1>2, <1>6, <2>1, EndsKeepsChecks DEF CheckConflict, Typed
  <2>2. CASE /\ stage[request[q].app] # "none"
             /\ request' = [request EXCEPT ![q].step = "checked", ![q].slot = slot,
                                           ![q].read = stage[request[q].app]]
    <3> DEFINE a == request[q].app
    <3>1. request[q] \in Booking /\ a \in Applications
      BY <1>6, BookingTyped DEF CheckConflict, At, Typed
    <3>2. request'[q].app = a /\ request'[q].read = stage[a]
      BY <2>2, <3>1 DEF Typed, TypeOK, Booking
    <3>3. \A r \in Requests : r # q => request'[r] = request[r]
      BY <2>2 DEF Typed, TypeOK
    <3>4. stage[a] \in Stages
      BY <2>2, <3>1 DEF Typed, TypeOK
    <3>5. stage[a] = "Interview" => "Interview" \in told[a]
      BY <3>1 DEF StageIsTold
    <3>6. UNCHANGED applications
      BY <1>6 DEF CheckConflict
    <3>7. ASSUME NEW r \in Requests, At(r, "checked")'
          PROVE  /\ request'[r].read \in Stages
                 /\ request'[r].read = "Interview" => "Interview" \in told'[request'[r].app]
      <4>1. CASE r = q
        BY <3>2, <3>4, <3>5, <3>6, <4>1 DEF applications
      <4>2. CASE r # q
        BY <3>3, <3>6, <3>7, <4>2 DEF applications, At
      <4> QED BY <4>1, <4>2
    <3> QED BY <1>1, <3>6, <3>7 DEF applications, StageIsTold
  <2> QED BY <1>6, <2>1, <2>2 DEF CheckConflict
<1>7. ASSUME NEW q \in Requests, NEW i \in Interviews, CommitBooking(q, i) PROVE TimelineInv'
  <2> DEFINE a == request[q].app
  <2>1. ChecksKept
    BY <1>7, EndsKeepsChecks DEF CommitBooking, Typed
  <2>2. a \in Applications /\ At(q, "checked")
    BY <1>7, BookingTyped DEF CommitBooking, At, Typed
  <2>3. CASE UNCHANGED applications
    BY <1>2, <2>1, <2>3
  <2>4. CASE /\ stage' = [stage EXCEPT ![a] = "Interview"]
             /\ RecordInterview(a, request[q].read)
    <3>1. "Interview" \in told'[a]
      BY <2>2, <2>4 DEF RecordInterview, Record, Typed, TypeOK
    <3>2. \A b \in Applications : told[b] \subseteq told'[b]
      BY <2>4 DEF RecordInterview, Record, Typed, TypeOK
    <3>3. \A b \in Applications :
            /\ b # a => stage'[b] = stage[b] /\ last'[b] = last[b] /\ told'[b] = told[b]
            /\ b = a => stage'[b] = "Interview" /\ last'[b] \in {last[b], "Interview"}
      BY <2>4 DEF RecordInterview, Record, Typed, TypeOK
    <3>4. \A b \in Applications :
            /\ last'[b] # "none" => last'[b] \in told'[b]
            /\ stage'[b] = "none" => last'[b] = "none"
            /\ stage'[b] # last'[b] => stage'[b] = "Interview" /\ "Interview" \in told'[b]
      BY <3>1, <3>2, <3>3 DEF StageIsTold
    <3>5. \A r \in Requests : At(r, "checked") => request[r].app \in Applications
      BY BookingTyped DEF At, Typed
    <3> QED BY <1>1, <2>1, <3>2, <3>4, <3>5 DEF ChecksKept, StageIsTold
  <2> QED BY <1>7, <2>3, <2>4 DEF CommitBooking
<1>8. ASSUME NEW q \in Requests, BookingFails(q) \/ DeadlockDetected(q) PROVE TimelineInv'
  BY <1>2, <1>8, EndsKeepsChecks DEF BookingFails, DeadlockDetected, Typed
<1>9. ASSUME NEW i \in Interviews, Rewrites(i) PROVE TimelineInv'
  BY <1>2, <1>9, SameRequests
     DEF Rewrites, CancelOwnedInterview, CreateInterview, UpdateInterviewStatus
<1>10. CASE UNCHANGED vars
  BY <1>2, <1>10, SameRequests DEF vars
<1> QED BY <1>3, <1>4, <1>5, <1>6, <1>7, <1>8, <1>9, <1>10 DEF Next, Books, Proceeds

(* The timeline tells how an application came to its stage, save for an    *)
(* interview it told of before, however old the stage was that a booking   *)
(* read.                                                                   *)
THEOREM TimelineIsTold == Spec => []StageIsTold
<1>1. Init => TimelineInv
  BY TypedInit DEF Init, TimelineInv, StageIsTold, At
<1>2. TimelineInv /\ [Next]_vars => TimelineInv'
  BY TimelineStep
<1>3. TimelineInv => StageIsTold
  BY DEF TimelineInv
<1> QED BY <1>1, <1>2, <1>3, PTL DEF Spec

LEMMA ReopeningStep ==
    ASSUME Typed, [Next]_vars, NEW a \in Applications, stage[a] \in Closed, stage'[a] \notin Closed
    PROVE  stage'[a] = "Interview" /\ BookedFor(a)' # BookedFor(a)
<1>1. stage'[a] # stage[a]
  OBVIOUS
<1>2. ASSUME NEW b \in Applications, Moves(b) PROVE FALSE
  <2>1. PICK to \in Stages :
          stage' = [stage EXCEPT ![b] = to] /\ (stage[b] \in Closed => to \in Closed)
    BY <1>2, MovesOne DEF Typed
  <2> QED BY <1>1, <2>1 DEF Typed, TypeOK
<1>3. PICK q \in Requests, i \in Interviews : CommitBooking(q, i)
  BY <1>1, <1>2
     DEF Next, Books, Proceeds, Rewrites, vars, applications, BeginBooking, LockRecruiter,
         LockCandidate, Step, CheckConflict, BookingFails, DeadlockDetected,
         CancelOwnedInterview, CreateInterview, UpdateInterviewStatus
<1>4. stage' = [stage EXCEPT ![request[q].app] = "Interview"]
  BY <1>1, <1>3 DEF CommitBooking, applications
<1>5. request[q].app = a /\ stage'[a] = "Interview"
  BY <1>1, <1>4 DEF Typed, TypeOK
<1>6. /\ interview[i] = None
      /\ interview'[i].app = a
      /\ interview'[i] # None
  <2>1. At(q, "checked") /\ interview[i] = None
    BY <1>3 DEF CommitBooking, Free
  <2>2. request[q].slot \in Slots
    BY <2>1 DEF Typed, CheckedHasSlot
  <2>3. interview'[i] = [app |-> a, organizer |-> Recruiter(a), candidate |-> Candidate(a),
                         slot |-> request[q].slot, status |-> "booked"]
    BY <1>1, <1>3, <1>5 DEF CommitBooking, applications, Typed, TypeOK
  <2>4. interview'[i] \in Row
    BY <2>2, <2>3, PersonsTyped DEF Row, InterviewStatus
  <2> QED BY <2>1, <2>3, <2>4, NoneIsNoRow
<1>7. i \in BookedFor(a)' /\ i \notin BookedFor(a)
  BY <1>6 DEF BookedFor
<1> QED BY <1>5, <1>7

(* A closed application is taken up again by an interview booked for it,   *)
(* and by nothing else.                                                    *)
THEOREM OnlyInterviewsReopen == Spec => ReopenedByInterview
<1>1. Init => Typed
  BY TypedInit
<1>2. Typed /\ [Next]_vars => Typed'
  BY TypedStep
<1>3. Typed /\ [Next]_vars =>
        [\A a \in Applications :
           stage[a] \in Closed /\ stage'[a] \notin Closed =>
               stage'[a] = "Interview" /\ BookedFor(a)' # BookedFor(a)]_vars
  BY ReopeningStep
<1> QED BY <1>1, <1>2, <1>3, PTL DEF Spec, ReopenedByInterview

-----------------------------------------------------------------------------
(* Circles of bookings.  The locks go by person, the order in which they   *)
(* are taken by role.                                                      *)

\* Bookings each of which waits for another of them, for ever.
Circle(S) == S # {} /\ \A q \in S : \E r \in S : WaitsFor(q, r)

\* Some of them hold a lock already, and each that does waits for a candidate
\* who recruits for another of them.
CrossesRoles(S) ==
    /\ \E q \in S : Holds(q) # {}
    /\ \A q \in S : Holds(q) # {} =>
          \E r \in S :
              /\ r # q
              /\ Holds(q) = {Recruiter(request[q].app)}
              /\ Holds(r) = {Recruiter(request[r].app)}
              /\ Candidate(request[q].app) = Recruiter(request[r].app)

LEMMA WhoWaitsAndHolds ==
    ASSUME TypeOK, NEW q \in Requests, Wants(q) # {}, Holds(q) # {}
    PROVE  /\ Wants(q) = {Candidate(request[q].app)}
           /\ Holds(q) = {Recruiter(request[q].app)}
<1>1. request[q] # None
  BY DEF Wants
<1> QED BY <1>1, BookingTyped DEF Wants, Holds

(* Bookings block one another for good across the roles only: whoever in   *)
(* the circle holds a lock holds its recruiter's and waits for a candidate *)
(* who is the recruiter of another of them.  Bookings of which no          *)
(* candidate recruits for another never do.                                *)
THEOREM CirclesCrossRoles ==
    Spec => [](\A S \in SUBSET Requests : Circle(S) => CrossesRoles(S))
<1>1. TypeOK => \A S \in SUBSET Requests : Circle(S) => CrossesRoles(S)
  <2> SUFFICES ASSUME TypeOK, NEW S \in SUBSET Requests, Circle(S)
               PROVE  CrossesRoles(S)
    OBVIOUS
  <2>1. \E q \in S : Holds(q) # {}
    BY DEF Circle, WaitsFor
  <2>2. ASSUME NEW q \in S, Holds(q) # {}
        PROVE  \E r \in S : /\ r # q
                            /\ Holds(q) = {Recruiter(request[q].app)}
                            /\ Holds(r) = {Recruiter(request[r].app)}
                            /\ Candidate(request[q].app) = Recruiter(request[r].app)
    <3>1. PICK r \in S : WaitsFor(q, r)
      BY DEF Circle
    <3>2. Wants(q) # {} /\ Holds(r) # {} /\ r # q /\ Wants(q) \cap Holds(r) # {}
      BY <3>1 DEF WaitsFor
    <3>3. Wants(r) # {}
      BY DEF Circle, WaitsFor
    <3>4. /\ Wants(q) = {Candidate(request[q].app)} /\ Holds(q) = {Recruiter(request[q].app)}
          /\ Holds(r) = {Recruiter(request[r].app)}
      BY <2>2, <3>2, <3>3, WhoWaitsAndHolds
    <3> QED BY <3>2, <3>4
  <2> QED BY <2>1, <2>2 DEF CrossesRoles
<1> QED BY <1>1, TypeCorrect, PTL
=============================================================================
