SPECIFICATION FairSpec
CONSTANTS
    p1 = p1
    p2 = p2
    p3 = p3
    Jobs = {"j1", "j2"}
    Persons = {p1, p2, p3}
    RecruiterOf <- PostedBy
    Applications <- ThreeApplications
    Slots <- Overlapping
    CalendarPairs <- OnePair
    Interviews = {i1, i2}
    Requests = {q1, q2}
    Moving <- OneApplication
    MaxMoves = 2
    None = None
INVARIANTS NoDoubleBooking StageIsTold
PROPERTIES ReopenedByInterview BookingsEnd
