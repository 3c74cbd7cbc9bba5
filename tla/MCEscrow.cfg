SPECIFICATION Spec
CONSTANTS
    Milestones = {m1, m2}
    Intents = {i1, i2}
    Disputes = {d1}
    Total = 2
    Amounts = {1, 2}
    MaxDeliveries = 2
    ProjectWrites = {"active", "cancelled"}
    Faults = {"abandon", "lost", "mispaid"}
    None = None
SYMMETRY IdSymmetry
CHECK_DEADLOCK FALSE
INVARIANTS
    TypeOK
    MoneyMatchesMilestone
    CapturedMoneyHasAHome
    ChargedOncePerMilestone
    ScheduleWithinTotal
    CompletedMeansSettled
    DisputeFreezesContract
    SubmittedIsDelivered
PROPERTY FrozenWhileDisputed
