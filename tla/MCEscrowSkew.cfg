SPECIFICATION Spec
CONSTANTS
    Milestones = {m1, m2}
    Intents = {i1, i2}
    Disputes = {d1}
    Total = 2
    Amounts = {1}
    MaxDeliveries = 1
    ProjectWrites = {}
    Faults = {}
    None = None
CHECK_DEADLOCK FALSE
INVARIANT FullyReleasedCompletes
