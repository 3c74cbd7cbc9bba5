SPECIFICATION FairAlertsSpec
CONSTANTS
    Notifications = {n1, n2}
    Channels = {"email", "push"}
    Wired = {"email"}
    Workers = {w1}
    Batch = 1
    MaxAttempts = 1
    Mishaps = {"crash"}
    MaxMishaps = 1
    Alerts = {a1}
    Jobs = {j1}
    Sweepers = {s1, s2}
    MaxJobsPerAlert = 1
    AlertChannels <- ByEmailAndPush
    MaxLapses = 1
    None = None
CHECK_DEADLOCK FALSE
INVARIANTS NotifiedOnce MatchesLostToLapses
PROPERTY MatchIsDelivered
