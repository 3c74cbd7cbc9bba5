SPECIFICATION Spec
CONSTANTS
    Notifications = {n1}
    Channels = {"email"}
    Wired = {"email"}
    Workers = {w1, w2, w3}
    Batch = 1
    MaxAttempts = 3
    Mishaps = {"crash", "unrecorded", "slow"}
    MaxMishaps = 4
CHECK_DEADLOCK FALSE
SYMMETRY WorkerSymmetry
INVARIANTS OneSender TriesBounded
