SPECIFICATION Spec
CONSTANTS
    p1 = p1
    p2 = p2
    f1 = f1
    Payouts = {p1, p2}
    Freelancers = {f1}
    PayeeOf <- OnePayee
    Replicas = {r1, r2}
    Batch = 1
    MaxBatches = 2
    MaxAttempts = 2
    Mishaps = {"crash", "lost"}
    MaxMishaps = 1
    MaxRetries = 1
CHECK_DEADLOCK FALSE
SYMMETRY IdSymmetry
INVARIANTS
    TypeOK
    PaidMeansTransferred
    OneSenderPerPayout
    AttemptsSpent
