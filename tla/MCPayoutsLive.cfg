SPECIFICATION FairSpec
CONSTANTS
    p1 = p1
    p2 = p2
    f1 = f1
    Payouts = {p1}
    Freelancers = {f1}
    PayeeOf <- OnePayee
    Replicas = {r1, r2}
    Batch = 1
    MaxBatches = 2
    MaxAttempts = 2
    Mishaps = {"crash", "lost", "slow"}
    MaxMishaps = 1
    MaxRetries = 0
CHECK_DEADLOCK FALSE
INVARIANT AttemptsBounded
PROPERTIES OwedIsSettled PaidIsFinal
