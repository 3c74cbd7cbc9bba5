SPECIFICATION FairSpec
CONSTANTS
    Notifications = {n1, n2}
    Channels = {"email"}
    Wired = {"email"}
    Workers = {w1, w2}
    Batch = 2
    MaxAttempts = 2
    Mishaps = {"crash", "unrecorded", "slow"}
    MaxMishaps = 1
CHECK_DEADLOCK FALSE
INVARIANT TypeOK
PROPERTIES ImplementsDelivery DeliverySettles
