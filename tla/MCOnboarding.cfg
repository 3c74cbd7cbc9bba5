SPECIFICATION Spec
CONSTANTS
    Accounts = {a1}
    Requests = {r1, r2, r3}
INVARIANT TypeOK
PROPERTY SuspensionHolds
