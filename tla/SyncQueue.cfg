\* Two keys, three writes, a queue of one, two attempts, one crash.
SPECIFICATION FairSpec
CONSTANTS
    Keys = {k1, k2}
    MaxWrites = 3
    QMax = 1
    MaxAttempts = 2
    MaxCrashes = 1
    MaxLost = 1
INVARIANTS
    TypeOK
    Answered
    Recoverable
    RetryBudget
    Inv
PROPERTIES
    EventuallySynced
    ImplementsContract
