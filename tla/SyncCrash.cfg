SPECIFICATION FairSpec
CONSTANTS
    Keys = {k1, k2}
    MaxWrites = 3
    QMax = 1
    MaxAttempts = 2
    MaxCrashes = 1
    MaxLost = 0
INVARIANT CrashLosesNothing
