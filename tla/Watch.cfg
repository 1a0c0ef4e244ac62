SPECIFICATION Spec
CONSTANTS
    Files = {f1, f2}
    Contents = {c1, c2}
    None = None
    MaxWatches = 1
    MaxLoops = 2
    MaxChanges = 2
    MaxFailures = 2
INVARIANT TypeOK
INVARIANT DetectedIsCarried
INVARIANT OneLoopPerWatch
PROPERTY ReplayTakesItsEntry
PROPERTY DetectedIsSettled
PROPERTY ThreadComesBack
\* A replay that holds the lock across its await can stop the event loop.
CHECK_DEADLOCK FALSE
