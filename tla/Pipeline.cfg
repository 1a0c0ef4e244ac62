SPECIFICATION Spec
CONSTANTS
    Clients = {c1}
    Capacity = 1
    MaxHistory = 2
    MaxAge = 1
    MaxRuns = 2
    MaxFaults = 1
    Uploads <- MCUploads
    Calls <- MCCalls
    Products = {"upload", "empty"}
    Empty = "empty"
INVARIANT TypeOK
INVARIANT TagsTellOrigin
INVARIANT EventsTellTruth
INVARIANT LossExplained
PROPERTY LeftQueuesGo
\* All calls may have returned and nobody may listen.
CHECK_DEADLOCK FALSE
