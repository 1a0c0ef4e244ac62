SPECIFICATION Spec
CONSTANTS
    Clients = {c1}
    Capacity = 1
    MaxHistory = 2
    MaxAge = 1
    MaxRuns = 2
    MaxFaults = 1
    Uploads <- MCUploads
    Calls <- MCCalls
    Products = {"upload", "empty", "page"}
    Empty = "empty"
INVARIANT IndexFollowsText
CHECK_DEADLOCK FALSE
