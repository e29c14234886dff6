CONSTANTS
    Server = {v1, v2}
    Handler = {h1}
    None = None
    Added = {"id", "status"}
    MaxBucket = 1
    MaxUpdates = 1
    MaxEntry = 2
SPECIFICATION Spec
INVARIANT EndedNotServed
CHECK_DEADLOCK FALSE
