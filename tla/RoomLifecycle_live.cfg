CONSTANTS
    Proc = {p1, p2}
    NoProc = NoProc
    Sid = {s1, s2}
    NoSid = NoSid
    MaxRow = 2
    Ops = {"create", "end", "janitor"}
    MaxRequests = 2
    MaxExpiries = 0
    MaxCrashes = 1
    MaxFailures = 1
    MaxMisreads = 1
SPECIFICATION FairSpec
PROPERTIES
    LockIsFreed
    OrphanRowReconciled
CHECK_DEADLOCK FALSE
