CONSTANTS
    Proc = {p1, p2}
    NoProc = NoProc
    Sid = {s1}
    NoSid = NoSid
    MaxRow = 2
    Ops = {"create", "janitor"}
    MaxRequests = 2
    MaxExpiries = 0
    MaxCrashes = 0
    MaxFailures = 0
    MaxMisreads = 0
SPECIFICATION Spec
PROPERTY JanitorSparesCreation
CHECK_DEADLOCK FALSE
