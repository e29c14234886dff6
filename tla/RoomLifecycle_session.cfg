CONSTANTS
    Proc = {p1, p2}
    NoProc = NoProc
    Sid = {s1, s2}
    NoSid = NoSid
    MaxRow = 2
    Ops = {"create", "end", "livekit"}
    MaxRequests = 4
    MaxExpiries = 0
    MaxCrashes = 0
    MaxFailures = 0
    MaxMisreads = 0
SPECIFICATION FairSpec
PROPERTY ImplementsRoomSession
CHECK_DEADLOCK FALSE
INVARIANT StoresAgree
