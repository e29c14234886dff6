CONSTANTS
    Proc = {p1, p2}
    NoProc = NoProc
    Sid = {s1, s2}
    NoSid = NoSid
    MaxRow = 2
    Ops = {"create", "end", "livekit", "janitor"}
    MaxRequests = 3
    MaxExpiries = 0
    MaxCrashes = 1
    MaxFailures = 1
    MaxMisreads = 1
SPECIFICATION Spec
SYMMETRY AllSymmetry
INVARIANTS
    TypeOK
    LockProtects
    CleanupTargetsItsSession
    AnswerIsLive
    AtMostOneRunningRow
    SessionTakesItsCourse
CHECK_DEADLOCK FALSE
