CONSTANTS
    Server = {v1, v2}
    Handler = {h1}
    None = None
    Added = {"id", "metadata"}
    MaxBucket = 2
    MaxUpdates = 1
    MaxEntry = 2
    Sids = {s1, s2}
    PollIds = {p1}
    MaxBusy = 2
    MaxVotes = 3
SPECIFICATION DataSpec
SYMMETRY Symmetry
CHECK_DEADLOCK FALSE
INVARIANTS
    TypesOK
    CopyIsWatched
    ClosedOnce
    NoWatcherLeaks
    NotifiersOwnWorkers
    VotesAreCounted
PROPERTY NeverBackwards
