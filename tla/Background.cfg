CONSTANTS
    Host = {v1, v2}
    User = {u1}
    Sids = {s1, s2}
    Key = {polls, chat}
    None = None
    AudioQueue = 2
    ResultsSize = 2
    MinCommit = 2
    MaxFinals = 1
    MaxMishaps = 1
    MaxTracks = 2
    MaxRuns = 2
    MaxRequests = 3
    MaxAgents = 2
    MaxFaults = 1
    MaxWorkers = 2
    MaxTexts = 3
    TextQueue = 1
SPECIFICATION Spec
CHECK_DEADLOCK FALSE
INVARIANTS
    TypesOK
    StreamKeepsOrder
    RunIsReachable
    AgentsAreReachable
    AgentsAreOwned
    NoEventTwice
PROPERTIES
    ImplementsAudioTask
    ExportSparesOpenSession
    EndsInTheEnd
