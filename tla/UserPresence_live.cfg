CONSTANTS
    Server = {v1, v2}
    Leader = v1
    OthersOnline = FALSE
    Task = {t1}
    MaxBehind = 1
    MaxBusy = 2
    MaxStimuli = 3
SPECIFICATION FairSpec
INVARIANT PresenceTypeOK
PROPERTIES
    ConnectedStaysOnline
    GoneIsNotOnline
    TasksEnd
CHECK_DEADLOCK FALSE
