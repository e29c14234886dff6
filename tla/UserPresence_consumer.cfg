CONSTANTS
    Server = {v1, v2}
    Leader = v1
    OthersOnline = FALSE
    Task = {t1}
    MaxBehind = 1
    MaxBusy = 1
    MaxStimuli = 3
SPECIFICATION Spec
PROPERTY OnlineKeepsConsumer
CHECK_DEADLOCK FALSE
