SPECIFICATION FairSpec
CONSTANTS
    NumProc = 2
    Pid <- PidUp
    Client = {c1}
    Short = {c1}
    Late = {}
    BACKLOG = 8
    MaxCrash = 0
PROPERTIES
    BroadcastArrives
CHECK_DEADLOCK FALSE
