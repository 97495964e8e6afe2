SPECIFICATION FairSpec
CONSTANTS
    NumProc = 2
    Pid <- PidUp
    Client = {c1}
    Short = {}
    Late = {}
    BACKLOG = 8
    MaxCrash = 1
PROPERTIES
    HandlersReturn
CHECK_DEADLOCK FALSE
