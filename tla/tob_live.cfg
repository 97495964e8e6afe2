SPECIFICATION FairSpec
CONSTANTS
    NumProc = 2
    Pid <- PidUp
    Client = {c1, c2, c3}
    Short = {c3}
    Late = {0, 1}
    BACKLOG = 0
    MaxCrash = 1
PROPERTIES
    OnlySilenceBlocks
    LeastIsDelivered
CHECK_DEADLOCK FALSE
