SPECIFICATION Spec
CONSTANTS
    NumProc = 2
    Pid <- PidUp
    Client = {c1, c2}
    Short = {}
    Late = {}
    BACKLOG = 8
    MaxCrash = 0
INVARIANTS
    TotalOrder
CHECK_DEADLOCK FALSE
