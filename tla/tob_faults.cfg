SPECIFICATION Spec
CONSTANTS
    NumProc = 3
    Pid <- PidWrapped
    Client = {c1, c2}
    Short = {c1}
    Late = {2}
    BACKLOG = 1
    MaxCrash = 1
INVARIANTS
    IInv
    OInv
    AckFindsNode
CHECK_DEADLOCK FALSE
