SPECIFICATION Spec
CONSTANTS
    NumProc = 2
    Pid <- PidUp
    Client = {c1, c2, c3}
    Short = {}
    Late = {1}
    BACKLOG = 8
    MaxCrash = 0
SYMMETRY ClientSymmetry
INVARIANTS
    TypeOK
    OInv
    StableOnWrite
    WrittenOnce
    ReadyFindsNode
    WrittenInIssueOrder
PROPERTIES
    ImplementsMsgQueue
CHECK_DEADLOCK FALSE
