SPECIFICATION Spec
CONSTANTS
    NumProc = 3
    Pid <- PidUp
    Self = 1
    Issued <- Messages
    Splits <- Cuts
    Junk <- Numbers
    Addr = {a1, a2, a3}
    NULL = NULL
SYMMETRY AddrSymmetry
INVARIANTS
    TypeOK
    ListIntact
    NodesAsIssued
    AcksCountOwn
    AckedIsFound
    NInv
PROPERTIES
    ImplementsMsgQueue
CHECK_DEADLOCK FALSE
