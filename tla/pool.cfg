SPECIFICATION FairSpec
CONSTANTS
    Thread = {t1, t2, t3}
    MaxItem = 5
INVARIANTS
    TypeOK
    NoLostWakeup
    StartedInOrder
    ExclusiveItem
PROPERTIES
    AllStarted
    ImplementsPool
