SPECIFICATION FairSpec
CONSTANTS
    s1 = s1
    s2 = s2
    s3 = s3
    s4 = s4
    g1 = g1
    n1 = n1
    Client = {s1, s2, s4, g1, n1}
    Req <- ReqStuck
    Mortal = {g1}
    Large = {}
    NumFd = 3
    ConnThread = {t1, t2}
    HashThread = {h1}
    Junk = Junk
    NoOne = NoOne
    MaxCrash = 0
INVARIANTS
    AnswersOwnClient
    KInv
PROPERTIES
    AllServed
CHECK_DEADLOCK FALSE
