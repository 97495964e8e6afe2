SPECIFICATION Spec
CONSTANTS
    s1 = s1
    s2 = s2
    s3 = s3
    s4 = s4
    g1 = g1
    n1 = n1
    Client = {s1, g1}
    Req <- ReqRestored
    Mortal = {}
    Large = {}
    NumFd = 2
    ConnThread = {t1}
    HashThread = {h1}
    Junk = Junk
    NoOne = NoOne
    MaxCrash = 1
INVARIANTS
    LastValueRetained
CHECK_DEADLOCK FALSE
