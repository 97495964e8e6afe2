SPECIFICATION Spec
CONSTANTS
    s1 = s1
    s2 = s2
    s3 = s3
    s4 = s4
    g1 = g1
    n1 = n1
    Client = {s1, s2, s3, g1}
    Req <- ReqRace
    Mortal = {}
    Large = {s2}
    NumFd = 3
    ConnThread = {t1, t2}
    HashThread = {h1, h2}
    Junk = Junk
    NoOne = NoOne
    MaxCrash = 1
SYMMETRY ThreadSymmetry
INVARIANTS
    TypeOK
    AnswersOwnClient
    MapMatchesLog
    StoredSurvives
    FreshRead
    KInv
PROPERTIES
    ImplementsStore
CHECK_DEADLOCK FALSE
