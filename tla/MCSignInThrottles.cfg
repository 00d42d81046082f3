SPECIFICATION Spec
CONSTANTS
    e1 = e1
    e2 = e2
    p1 = p1
    t1 = t1
    t2 = t2
    NoProject = NoProject
    NoEmail = NoEmail
    Emails <- MCOneEmail
    Projects <- MCNoProjects
    Threads <- MCThreads
    MaxAttempts = 2
    RateMax = 1
    VerifyMax = 3
    Window = 1
    CodeTTL = 1
    LinkTTL = 2
    MaxChallenges = 3
    MaxTime = 2
SYMMETRY Requests
INVARIANTS
    AttemptsBounded
    GuessesBounded
    MintingBounded
