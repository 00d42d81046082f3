SPECIFICATION Spec
CONSTANTS
    e1 = e1
    e2 = e2
    p1 = p1
    t1 = t1
    t2 = t2
    NoProject = NoProject
    NoEmail = NoEmail
    Emails <- MCEmails
    Projects <- MCProjects
    Threads <- MCThreads
    MaxAttempts = 1
    RateMax = 1
    VerifyMax = 1
    Window = 0
    CodeTTL = 1
    LinkTTL = 1
    MaxChallenges = 2
    MaxTime = 1
SYMMETRY RequestsAndOwners
INVARIANTS
    TypeOK
    SingleUse
    SpentMeansSignedIn
    LinkWasAsked
