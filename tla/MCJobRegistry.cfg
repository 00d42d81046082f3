SPECIFICATION Spec
CONSTANTS
    g1 = g1
    p1 = p1
    Jobs = {g1, p1}
    KindOf <- MCKindOf
    NeedsApproval = {p1}
    c1 = c1
    c2 = c2
    Callers = {c1, c2}
    Retries = 1
    MaxCalls = 2
    MaxDeaths = 1
    MaxRuns = 2
    NoOne = NoOne
INVARIANTS TypeOK OnlyApprovedRun SuccessIsReal RegistryTells StatusIsLastRuns FailureIsReal ApprovalKept
CHECK_DEADLOCK FALSE
SYMMETRY Symmetry
