SPECIFICATION Spec
CONSTANTS
    MaxTotal = 4
    MaxSprint = 3
    MinSprint = 3
    MaxRounds = 3
    MaxCost = 3
    MaxFailures = 2
    MaxDivergence = 20
    RequireDesign = TRUE
    CallCost = 1
    MaxRuns = 2
INVARIANTS
    TypeOK
    CompletionIsEarned
    BudgetHolds
    ReportMatchesStatus
PROPERTIES
    RunIsBounded
    RunsDown
    RunEnds
