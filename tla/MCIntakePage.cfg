SPECIFICATION Spec
CONSTANTS
    Answers <- MCAnswers
    Starts <- MCStarts
    Clicks <- MCClicks
    MaxAnswers = 2
    MaxCalls = 2
    MaxFailures = 1
    MaxReports = 1
CHECK_DEADLOCK FALSE
INVARIANTS
    TypeOK
    WordKept
    PlanAgrees
PROPERTIES
    OnlyOwnWords
    CompletingHelps
