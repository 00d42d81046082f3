SPECIFICATION Spec
CONSTANTS
    Answers <- MCAnswers
    Starts <- MCStarts
    Clicks <- UndoneClicks
    MaxAnswers = 2
    MaxCalls = 2
    MaxFailures = 1
    MaxReports = 1
CHECK_DEADLOCK FALSE
INVARIANT
    StepsStayDone
