SPECIFICATION Spec
CONSTANTS
    o1 = o1
    report = report
    advisor = advisor
    s1 = s1
    s2 = s2
    t1 = t1
    t2 = t2
    Loop = Loop
    NoSession = NoSession
    Owners <- MCOwners
    OneTime <- MCOneTime
    Recurring <- MCRecurring
    Sessions <- MCSessions
    OwnerOf <- MCOwnerOf
    ProductOf <- MCTwoSubscriptions
    Pool <- MCPool
    MaxFailures = 0
PROPERTY LedgerKeepsOrders
