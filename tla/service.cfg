SPECIFICATION Spec
CONSTANTS
    w1 = w1
    w2 = w2
    m1 = m1
    m2 = m2
    Workers = {w1, w2}
    Known = {m1}
    Methods = {m1, m2}
    Middlewares <- MCMiddlewares
    MaxRequests = 3
    MaxReports = 1
    Times = {1}
    None = None
INVARIANTS
    MeanIsRight
    ReportIsSettled
PROPERTIES
    ErrorsAreCounted
    WorkersReturn
CHECK_DEADLOCK FALSE
