SPECIFICATION Spec
CONSTANTS
    Pooled = {g1, g2}
    Http = {h1}
    Services = {s1, s2}
    Addrs = {a1}
    QueueSize = 1
    MaxRequests = 2
    None = None
INVARIANTS
    OneForAll
PROPERTIES
    RequestsEnd
    AnswersArrive
CHECK_DEADLOCK FALSE
