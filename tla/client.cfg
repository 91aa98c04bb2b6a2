SPECIFICATION Spec
CONSTANTS
    n1 = n1
    n2 = n2
    MaxSeq = 2
    MaxReplies = 1
    Nodes = {n1, n2}
    Workers = {w1}
    Abandons = FALSE
    Callers = {c1}
    Lists <- OneList
    Policies = {"ACTIVE", "RANDOM"}
    Hashes = {0}
    Weight <- Equal
    MaxActive = 2
    Period = 2
    None = None
PROPERTIES
    FewestSessions
CHECK_DEADLOCK FALSE
