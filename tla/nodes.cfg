SPECIFICATION NodeManagerSpec
CONSTANTS
    Callers = {c1, c2}
    None = None
    MaxRev = 3
    MaxClientFaults = 2
INVARIANTS
    OneWatcher
PROPERTIES
    FallsBackOnce
CHECK_DEADLOCK FALSE
