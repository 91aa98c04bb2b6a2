SPECIFICATION LiveSpec
CONSTANTS
    Callers = {c1, c2}
    Configs <- SmallConfigs
    MaxDelay = 1
    MaxAge = 4
    MaxCount = 4
    None = None
INVARIANTS
    TypeOK
    StraysBounded
PROPERTIES
    StaysLongEnough
    NeverStuck
