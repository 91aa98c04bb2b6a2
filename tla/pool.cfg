SPECIFICATION Spec
CONSTANTS
    MinSize = 1
    MaxArg = 2
    Getters = {g1, g2, g3}
    Closers = {g1, g2}
    MaxConns = 4
SYMMETRY Alike
INVARIANTS
    TypeOK
    SizeIsExact
    SizeBounded
    OwnedOnce
    ReleaseNeverBlocks
CHECK_DEADLOCK FALSE
