SPECIFICATION SessionSpec
CONSTANTS
    MaxSeq = 2
    MaxReplies = 2
    Nodes = {n1}
    Workers = {w1, w2}
    Abandons = TRUE
    None = None
INVARIANTS
    OneDeliverer
    ActiveCountsSessions
    WaiterIsServed
    MapEntryIsOwned
PROPERTIES
    WorkersComeBack
    KeepsPromise
CHECK_DEADLOCK FALSE
