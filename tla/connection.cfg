SPECIFICATION Spec
CONSTANTS
    Width = 12
    HEAD_MAX_LEN = 2
    BODY_MAX_LEN = 2
    QueueSize = 2
    Senders = {g1, g2}
    MaxSends = 3
    Nil = Nil
    Peer <- MCPeer
INVARIANTS
    FirstInFirstOut
    WholePackages
PROPERTIES
    CleanupEnds
CHECK_DEADLOCK FALSE
