SPECIFICATION Spec
CONSTANTS
    Width = 12
    HEAD_MAX_LEN = 2
    BODY_MAX_LEN = 2
    Peer <- MCPeer
    QueueSize = 2
    Senders = {g1}
    MaxSends = 1
    Nil = Nil
INVARIANTS
    NoPanic
CHECK_DEADLOCK FALSE
