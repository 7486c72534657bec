SPECIFICATION Spec
CONSTANTS
    Sids = {x}
    Objs = {s1, s2}
    Conns = {c1, c2}
    MaxSessions = 1
    MaxKeys = 2
    QueueCap = 1
    None = None
INVARIANTS
    TypeOK
    KeysInOrder
PROPERTIES
    KeysLeaveSession
    LiveShellsListed
CHECK_DEADLOCK FALSE
