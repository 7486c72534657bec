SPECIFICATION Spec
CONSTANTS
    Sids = {x}
    Objs = {s1, s2}
    Conns = {c1, c2}
    MaxSessions = 1
    MaxKeys = 2
    QueueCap = 1
    None = None
PROPERTIES
    RecoveredTakesInput
CHECK_DEADLOCK FALSE
