SPECIFICATION Spec
CONSTANTS
    Sids = {x, y}
    Objs = {s1, s2}
    Conns = {c1, c2}
    MaxSessions = 1
    MaxKeys = 2
    QueueCap = 1
    None = None
PROPERTIES
    ReportedSpawnHasSession
CHECK_DEADLOCK FALSE
