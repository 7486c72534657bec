SPECIFICATION Spec
CONSTANTS
    Ids = {i1, i2, i3}
    Objs = {s1, s2, s3}
    Callers = {c1}
    MaxSessions = 2
    None = None
INVARIANTS
    TypeOK
    CapacityBound
    FarewellMeansGone
PROPERTIES
    NoSilentDisplacement
    CleanupSparesLivePty
    DeadShellFarewell
CHECK_DEADLOCK FALSE
