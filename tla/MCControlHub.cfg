SPECIFICATION Spec
CONSTANTS
    Names = {h1}
    Conns = {c1, c2}
    Reqs = {r1}
    Senders = {f1}
    QueueCap = 1
    MaxInputs = 2
    None = None
INVARIANTS
    TypeOK
    HubNeverDangles
    SendTargetStays
    PendingOwned
    LostWasNeverAsked
    RegistryHasTask
PROPERTIES
    AnswerInTimeIsReturned
    SpawnReturns
    ReplacedCloses
CHECK_DEADLOCK FALSE
