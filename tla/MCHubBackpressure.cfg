SPECIFICATION Spec
CONSTANTS
    Names = {h1}
    Conns = {c1}
    Reqs = {r1}
    Senders = {f1}
    QueueCap = 1
    MaxInputs = 2
    None = None
PROPERTIES
    FirstHeartbeatListsShells
CHECK_DEADLOCK FALSE
