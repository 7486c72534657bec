SPECIFICATION Spec
CONSTANTS
    Names = {h1}
    Conns = {c1, c2}
    Reqs = {r1}
    Senders = {f1}
    QueueCap = 2
    MaxInputs = 1
    None = None
PROPERTIES
    LastWriterWins
CHECK_DEADLOCK FALSE
