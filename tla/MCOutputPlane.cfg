SPECIFICATION Spec
CONSTANTS
    Sockets = {s1}
    Streams = {x1}
    MaxChunks = 2
    Cap = 2
    ScrollCap = 1
    MaxBuf = 2
    Exit = Exit
INVARIANTS
    TypeOK
    SocketSeesNoGap
    StreamComplete
PROPERTIES
    ForwarderAnnouncesExit
    SocketEnds
CHECK_DEADLOCK FALSE
