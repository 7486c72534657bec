CONSTANTS
  Ids = {a, b}
  MaxSessions = 2
  MaxRequests = 2
SPECIFICATION Spec
INVARIANTS TypeOK OneForwarder
PROPERTIES NameIsServedAgain RecorderYields
CHECK_DEADLOCK FALSE
