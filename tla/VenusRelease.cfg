SPECIFICATION Spec
CONSTANTS
    StreamCount = 2
    MaxSessions = 2
    MaxTag = 3
    MessageBound = 2
    Scenarios <- CommandFails
INVARIANT RegisteredStaysMapped
CHECK_DEADLOCK FALSE
