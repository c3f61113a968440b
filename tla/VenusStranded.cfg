SPECIFICATION FairSpec
CONSTANTS
    StreamCount = 2
    MaxSessions = 2
    MaxTag = 3
    MessageBound = 2
    Scenarios <- CommandFails
PROPERTY EveryRequestAnswered
CHECK_DEADLOCK FALSE
