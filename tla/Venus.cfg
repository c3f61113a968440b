SPECIFICATION Spec
CONSTANTS
    StreamCount = 2
    MaxSessions = 2
    MaxTag = 3
    MessageBound = 2
    Scenarios <- FaultyScenarios
INVARIANTS FrameMatchesRequest MemoryStaysMapped PictureBufferAccounted
CHECK_DEADLOCK FALSE
