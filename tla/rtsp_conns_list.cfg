SPECIFICATION RtspSpec
CONSTANTS
    RtspSessions = {"s1", "s2"}
CHECK_DEADLOCK FALSE
INVARIANT ConnsListReturns
