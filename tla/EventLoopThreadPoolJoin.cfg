CONSTANTS
    MaxThreads = 1
    MaxCalls = 1
SPECIFICATION Spec
CHECK_DEADLOCK FALSE
INVARIANTS JoinAsserts
