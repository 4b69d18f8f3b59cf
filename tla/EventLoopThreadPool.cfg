CONSTANTS
    MaxThreads = 3
    MaxCalls = 5
SPECIFICATION Spec
CHECK_DEADLOCK FALSE
INVARIANTS LoopsAreLive DealtEvenly
PROPERTIES StartReturns DtorReturns
