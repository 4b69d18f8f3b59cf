CONSTANTS
    Tasks = {f1, f2, f3}
    Threads = {t1, t2}
    NoTask = NoTask
SPECIFICATION Spec
INVARIANTS TypeOK NoLostWakeup
PROPERTIES ImplementsTaskQueue QueuedIsRun IoIsServed QuitReturns
