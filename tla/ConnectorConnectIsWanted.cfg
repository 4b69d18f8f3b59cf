CONSTANTS
    Fds = {s1, s2}
    None = None
    MaxTimers = 3
    MaxQueue = 2
SPECIFICATION Spec
CHECK_DEADLOCK FALSE
INVARIANTS ConnectIsWanted
