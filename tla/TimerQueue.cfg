CONSTANTS
    Addrs = {a1, a2}
    NoTimer = NoTimer
    Threads = {t1}
    Second = 2
    Intervals = {0, 1}
    MaxTime = 2
    MaxSteps = 1
    MaxSeq = 2
    MaxPending = 2
SPECIFICATION Spec
INVARIANTS TypeOK SetsAgree OneOwner TimerfdArmed CancelSticks
PROPERTIES OnlyExpiredOrCancelledLeave TimersFire
