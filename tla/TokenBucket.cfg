CONSTANTS
    Buckets = {b1, b2}
    Threads = {t1, t2}
    None = None
    MYTBF_MAX = 1
    MaxRate = 1
    MaxSize = 2
SPECIFICATION Spec
INVARIANTS TypeOK SlotsAgree TokensInRange FetchTakesSome
PROPERTIES FetchersAreServed
