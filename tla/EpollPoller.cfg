CONSTANTS
    Channels = {c1, c2}
    Fds = {d1, d2}
    None = None
    kInitEventListSize = 1
SPECIFICATION Spec
INVARIANTS TypeOK RegistryAgrees NoDangling
PROPERTIES EveryReadyIsHandled
CHECK_DEADLOCK FALSE
