CONSTANTS
    Bytes = {x, Zero0}
    Zero = Zero0
    kCheapPrepend = 1
    kInitialiSize = 2
    ExtraSize = 2
    MaxSize = 5
    \* LogStream: TextLens reach the last byte, Mantissas and Quotients meet
    \* the thresholds from both sides
    SIZE = 8
    kMaxNumericSize = 5
    TextLens = {1, 4, 7, 8}
    DoubleLens = {1, 4}
    Ints <- SomeInts
    Addresses = {0, 171}
    Mantissas = {5, 999, 1000, 1005, 9995, 9996}
    Quotients = {1, 1023, 1024, 1025, 10234, 10235, 102348, 102349, 1048063, 1048064}
    \* Logging
    Threads = {"t1", "t2"}
    UsedLevels = {1, 5}
    Seconds = {1, 2}
    Zones = {"East"}
    Utc = "UTC"
    \* Acceptor
    MaxFd = 3
    MaxBacklog = 2
    \* SearchTree
    Keys = {1, 2, 3}
    MaxNodes = 5
    \* Heap
    Values = {1, 2, 3}
    MaxLen = 5
    \* Game: assets/Map.json and assets/Role.json
    Map <- GameMaps
    FirstMap = "Map1"
    RoleX = 8
    RoleY = 5
    TileSize = 2
    speed = 1
    FramePeriod = 2
    \* InetAddress
    Ports = {80, 8080}
    Ips <- SomeIps
    LocalIps <- OwnIps
    Ips6 <- SomeIps6
SPECIFICATION PartsSpec
INVARIANTS
    TerminatorFits
    FormatsAreRight
    StampIsTrue
    DescriptorsOwned
    SortLoop
    NotInWall
    AddressesAgree
PROPERTIES
    StreamOrder
    ImplementsBag
CHECK_DEADLOCK FALSE
