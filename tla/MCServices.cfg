SPECIFICATION ServicesSpec
CONSTANTS
    a1 = a1
    a2 = a2
    a3 = a3
    Apps = {a1, a2, a3}
    Nobody = Nobody
    MaxDepth = 4
    WordLimit = 6
    Calls = {1, 2, 3, 4, 5}
    Links = {1, 2}
    Buffer = 2
    MaxAsks = 2
    l1 = l1
    l2 = l2
    NoLocation = NoLocation
    PixelsWide = 8
    PixelsHigh = 3
    ByteWidth = 2
    MaxShift = 2
    XCuts = {2}
    YCuts = {1}
    Exposed = {}
INVARIANTS
    ServicesTypeOK
    ExclusiveHolder
    CounterIsOwed
    CopyExact
PROPERTIES
    OwnsScreen
    ImplementsRemoteCall
    CallsReturn
    Converges
\* A client makes a bounded number of calls.
CHECK_DEADLOCK FALSE
