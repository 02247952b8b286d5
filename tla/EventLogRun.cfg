SPECIFICATION MCFairSpec
CONSTANTS
    Event = {e1, e2}
    Durability = {"durable", "buffered"}
    Reader = {r1, r2}
    ByteReader = {r1}
    Body = 2
    NameWithData = TRUE
    MaxAppends = 3
    MaxLosses = 0
    NoAppend = NoAppend
    NoAllocator = NoAllocator
    Instance = {i1, i2}
    PageLimit = 2
    MaxEvents = 3
    MaxFaults = 2
INVARIANTS
    ReadersMissNothing
    StreamSound
    ProjectionSound
PROPERTIES
    ImplementsContract
    AcknowledgedIsDelivered
    EventsAreProjected
CHECK_DEADLOCK FALSE
