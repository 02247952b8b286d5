SPECIFICATION MCSpec
CONSTANTS
    Events = {q1, q2}
    Policies <- MCPolicies
    Options = {o1}
    MaxObservations = 2
    MaxApprovals = 4
    MaxOpen = 1
    Runs = {w1, w2}
    Prepared = {w1}
    StepCount = 3
    Plans <- MCPlans
    MaxConcurrency = 2
    MaxSkips = 1
    MaxEngines = 1
    MaxExecutions = 2
    NoJournal = NoJournal
    Event = {e1, e2}
    Durability = {"durable"}
    Reader = {r1}
    ByteReader = {r1}
    Body = 3
    NameWithData = TRUE
    MaxAppends = 3
    MaxLosses = 2
    NoAppend = NoAppend
    NoAllocator = NoAllocator
    Dispatches = {d1, d2}
    d1 = d1
    d2 = d2
    Control = {c1}
    Tasks <- MCSessionTasks
    Bindings = {b1}
    Flats <- MCFlats
    MaxOutages = 1
    NoFile = NoFile
    Nobody = Nobody
    Paths = {s1, s2}
    Ceilings = {"allow"}
    MaxRevision = 16
    MaxCalls = 2
    NoRow = NoRow
    Cancellers = {t1, t2}
    MaxLegs = 2
    Scenarios <- MCScenarios
PROPERTIES
    SuccessesStand
CHECK_DEADLOCK FALSE
