SPECIFICATION FairSpec
CONSTANTS
    Worker = {w1}
    Run = {r1, r2}
    Backend = {b1, b2}
    CancelOp = {c1}
    None = None
    LeaseTicks = 1
    ControlTicks = 1
    TimeoutTicks = 2
    MaxResumeAttempts = 1
    MaxTopologyNodes = 2
    MaxTreeCancelRuns = 2
    AvailableAt = {0}
    ClockMayStepBack = FALSE
    MaxTime = 2
    MaxRevision = 3
INVARIANTS
    WorkerHistory
PROPERTIES
    RunsEnd
CHECK_DEADLOCK FALSE
