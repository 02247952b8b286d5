SPECIFICATION Spec
CONSTANTS
    Worker = {w1, w2}
    Run = {r1, r2}
    Backend = {b1}
    CancelOp = {c1, c2}
    None = None
    LeaseTicks = 1
    ControlTicks = 1
    TimeoutTicks = 1
    MaxResumeAttempts = 1
    MaxTopologyNodes = 2
    MaxTreeCancelRuns = 2
    AvailableAt = {0}
    ClockMayStepBack = TRUE
    MaxTime = 2
    MaxRevision = 2
SYMMETRY Identities
INVARIANTS
    AuditPasses
    TreeAuditPasses
    CancelledNeverSucceeds
PROPERTIES
    ReplayedCancelIsInert
    ImplementsContract
CHECK_DEADLOCK FALSE
