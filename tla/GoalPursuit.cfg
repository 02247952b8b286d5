SPECIFICATION FairSpec
CONSTANTS
    Commands = {c1}
    Workers = {wd, w1}
    DaemonWorker = wd
    Criteria = {k1}
    Manuals = {{}, {k1}}
    MaxSegments = 2
    MaxFailures = 2
    MaxErrors = 2
    MaxOps = 2
    MaxFaults = 1
INVARIANTS
    CompletedIsVerified
PROPERTIES
    BudgetsHold
    PursuitEnds
CHECK_DEADLOCK FALSE
