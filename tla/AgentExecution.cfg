SPECIFICATION FairSpec
CONSTANTS
    Run = {r1}
    ClockMayJump = FALSE
    MaxCrashes = 1
    None = None
INVARIANTS
    ResultsFollowRuns
PROPERTIES
    RunsEndPublished
    ImplementsContract
CHECK_DEADLOCK FALSE
