SPECIFICATION MCSpec
CONSTANTS
    NoOne = 0
    MaxServers = 3
    MaxFaults = 2
    LeaseTicks = 2
    MaxDaemons = 2
    MaxTime = 2
    MaxRetries = 1
INVARIANTS
    ProcessesContained
PROPERTIES
    TasksSupervised
    WorkflowsSupervised
    SupervisionEnds
CHECK_DEADLOCK FALSE
