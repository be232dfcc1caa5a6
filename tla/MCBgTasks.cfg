SPECIFICATION Spec
CONSTANTS
    MaxTasks = 3
    MaxStarts = 3
    JobsPerCall = 2
    HostProcesses = TRUE
INVARIANTS
    HandlesNameLive
    ResultsWhole
CHECK_DEADLOCK FALSE
