SPECIFICATION Spec
CONSTANTS
    c1 = c1
    c2 = c2
    Client = {c1, c2}
    Scenarios <- MCScenarios
    Files <- MCFiles
    IoThreads = 2
    Buffer = 6
    MaxBody = 4
    FirstCapacity = 2
    MaxMounts = 2
INVARIANTS
    AnsweredByTheFirst
    BodyArrives
    NoReadInVain
CHECK_DEADLOCK FALSE
