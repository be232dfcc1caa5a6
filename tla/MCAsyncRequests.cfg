SPECIFICATION FairSpec
CONSTANTS
    Threads = {main, w}
    Main = main
    Pumps = {main, w}
    N = 2
    MaxRequests = 1
    MaxRounds = 1
INVARIANTS
    AnswersBelong
    RunOnce
    ClientSound
PROPERTIES
    QueuedEnds
CHECK_DEADLOCK FALSE
