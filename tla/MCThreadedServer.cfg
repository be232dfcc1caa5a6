SPECIFICATION Spec
CONSTANTS
    Client = {c1, c2}
    Home <- MCHome
    Scenarios <- MCScenarios
    InitialFiles <- MCFiles
    MountCapacity = 1
    MaxMounts = 4
    MaxBypass = 2
    StackLimit = 2
    MaxListeners = 2
INVARIANTS
    OneAnswer
    RootRestored
    RouteIsFirst
    FormRead
PROPERTIES
    BypassedNotStatic
    RangeExact
    SuccessMeansDone
SYMMETRY Clients
CHECK_DEADLOCK FALSE
