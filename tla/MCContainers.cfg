SPECIFICATION Spec
CONSTANTS
    Values = {1, 2}
    Priorities = {1, 2, 3}
    Keys = {1, 2, 3, 4, 5}
    Vertices = {0, 1, 2}
    Weights = {1, 3}
    CreatedSorts = {"queue", "stack", "list", "minHeap", "maxHeap", "tree", "directed", "undirected"}
    InitialCapacity = 2
    MaxSize = 4
    Links <- SomeLinks
    MaxDegree = 2
INVARIANT
    WellFormed
PROPERTY
    PromisedOrDeparts
CHECK_DEADLOCK FALSE
