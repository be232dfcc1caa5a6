SPECIFICATION Spec
CONSTANTS
    Path <- MCPath
    Symbols <- MCSymbols
    LibraryName <- MCLibraryName
    Signatures <- MCSignatures
    Snake <- MCSnake
    Camel <- MCCamel
    Module <- MCModule
    Blocks <- MCBlocks
    OwnInterface <- MCOwnInterface
    Namespace <- MCNamespace
    Function <- MCFunction
    Value = {7}
    Args <- MCArgs
    Capacity = 7
    MaxLibraries = 3
    MaxAliases = 9
    MaxSpaces = 2
    MaxMocks = 1
    MaxFiles = 2
    MaxSteps = 3
INVARIANT
    NamesReachMapped
PROPERTY
    QualifiedStable
CHECK_DEADLOCK FALSE
