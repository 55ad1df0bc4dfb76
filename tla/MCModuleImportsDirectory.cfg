SPECIFICATION Spec
CONSTANTS
    Files <- MCFiles
    Paths <- MCPaths
    Main = 0
    NoFile = NoFile
    NoPath = NoPath
    Denotes <- MCDenotes
    MadeUp <- MCMadeUp
    Programs <- DirectoryPrograms
INVARIANTS InitialisedInOrder
CHECK_DEADLOCK FALSE
