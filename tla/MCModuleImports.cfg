SPECIFICATION Spec
CONSTANTS
    Files <- MCFiles
    Paths <- MCPaths
    Main = 0
    NoFile = NoFile
    NoPath = NoPath
    Denotes <- MCDenotes
    MadeUp <- MCMadeUp
    Programs <- MCPrograms
INVARIANTS NoEndlessImports AcceptedIffSound CyclesAreReal InOrderWithoutDirectories
PROPERTIES Terminates
CHECK_DEADLOCK FALSE
