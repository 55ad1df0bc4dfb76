SPECIFICATION Spec
CONSTANTS
    Files <- MCFiles
    Paths <- MCPaths
    Main = 0
    NoFile = NoFile
    NoPath = NoPath
    Denotes <- MCDenotes
    MadeUp <- MCMadeUp
    Programs <- SpellingPrograms
INVARIANTS SoundIsAccepted
CHECK_DEADLOCK FALSE
