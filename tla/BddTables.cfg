SPECIFICATION Spec
CONSTANTS
    Vars = 2
    Elements = {1, 2}
    Image <- MCImage
    GuessedIndex = 0
    Paths <- MCPaths
    FirstTrigger = 2
    Turns = {1}
    TmpRoots = 3
    AutRoots = 2
INVARIANTS
    RootsMean
    Canonical
    MemoRight
    FramesKeepUp
