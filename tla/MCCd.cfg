CONSTANTS
    Chars <- MCChars
    Dirs <- MCDirs
    Home <- MCHome
    Inherited <- MCInherited
    Given <- MCGiven
    Args <- MCArgs
    MaxCalls = 2
    MaxDepth = 1
SPECIFICATION Spec
INVARIANTS PathIsResolved PlaceAgrees
CHECK_DEADLOCK FALSE
