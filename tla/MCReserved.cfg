SPECIFICATION Spec
CONSTANTS
    Interactive = FALSE
    MaxWords = 2
    Scopes <- MCScopes
PROPERTIES
    ReservedBeginCommands
CHECK_DEADLOCK FALSE
