SPECIFICATION Spec
CONSTANTS
    Interactive = FALSE
    MaxWords = 2
    Scopes <- MCScopes
INVARIANTS
    AcceptedIsDerivable
    RejectedIsWrong
    WaitingIsOpen
    ScriptRunsWholeLines
PROPERTIES
    ReservedAfterSeparators
CHECK_DEADLOCK FALSE
