CONSTANTS
    Scopes <- MCScopes
    Value <- MCValue
    Status <- MCStatus
    MaxOutput = 3
SPECIFICATION Spec
INVARIANTS
    TypeOK
    FramesAreOpen
    TokenIsLongest
    FieldsAsPosix
    QuotesAgree
CHECK_DEADLOCK FALSE
