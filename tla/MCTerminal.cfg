CONSTANTS
    Key = {"w", "b", "q", "n", "d"}
    MaxKeys = 5
    MaxSignals = 2
SPECIFICATION Spec
INVARIANTS TypeOK WordsWhole DeafOnlyIfMissed
PROPERTY ImplementsEditor
CHECK_DEADLOCK FALSE
