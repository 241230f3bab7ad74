CONSTANTS
    Key = {"w", "n"}
    MaxKeys = 1
    MaxSignals = 2
SPECIFICATION Spec
INVARIANT SurvivesInterrupt
CHECK_DEADLOCK FALSE
