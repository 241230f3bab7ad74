\* Too few descriptors for what the script does.
CONSTANTS
    Kind = {"simple", "shell"}
    Feature = {"input", "subst"}
    Compound = {"group"}
    Code = {0, 1}
    Capacity = 1
    MaxOut = 1
    MaxBuiltin = 1
    MaxFd = 10
    MaxCmds = 2
    MaxProcs = 4
    MaxPipelines = 2
    MaxDepth = 5
SPECIFICATION Spec
INVARIANTS AllReaped ShellSurvives
CHECK_DEADLOCK FALSE
