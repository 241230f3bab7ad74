\* exit inside a command substitution.
CONSTANTS
    Kind = {"simple"}
    Feature = {"subst", "exit"}
    Compound = {"group"}
    Code = {0}
    Capacity = 1
    MaxOut = 0
    MaxBuiltin = 0
    MaxFd = 20
    MaxCmds = 1
    MaxProcs = 2
    MaxPipelines = 2
    MaxDepth = 5
SPECIFICATION Spec
PROPERTIES SubstitutionRead
CHECK_DEADLOCK FALSE
