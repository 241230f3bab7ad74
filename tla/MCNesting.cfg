\* Groups and command substitutions inside pipelines.
CONSTANTS
    Kind = {"simple", "shell"}
    Feature = {"subst", "exit", "break"}
    Compound = {"group", "subshell", "loop"}
    Code = {0}
    Capacity = 2
    MaxOut = 1
    MaxBuiltin = 2
    MaxFd = 20
    MaxCmds = 2
    MaxProcs = 3
    MaxPipelines = 2
    MaxDepth = 5
SPECIFICATION Spec
INVARIANTS InheritStdOnly StdRestored LeaksOnePerPipeline
PROPERTIES PipelineEnds
CHECK_DEADLOCK FALSE
