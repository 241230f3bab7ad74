\* One pipeline of up to three commands, with every kind the shell waits for.
CONSTANTS
    Kind = {"simple", "fundec"}
    Feature = {"output", "exit", "not"}
    Compound = {"group"}
    Code = {0, 1}
    Capacity = 1
    MaxOut = 2
    MaxBuiltin = 1
    MaxFd = 9
    MaxCmds = 3
    MaxProcs = 3
    MaxPipelines = 1
    MaxDepth = 3
SPECIFICATION Spec
INVARIANTS TypeOK WaitHoldsNothing AllReaped
PROPERTIES StatusOfLast PipelineEnds
CHECK_DEADLOCK FALSE
