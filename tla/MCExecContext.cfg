SPECIFICATION Spec
CONSTANTS
    Block = {1, 2, 3, 4, 5, 6}
    NoBlock = NoBlock
    Target = {tty, file}
    Terminal = tty
    StopArg = {0, 1, 2, 3}
    MaxDepth = 6
    RedirectDepth = 4
ACTION_CONSTRAINTS FirstFit FewTargets
INVARIANTS TypeOK HeapExact LoopPointerExact StopsRightLoop ScriptOutput
PROPERTIES BarriersReturn JumpLands
CHECK_DEADLOCK FALSE
