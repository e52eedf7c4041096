CONSTANTS
    Edge <- MCEdge
    Node <- MCNode
    Outputs <- MCOutputs
    Inputs <- MCInputs
    OrderOnly <- MCOrderOnly
    Phony = {}
    Restat = {1, 2, 3}
    HasDeps = {}
    Pool = {"default", "link"}
    PoolOf <- PoolOfX
    Depth <- MCDepth
    Targets = {"f", "h", "x"}
    Dyndep <- MCDyndep
    DynIns <- MCDynIns
    DynOuts <- MCDynOuts
    Validations <- MCNoValidations
SPECIFICATION DyndepSpec
INVARIANTS
    RunsOnce
CHECK_DEADLOCK FALSE
