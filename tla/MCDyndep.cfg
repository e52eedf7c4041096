CONSTANTS
    Edge <- WideEdge
    Node <- MCNode
    Outputs <- WideOutputs
    Inputs <- WideInputs
    OrderOnly <- WideOrderOnly
    Phony = {}
    Restat = {1, 2, 3}
    HasDeps = {}
    Pool = {"default", "link"}
    PoolOf <- WidePoolOf
    Depth <- MCDepth
    Targets = {"g", "h", "y"}
    Dyndep <- MCDyndep
    DynIns <- MCDynIns
    DynOuts <- MCDynOuts
    Validations <- WideNoValidations
SPECIFICATION DyndepSpec
INVARIANTS
    BuiltBeforeUse
    PlanIsWhole
CHECK_DEADLOCK FALSE
