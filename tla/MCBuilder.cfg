CONSTANTS
    Edge <- MCEdge
    Node <- MCNode
    Outputs <- MCOutputs
    Inputs <- MCInputs
    OrderOnly <- MCOrderOnly
    Phony = {4}
    Restat = {1, 2}
    HasDeps = {2}
    Pool = {"default", "link"}
    PoolOf <- WidePoolOf
    Depth <- MCDepth
    Targets = {"out"}
    Runner = "real"
    Parallelism = 2
    LoadLimited = TRUE
    FailuresAllowed = 2
SPECIFICATION BuilderSpec
INVARIANTS
    InputsBuiltFirst
    RunsOnce
    NothingForgotten
    BooksKept
    ResultIsTrue
    CleanupCoversActive
PROPERTIES
    StepsKept
    Terminates
CHECK_DEADLOCK FALSE
