SPECIFICATION Spec
CONSTANTS
    c1 = c1
    c2 = c2
    h = h
    s = s
    Cmd = {c1, c2}
    File = {h, s}
    Reads <- MCReads
    Content = {"o", "d", "e"}
    Outs <- MCOuts
    Trees <- MCTrees
    MayFail = {c2}
    LargeFile = {s}
    LargeOut = {"o"}
    LargeTree = TRUE
    RetryLimit = 1
    PerBatch = 2
    Edited = {h, s}
    FindLimit = 1
INVARIANTS
    OutputsAreRight
    OnlyFaultsKill
PROPERTY
    CommandsEnd
