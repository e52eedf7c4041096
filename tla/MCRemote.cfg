CONSTANTS
    p1 = p1
    p2 = p2
    p3 = p3
    w1 = w1
    w2 = w2
    Proc <- MCProc
    Worker <- MCWorker
    Local <- MCLocal
    MayFail = {p2}
    MaxSignals = 1
    Rounds = 1
SPECIFICATION Spec
INVARIANTS
    NoSleeperWhenWaiting
    OneWorkerPerTask
    RemoteOutcomeReported
    NoUseAfterDelete
PROPERTIES
    BuildGoesOn
CHECK_DEADLOCK FALSE
