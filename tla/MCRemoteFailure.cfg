CONSTANTS
    p1 = p1
    p2 = p2
    p3 = p3
    w1 = w1
    w2 = w2
    Proc <- MCProc
    Worker <- MCWorker
    Local <- MCLocal
    MayFail = {p1}
    MaxSignals = 0
    Rounds = 1
SPECIFICATION Spec
INVARIANTS
    FailureReported
CHECK_DEADLOCK FALSE
