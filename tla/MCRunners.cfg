SPECIFICATION MCSpec
CONSTANTS
    Proc = {c1, c2, c3}
    Console = {c3}
    MayFail = {c1}
    MaxOutput = 1
    ShareCmd = {c1, c2, c3}
    ShareMayFail = {c1, c2}
    Clients = 2
INVARIANTS
    AnswerReported
    StoresIntoLive
    WholeResult
    NoOrphans
PROPERTIES
    RunnerEnds
