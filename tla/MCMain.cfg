SPECIFICATION Spec
CONSTANTS
    Version = {"v1", "v2"}
    Path = {"a", "b"}
    Makes <- MCMakes
    Reads <- MCReads
    Generated = {"v1"}
    CycleLimit = 2
    MaxRuns = 3
INVARIANTS
    EnvironmentCleared
PROPERTIES
    SourcesStay
    RunsEnd
CHECK_DEADLOCK FALSE
