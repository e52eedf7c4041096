CONSTANTS
    Source <- MCSource
    Out <- MCOut
    Ins <- MCIns
    OrderOnly <- MCOrderOnly
    Restat = {"gen"}
    Deps = {"obj"}
    Included <- MCIncluded
    Ignored <- MCIgnored
    RaceRestat = FALSE
    GoesBack = FALSE
    MaxEdits = 2
    MaxStops = 1
SPECIFICATION Spec
INVARIANTS
    NoStaleClean
    BuildSettles
CHECK_DEADLOCK FALSE
