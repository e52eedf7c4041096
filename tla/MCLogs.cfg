SPECIFICATION Spec
CONSTANTS
    a = a
    b = b
    h = h
    Process = {p1, p2}
    Node = {a, b, h}
    Live = {a, b}
    DepsOf <- MCDepsOf
    Output = {a, b, h}
    Edge <- MCEdge
    MaxRecords = 2
    MaxStarts = 3
SYMMETRY Symmetry
INVARIANTS
    RecordedIsLoaded
    MemoryIsDisk
PROPERTIES
    StoresRecords
