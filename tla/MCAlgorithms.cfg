CONSTANT Error = Error
SPECIFICATION Spec
INVARIANTS
    ScanIsRight
    ToolsAreRight
    ManifestIsRead
    DepsCommandIsRight
    ActionIsComplete
    PathsMeanTheSame
    DepfileIsRead
CHECK_DEADLOCK FALSE
