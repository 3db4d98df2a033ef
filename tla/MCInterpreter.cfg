SPECIFICATION Spec
CONSTANTS
    MemSize = 5
    RegionSize = 6
    AddrSpace = 14
    InsnBytes = 2
    DumpReach = 1
    AccessBytes <- MCAccessBytes
    QuadBytes = 4
    MergeBytes <- MCMergeBytes
    BranchReach = 1
INVARIANTS
    TypeOK
    DepthBounded
    StopsAtOnce
    HitExplained
    ExitedInsideMemory
PROPERTIES
    StoredTargetStops
    SearchSpec
