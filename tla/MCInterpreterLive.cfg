SPECIFICATION FairSpec
CONSTANTS
    MemSize = 3
    RegionSize = 4
    AddrSpace = 9
    InsnBytes = 1
    DumpReach = 1
    AccessBytes <- MCAccessBytes
    QuadBytes = 2
    MergeBytes <- MCMergeBytes
    BranchReach = 1
PROPERTIES
    BranchesReturn
