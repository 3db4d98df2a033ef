SPECIFICATION FairSpec
CONSTANTS
    MemSize = 12
    RegionSize = 14
    AddrSpace = 32
    InsnBytes = 2
    DumpReach = 4
    StackFrames = 4
INVARIANTS
    OutcomeIsListable
    OnlyFirstListingEnds
PROPERTIES
    ListingEnds
