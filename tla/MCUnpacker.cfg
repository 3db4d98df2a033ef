SPECIFICATION MCSpec
CONSTANTS
    MemSize = 4
    RegionSize = 5
    AddrSpace = 10
    Byte <- MCByte
    Align = 2
    InsnBytes = 1
    MaxFile = 1
    MaxSegments = 1
INVARIANTS
    TypeOK
    OutputOnlyAfterEntry
    ReloadGivesBlock
    ForcedBoundsHold
    NoRunWrapsInput
