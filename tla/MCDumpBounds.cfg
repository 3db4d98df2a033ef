SPECIFICATION MCSpec
CONSTANTS
    MemSize = 5
    RegionSize = 6
    AddrSpace = 12
    Byte <- MCByte
    Align = 2
INVARIANTS
    TypeOK
    NoNonZeroLost
    NothingForeign
    EntryInsideDump
    SizeDoesNotWrap
PROPERTIES
    ScansEnd
