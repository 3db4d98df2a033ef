SPECIFICATION MCSpec
CONSTANTS
    MemSize = 5
    RegionSize = 6
    AddrSpace = 12
    Byte <- MCByte
    Align = 2
INVARIANT BlockIsDumped
