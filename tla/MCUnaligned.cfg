SPECIFICATION MCSpec
CONSTANTS
    Byte <- MCByte
    Words = 2
    MaxSteps = 2
PROPERTIES
    PairLoadsWord
    PairStoresWord
    StoresOnlyAddressed
