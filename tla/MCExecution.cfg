SPECIFICATION ExecSpec
CONSTANTS
    W = 4
    ImmBits = 2
    ByteBits = 1
    Loaded <- MCLoaded
    Computed <- MCComputed
    Link <- MCLink
    HeapEnd <- MCHeapEnd
    Instruction <- MCInstruction
    Programs <- MCPrograms
INVARIANTS
    RegistersTypeOK
    CanonicalUnlessWide
    ListingNamesWhatRuns
    TraceNamesWhatRuns
    RefusedAlike
PROPERTIES
    ImplementsWords
    ChangesAreListedFirst
    ChangesAreTraced
