SPECIFICATION Spec
CONSTANTS
    r0 = r0
    r1 = r1
    r2 = r2
    r3 = r3
    GPR <- MCGPR
    Zero = r0
    Programs <- MCPrograms
    SignBit = 4
INVARIANTS
    OperandsReadFirst
    RoundTripsRestore
    SumsSaturate
    MovesSaturateUpOnly
    AccumulatorsAddUp
