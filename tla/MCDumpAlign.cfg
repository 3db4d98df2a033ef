SPECIFICATION Spec
CONSTANTS
    Modulus = 64
    Powers <- MCPowers
    BitAnd <- MCAnd
INVARIANTS
    RoundsDown
    PaddingBelowAlign
