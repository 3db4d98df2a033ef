SPECIFICATION Spec
CONSTANTS
    Modulus = 64
    Powers <- MCPowers
    BitAnd <- MCAnd
INVARIANT AlignedToAnyValue
