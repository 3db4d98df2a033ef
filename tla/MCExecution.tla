---------------------------- MODULE MCExecution -----------------------------
(***************************************************************************)
(* Words of four bits (registers of eight), half-words of two, bytes of    *)
(* one.  The first program runs one instruction of any kind on registers   *)
(* that are 0: every entry of every table.  The second runs any scalar     *)
(* instruction on any two values, the third looks at what a 32-bit program *)
(* can observe of what it has computed.                                    *)
(***************************************************************************)
EXTENDS WordRefinement, TLC

Fill(fields) == fields @@ NoWord

(* Every entry of the dispatch tables.                                     *)
Tables ==
    { Fill([opcode |-> o, rs |-> 2, rt |-> 16]) : o \in (1 .. 63) \ {0, 1, 16, 17, 28} }
    \union { Fill([rs |-> 2, rt |-> 16, rd |-> d, funct |-> f]) : f \in 0 .. 63, d \in {2, 31} }
    \union { Fill([opcode |-> 1, rs |-> s, rt |-> t]) : t \in 0 .. 31, s \in {2, 31} }
    \union { Fill([opcode |-> 28, rs |-> 16, rd |-> 2, funct |-> f, sa |-> a]) :
                 f \in 0 .. 63, a \in 0 .. 31 }
    \union { Fill([opcode |-> c, rs |-> s, rt |-> t]) : c \in {16, 17}, s \in 0 .. 31, t \in {0, 3, 4, 16} }
    \union { Fill([opcode |-> 16, rs |-> 16, funct |-> f]) : f \in 0 .. 63 }
    \union { Fill([opcode |-> 17, rs |-> s, funct |-> f]) : s \in {16, 20}, f \in 0 .. 63 }
    \union { NoWord, Fill([opcode |-> 16, rt |-> 16, rd |-> 12]) }

Immediate(o, s, t, m) == Fill([opcode |-> o, rs |-> s, rt |-> t, imm |-> m])
Special(f, s, t, d)   == Fill([funct |-> f, rs |-> s, rt |-> t, rd |-> d])
Amount(f, t, d, a)    == Fill([funct |-> f, rt |-> t, rd |-> d, sa |-> a])

LD(t) == Immediate(55, 0, t, {})
LW(t) == Immediate(35, 0, t, {})

Scalar ==
    { Immediate(o, 2, 16, m) : o \in 8 .. 15, m \in SUBSET {0, 1} }
    \union { Immediate(o, 2, 16, {0, 1}) : o \in {24, 25} }
    \union { Immediate(o, 2, 16, {}) : o \in {4, 5, 6, 7, 20, 21, 22, 23, 34, 38, 26, 27} }
    \union { Fill([opcode |-> 1, rs |-> 2, rt |-> t]) : t \in {0, 1, 2, 3, 16, 17, 18, 19} }
    \union { Special(f, 2, 16, d) : f \in {10, 11, 24, 25, 26, 27} \union (32 .. 39) \union (42 .. 47), d \in {0, 2} }
    \union { Special(f, 2, 16, 2) : f \in {4, 6, 7, 20, 22, 23, 9} }
    \union { Amount(f, 16, 2, a) : f \in {0, 2, 3, 56, 58, 59, 60, 62, 63}, a \in 0 .. 3 }
    \union { Special(12, 0, 0, 0), Fill([opcode |-> 16, rt |-> 16, rd |-> 12]) }

(* Instructions that leave a word in v0 (or LO and HI), and instructions   *)
(* whose outcome depends on all 64 bits.                                   *)
Producers ==
    { Special(f, 2, 16, 2) : f \in {4, 6, 7, 24, 25, 26, 27, 33, 35, 39} }
    \union { Amount(f, 16, 2, 1) : f \in {0, 2, 3} }
    \union { Immediate(9, 2, 2, {1}), Immediate(34, 0, 2, {}), Fill([opcode |-> 16, rt |-> 16, rd |-> 12]) }

Movers == { Special(18, 0, 0, 2), Special(16, 0, 0, 2), Special(37, 2, 16, 2) }

Observers ==
    { Immediate(o, 2, 16, {}) : o \in {4, 6, 20, 23} }
    \union { Special(f, 2, 16, 16) : f \in {10, 11, 42, 43} }

MCPrograms ==
    << << Tables >>,
       << {LD(2)}, {LD(16)}, Scalar >>,
       << {LW(2)}, {LW(16)}, Producers, Movers, Observers >> >>

MCInstruction ==
    { Decoded(w) : w \in UNION { MCPrograms[n][k] : <<n, k>> \in
                        { p \in (1 .. 3) \X (1 .. 5) : p[2] <= Len(MCPrograms[p[1]]) } } }

(* The canonical values and four others.                                   *)
MCLoaded == { SignExtend(m, 4) : m \in SUBSET (0 .. 3) }
                \union {{4}, {0, 7}, {3}, {0, 1, 2, 3, 5}}
MCComputed == {{}, {4}, {0, 7}}
MCLink == {0, 2}
MCHeapEnd == {1}
=============================================================================
