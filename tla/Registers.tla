----------------------------- MODULE Registers ------------------------------
(***************************************************************************)
(* What the scalar instructions of Interpreter.c leave in the registers.   *)
(* A general register is 64 bits here (UD[0]; the upper half of the 128    *)
(* belongs to Multimedia.tla) and a value is the set of its one bits, so   *)
(* that the width of a word is a parameter: 2 * W stands for 64, W for 32. *)
(*                                                                         *)
(* The architecture keeps the result of every 32-bit instruction           *)
(* sign-extended, and the 64-bit comparisons of the branches rely on it.   *)
(* wide records which registers were last written by something else: a     *)
(* 64-bit or multimedia instruction, or one of the 32-bit handlers that do *)
(* not sign-extend (DIVU, LWU, LWL, LWR, MFC0, EndOfHeap).                 *)
(*                                                                         *)
(* Memory's contents are free, and so is the value a multimedia            *)
(* instruction computes.  Where execution goes is in Interpreter.tla; here *)
(* `taken' says only whether the branch was taken.                         *)
(***************************************************************************)
EXTENDS Decode, FiniteSetsExt

CONSTANTS
    W,           \* bits of a word (32)
    ImmBits,     \* bits of an immediate (16)
    ByteBits,    \* bits of a byte (8)
    Loaded,      \* the doublewords that memory may hold
    Computed,    \* the values that a multimedia instruction may leave
    Link,        \* the return address, _PC_ + 4
    HeapEnd,     \* what EndOfHeap returns, 32 MiB
    Instruction  \* records with op (the handler), rs, rt, rd, sa and imm, a set of bits

Bit   == 0 .. 2 * W - 1
Value == SUBSET Bit

GPR == 0 .. 31
LO  == 32
HI  == 33
Register == GPR \union {LO, HI}

v0 == 2
s0 == 16
ra == 31

(* The (s8), (s16) and (s32) conversions to 64 bits.                       *)
SignExtend(v, n) == { b \in Bit : IF b < n THEN b \in v ELSE n - 1 \in v }

(* The low word; (u32) converts it to 64 bits as it is.                    *)
Low(v) == { b \in v : b < W }

Canonical(v) == \A b \in Bit : b >= W => (b \in v <=> W - 1 \in v)

ASSUME RegistersAssumption ==
    /\ W \in Nat /\ ImmBits \in Nat /\ ByteBits \in Nat
    /\ 0 < ByteBits /\ ByteBits < W
    /\ 0 < ImmBits  /\ ImmBits < W
    /\ Loaded \subseteq Value
    /\ Computed \subseteq Value
    /\ Link \in Value    /\ Canonical(Link)
    /\ HeapEnd \in Value /\ HeapEnd = Low(HeapEnd)
    /\ \A i \in Instruction :
          /\ {i.rs, i.rt, i.rd} \subseteq GPR
          /\ i.sa \in Nat
          /\ i.imm \subseteq 0 .. ImmBits - 1

(* The union of Reg's views: unsigned and signed, 64 and 32 bits.          *)
Unsigned == [v \in Value |-> MapThenSumSet(LAMBDA b : 2^b, v)]
Signed   == [v \in Value |-> Unsigned[v] - (IF 2 * W - 1 \in v THEN 2^(2 * W) ELSE 0)]

UD(v) == Unsigned[v]
SD(v) == Signed[v]
UL(v) == Unsigned[Low(v)]
SL(v) == Signed[SignExtend(v, W)]

(* The low bits of an integer, in two's complement.                        *)
Bits(n) == { b \in Bit : (n \div 2^b) % 2 = 1 }
Word(n) == SignExtend(Bits(n), W)

IntMin == -(2^(W - 1))
FitsWord(n) == n \in IntMin .. -IntMin - 1

VARIABLES
    regs,   \* the registers
    wide,   \* history: those not known to be sign-extended
    taken,  \* what the last instruction did: "next", "branch" or "skip"
    code    \* the last instruction

vars == <<regs, wide, taken, code>>

Init ==
    /\ regs = [r \in Register |-> {}]
    /\ wide = {}
    /\ taken = "next"
    /\ code \in Instruction

Rs(i) == regs[i.rs]
Rt(i) == regs[i.rt]

(* if (!_Rd_) return; otherwise the result is stored.                      *)
Put(r, v, isWide) ==
    /\ regs' = IF r = 0 THEN regs ELSE [regs EXCEPT ![r] = v]
    /\ wide' = IF isWide /\ r # 0 THEN wide \union {r} ELSE wide \ {r}
    /\ taken' = "next"

Nothing == UNCHANGED <<regs, wide>> /\ taken' = "next"

(* The pair LO and HI, and rd for the multiplications (0 for none).        *)
PutLOHI(lo, hi, rd, isWide) ==
    /\ regs' = [r \in Register |-> IF r = HI THEN hi
                                   ELSE IF r = LO \/ (r = rd /\ rd # 0) THEN lo ELSE regs[r]]
    /\ wide' = IF isWide THEN wide \union {LO, HI} ELSE wide \ {LO, HI, rd}
    /\ taken' = "next"

-----------------------------------------------------------------------------
(* Arithmetic.                                                             *)

(* ADDI, ADDIU: the sum of two int.  A signed overflow is undefined        *)
(* behaviour: the build may add in 32 bits or in 64.                       *)
AddImmediate(i) ==
    LET sum == SL(Rs(i)) + SD(SignExtend(i.imm, ImmBits)) IN
    /\ i.op \in {"ADDI", "ADDIU"}
    /\ \/ Put(i.rt, Word(sum), FALSE)
       \/ ~FitsWord(sum) /\ Put(i.rt, Bits(sum), TRUE)

AddDoubleImmediate(i) ==
    /\ i.op \in {"DADDI", "DADDIU"}
    /\ Put(i.rt, Bits(SD(Rs(i)) + SD(SignExtend(i.imm, ImmBits))), TRUE)

(* ANDI, ORI, XORI: the immediate is zero-extended.                        *)
LogicalImmediate(i) ==
    \/ i.op = "ANDI" /\ Put(i.rt, Rs(i) \intersect i.imm, FALSE)
    \/ i.op = "ORI"  /\ Put(i.rt, Rs(i) \union i.imm, i.rs \in wide)
    \/ i.op = "XORI" /\ Put(i.rt, (Rs(i) \ i.imm) \union (i.imm \ Rs(i)), i.rs \in wide)

Truth(holds) == IF holds THEN {0} ELSE {}

SetLessImmediate(i) ==
    \/ i.op = "SLTI"  /\ Put(i.rt, Truth(SD(Rs(i)) < SD(SignExtend(i.imm, ImmBits))), FALSE)
    \/ i.op = "SLTIU" /\ Put(i.rt, Truth(UD(Rs(i)) < UD(SignExtend(i.imm, ImmBits))), FALSE)

AddWords(i) ==
    LET sum == IF i.op \in {"ADD", "ADDU"} THEN SL(Rs(i)) + SL(Rt(i)) ELSE SL(Rs(i)) - SL(Rt(i)) IN
    /\ i.op \in {"ADD", "ADDU", "SUB", "SUBU"}
    /\ \/ Put(i.rd, Word(sum), FALSE)
       \/ ~FitsWord(sum) /\ Put(i.rd, Bits(sum), TRUE)

AddDoubles(i) ==
    \/ i.op \in {"DADD", "DADDU"} /\ Put(i.rd, Bits(SD(Rs(i)) + SD(Rt(i))), TRUE)
    \/ i.op \in {"DSUB", "DSUBU"} /\ Put(i.rd, Bits(SD(Rs(i)) - SD(Rt(i))), TRUE)

Logical(i) ==
    LET Result(v) == Put(i.rd, v, {i.rs, i.rt} \intersect wide # {}) IN
    \/ i.op = "AND" /\ Result(Rs(i) \intersect Rt(i))
    \/ i.op = "OR"  /\ Result(Rs(i) \union Rt(i))
    \/ i.op = "XOR" /\ Result((Rs(i) \ Rt(i)) \union (Rt(i) \ Rs(i)))
    \/ i.op = "NOR" /\ Result(Bit \ (Rs(i) \union Rt(i)))

SetLess(i) ==
    \/ i.op = "SLT"  /\ Put(i.rd, Truth(SD(Rs(i)) < SD(Rt(i))), FALSE)
    \/ i.op = "SLTU" /\ Put(i.rd, Truth(UD(Rs(i)) < UD(Rt(i))), FALSE)

LUI(i) ==
    /\ i.op = "LUI"
    /\ Put(i.rt, SignExtend({ b + ImmBits : b \in i.imm }, W), FALSE)

-----------------------------------------------------------------------------
(* Multiplication and division.                                            *)

(* C's division truncates towards zero.                                    *)
Abs(n) == IF n < 0 THEN -n ELSE n
Quotient(a, b)  == (IF (a < 0) = (b < 0) THEN 1 ELSE -1) * (Abs(a) \div Abs(b))
Remainder(a, b) == a - b * Quotient(a, b)

(* The least integer divided by -1 (see Execution).                        *)
Overflows(i) == SL(Rs(i)) = IntMin /\ SL(Rt(i)) = -1

(* Mutant: the quotient is rounded down.                                   *)
DIVRoundingDown(i) ==
    /\ i.op = "DIV"
    /\ \/ SL(Rt(i)) = 0 /\ Nothing
       \/ /\ SL(Rt(i)) # 0 /\ ~Overflows(i)
          /\ PutLOHI(Word(-((-SL(Rs(i))) \div Abs(SL(Rt(i))))), Word(Remainder(SL(Rs(i)), SL(Rt(i)))),
                     0, FALSE)

DIV(i) ==
    /\ i.op = "DIV"
    /\ \/ SL(Rt(i)) = 0 /\ Nothing
       \/ /\ SL(Rt(i)) # 0 /\ ~Overflows(i)
          /\ PutLOHI(Word(Quotient(SL(Rs(i)), SL(Rt(i)))), Word(Remainder(SL(Rs(i)), SL(Rt(i)))),
                     0, FALSE)

(* u32 results stored in SD[0]: zero-extended.                             *)
DIVU(i) ==
    /\ i.op = "DIVU"
    /\ \/ UL(Rt(i)) = 0 /\ Nothing
       \/ /\ UL(Rt(i)) # 0
          /\ PutLOHI(Low(Bits(UL(Rs(i)) \div UL(Rt(i)))), Low(Bits(UL(Rs(i)) % UL(Rt(i)))), 0, TRUE)

(* On this processor rd receives LO as well.                               *)
MULT(i) ==
    LET product == IF i.op = "MULT" THEN SL(Rs(i)) * SL(Rt(i)) ELSE UL(Rs(i)) * UL(Rt(i)) IN
    /\ i.op \in {"MULT", "MULTU"}
    /\ PutLOHI(Word(product), Word(product \div 2^W), i.rd, FALSE)

MoveFrom(i) ==
    \/ i.op = "MFHI" /\ Put(i.rd, regs[HI], HI \in wide)
    \/ i.op = "MFLO" /\ Put(i.rd, regs[LO], LO \in wide)

MoveTo(i) ==
    \/ i.op = "MTHI" /\ Put(HI, Rs(i), i.rs \in wide)
    \/ i.op = "MTLO" /\ Put(LO, Rs(i), i.rs \in wide)

-----------------------------------------------------------------------------
(* Shifts.                                                                 *)

(* Mutant: the bits shifted out of the register are kept.                  *)
LeftUnbounded(v, n) == { b + n : b \in v }

Left(v, n)  == { b \in Bit : b - n \in v }
Right(v, n) == { b \in Bit : b + n \in v }
RightArithmetic(v, n) == { b \in Bit : IF b + n \in Bit THEN b + n \in v ELSE 2 * W - 1 \in v }

(* Mutant: SLL stores the u32 without converting it to s32.                *)
ShiftWordUnsigned(op, v, n) ==
    CASE op = "SLL" -> Low(Left(Low(v), n))
      [] op = "SRL" -> SignExtend(Right(Low(v), n), W)
      [] op = "SRA" -> RightArithmetic(SignExtend(v, W), n)

ShiftWord(op, v, n) ==
    CASE op = "SLL" -> SignExtend(Left(Low(v), n), W)
      [] op = "SRL" -> SignExtend(Right(Low(v), n), W)
      [] op = "SRA" -> SignExtend(RightArithmetic(SignExtend(v, W), n), W)

ShiftDouble(op, v, n) ==
    CASE op \in {"DSLL", "DSLL32"} -> Left(v, n)
      [] op \in {"DSRL", "DSRL32"} -> Right(v, n)
      [] op \in {"DSRA", "DSRA32"} -> RightArithmetic(v, n)

Shift(i) ==
    \/ i.op \in {"SLL", "SRL", "SRA"} /\ Put(i.rd, ShiftWord(i.op, Rt(i), i.sa), FALSE)
    \/ i.op \in {"DSLL", "DSRL", "DSRA"} /\ Put(i.rd, ShiftDouble(i.op, Rt(i), i.sa), TRUE)
    \/ i.op \in {"DSLL32", "DSRL32", "DSRA32"} /\ Put(i.rd, ShiftDouble(i.op, Rt(i), i.sa + W), TRUE)

(* The amount is UL[0] & 0x1f or & 0x3f.                                   *)
ShiftVariable(i) ==
    LET Amount(n) == UL(Rs(i)) % n IN
    \/ i.op = "SLLV"  /\ Put(i.rd, ShiftWord("SLL", Rt(i), Amount(W)), FALSE)
    \/ i.op = "SRLV"  /\ Put(i.rd, ShiftWord("SRL", Rt(i), Amount(W)), FALSE)
    \/ i.op = "SRAV"  /\ Put(i.rd, ShiftWord("SRA", Rt(i), Amount(W)), FALSE)
    \/ i.op = "DSLLV" /\ Put(i.rd, ShiftDouble("DSLL", Rt(i), Amount(2 * W)), TRUE)
    \/ i.op = "DSRLV" /\ Put(i.rd, ShiftDouble("DSRL", Rt(i), Amount(2 * W)), TRUE)
    \/ i.op = "DSRAV" /\ Put(i.rd, ShiftDouble("DSRA", Rt(i), Amount(2 * W)), TRUE)

-----------------------------------------------------------------------------
(* Jumps, branches and conditional moves.                                  *)

Linking == {"JAL", "BGEZAL", "BLTZAL", "BGEZALL", "BLTZALL"}
Likely  == {"BEQL", "BNEL", "BLEZL", "BGTZL", "BLTZL", "BGEZL", "BLTZALL", "BGEZALL"}

Jump(i) ==
    /\ \/ i.op \in {"J", "JR"} /\ UNCHANGED <<regs, wide>>
       \/ i.op = "JAL" /\ regs' = [regs EXCEPT ![ra] = Link] /\ wide' = wide \ {ra}
       \/ /\ i.op = "JALR"
          /\ regs' = IF i.rd = 0 THEN regs ELSE [regs EXCEPT ![i.rd] = Link]
          /\ wide' = wide \ {i.rd}
    /\ taken' = "branch"

(* All 64 bits are compared.                                               *)
Condition(op, a, b) ==
    CASE op \in {"BEQ", "BEQL"} -> a = b
      [] op \in {"BNE", "BNEL"} -> a # b
      [] op \in {"BGEZ", "BGEZL", "BGEZAL", "BGEZALL"} -> SD(a) >= 0
      [] op \in {"BLTZ", "BLTZL", "BLTZAL", "BLTZALL"} -> SD(a) < 0
      [] op \in {"BGTZ", "BGTZL"} -> SD(a) > 0
      [] op \in {"BLEZ", "BLEZL"} -> SD(a) <= 0

Branches ==
    {"BEQ", "BNE", "BGEZ", "BGEZAL", "BGTZ", "BLEZ", "BLTZ", "BLTZAL"} \union (Likely)

(* _SetLink(31) comes before the comparison, taken or not.                 *)
Branch(i) ==
    /\ i.op \in Branches
    /\ regs' = IF i.op \in Linking THEN [regs EXCEPT ![ra] = Link] ELSE regs
    /\ wide' = IF i.op \in Linking THEN wide \ {ra} ELSE wide
    /\ taken' = CASE Condition(i.op, regs'[i.rs], regs'[i.rt]) -> "branch"
                  [] ~Condition(i.op, regs'[i.rs], regs'[i.rt]) /\ i.op \in Likely -> "skip"
                  [] ~Condition(i.op, regs'[i.rs], regs'[i.rt]) /\ i.op \notin Likely -> "next"

ConditionalMove(i) ==
    /\ i.op \in {"MOVZ", "MOVN"}
    /\ \/ (Rt(i) = {}) = (i.op = "MOVZ") /\ Put(i.rd, Rs(i), i.rs \in wide)
       \/ (Rt(i) = {}) # (i.op = "MOVZ") /\ Nothing

-----------------------------------------------------------------------------
(* Loads and stores.                                                       *)

Bytes(n) == SUBSET (0 .. n - 1)

(* LB, LBU, LH, LHU, LW, LWU; the half-word is as wide as the immediate.   *)
Load(i) ==
    \/ i.op = "LB"  /\ \E m \in Bytes(ByteBits) : Put(i.rt, SignExtend(m, ByteBits), FALSE)
    \/ i.op = "LBU" /\ \E m \in Bytes(ByteBits) : Put(i.rt, m, FALSE)
    \/ i.op = "LH"  /\ \E m \in Bytes(ImmBits)  : Put(i.rt, SignExtend(m, ImmBits), FALSE)
    \/ i.op = "LHU" /\ \E m \in Bytes(ImmBits)  : Put(i.rt, m, FALSE)
    \/ i.op = "LW"  /\ \E m \in Bytes(W) : Put(i.rt, SignExtend(m, W), FALSE)
    \/ i.op = "LWU" /\ \E m \in Bytes(W) : Put(i.rt, m, TRUE)
    \/ i.op \in {"LD", "LQ"} /\ \E m \in Loaded : Put(i.rt, m, TRUE)

(* LWL, LWR, LDL, LDR: n bits of the register give way to memory's.  The   *)
(* word is stored in UD[0] as it is, without its sign.                     *)
MergeLoad(i) ==
    \E n \in { k \in 0 .. 2 * W - 1 : k % ByteBits = 0 } :
        \/ /\ i.op = "LWL" /\ n < W
           /\ \E m \in Bytes(W) :
                 Put(i.rt, { b \in Rt(i) : b < n } \union Low(Left(m, n)), TRUE)
        \/ /\ i.op = "LWR" /\ n < W
           /\ \E m \in Bytes(W) :
                 Put(i.rt, { b \in Low(Rt(i)) : b >= W - n } \union Right(m, n), TRUE)
        \/ /\ i.op = "LDL"
           /\ \E m \in Loaded : Put(i.rt, { b \in Rt(i) : b < n } \union Left(m, n), TRUE)
        \/ /\ i.op = "LDR"
           /\ \E m \in Loaded : Put(i.rt, { b \in Rt(i) : b >= 2 * W - n } \union Right(m, n), TRUE)

Store(i) == i.op \in {"SB", "SH", "SW", "SD", "SQ", "SWL", "SWR", "SDL", "SDR"} /\ Nothing

-----------------------------------------------------------------------------
(* The rest.                                                               *)

(* MFC0 s0, Status clears UL[0] of s0 only; EI and DI do nothing.          *)
COP0Known(i) ==
    \/ i.op = "MFC0" /\ Put(s0, regs[s0] \ Low(regs[s0]), TRUE)
    \/ i.op \in {"EI", "DI"} /\ Nothing

(* EndOfHeap writes UL[0] of v0 only; the other calls write no register.   *)
(* Which call it is, v1's low byte, is left free.                          *)
SYSCALL(i) ==
    /\ i.op = "SYSCALL"
    /\ Nothing \/ Put(v0, (regs[v0] \ Low(regs[v0])) \union HeapEnd, TRUE)

(* The multimedia handlers that never write rd.                            *)
WithoutRd == {"MTHI1", "MTLO1", "DIV1", "DIVU1", "PMTHI", "PMTLO", "PMTHL", "PDIVW", "PDIVUW", "PDIVBW"}

MMIHandler(i) ==
    LET written == {LO, HI} \union (IF i.op \in WithoutRd THEN {} ELSE {i.rd} \ {0}) IN
    /\ i.op \in Multimedia
    /\ \E v \in Computed :
          regs' \in { [r \in Register |-> IF r \in changed THEN v ELSE regs[r]] : changed \in SUBSET written }
    /\ wide' = wide \union written
    /\ taken' = "next"

Effect(i) ==
    \/ AddImmediate(i) \/ AddDoubleImmediate(i) \/ LogicalImmediate(i) \/ SetLessImmediate(i)
    \/ AddWords(i) \/ AddDoubles(i) \/ Logical(i) \/ SetLess(i) \/ LUI(i)
    \/ DIV(i) \/ DIVU(i) \/ MULT(i) \/ MoveFrom(i) \/ MoveTo(i)
    \/ Shift(i) \/ ShiftVariable(i)
    \/ Jump(i) \/ Branch(i) \/ ConditionalMove(i)
    \/ Load(i) \/ MergeLoad(i) \/ Store(i)
    \/ COP0Known(i) \/ SYSCALL(i) \/ MMIHandler(i)

Step(i) == code' = i /\ Effect(i)

Next == \E i \in Instruction : Step(i)

Spec == Init /\ [][Next]_vars

-----------------------------------------------------------------------------
(* Properties.                                                             *)

(* Every variable stays in its type.                                       *)
RegistersTypeOK ==
    /\ regs \in [Register -> Value]
    /\ wide \subseteq Register
    /\ taken \in {"next", "branch", "skip"}

(* Whatever instructions a program runs, in whatever order, a register     *)
(* that only 32-bit results have reached holds a sign-extended word, so    *)
(* the 64-bit comparisons of SLT, MOVZ and the branches agree with its low *)
(* word; and register 0 stays 0.                                           *)
CanonicalUnlessWide ==
    /\ regs[0] = {} /\ 0 \notin wide
    /\ \A r \in Register \ wide : Canonical(regs[r])
=============================================================================
