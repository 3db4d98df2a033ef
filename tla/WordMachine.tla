---------------------------- MODULE WordMachine -----------------------------
(***************************************************************************)
(* What a 32-bit program may assume of the processor: an abstract machine  *)
(* whose registers are W-bit words, in integer arithmetic.  It says what   *)
(* the low word of every register is after an instruction, and which way   *)
(* a comparison goes when both operands are known to be sign-extended      *)
(* words.  A 64-bit operation, a load or a multimedia instruction leaves   *)
(* any word in its destination.  Registers.tla implements this machine.    *)
(***************************************************************************)
EXTENDS Integers, Bitwise

CONSTANTS
    W, ImmBits, ByteBits,
    Link, HeapEnd, \* words
    Instruction    \* as in Registers, but imm is an integer >= 0

VARIABLES
    word,   \* the low word of every register, unsigned
    known,  \* registers whose 64 bits are the sign-extended word
    taken,  \* what the last instruction did
    code,   \* the last instruction
    halted  \* it ended the run

vars == <<word, known, taken, code, halted>>

Register == 0 .. 33
LO == 32
HI == 33
Range == 0 .. 2^W - 1

Init ==
    /\ word = [r \in Register |-> 0]
    /\ known = Register
    /\ taken = "next"
    /\ code \in Instruction
    /\ halted = FALSE

SignedAt(n, bits) == IF n >= 2^(bits - 1) THEN n - 2^bits ELSE n
S(n) == SignedAt(n, W)
Wrap(n) == n % 2^W

(* A 32-bit result becomes known; any other result is some word.           *)
Sets(r, n) ==
    /\ word' = IF r = 0 THEN word ELSE [word EXCEPT ![r] = Wrap(n)]
    /\ known' = known \union {r}
    /\ taken' = "next"

SetsUnknown(r, words) ==
    /\ \E n \in words : word' = IF r = 0 THEN word ELSE [word EXCEPT ![r] = n]
    /\ known' = IF r = 0 THEN known ELSE known \ {r}
    /\ taken' = "next"

Keeps == UNCHANGED <<word, known>> /\ taken' = "next"

Copies(r, n, sources) ==
    IF sources \subseteq known THEN Sets(r, n) ELSE SetsUnknown(r, {n})

Sum(i, a, b) ==
    \/ i.op \in {"ADD", "ADDU"}   /\ Sets(i.rd, a + b)
    \/ i.op \in {"SUB", "SUBU"}   /\ Sets(i.rd, a - b)
    \/ i.op \in {"ADDI", "ADDIU"} /\ Sets(i.rt, a + SignedAt(i.imm, ImmBits))

(* A sum that overflows in 32 bits is undefined behaviour in the code: its *)
(* word is right, its upper half need not be.                              *)
Overflowing(i, a, b) ==
    LET exact == CASE i.op \in {"ADD", "ADDU"} -> S(a) + S(b)
                   [] i.op \in {"SUB", "SUBU"} -> S(a) - S(b)
                   [] i.op \in {"ADDI", "ADDIU"} -> S(a) + SignedAt(i.imm, ImmBits)
        dest  == IF i.op \in {"ADDI", "ADDIU"} THEN i.rt ELSE i.rd
    IN  /\ i.op \in {"ADD", "ADDU", "SUB", "SUBU", "ADDI", "ADDIU"}
        /\ exact # S(Wrap(exact))
        /\ SetsUnknown(dest, {Wrap(exact)})

LogicalOp(i, a, b) ==
    \/ i.op = "ANDI" /\ Sets(i.rt, a & i.imm)
    \/ i.op = "ORI"  /\ Copies(i.rt, a | i.imm, {i.rs})
    \/ i.op = "XORI" /\ Copies(i.rt, a ^^ i.imm, {i.rs})
    \/ i.op = "AND"  /\ Copies(i.rd, a & b, {i.rs, i.rt})
    \/ i.op = "OR"   /\ Copies(i.rd, a | b, {i.rs, i.rt})
    \/ i.op = "XOR"  /\ Copies(i.rd, a ^^ b, {i.rs, i.rt})
    \/ i.op = "NOR"  /\ Copies(i.rd, 2^W - 1 - (a | b), {i.rs, i.rt})

(* The outcome of a test on the registers rs: what the words say when they *)
(* are known, either one when they are not.                                *)
Outcome(holds, rs) == IF rs \subseteq known THEN {holds} ELSE BOOLEAN
Flag(holds, rs) == { IF o THEN 1 ELSE 0 : o \in Outcome(holds, rs) }

LessThan(i, a, b) ==
    \/ i.op = "SLT"   /\ \E n \in Flag(S(a) < S(b), {i.rs, i.rt}) : Sets(i.rd, n)
    \/ i.op = "SLTU"  /\ \E n \in Flag(a < b, {i.rs, i.rt}) : Sets(i.rd, n)
    \/ i.op = "SLTI"  /\ \E n \in Flag(S(a) < SignedAt(i.imm, ImmBits), {i.rs}) : Sets(i.rt, n)
    \/ i.op = "SLTIU" /\ \E n \in Flag(a < Wrap(SignedAt(i.imm, ImmBits)), {i.rs}) : Sets(i.rt, n)

Pair(lo, hi, rd) ==
    /\ word' = [r \in Register |-> CASE r = LO -> Wrap(lo) [] r = HI -> Wrap(hi)
                                     [] r = rd /\ rd # 0 -> Wrap(lo)
                                     [] OTHER -> word[r]]
    /\ taken' = "next"

(* a = q * b + m with the quotient rounded towards zero: m has a's sign.   *)
Divides(a, b, q, m) ==
    /\ a = q * b + m
    /\ m < b \/ m < -b
    /\ -m < b \/ -m < -b
    /\ a >= 0 => m >= 0
    /\ a <= 0 => m <= 0

MultiplyDivide(i, a, b) ==
    \/ /\ i.op = "MULT"  /\ Pair(S(a) * S(b), (S(a) * S(b)) \div 2^W, i.rd)
       /\ known' = known \union {LO, HI, i.rd}
    \/ /\ i.op = "MULTU" /\ Pair(a * b, (a * b) \div 2^W, i.rd)
       /\ known' = known \union {LO, HI, i.rd}
    \/ /\ i.op = "DIV" /\ b # 0
       /\ Pair(word'[LO], word'[HI], 0)
       /\ Divides(S(a), S(b), S(word'[LO]), S(word'[HI]))
       /\ known' = known \union {LO, HI}
    \/ i.op = "DIVU" /\ b # 0 /\ Pair(a \div b, a % b, 0) /\ known' = known \ {LO, HI}
    \/ i.op \in {"DIV", "DIVU"} /\ b = 0 /\ Keeps

Moves(i, a, b) ==
    \/ i.op = "MFHI" /\ Copies(i.rd, word[HI], {HI})
    \/ i.op = "MFLO" /\ Copies(i.rd, word[LO], {LO})
    \/ i.op = "MTHI" /\ Copies(HI, a, {i.rs})
    \/ i.op = "MTLO" /\ Copies(LO, a, {i.rs})
    \/ i.op = "MOVZ" /\ TRUE \in Outcome(b = 0, {i.rt})  /\ Copies(i.rd, a, {i.rs})
    \/ i.op = "MOVZ" /\ FALSE \in Outcome(b = 0, {i.rt}) /\ Keeps
    \/ i.op = "MOVN" /\ TRUE \in Outcome(b # 0, {i.rt})  /\ Copies(i.rd, a, {i.rs})
    \/ i.op = "MOVN" /\ FALSE \in Outcome(b # 0, {i.rt}) /\ Keeps

Shifts(i, a, b) ==
    \/ i.op = "LUI"  /\ Sets(i.rt, i.imm * 2^ImmBits)
    \/ i.op = "SLL"  /\ Sets(i.rd, b * 2^i.sa)
    \/ i.op = "SRL"  /\ Sets(i.rd, b \div 2^i.sa)
    \/ i.op = "SRA"  /\ Sets(i.rd, S(b) \div 2^i.sa)
    \/ i.op = "SLLV" /\ Sets(i.rd, b * 2^(a % W))
    \/ i.op = "SRLV" /\ Sets(i.rd, b \div 2^(a % W))
    \/ i.op = "SRAV" /\ Sets(i.rd, S(b) \div 2^(a % W))

Jumps(i) ==
    /\ \/ i.op \in {"J", "JR"} /\ UNCHANGED <<word, known>>
       \/ i.op = "JAL"  /\ word' = [word EXCEPT ![31] = Link] /\ known' = known \union {31}
       \/ /\ i.op = "JALR" /\ known' = known \union {i.rd}
          /\ word' = IF i.rd = 0 THEN word ELSE [word EXCEPT ![i.rd] = Link]
    /\ taken' = "branch"

(* The tests of the branches.  Linking comes first: a test of register 31  *)
(* that links is unpredictable on the processor and left open here.        *)
Tests(i, a, b) ==
    CASE i.op \in {"BEQ", "BEQL"} -> Outcome(a = b, {i.rs, i.rt})
      [] i.op \in {"BNE", "BNEL"} -> Outcome(a # b, {i.rs, i.rt})
      [] i.op \in {"BGEZ", "BGEZL"} -> Outcome(S(a) >= 0, {i.rs})
      [] i.op \in {"BLTZ", "BLTZL"} -> Outcome(S(a) < 0, {i.rs})
      [] i.op \in {"BGTZ", "BGTZL"} -> Outcome(S(a) > 0, {i.rs})
      [] i.op \in {"BLEZ", "BLEZL"} -> Outcome(S(a) <= 0, {i.rs})
      [] i.op \in {"BGEZAL", "BGEZALL"} -> IF i.rs = 31 THEN BOOLEAN ELSE Outcome(S(a) >= 0, {i.rs})
      [] i.op \in {"BLTZAL", "BLTZALL"} -> IF i.rs = 31 THEN BOOLEAN ELSE Outcome(S(a) < 0, {i.rs})
      [] OTHER -> {}

Branches(i, a, b) ==
    /\ \/ TRUE \in Tests(i, a, b) /\ taken' = "branch"
       \/ /\ FALSE \in Tests(i, a, b)
          /\ taken' = IF i.op \in {"BEQL", "BNEL", "BLEZL", "BGTZL", "BLTZL", "BGEZL",
                                   "BLTZALL", "BGEZALL"} THEN "skip" ELSE "next"
    /\ IF i.op \in {"BGEZAL", "BLTZAL", "BGEZALL", "BLTZALL"}
       THEN word' = [word EXCEPT ![31] = Link] /\ known' = known \union {31}
       ELSE UNCHANGED <<word, known>>

Loads(i) ==
    \/ i.op = "LB" /\ \E m \in 0 .. 2^ByteBits - 1 : Sets(i.rt, SignedAt(m, ByteBits))
    \/ i.op = "LH" /\ \E m \in 0 .. 2^ImmBits - 1  : Sets(i.rt, SignedAt(m, ImmBits))
    \/ i.op = "LBU" /\ \E m \in 0 .. 2^ByteBits - 1 : Sets(i.rt, m)
    \/ i.op = "LHU" /\ \E m \in 0 .. 2^ImmBits - 1  : Sets(i.rt, m)
    \/ i.op = "LW" /\ \E m \in Range : Sets(i.rt, m)

(* Instructions that may leave any word, in rt or in rd.                   *)
AnyWord(i) ==
    \/ /\ i.op \in {"DADDI", "DADDIU", "LWU", "LD", "LQ", "LDL", "LDR", "LWL", "LWR"}
       /\ SetsUnknown(i.rt, Range)
    \/ /\ i.op \in {"DADD", "DADDU", "DSUB", "DSUBU", "DSLL", "DSRL", "DSRA", "DSLL32", "DSRL32",
                    "DSRA32", "DSLLV", "DSRLV", "DSRAV"}
       /\ SetsUnknown(i.rd, Range)

System(i) ==
    \/ i.op = "MFC0" /\ SetsUnknown(16, {0})
    \/ i.op = "SYSCALL" /\ (Keeps \/ SetsUnknown(2, {HeapEnd}))
    \/ i.op \in {"EI", "DI", "SB", "SH", "SW", "SD", "SQ", "SWL", "SWR", "SDL", "SDR"} /\ Keeps

Multimedia(i) ==
    /\ i.mmi
    /\ \A r \in Register \ {LO, HI, i.rd} : word'[r] = word[r]
    /\ word'[0] = 0
    /\ known' \subseteq known
    /\ known \ known' \subseteq {LO, HI, i.rd}
    /\ taken' = "next"

Step(i) ==
    /\ code' = i
    /\ LET a == word[i.rs]
           b == word[i.rt]
       IN  \/ Sum(i, a, b) \/ Overflowing(i, a, b) \/ LogicalOp(i, a, b) \/ LessThan(i, a, b)
           \/ MultiplyDivide(i, a, b) \/ Moves(i, a, b) \/ Shifts(i, a, b)
           \/ Jumps(i) \/ Branches(i, a, b) \/ Loads(i) \/ AnyWord(i) \/ System(i) \/ Multimedia(i)

Halt == ~halted /\ halted' /\ UNCHANGED <<word, known, taken>>

Next == (~halted' /\ Step(code')) \/ Halt

Spec == Init /\ [][Next]_vars
=============================================================================
