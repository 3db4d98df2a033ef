-------------------------- MODULE ExecutionProofs ---------------------------
(***************************************************************************)
(* Theorems about the scalar instructions, dispatch, listing and trace,    *)
(* for every width of a word, every set of programs and every contents of  *)
(* memory.                                                                 *)
(*                                                                         *)
(* RegistersTypeOK and CanonicalUnlessWide are together inductive (IInv):  *)
(* an action preserves them because it hands Put or PutLOHI a value of the *)
(* type, which is canonical or reported as wide.                           *)
(*                                                                         *)
(* The dispatch tables, the listing's and the trace's are compared entry   *)
(* by entry; an instruction word reaches an entry through one table or     *)
(* two, and the lemmas Listed..., Traced... and Refused... follow it.  The *)
(* state's part, WordInv, is that the last instruction is a word with the  *)
(* handler its fields reach; with IInv it is inductive.                    *)
(*                                                                         *)
(* For the changes of registers, EffectChanges reads from every handler    *)
(* the one register it can fill, WhichTable says which table the handler   *)
(* is in, and so which of the listing's and the trace's formats shows it.  *)
(***************************************************************************)
EXTENDS Execution, TLAPS

-----------------------------------------------------------------------------
(* Registers.                                                              *)

IInv == RegistersTypeOK /\ CanonicalUnlessWide

Good(v, isWide) == v \in Value /\ (isWide \/ Canonical(v))

-----------------------------------------------------------------------------
(* Values.                                                                 *)

LEMMA SignExtendCanonical ==
    ASSUME NEW v, NEW n \in Nat \ {0}, n <= W
    PROVE  SignExtend(v, n) \in Value /\ Canonical(SignExtend(v, n))
<1>1. SignExtend(v, n) \in Value
    BY DEF SignExtend, Value
<1>2. ASSUME NEW b \in Bit, b >= W
      PROVE  b \in SignExtend(v, n) <=> W - 1 \in SignExtend(v, n)
    BY <1>2, RegistersAssumption DEF SignExtend, Bit, RegistersAssumption
<1> QED
    BY <1>1, <1>2 DEF Canonical

LEMMA WordCanonical ==
    ASSUME NEW n PROVE Word(n) \in Value /\ Canonical(Word(n))
BY SignExtendCanonical, RegistersAssumption DEF Word, RegistersAssumption

(* A value with no bit from the sign of a word upwards.                    *)
LEMMA SmallCanonical ==
    ASSUME NEW n \in Nat, n < W, NEW v \in SUBSET (0 .. n - 1)
    PROVE  v \in Value /\ Canonical(v)
BY RegistersAssumption DEF Value, Bit, Canonical, RegistersAssumption

LEMMA TruthCanonical ==
    ASSUME NEW holds PROVE Truth(holds) \in Value /\ Canonical(Truth(holds))
BY RegistersAssumption DEF Truth, Value, Bit, Canonical, RegistersAssumption

LEMMA EmptyCanonical == {} \in Value /\ Canonical({})
BY DEF Value, Canonical

LEMMA Operands ==
    ASSUME IInv, NEW i \in Instruction
    PROVE  /\ i.rs \in GPR /\ i.rt \in GPR /\ i.rd \in GPR
           /\ GPR \subseteq Register
           /\ Rs(i) \in Value /\ Rt(i) \in Value
           /\ i.rs \notin wide => Canonical(Rs(i))
           /\ i.rt \notin wide => Canonical(Rt(i))
           /\ i.imm \in SUBSET (0 .. ImmBits - 1)
           /\ i.sa \in Nat
<1>1. GPR \subseteq Register
    BY DEF Register
<1>2. i.rs \in GPR /\ i.rt \in GPR /\ i.rd \in GPR
    BY RegistersAssumption DEF RegistersAssumption
<1>3. i.imm \in SUBSET (0 .. ImmBits - 1) /\ i.sa \in Nat
    BY RegistersAssumption DEF RegistersAssumption
<1> QED
    BY <1>1, <1>2, <1>3 DEF IInv, RegistersTypeOK, CanonicalUnlessWide, Rs, Rt

-----------------------------------------------------------------------------
(* The three ways an action leaves the registers.                          *)

LEMMA PutPreserves ==
    ASSUME IInv, NEW r \in Register, NEW v, NEW isWide, Good(v, isWide), Put(r, v, isWide)
    PROVE  IInv'
<1>1. r # 0 => regs' = [regs EXCEPT ![r] = v]
    BY DEF Put
<1>2. r = 0 => regs' = regs
    BY DEF Put
<1>3. RegistersTypeOK'
    BY <1>1, <1>2 DEF IInv, RegistersTypeOK, Put, Good
<1>4. regs'[0] = {} /\ 0 \notin wide'
    BY <1>1, <1>2 DEF IInv, RegistersTypeOK, CanonicalUnlessWide, Put, Register, GPR
<1>5. ASSUME NEW q \in Register \ wide' PROVE Canonical(regs'[q])
    <2>1. CASE q # r \/ r = 0
        <3>1. regs'[q] = regs[q] /\ (q \notin wide \/ q = 0)
            BY <1>1, <1>2, <1>5, <2>1 DEF IInv, RegistersTypeOK, Put
        <3> QED
            BY <3>1 DEF IInv, CanonicalUnlessWide
    <2>2. CASE q = r /\ r # 0
        <3>1. regs'[q] = v /\ ~isWide
            BY <1>1, <1>5, <2>2 DEF IInv, RegistersTypeOK, Put
        <3> QED
            BY <3>1 DEF Good
    <2> QED
        BY <2>1, <2>2
<1> QED
    BY <1>3, <1>4, <1>5 DEF IInv, CanonicalUnlessWide

LEMMA NothingPreserves ==
    ASSUME IInv, Nothing PROVE IInv'
BY DEF IInv, RegistersTypeOK, CanonicalUnlessWide, Nothing

LEMMA PutLOHIPreserves ==
    ASSUME IInv, NEW lo, NEW hi, NEW rd \in GPR, NEW isWide \in BOOLEAN,
           Good(lo, isWide), Good(hi, isWide), isWide => rd = 0,
           PutLOHI(lo, hi, rd, isWide)
    PROVE  IInv'
<1>0. \A r \in Register : regs'[r] = IF r = HI THEN hi
                                     ELSE IF r = LO \/ (r = rd /\ rd # 0) THEN lo ELSE regs[r]
    BY DEF PutLOHI
<1>1. lo \in Value /\ hi \in Value
    BY DEF Good
<1>2. regs' \in [Register -> Value]
    BY <1>0, <1>1 DEF IInv, RegistersTypeOK, PutLOHI
<1>3. RegistersTypeOK'
    BY <1>2 DEF IInv, RegistersTypeOK, PutLOHI, Register
<1>4. regs'[0] = {} /\ 0 \notin wide'
    BY <1>0 DEF IInv, CanonicalUnlessWide, PutLOHI, Register, GPR, LO, HI
<1>5. ASSUME NEW q \in Register \ wide' PROVE Canonical(regs'[q])
    BY <1>0, <1>5 DEF IInv, CanonicalUnlessWide, PutLOHI, Good
<1> QED
    BY <1>3, <1>4, <1>5 DEF IInv, CanonicalUnlessWide

-----------------------------------------------------------------------------
(* Each action preserves the invariant: it is one of those three, and      *)
(* leaves a value of the type, canonical or reported as wide.              *)

LEMMA ImmediatesPreserve ==
    ASSUME IInv, NEW i \in Instruction,
           \/ AddImmediate(i) \/ AddDoubleImmediate(i) \/ LogicalImmediate(i)
           \/ SetLessImmediate(i) \/ LUI(i)
    PROVE  IInv'
<1> DEFINE imm == i.imm
<1>1. /\ i.rt \in Register
      /\ Rs(i) \in Value
      /\ i.rs \notin wide => Canonical(Rs(i))
      /\ imm \in SUBSET (0 .. ImmBits - 1)
    BY Operands
<1>2. CASE AddImmediate(i)
    <2>1. PICK n : \/ Put(i.rt, Word(n), FALSE)
                   \/ Put(i.rt, Bits(n), TRUE)
        BY <1>2 DEF AddImmediate
    <2>2. Good(Word(n), FALSE) /\ Good(Bits(n), TRUE)
        BY WordCanonical DEF Good, Bits, Value
    <2> QED
        BY <1>1, <2>1, <2>2, PutPreserves
<1>3. CASE AddDoubleImmediate(i)
    <2>1. PICK n : Put(i.rt, Bits(n), TRUE)
        BY <1>3 DEF AddDoubleImmediate
    <2>2. Good(Bits(n), TRUE)
        BY DEF Good, Bits, Value
    <2> QED
        BY <1>1, <2>1, <2>2, PutPreserves
<1>4. CASE LogicalImmediate(i)
    <2> DEFINE exclusive == (Rs(i) \ imm) \union (imm \ Rs(i))
               wideRs == i.rs \in wide
    <2>1. Good(Rs(i) \intersect imm, FALSE)
        <3>1. Rs(i) \intersect imm \in SUBSET (0 .. ImmBits - 1)
            BY <1>1
        <3> QED
            BY <3>1, SmallCanonical, RegistersAssumption DEF Good, RegistersAssumption
    <2>2. imm \in Value /\ \A b \in Bit : b >= W - 1 => b \notin imm
        BY <1>1, RegistersAssumption DEF RegistersAssumption, Value, Bit
    <2>3. W - 1 \in Bit
        BY RegistersAssumption DEF RegistersAssumption, Bit
    <2>4. Good(Rs(i) \union imm, wideRs) /\ Good(exclusive, wideRs)
        <3>1. Rs(i) \union imm \in Value /\ exclusive \in Value
            BY <1>1, <2>2 DEF Value
        <3>2. ASSUME NEW b \in Bit, b >= W
              PROVE  b >= W - 1 /\ b \notin imm /\ W - 1 \notin imm
            BY <2>2, <2>3, <3>2, RegistersAssumption DEF RegistersAssumption, Bit
        <3>3. ASSUME Canonical(Rs(i))
              PROVE  Canonical(Rs(i) \union imm) /\ Canonical(exclusive)
            BY <3>2, <3>3 DEF Canonical
        <3> QED
            BY <1>1, <3>1, <3>3 DEF Good
    <2>5. \/ Put(i.rt, Rs(i) \intersect imm, FALSE)
          \/ Put(i.rt, Rs(i) \union imm, wideRs)
          \/ Put(i.rt, exclusive, wideRs)
        BY <1>4 DEF LogicalImmediate
    <2> HIDE DEF exclusive, wideRs
    <2> QED
        BY <1>1, <2>1, <2>4, <2>5, PutPreserves
<1>5. CASE SetLessImmediate(i)
    <2>1. PICK holds : Put(i.rt, Truth(holds), FALSE)
        BY <1>5 DEF SetLessImmediate
    <2> QED
        BY <1>1, <2>1, TruthCanonical, PutPreserves DEF Good
<1>6. CASE LUI(i)
    <2>1. Put(i.rt, SignExtend({ b + ImmBits : b \in i.imm }, W), FALSE)
        BY <1>6 DEF LUI
    <2>2. Good(SignExtend({ b + ImmBits : b \in i.imm }, W), FALSE)
        BY SignExtendCanonical, RegistersAssumption DEF Good, RegistersAssumption
    <2> QED
        BY <1>1, <2>1, <2>2, PutPreserves
<1> QED
    BY <1>2, <1>3, <1>4, <1>5, <1>6

LEMMA RegisterArithmeticPreserves ==
    ASSUME IInv, NEW i \in Instruction,
           AddWords(i) \/ AddDoubles(i) \/ Logical(i) \/ SetLess(i) \/ ConditionalMove(i)
    PROVE  IInv'
<1>1. /\ i.rd \in Register
      /\ Rs(i) \in Value /\ Rt(i) \in Value
      /\ i.rs \notin wide => Canonical(Rs(i))
      /\ i.rt \notin wide => Canonical(Rt(i))
    BY Operands
<1>2. CASE AddWords(i)
    <2>1. PICK n : \/ Put(i.rd, Word(n), FALSE)
                   \/ Put(i.rd, Bits(n), TRUE)
        BY <1>2 DEF AddWords
    <2>2. Good(Word(n), FALSE) /\ Good(Bits(n), TRUE)
        BY WordCanonical DEF Good, Bits, Value
    <2> QED
        BY <1>1, <2>1, <2>2, PutPreserves
<1>3. CASE AddDoubles(i)
    <2>1. PICK n : Put(i.rd, Bits(n), TRUE)
        BY <1>3 DEF AddDoubles
    <2>2. Good(Bits(n), TRUE)
        BY DEF Good, Bits, Value
    <2> QED
        BY <1>1, <2>1, <2>2, PutPreserves
<1>4. CASE Logical(i)
    <2> DEFINE anyWide == {i.rs, i.rt} \intersect wide # {}
               exclusive == (Rs(i) \ Rt(i)) \union (Rt(i) \ Rs(i))
    <2>1. \/ Put(i.rd, Rs(i) \intersect Rt(i), anyWide)
          \/ Put(i.rd, Rs(i) \union Rt(i), anyWide)
          \/ Put(i.rd, exclusive, anyWide)
          \/ Put(i.rd, Bit \ (Rs(i) \union Rt(i)), anyWide)
        BY <1>4 DEF Logical
    <2>2. W - 1 \in Bit
        BY RegistersAssumption DEF RegistersAssumption, Bit
    <2>3. ~anyWide => Canonical(Rs(i)) /\ Canonical(Rt(i))
        BY <1>1
    <2>4. /\ Good(Rs(i) \intersect Rt(i), anyWide)
          /\ Good(Rs(i) \union Rt(i), anyWide)
          /\ Good(exclusive, anyWide)
          /\ Good(Bit \ (Rs(i) \union Rt(i)), anyWide)
        <3>1. ASSUME Canonical(Rs(i)), Canonical(Rt(i))
              PROVE  /\ Canonical(Rs(i) \intersect Rt(i))
                     /\ Canonical(Rs(i) \union Rt(i))
                     /\ Canonical(exclusive)
                     /\ Canonical(Bit \ (Rs(i) \union Rt(i)))
            BY <2>2, <3>1 DEF Canonical
        <3>2. /\ Rs(i) \intersect Rt(i) \in Value
              /\ Rs(i) \union Rt(i) \in Value
              /\ exclusive \in Value
              /\ Bit \ (Rs(i) \union Rt(i)) \in Value
            BY <1>1 DEF Value
        <3> HIDE DEF exclusive, anyWide
        <3> QED
            BY <2>3, <3>1, <3>2 DEF Good
    <2> HIDE DEF exclusive, anyWide
    <2> QED
        BY <1>1, <2>1, <2>4, PutPreserves
<1>5. CASE SetLess(i)
    <2>1. PICK holds : Put(i.rd, Truth(holds), FALSE)
        BY <1>5 DEF SetLess
    <2> QED
        BY <1>1, <2>1, TruthCanonical, PutPreserves DEF Good
<1>6. CASE ConditionalMove(i)
    BY <1>1, <1>6, PutPreserves, NothingPreserves DEF ConditionalMove, Good
<1> QED
    BY <1>2, <1>3, <1>4, <1>5, <1>6

LEMMA MultiplyDividePreserves ==
    ASSUME IInv, NEW i \in Instruction,
           DIV(i) \/ DIVU(i) \/ MULT(i) \/ MoveFrom(i) \/ MoveTo(i)
    PROVE  IInv'
<1>1. /\ i.rd \in GPR /\ i.rd \in Register /\ 0 \in GPR
      /\ LO \in Register /\ HI \in Register
      /\ Rs(i) \in Value
      /\ i.rs \notin wide => Canonical(Rs(i))
    BY Operands DEF Register, GPR
<1>2. CASE DIV(i)
    <2>1. CASE Nothing
        BY <2>1, NothingPreserves
    <2>2. CASE \E lo, hi : PutLOHI(Word(lo), Word(hi), 0, FALSE)
        <3>1. PICK lo, hi : PutLOHI(Word(lo), Word(hi), 0, FALSE)
            BY <2>2
        <3>2. Good(Word(lo), FALSE) /\ Good(Word(hi), FALSE)
            BY WordCanonical DEF Good
        <3> QED
            BY <1>1, <3>1, <3>2, PutLOHIPreserves
    <2> QED
        BY <1>2, <2>1, <2>2 DEF DIV
<1>3. CASE DIVU(i)
    <2>1. CASE Nothing
        BY <2>1, NothingPreserves
    <2>2. CASE \E lo, hi : PutLOHI(Low(Bits(lo)), Low(Bits(hi)), 0, TRUE)
        <3>1. PICK lo, hi : PutLOHI(Low(Bits(lo)), Low(Bits(hi)), 0, TRUE)
            BY <2>2
        <3>2. Good(Low(Bits(lo)), TRUE) /\ Good(Low(Bits(hi)), TRUE)
            BY DEF Good, Low, Bits, Value
        <3> QED
            BY <1>1, <3>1, <3>2, PutLOHIPreserves
    <2> QED
        BY <1>3, <2>1, <2>2 DEF DIVU
<1>4. CASE MULT(i)
    <2>1. PICK n : PutLOHI(Word(n), Word(n \div 2^W), i.rd, FALSE)
        BY <1>4 DEF MULT
    <2>2. Good(Word(n), FALSE) /\ Good(Word(n \div 2^W), FALSE)
        BY WordCanonical DEF Good
    <2> QED
        BY <1>1, <2>1, <2>2, PutLOHIPreserves
<1>5. CASE MoveFrom(i)
    <2>1. /\ Good(regs[HI], HI \in wide)
          /\ Good(regs[LO], LO \in wide)
        BY <1>1 DEF Good, IInv, RegistersTypeOK, CanonicalUnlessWide
    <2> QED
        BY <1>1, <1>5, <2>1, PutPreserves DEF MoveFrom
<1>6. CASE MoveTo(i)
    <2>1. Good(Rs(i), i.rs \in wide)
        BY <1>1 DEF Good
    <2> QED
        BY <1>1, <1>6, <2>1, PutPreserves DEF MoveTo
<1> QED
    BY <1>2, <1>3, <1>4, <1>5, <1>6

LEMMA ShiftsPreserve ==
    ASSUME IInv, NEW i \in Instruction, Shift(i) \/ ShiftVariable(i)
    PROVE  IInv'
<1>1. i.rd \in Register
    BY Operands
<1>2. ASSUME NEW op \in {"SLL", "SRL", "SRA"}, NEW v, NEW n
      PROVE  Good(ShiftWord(op, v, n), FALSE)
    <2>1. \E x : ShiftWord(op, v, n) = SignExtend(x, W)
        BY <1>2 DEF ShiftWord
    <2> QED
        BY <2>1, SignExtendCanonical, RegistersAssumption DEF Good, RegistersAssumption
<1>3. ASSUME NEW op \in {"DSLL", "DSRL", "DSRA", "DSLL32", "DSRL32", "DSRA32"}, NEW v, NEW n
      PROVE  Good(ShiftDouble(op, v, n), TRUE)
    <2>1. Left(v, n) \in Value /\ Right(v, n) \in Value /\ RightArithmetic(v, n) \in Value
        BY DEF Left, Right, RightArithmetic, Value
    <2> QED
        BY <1>3, <2>1 DEF ShiftDouble, Good
<1>4. CASE Shift(i)
    <2>1. CASE i.op \in {"SLL", "SRL", "SRA"} /\ Put(i.rd, ShiftWord(i.op, Rt(i), i.sa), FALSE)
        BY <1>1, <1>2, <2>1, PutPreserves
    <2>2. CASE i.op \in {"DSLL", "DSRL", "DSRA"} /\ Put(i.rd, ShiftDouble(i.op, Rt(i), i.sa), TRUE)
        BY <1>1, <1>3, <2>2, PutPreserves
    <2>3. CASE /\ i.op \in {"DSLL32", "DSRL32", "DSRA32"}
               /\ Put(i.rd, ShiftDouble(i.op, Rt(i), i.sa + W), TRUE)
        BY <1>1, <1>3, <2>3, PutPreserves
    <2> QED
        BY <1>4, <2>1, <2>2, <2>3 DEF Shift
<1>5. CASE ShiftVariable(i)
    <2>1. CASE \E op \in {"SLL", "SRL", "SRA"} : \E v, n : Put(i.rd, ShiftWord(op, v, n), FALSE)
        BY <1>1, <1>2, <2>1, PutPreserves
    <2>2. CASE \E op \in {"DSLL", "DSRL", "DSRA"} : \E v, n : Put(i.rd, ShiftDouble(op, v, n), TRUE)
        BY <1>1, <1>3, <2>2, PutPreserves
    <2> QED
        BY <1>5, <2>1, <2>2 DEF ShiftVariable
<1> QED
    BY <1>4, <1>5

LEMMA JumpsPreserve ==
    ASSUME IInv, NEW i \in Instruction, Jump(i) \/ Branch(i)
    PROVE  IInv'
<1>1. taken' \in {"next", "branch", "skip"}
    BY DEF Jump, Branch
<1>2. \/ regs' = regs /\ (wide' = wide \/ wide' = wide \ {0})
      \/ \E r \in GPR \ {0} : regs' = [regs EXCEPT ![r] = Link] /\ wide' = wide \ {r}
    <2>1. ra \in GPR \ {0} /\ i.rd \in GPR
        BY Operands DEF ra, GPR
    <2>2. CASE Jump(i)
        BY <2>1, <2>2 DEF Jump
    <2>3. CASE Branch(i)
        BY <2>1, <2>3 DEF Branch
    <2> QED
        BY <2>2, <2>3
<1>3. CASE regs' = regs /\ (wide' = wide \/ wide' = wide \ {0})
    BY <1>1, <1>3 DEF IInv, RegistersTypeOK, CanonicalUnlessWide
<1>4. CASE \E r \in GPR \ {0} : regs' = [regs EXCEPT ![r] = Link] /\ wide' = wide \ {r}
    <2>1. PICK r \in GPR \ {0} : regs' = [regs EXCEPT ![r] = Link] /\ wide' = wide \ {r}
        BY <1>4
    <2>2. Link \in Value /\ Canonical(Link)
        BY RegistersAssumption DEF RegistersAssumption
    <2>3. r \in Register /\ r # 0
        BY <2>1 DEF Register
    <2> QED
        BY <1>1, <2>1, <2>2, <2>3 DEF IInv, RegistersTypeOK, CanonicalUnlessWide
<1> QED
    BY <1>2, <1>3, <1>4

LEMMA LoadsPreserve ==
    ASSUME IInv, NEW i \in Instruction, Load(i) \/ MergeLoad(i) \/ Store(i)
    PROVE  IInv'
<1>1. i.rt \in Register /\ Rt(i) \in Value
    BY Operands
<1>2. ASSUME NEW v, v \in Value, Put(i.rt, v, TRUE)
      PROVE  IInv'
    BY <1>1, <1>2, PutPreserves DEF Good
<1>3. ASSUME NEW v, v \in Value, Canonical(v), Put(i.rt, v, FALSE)
      PROVE  IInv'
    BY <1>1, <1>3, PutPreserves DEF Good
<1>4. /\ ByteBits \in Nat \ {0} /\ ByteBits < W
      /\ ImmBits \in Nat \ {0} /\ ImmBits < W
      /\ W \in Nat \ {0}
      /\ Loaded \subseteq Value
    BY RegistersAssumption DEF RegistersAssumption
<1>5. CASE Load(i)
    <2>0. ASSUME NEW n \in Nat \ {0}, n < W, NEW m \in Bytes(n),
                 Put(i.rt, SignExtend(m, n), FALSE) \/ Put(i.rt, m, FALSE)
          PROVE  IInv'
        <3>1. SignExtend(m, n) \in Value /\ Canonical(SignExtend(m, n))
            BY <1>4, <2>0, SignExtendCanonical
        <3>2. m \in Value /\ Canonical(m)
            BY <2>0, SmallCanonical DEF Bytes
        <3> QED
            BY <1>3, <2>0, <3>1, <3>2
    <2>1. CASE \E m \in Bytes(ByteBits) :
                  Put(i.rt, SignExtend(m, ByteBits), FALSE) \/ Put(i.rt, m, FALSE)
        BY <1>4, <2>0, <2>1
    <2>2. CASE \E m \in Bytes(ImmBits) :
                  Put(i.rt, SignExtend(m, ImmBits), FALSE) \/ Put(i.rt, m, FALSE)
        BY <1>4, <2>0, <2>2
    <2>3. CASE \E m \in Bytes(W) : Put(i.rt, SignExtend(m, W), FALSE)
        <3>1. PICK m \in Bytes(W) : Put(i.rt, SignExtend(m, W), FALSE)
            BY <2>3
        <3>2. SignExtend(m, W) \in Value /\ Canonical(SignExtend(m, W))
            BY <1>4, SignExtendCanonical
        <3> QED
            BY <1>3, <3>1, <3>2
    <2>4. CASE \E m \in Bytes(W) \union Loaded : Put(i.rt, m, TRUE)
        <3>1. Bytes(W) \subseteq Value
            BY <1>4 DEF Bytes, Value, Bit
        <3> QED
            BY <1>2, <1>4, <2>4, <3>1
    <2> QED
        BY <1>5, <2>1, <2>2, <2>3, <2>4 DEF Load
<1>6. CASE MergeLoad(i)
    <2>1. ASSUME NEW m, NEW n
          PROVE  Left(m, n) \in Value /\ Right(m, n) \in Value /\ Low(Left(m, n)) \in Value
        BY DEF Left, Right, Low, Value
    <2>2. /\ \A n : { b \in Rt(i) : b < n } \in Value
          /\ \A n : { b \in Low(Rt(i)) : b >= W - n } \in Value
          /\ \A n : { b \in Rt(i) : b >= 2 * W - n } \in Value
        BY <1>1 DEF Low, Value
    <2>3. \E x \in Value, y \in Value : Put(i.rt, x \union y, TRUE)
        BY <1>6, <2>1, <2>2 DEF MergeLoad
    <2>4. \A x \in Value, y \in Value : x \union y \in Value
        BY DEF Value
    <2> QED
        BY <1>2, <2>3, <2>4
<1>7. CASE Store(i)
    BY <1>7, NothingPreserves DEF Store
<1> QED
    BY <1>5, <1>6, <1>7

LEMMA OthersPreserve ==
    ASSUME IInv, NEW i \in Instruction, COP0Known(i) \/ SYSCALL(i) \/ MMIHandler(i)
    PROVE  IInv'
<1>1. /\ s0 \in Register /\ v0 \in Register
      /\ regs[s0] \in Value /\ regs[v0] \in Value
      /\ HeapEnd \in Value /\ Computed \subseteq Value
    BY RegistersAssumption DEF RegistersAssumption, s0, v0, Register, GPR, IInv, RegistersTypeOK
<1>2. CASE COP0Known(i)
    <2>1. Good(regs[s0] \ Low(regs[s0]), TRUE)
        BY <1>1 DEF Good, Value
    <2> QED
        BY <1>1, <1>2, <2>1, PutPreserves, NothingPreserves DEF COP0Known
<1>3. CASE SYSCALL(i)
    <2>1. Good((regs[v0] \ Low(regs[v0])) \union HeapEnd, TRUE)
        BY <1>1 DEF Good, Value
    <2> QED
        BY <1>1, <1>3, <2>1, PutPreserves, NothingPreserves DEF SYSCALL
<1>4. CASE MMIHandler(i)
    <2> DEFINE written == {LO, HI} \union (IF i.op \in WithoutRd THEN {} ELSE {i.rd} \ {0})
    <2>1. written \subseteq Register /\ 0 \notin written /\ 0 \in Register
        BY Operands DEF Register, GPR, LO, HI
    <2>2. PICK v \in Computed, changed \in SUBSET written :
              regs' = [r \in Register |-> IF r \in changed THEN v ELSE regs[r]]
        BY <1>4 DEF MMIHandler
    <2>3. wide' = wide \union written /\ taken' = "next"
        BY <1>4 DEF MMIHandler
    <2> HIDE DEF written
    <2>4. RegistersTypeOK'
        BY <1>1, <2>1, <2>2, <2>3 DEF IInv, RegistersTypeOK
    <2>5. CanonicalUnlessWide'
        BY <2>1, <2>2, <2>3 DEF IInv, CanonicalUnlessWide
    <2> QED
        BY <2>4, <2>5 DEF IInv
<1> QED
    BY <1>2, <1>3, <1>4

-----------------------------------------------------------------------------

LEMMA InitInvariant == Init => IInv
BY EmptyCanonical DEF Init, IInv, RegistersTypeOK, CanonicalUnlessWide, Register, GPR

LEMMA NextInvariant == IInv /\ [Next]_vars => IInv'
<1> SUFFICES ASSUME IInv, [Next]_vars PROVE IInv'
    OBVIOUS
<1>1. ASSUME NEW i \in Instruction, Step(i) PROVE IInv'
    BY <1>1, ImmediatesPreserve, RegisterArithmeticPreserves, MultiplyDividePreserves,
       ShiftsPreserve, JumpsPreserve, LoadsPreserve, OthersPreserve DEF Step, Effect
<1>2. CASE UNCHANGED vars
    BY <1>2 DEF vars, IInv, RegistersTypeOK, CanonicalUnlessWide
<1> QED
    BY <1>1, <1>2 DEF Next

(* Whatever the width of the registers and whatever a program runs, every  *)
(* instruction leaves values of the registers' type.                       *)
THEOREM RegistersTypeCorrect == Spec => []RegistersTypeOK
<1>1. IInv => RegistersTypeOK
    BY DEF IInv
<1> QED
    BY <1>1, InitInvariant, NextInvariant, PTL DEF Spec

(* Register 0 stays 0, and the registers that hold results of 32-bit       *)
(* instructions only are sign-extended, in every program.                  *)
THEOREM WordsStaySignExtended == Spec => []CanonicalUnlessWide
<1>1. IInv => CanonicalUnlessWide
    BY DEF IInv
<1> QED
    BY <1>1, InitInvariant, NextInvariant, PTL DEF Spec
-----------------------------------------------------------------------------
(* The listing.                                                            *)

(* The entries of the listing's tables that the interpreter implements.    *)
LEMMA ListedScalarTables ==
    /\ \A k \in 0 .. 63 : OpcodePrintTable[k] # U => Lists!ListedOpcode[k] = OpcodePrintTable[k]
    /\ \A k \in 0 .. 63 : SpecialPrintTable[k] # U => Lists!ListedSpecial[k] = SpecialPrintTable[k]
    /\ \A k \in 0 .. 31 : REGIMMPrintTable[k] # U => Lists!ListedREGIMM[k] = REGIMMPrintTable[k]
<1>1. \A k \in 0 .. 63 : OpcodePrintTable[k] # U => Lists!ListedOpcode[k] = OpcodePrintTable[k]
    BY DEF OpcodePrintTable, Lists!ListedOpcode, Table, Lists!Table, U
<1>2. \A k \in 0 .. 63 : SpecialPrintTable[k] # U => Lists!ListedSpecial[k] = SpecialPrintTable[k]
    BY DEF SpecialPrintTable, Lists!ListedSpecial, Table, Lists!Table, U
<1>3. \A k \in 0 .. 31 : REGIMMPrintTable[k] # U => Lists!ListedREGIMM[k] = REGIMMPrintTable[k]
    BY DEF REGIMMPrintTable, Lists!ListedREGIMM, Table, Lists!Table, U
<1> QED
    BY <1>1, <1>2, <1>3

LEMMA ListedMMITables ==
    /\ \A k \in 0 .. 63 : MMIPrintTable[k] \notin {M, "MADDU"} => Lists!ListedMMI[k] = MMIPrintTable[k]
    /\ \A k \in 0 .. 31 : MMI0PrintTable[k] # M => Lists!ListedMMI0[k] = MMI0PrintTable[k]
    /\ \A k \in 0 .. 31 : MMI1PrintTable[k] # M => Lists!ListedMMI1[k] = MMI1PrintTable[k]
    /\ \A k \in 0 .. 31 : MMI2PrintTable[k] \notin {M, "PMSUBW"} => Lists!ListedMMI2[k] = MMI2PrintTable[k]
    /\ \A k \in 0 .. 31 : MMI3PrintTable[k] # M => Lists!ListedMMI3[k] = MMI3PrintTable[k]
<1>1. \A k \in 0 .. 63 : MMIPrintTable[k] \notin {M, "MADDU"} => Lists!ListedMMI[k] = MMIPrintTable[k]
    BY DEF MMIPrintTable, Lists!ListedMMI, Table, Lists!Table, M
<1>2. \A k \in 0 .. 31 : MMI0PrintTable[k] # M => Lists!ListedMMI0[k] = MMI0PrintTable[k]
    BY DEF MMI0PrintTable, Lists!ListedMMI0, Table, Lists!Table, M
<1>3. \A k \in 0 .. 31 : MMI1PrintTable[k] # M => Lists!ListedMMI1[k] = MMI1PrintTable[k]
    BY DEF MMI1PrintTable, Lists!ListedMMI1, Table, Lists!Table, M
<1>4. \A k \in 0 .. 31 : MMI2PrintTable[k] \notin {M, "PMSUBW"} => Lists!ListedMMI2[k] = MMI2PrintTable[k]
    BY DEF MMI2PrintTable, Lists!ListedMMI2, Table, Lists!Table, M
<1>5. \A k \in 0 .. 31 : MMI3PrintTable[k] # M => Lists!ListedMMI3[k] = MMI3PrintTable[k]
    BY DEF MMI3PrintTable, Lists!ListedMMI3, Table, Lists!Table, M
<1> QED
    BY <1>1, <1>2, <1>3, <1>4, <1>5

(* The tables that lead to other tables.                                   *)
LEMMA OpcodeEntries ==
    \A k \in 0 .. 63 :
        /\ OpcodePrintTable[k] = "SPECIAL" <=> k = 0
        /\ OpcodePrintTable[k] = "REGIMM" <=> k = 1
        /\ OpcodePrintTable[k] = "COP0" <=> k = 16
        /\ OpcodePrintTable[k] = "MMI" <=> k = 28
        /\ OpcodePrintTable[k] # "COP1"
BY DEF OpcodePrintTable, Table, U

LEMMA MMIEntries ==
    \A k \in 0 .. 63 :
        /\ MMIPrintTable[k] = "MMI0" <=> k = 8
        /\ MMIPrintTable[k] = "MMI2" <=> k = 9
        /\ MMIPrintTable[k] = "MMI1" <=> k = 40
        /\ MMIPrintTable[k] = "MMI3" <=> k = 41
        /\ MMIPrintTable[k] # U
BY DEF MMIPrintTable, Table, U, M

(* No instruction is called what the tables call an empty entry.           *)
LEMMA BadApart ==
    /\ Traces!BAD \notin {"SPECIAL", "REGIMM", "MMI", "COP0", "COP1", "CACHE", "LWC1", "PREF", "SWC1"}
    /\ Traces!BAD \notin {"SYNC", "MFSA", "MTSA", "TGE", "TGEU", "TLT", "TLTU", "TEQ", "TNE"}
    /\ Traces!BAD \notin {"TGEI", "TGEIU", "TLTI", "TLTIU", "TEQI", "TNEI", "MTSAB", "MTSAH"}
    /\ Traces!BAD \notin {"MMI0", "MMI1", "MMI2", "MMI3"}
    /\ Traces!BAD \notin {"MFC0", "MTC0", "BC0", "Func", "BC0F", "BC0T", "BC0FL", "BC0TL",
                          "TLBR", "TLBWI", "TLBWR", "TLBP", "ERET", "EI", "DI"}
    /\ Traces!BAD \notin {"MFC1", "CFC1", "MTC1", "CTC1", "BC1", "S", "W", "BC1F", "BC1T", "BC1FL", "BC1TL",
                          "CVTSw"}
    /\ Traces!BAD \notin {"ADDs", "SUBs", "MULs", "DIVs", "SQRTs", "ABSs", "MOVs", "NEGs", "RSQRTs",
                          "ADDAs", "SUBAs", "MULAs", "MADDs", "MSUBs", "MADDAs", "MSUBAs", "CVTWs",
                          "MINs", "MAXs", "CFs", "CEQs", "CLTs", "CLEs"}
BY Zenon DEF Traces!BAD

LEMMA UnknownApart ==
    /\ Lists!Unlisted \notin {"SPECIAL", "REGIMM", "MMI", "COP0", "COP1"}
    /\ Lists!MMIUnknown \notin {"MMI0", "MMI1", "MMI2", "MMI3"}
    /\ Lists!COP0Unknown \notin {"BC0", "C0"}
    /\ Lists!COP1Unknown \notin {"BC1", "S", "W"}
BY Zenon DEF Lists!Unlisted, Lists!MMIUnknown, Lists!COP0Unknown, Lists!COP1Unknown

(* A record with the fields of a word; an instruction is one, and has the  *)
(* handler that its fields reach.                                          *)
IsWord(w) ==
    /\ w.opcode \in 0 .. 63 /\ w.funct \in 0 .. 63
    /\ w.rs \in 0 .. 31 /\ w.rt \in 0 .. 31 /\ w.rd \in 0 .. 31 /\ w.sa \in 0 .. 31

LEMMA DecodedIsWord ==
    ASSUME NEW w \in Words32(ImmBits)
    PROVE  IsWord(Decoded(w)) /\ Decoded(w).op = Handler(Decoded(w))
<1>1. /\ w.opcode \in 0 .. 63 /\ w.funct \in 0 .. 63
      /\ w.rs \in 0 .. 31 /\ w.rt \in 0 .. 31 /\ w.rd \in 0 .. 31 /\ w.sa \in 0 .. 31
    BY DEF Words32, GPR
<1>2. IsWord(Decoded(w))
    BY <1>1 DEF Decoded, IsWord
<1>3. Handler(Decoded(w)) = Handler(w)
    BY DEF Decoded, Handler, COP0, MMI, Fields
<1> QED
    BY <1>2, <1>3 DEF Decoded

LEMMA ListedRuns ==
    ASSUME NEW w, IsWord(w), Handler(w) \notin Refusals \union {"MADDU", "PMSUBW"}
    PROVE  Lists!Listed(w) = Handler(w)
<1>0. /\ w.opcode \in 0 .. 63 /\ w.funct \in 0 .. 63
      /\ w.rs \in 0 .. 31 /\ w.rt \in 0 .. 31 /\ w.rd \in 0 .. 31 /\ w.sa \in 0 .. 31
    BY DEF IsWord
<1>1. CASE w.opcode = 0
    <2>1. Handler(w) = SpecialPrintTable[w.funct] /\ Lists!ListedOpcode[0] = "SPECIAL"
        BY <1>1, OpcodeEntries, ListedScalarTables DEF Handler, U
    <2>2. Lists!Listed(w) = Lists!ListedSpecial[w.funct]
        BY <1>1, <2>1 DEF Lists!Listed
    <2> QED
        BY <1>0, <2>1, <2>2, ListedScalarTables DEF Refusals
<1>2. CASE w.opcode = 1
    <2>1. Handler(w) = REGIMMPrintTable[w.rt] /\ Lists!ListedOpcode[1] = "REGIMM"
        BY <1>2, OpcodeEntries, ListedScalarTables DEF Handler, U
    <2>2. Lists!Listed(w) = Lists!ListedREGIMM[w.rt]
        BY <1>2, <2>1 DEF Lists!Listed
    <2> QED
        BY <1>0, <2>1, <2>2, ListedScalarTables DEF Refusals
<1>3. CASE w.opcode = 16
    <2>1. Handler(w) = COP0(w) /\ Lists!ListedOpcode[16] = "COP0"
        BY <1>3, OpcodeEntries, ListedScalarTables DEF Handler, U
    <2>2. CASE Fields(w) = <<16, 0, 16, 12, 0, 0>>
        <3>1. w.rs = 0 /\ COP0(w) = "MFC0"
            BY <2>2 DEF Fields, COP0
        <3>2. Lists!ListedCOP0[0] = "MFC0"
            BY DEF Lists!ListedCOP0
        <3> QED
            BY <1>3, <2>1, <3>1, <3>2 DEF Lists!Listed
    <2>3. ASSUME NEW f \in {56, 57}, Fields(w) = <<16, 16, 0, 0, 0, f>>
          PROVE  Lists!Listed(w) = Handler(w)
        <3>1. w.rs = 16 /\ w.funct = f /\ COP0(w) = IF f = 56 THEN "EI" ELSE "DI"
            BY <2>3 DEF Fields, COP0
        <3>2. Lists!ListedCOP0[16] = "C0"
            BY DEF Lists!ListedCOP0
        <3>3. Lists!ListedCOP0C0[f] = IF f = 56 THEN "EI" ELSE "DI"
            BY <2>3 DEF Lists!ListedCOP0C0
        <3> QED
            BY <1>3, <2>1, <3>1, <3>2, <3>3 DEF Lists!Listed
    <2>4. CASE /\ Fields(w) # <<16, 0, 16, 12, 0, 0>>
               /\ Fields(w) # <<16, 16, 0, 0, 0, 56>> /\ Fields(w) # <<16, 16, 0, 0, 0, 57>>
        BY <2>1, <2>4 DEF COP0, Refusals
    <2> QED
        BY <2>2, <2>3, <2>4
<1>4. CASE w.opcode = 28
    <2>1. Handler(w) = MMI(w) /\ Lists!ListedOpcode[28] = "MMI"
        BY <1>4, OpcodeEntries, ListedScalarTables DEF Handler, U
    <2>2. CASE w.funct \in {8, 9, 40, 41}
        <3>1. CASE w.funct = 8
            <4>1. MMI(w) = MMI0PrintTable[w.sa] /\ Lists!ListedMMI[8] = "MMI0"
                BY <3>1, MMIEntries, ListedMMITables DEF MMI, M
            <4> QED
                BY <1>0, <1>4, <2>1, <3>1, <4>1, ListedMMITables DEF Lists!Listed, Refusals
        <3>2. CASE w.funct = 9
            <4>1. MMI(w) = MMI2PrintTable[w.sa] /\ Lists!ListedMMI[9] = "MMI2"
                BY <3>2, MMIEntries, ListedMMITables DEF MMI, M
            <4> QED
                BY <1>0, <1>4, <2>1, <3>2, <4>1, ListedMMITables DEF Lists!Listed, Refusals
        <3>3. CASE w.funct = 40
            <4>1. MMI(w) = MMI1PrintTable[w.sa] /\ Lists!ListedMMI[40] = "MMI1"
                BY <3>3, MMIEntries, ListedMMITables DEF MMI, M
            <4> QED
                BY <1>0, <1>4, <2>1, <3>3, <4>1, ListedMMITables DEF Lists!Listed, Refusals
        <3>4. CASE w.funct = 41
            <4>1. MMI(w) = MMI3PrintTable[w.sa] /\ Lists!ListedMMI[41] = "MMI3"
                BY <3>4, MMIEntries, ListedMMITables DEF MMI, M
            <4> QED
                BY <1>0, <1>4, <2>1, <3>4, <4>1, ListedMMITables DEF Lists!Listed, Refusals
        <3> QED
            BY <2>2, <3>1, <3>2, <3>3, <3>4
    <2>3. CASE w.funct \notin {8, 9, 40, 41}
        <3>1. MMI(w) = MMIPrintTable[w.funct]
            BY <1>0, <2>3, MMIEntries DEF MMI
        <3>2. Lists!ListedMMI[w.funct] = MMIPrintTable[w.funct]
            BY <1>0, <2>1, <3>1, ListedMMITables DEF Refusals
        <3> QED
            BY <1>0, <1>4, <2>1, <2>3, <3>1, <3>2, MMIEntries DEF Lists!Listed
    <2> QED
        BY <2>2, <2>3
<1>5. CASE w.opcode \notin {0, 1, 16, 28}
    <2>1. Handler(w) = OpcodePrintTable[w.opcode]
        BY <1>0, <1>5, OpcodeEntries DEF Handler
    <2>2. Lists!ListedOpcode[w.opcode] = OpcodePrintTable[w.opcode]
        BY <1>0, <2>1, ListedScalarTables DEF Refusals
    <2> QED
        BY <1>0, <1>5, <2>1, <2>2, OpcodeEntries DEF Lists!Listed
<1> QED
    BY <1>1, <1>2, <1>3, <1>4, <1>5

-----------------------------------------------------------------------------
(* The trace.                                                              *)

LEMMA TracedScalarTables ==
    /\ \A k \in 0 .. 63 : OpcodePrintTable[k] # U => Traces!TracedOpcode[k] = OpcodePrintTable[k]
    /\ \A k \in 0 .. 63 : SpecialPrintTable[k] \notin {U, "DSUBU"} => Traces!TracedSpecial[k] = SpecialPrintTable[k]
    /\ \A k \in 0 .. 31 : REGIMMPrintTable[k] # U => Traces!TracedREGIMM[k] = REGIMMPrintTable[k]
<1>1. \A k \in 0 .. 63 : OpcodePrintTable[k] # U => Traces!TracedOpcode[k] = OpcodePrintTable[k]
    BY DEF OpcodePrintTable, Traces!TracedOpcode, Table, Traces!Table, U
<1>2. \A k \in 0 .. 63 : SpecialPrintTable[k] \notin {U, "DSUBU"} => Traces!TracedSpecial[k] = SpecialPrintTable[k]
    BY DEF SpecialPrintTable, Traces!TracedSpecial, Table, Traces!Table, U
<1>3. \A k \in 0 .. 31 : REGIMMPrintTable[k] # U => Traces!TracedREGIMM[k] = REGIMMPrintTable[k]
    BY DEF REGIMMPrintTable, Traces!TracedREGIMM, Table, Traces!Table, U
<1> QED
    BY <1>1, <1>2, <1>3

LEMMA TracedMMITables ==
    /\ \A k \in 0 .. 63 : MMIPrintTable[k] # M =>
          Traces!TracedMMI[k] = IF MMIPrintTable[k] \in Untraced THEN Traces!BAD ELSE MMIPrintTable[k]
    /\ \A k \in 0 .. 31 : MMI0PrintTable[k] \notin {M, "PEXT5", "PPAC5"} => Traces!TracedMMI0[k] = MMI0PrintTable[k]
    /\ \A k \in 0 .. 31 : MMI1PrintTable[k] # M => Traces!TracedMMI1[k] = MMI1PrintTable[k]
    /\ \A k \in 0 .. 31 : MMI2PrintTable[k] # M => Traces!TracedMMI2[k] = MMI2PrintTable[k]
    /\ \A k \in 0 .. 31 : MMI3PrintTable[k] # M => Traces!TracedMMI3[k] = MMI3PrintTable[k]
<1>1. \A k \in 0 .. 63 : MMIPrintTable[k] # M =>
          Traces!TracedMMI[k] = IF MMIPrintTable[k] \in Untraced THEN Traces!BAD ELSE MMIPrintTable[k]
    BY DEF MMIPrintTable, Traces!TracedMMI, Table, M, Untraced
<1>2. \A k \in 0 .. 31 : MMI0PrintTable[k] \notin {M, "PEXT5", "PPAC5"} => Traces!TracedMMI0[k] = MMI0PrintTable[k]
    BY DEF MMI0PrintTable, Traces!TracedMMI0, Table, Traces!Table, M
<1>3. \A k \in 0 .. 31 : MMI1PrintTable[k] # M => Traces!TracedMMI1[k] = MMI1PrintTable[k]
    BY DEF MMI1PrintTable, Traces!TracedMMI1, Table, Traces!Table, M
<1>4. \A k \in 0 .. 31 : MMI2PrintTable[k] # M => Traces!TracedMMI2[k] = MMI2PrintTable[k]
    BY DEF MMI2PrintTable, Traces!TracedMMI2, Table, Traces!Table, M
<1>5. \A k \in 0 .. 31 : MMI3PrintTable[k] # M => Traces!TracedMMI3[k] = MMI3PrintTable[k]
    BY DEF MMI3PrintTable, Traces!TracedMMI3, Table, Traces!Table, M
<1> QED
    BY <1>1, <1>2, <1>3, <1>4, <1>5

(* What the trace leaves out belongs to the MMI table.                     *)
LEMMA UntracedEntries ==
    /\ \A k \in 0 .. 63 : OpcodePrintTable[k] \notin Untraced /\ SpecialPrintTable[k] \notin Untraced
    /\ \A k \in 0 .. 31 : REGIMMPrintTable[k] \notin Untraced
    /\ \A k \in 0 .. 31 : MMI0PrintTable[k] \notin Untraced /\ MMI1PrintTable[k] \notin Untraced
    /\ \A k \in 0 .. 31 : MMI2PrintTable[k] \notin Untraced /\ MMI3PrintTable[k] \notin Untraced
<1>1. \A k \in 0 .. 63 : OpcodePrintTable[k] \notin Untraced
    BY DEF OpcodePrintTable, Table, U, Untraced
<1>2. \A k \in 0 .. 63 : SpecialPrintTable[k] \notin Untraced
    BY DEF SpecialPrintTable, Table, U, Untraced
<1>3. \A k \in 0 .. 31 : REGIMMPrintTable[k] \notin Untraced
    BY DEF REGIMMPrintTable, Table, U, Untraced
<1>4. \A k \in 0 .. 31 : MMI0PrintTable[k] \notin Untraced
    BY DEF MMI0PrintTable, Table, M, Untraced
<1>5. \A k \in 0 .. 31 : MMI1PrintTable[k] \notin Untraced
    BY DEF MMI1PrintTable, Table, M, Untraced
<1>6. \A k \in 0 .. 31 : MMI2PrintTable[k] \notin Untraced
    BY DEF MMI2PrintTable, Table, M, Untraced
<1>7. \A k \in 0 .. 31 : MMI3PrintTable[k] \notin Untraced
    BY DEF MMI3PrintTable, Table, M, Untraced
<1> QED
    BY <1>1, <1>2, <1>3, <1>4, <1>5, <1>6, <1>7

LEMMA TracedRuns ==
    ASSUME NEW w, IsWord(w), Handler(w) \notin Refusals \union {"DSUBU", "PEXT5", "PPAC5"}
    PROVE  Traces!Traced(w) = IF Handler(w) \in Untraced THEN Traces!BAD ELSE Handler(w)
<1>0. /\ w.opcode \in 0 .. 63 /\ w.funct \in 0 .. 63
      /\ w.rs \in 0 .. 31 /\ w.rt \in 0 .. 31 /\ w.rd \in 0 .. 31 /\ w.sa \in 0 .. 31
    BY DEF IsWord
<1>1. CASE w.opcode = 0
    <2>1. Handler(w) = SpecialPrintTable[w.funct] /\ Traces!TracedOpcode[0] = "SPECIAL"
        BY <1>1, OpcodeEntries, TracedScalarTables DEF Handler, U
    <2>2. Traces!Traced(w) = Traces!TracedSpecial[w.funct]
        BY <1>1, <2>1 DEF Traces!Traced
    <2> QED
        BY <1>0, <2>1, <2>2, TracedScalarTables, UntracedEntries DEF Refusals
<1>2. CASE w.opcode = 1
    <2>1. Handler(w) = REGIMMPrintTable[w.rt] /\ Traces!TracedOpcode[1] = "REGIMM"
        BY <1>2, OpcodeEntries, TracedScalarTables DEF Handler, U
    <2>2. Traces!Traced(w) = Traces!TracedREGIMM[w.rt]
        BY <1>2, <2>1 DEF Traces!Traced
    <2> QED
        BY <1>0, <2>1, <2>2, TracedScalarTables, UntracedEntries DEF Refusals
<1>3. CASE w.opcode = 16
    <2>1. Handler(w) = COP0(w) /\ Traces!TracedOpcode[16] = "COP0"
        BY <1>3, OpcodeEntries, TracedScalarTables DEF Handler, U
    <2>2. CASE Fields(w) = <<16, 0, 16, 12, 0, 0>>
        <3>1. w.rs = 0 /\ COP0(w) = "MFC0"
            BY <2>2 DEF Fields, COP0
        <3>2. Traces!TracedCOP0[0] = "MFC0"
            BY DEF Traces!TracedCOP0
        <3> QED
            BY <1>3, <2>1, <3>1, <3>2 DEF Traces!Traced, Untraced
    <2>3. ASSUME NEW f \in {56, 57}, Fields(w) = <<16, 16, 0, 0, 0, f>>
          PROVE  Traces!Traced(w) = Handler(w) /\ Handler(w) \notin Untraced
        <3>1. w.rs = 16 /\ w.funct = f /\ COP0(w) = IF f = 56 THEN "EI" ELSE "DI"
            BY <2>3 DEF Fields, COP0
        <3>2. Traces!TracedCOP0[16] = "Func"
            BY DEF Traces!TracedCOP0
        <3>3. Traces!TracedCOP0Func[f] = IF f = 56 THEN "EI" ELSE "DI"
            BY <2>3 DEF Traces!TracedCOP0Func
        <3> QED
            BY <1>3, <2>1, <3>1, <3>2, <3>3 DEF Traces!Traced, Untraced
    <2>4. CASE /\ Fields(w) # <<16, 0, 16, 12, 0, 0>>
               /\ Fields(w) # <<16, 16, 0, 0, 0, 56>> /\ Fields(w) # <<16, 16, 0, 0, 0, 57>>
        BY <2>1, <2>4 DEF COP0, Refusals
    <2> QED
        BY <2>2, <2>3, <2>4
<1>4. CASE w.opcode = 28
    <2>1. Handler(w) = MMI(w) /\ Traces!TracedOpcode[28] = "MMI"
        BY <1>4, OpcodeEntries, TracedScalarTables DEF Handler, U
    <2>2. /\ Traces!TracedMMI[8] = "MMI0" /\ Traces!TracedMMI[9] = "MMI2"
          /\ Traces!TracedMMI[40] = "MMI1" /\ Traces!TracedMMI[41] = "MMI3"
        BY DEF Traces!TracedMMI
    <2>3. CASE w.funct = 8
        <3>1. MMI(w) = MMI0PrintTable[w.sa] /\ Traces!Traced(w) = Traces!TracedMMI0[w.sa]
            BY <1>4, <2>1, <2>2, <2>3, MMIEntries DEF MMI, Traces!Traced
        <3> QED
            BY <1>0, <2>1, <3>1, TracedMMITables, UntracedEntries DEF Refusals
    <2>4. CASE w.funct = 9
        <3>1. MMI(w) = MMI2PrintTable[w.sa] /\ Traces!Traced(w) = Traces!TracedMMI2[w.sa]
            BY <1>4, <2>1, <2>2, <2>4, MMIEntries DEF MMI, Traces!Traced
        <3> QED
            BY <1>0, <2>1, <3>1, TracedMMITables, UntracedEntries DEF Refusals
    <2>5. CASE w.funct = 40
        <3>1. MMI(w) = MMI1PrintTable[w.sa] /\ Traces!Traced(w) = Traces!TracedMMI1[w.sa]
            BY <1>4, <2>1, <2>2, <2>5, MMIEntries DEF MMI, Traces!Traced
        <3> QED
            BY <1>0, <2>1, <3>1, TracedMMITables, UntracedEntries DEF Refusals
    <2>6. CASE w.funct = 41
        <3>1. MMI(w) = MMI3PrintTable[w.sa] /\ Traces!Traced(w) = Traces!TracedMMI3[w.sa]
            BY <1>4, <2>1, <2>2, <2>6, MMIEntries DEF MMI, Traces!Traced
        <3> QED
            BY <1>0, <2>1, <3>1, TracedMMITables, UntracedEntries DEF Refusals
    <2>7. CASE w.funct \notin {8, 9, 40, 41}
        <3>1. MMI(w) = MMIPrintTable[w.funct]
            BY <1>0, <2>7, MMIEntries DEF MMI
        <3>2. Traces!TracedMMI[w.funct] \notin {"MMI0", "MMI1", "MMI2", "MMI3"}
            BY <1>0, <2>7, BadApart DEF Traces!TracedMMI
        <3>3. Traces!Traced(w) = Traces!TracedMMI[w.funct]
            BY <1>4, <2>1, <3>2 DEF Traces!Traced
        <3> QED
            BY <1>0, <2>1, <3>1, <3>3, TracedMMITables DEF Refusals
    <2> QED
        BY <2>3, <2>4, <2>5, <2>6, <2>7
<1>5. CASE w.opcode \notin {0, 1, 16, 28}
    <2>1. Handler(w) = OpcodePrintTable[w.opcode]
        BY <1>0, <1>5, OpcodeEntries DEF Handler
    <2>2. Traces!TracedOpcode[w.opcode] = OpcodePrintTable[w.opcode]
        BY <1>0, <2>1, TracedScalarTables DEF Refusals
    <2>3. Traces!Traced(w) = OpcodePrintTable[w.opcode]
        BY <1>0, <1>5, <2>1, <2>2, OpcodeEntries DEF Traces!Traced
    <2> QED
        BY <1>0, <2>1, <2>3, UntracedEntries
<1> QED
    BY <1>1, <1>2, <1>3, <1>4, <1>5

-----------------------------------------------------------------------------
(* The words that are refused.                                             *)

(* What the tables hold where the interpreter has no handler.              *)
LEMMA RefusedScalarTables ==
    /\ \A k \in 0 .. 63 : OpcodePrintTable[k] \in Refusals \ {"COP0"} /\ Traces!TracedOpcode[k] = Traces!BAD =>
          Lists!ListedOpcode[k] \in {Lists!Unlisted, "COP2", "LQC2", "SQC2"}
    /\ \A k \in 0 .. 63 : SpecialPrintTable[k] \in Refusals /\ Traces!TracedSpecial[k] = Traces!BAD =>
          Lists!ListedSpecial[k] = Lists!Unlisted
    /\ \A k \in 0 .. 31 : REGIMMPrintTable[k] \in Refusals /\ Traces!TracedREGIMM[k] = Traces!BAD =>
          Lists!ListedREGIMM[k] = Lists!Unlisted
<1>1. \A k \in 0 .. 63 : OpcodePrintTable[k] \in Refusals \ {"COP0"} /\ Traces!TracedOpcode[k] = Traces!BAD =>
          Lists!ListedOpcode[k] \in {Lists!Unlisted, "COP2", "LQC2", "SQC2"}
    BY BadApart DEF OpcodePrintTable, Traces!TracedOpcode, Lists!ListedOpcode, Table, Traces!Table, Lists!Table, U, M, Refusals
<1>2. \A k \in 0 .. 63 : SpecialPrintTable[k] \in Refusals /\ Traces!TracedSpecial[k] = Traces!BAD =>
          Lists!ListedSpecial[k] = Lists!Unlisted
    BY BadApart DEF SpecialPrintTable, Traces!TracedSpecial, Lists!ListedSpecial, Table, Traces!Table, Lists!Table, U, M, Refusals
<1>3. \A k \in 0 .. 31 : REGIMMPrintTable[k] \in Refusals /\ Traces!TracedREGIMM[k] = Traces!BAD =>
          Lists!ListedREGIMM[k] = Lists!Unlisted
    BY BadApart DEF REGIMMPrintTable, Traces!TracedREGIMM, Lists!ListedREGIMM, Table, Traces!Table, Lists!Table, U, M, Refusals
<1> QED
    BY <1>1, <1>2, <1>3

LEMMA RefusedMMITables ==
    /\ \A k \in 0 .. 63 : MMIPrintTable[k] \in Refusals => Lists!ListedMMI[k] = Lists!MMIUnknown
    /\ \A k \in 0 .. 31 : MMI0PrintTable[k] \in Refusals => Lists!ListedMMI0[k] = Lists!MMIUnknown
    /\ \A k \in 0 .. 31 : MMI1PrintTable[k] \in Refusals => Lists!ListedMMI1[k] = Lists!MMIUnknown
    /\ \A k \in 0 .. 31 : MMI2PrintTable[k] \in Refusals => Lists!ListedMMI2[k] = Lists!MMIUnknown
    /\ \A k \in 0 .. 31 : MMI3PrintTable[k] \in Refusals => Lists!ListedMMI3[k] = Lists!MMIUnknown
<1>1. \A k \in 0 .. 63 : MMIPrintTable[k] \in Refusals => Lists!ListedMMI[k] = Lists!MMIUnknown
    BY DEF MMIPrintTable, Lists!ListedMMI, Table, Lists!Table, U, M, Refusals
<1>2. \A k \in 0 .. 31 : MMI0PrintTable[k] \in Refusals => Lists!ListedMMI0[k] = Lists!MMIUnknown
    BY DEF MMI0PrintTable, Lists!ListedMMI0, Table, Lists!Table, U, M, Refusals
<1>3. \A k \in 0 .. 31 : MMI1PrintTable[k] \in Refusals => Lists!ListedMMI1[k] = Lists!MMIUnknown
    BY DEF MMI1PrintTable, Lists!ListedMMI1, Table, Lists!Table, U, M, Refusals
<1>4. \A k \in 0 .. 31 : MMI2PrintTable[k] \in Refusals => Lists!ListedMMI2[k] = Lists!MMIUnknown
    BY DEF MMI2PrintTable, Lists!ListedMMI2, Table, Lists!Table, U, M, Refusals
<1>5. \A k \in 0 .. 31 : MMI3PrintTable[k] \in Refusals => Lists!ListedMMI3[k] = Lists!MMIUnknown
    BY DEF MMI3PrintTable, Lists!ListedMMI3, Table, Lists!Table, U, M, Refusals
<1> QED
    BY <1>1, <1>2, <1>3, <1>4, <1>5

LEMMA RefusedCOPTables ==
    /\ \A k \in 0 .. 31 : Traces!TracedCOP0[k] = Traces!BAD => Lists!ListedCOP0[k] = Lists!COP0Unknown
    /\ \A k \in 0 .. 31 : Traces!TracedCOP0BC0[k] = Traces!BAD => k >= 4
    /\ \A k \in 0 .. 63 : Traces!TracedCOP0Func[k] = Traces!BAD => Lists!ListedCOP0C0[k] = Lists!COP0Unknown
    /\ \A k \in 0 .. 31 : Traces!TracedCOP1[k] = Traces!BAD => Lists!ListedCOP1[k] = Lists!COP1Unknown
    /\ \A k \in 0 .. 31 : Traces!TracedCOP1BC1[k] = Traces!BAD => k >= 4
    /\ \A k \in 0 .. 63 : Traces!TracedCOP1S[k] = Traces!BAD => Lists!ListedCOP1S[k] = Lists!COP1Unknown
    /\ \A k \in 0 .. 63 : Traces!TracedCOP1W[k] = Traces!BAD => Lists!ListedCOP1W[k] = Lists!COP1Unknown
<1>1. \A k \in 0 .. 31 : Traces!TracedCOP0[k] = Traces!BAD => Lists!ListedCOP0[k] = Lists!COP0Unknown
    BY BadApart DEF Traces!TracedCOP0, Lists!ListedCOP0
<1>2. \A k \in 0 .. 31 : Traces!TracedCOP0BC0[k] = Traces!BAD => k >= 4
    BY BadApart DEF Traces!TracedCOP0BC0
<1>3. \A k \in 0 .. 63 : Traces!TracedCOP0Func[k] = Traces!BAD => Lists!ListedCOP0C0[k] = Lists!COP0Unknown
    BY BadApart DEF Traces!TracedCOP0Func, Lists!ListedCOP0C0
<1>4. \A k \in 0 .. 31 : Traces!TracedCOP1[k] = Traces!BAD => Lists!ListedCOP1[k] = Lists!COP1Unknown
    BY BadApart DEF Traces!TracedCOP1, Lists!ListedCOP1
<1>5. \A k \in 0 .. 31 : Traces!TracedCOP1BC1[k] = Traces!BAD => k >= 4
    BY BadApart DEF Traces!TracedCOP1BC1
<1>6. \A k \in 0 .. 63 : Traces!TracedCOP1S[k] = Traces!BAD => Lists!ListedCOP1S[k] = Lists!COP1Unknown
    BY BadApart DEF Traces!TracedCOP1S, Lists!ListedCOP1S, Traces!Table, Lists!Table
<1>7. \A k \in 0 .. 63 : Traces!TracedCOP1W[k] = Traces!BAD => Lists!ListedCOP1W[k] = Lists!COP1Unknown
    BY BadApart DEF Traces!TracedCOP1W, Lists!ListedCOP1W
<1> QED
    BY <1>1, <1>2, <1>3, <1>4, <1>5, <1>6, <1>7

LEMMA RefusedListed ==
    ASSUME NEW w, IsWord(w), Handler(w) \in Refusals, Traces!Traced(w) = Traces!BAD
    PROVE  \/ Lists!Listed(w) \in {Lists!Unlisted, Lists!MMIUnknown, Lists!COP0Unknown, Lists!COP1Unknown}
           \/ Lists!Listed(w) \in {"COP2", "LQC2", "SQC2"}
           \/ w.opcode \in {16, 17} /\ w.rs = 8 /\ w.rt >= 4
<1>0. /\ w.opcode \in 0 .. 63 /\ w.funct \in 0 .. 63
      /\ w.rs \in 0 .. 31 /\ w.rt \in 0 .. 31 /\ w.rd \in 0 .. 31 /\ w.sa \in 0 .. 31
    BY DEF IsWord
<1>1. /\ \A k \in {0, 1, 16, 28} : /\ Lists!ListedOpcode[k] = OpcodePrintTable[k]
                                   /\ Traces!TracedOpcode[k] = OpcodePrintTable[k]
      /\ Lists!ListedOpcode[17] = "COP1" /\ Traces!TracedOpcode[17] = "COP1"
    <2>1. \A k \in {0, 1, 16, 28} : OpcodePrintTable[k] # U
        BY OpcodeEntries DEF U
    <2>2. Lists!ListedOpcode[17] = "COP1"
        BY DEF Lists!ListedOpcode, Lists!Table
    <2>3. Traces!TracedOpcode[17] = "COP1"
        BY DEF Traces!TracedOpcode, Traces!Table
    <2> QED
        BY <2>1, <2>2, <2>3, ListedScalarTables, TracedScalarTables
<1>2. CASE w.opcode = 0
    <2>1. Handler(w) = SpecialPrintTable[w.funct]
        BY <1>2, OpcodeEntries DEF Handler
    <2>2. Traces!Traced(w) = Traces!TracedSpecial[w.funct] /\ Lists!Listed(w) = Lists!ListedSpecial[w.funct]
        BY <1>1, <1>2, OpcodeEntries DEF Traces!Traced, Lists!Listed
    <2> QED
        BY <1>0, <2>1, <2>2, RefusedScalarTables
<1>3. CASE w.opcode = 1
    <2>1. Handler(w) = REGIMMPrintTable[w.rt]
        BY <1>3, OpcodeEntries DEF Handler
    <2>2. Traces!Traced(w) = Traces!TracedREGIMM[w.rt] /\ Lists!Listed(w) = Lists!ListedREGIMM[w.rt]
        BY <1>1, <1>3, OpcodeEntries DEF Traces!Traced, Lists!Listed
    <2> QED
        BY <1>0, <2>1, <2>2, RefusedScalarTables
<1>4. CASE w.opcode = 16
    <2>0. Traces!TracedOpcode[16] = "COP0" /\ Lists!ListedOpcode[16] = "COP0"
        BY <1>1, OpcodeEntries
    <2>1. CASE w.rs = 8
        <3>1. Traces!TracedCOP0[8] = "BC0"
            BY DEF Traces!TracedCOP0
        <3>2. Traces!Traced(w) = Traces!TracedCOP0BC0[w.rt]
            BY <1>4, <2>0, <2>1, <3>1 DEF Traces!Traced
        <3> QED
            BY <1>0, <1>4, <2>1, <3>2, RefusedCOPTables
    <2>2. CASE w.rs = 16
        <3>1. Traces!TracedCOP0[16] = "Func" /\ Lists!ListedCOP0[16] = "C0"
            BY DEF Traces!TracedCOP0, Lists!ListedCOP0
        <3>2. Traces!Traced(w) = Traces!TracedCOP0Func[w.funct] /\ Lists!Listed(w) = Lists!ListedCOP0C0[w.funct]
            BY <1>4, <2>0, <2>2, <3>1 DEF Traces!Traced, Lists!Listed
        <3> QED
            BY <1>0, <3>2, RefusedCOPTables
    <2>3. CASE w.rs \notin {8, 16}
        <3>1. Traces!TracedCOP0[w.rs] \notin {"BC0", "Func"}
            BY <1>0, <2>3, BadApart DEF Traces!TracedCOP0
        <3>2. Traces!Traced(w) = Traces!TracedCOP0[w.rs]
            BY <1>4, <2>0, <3>1 DEF Traces!Traced
        <3>3. Lists!ListedCOP0[w.rs] = Lists!COP0Unknown
            BY <1>0, <3>2, RefusedCOPTables
        <3>4. Lists!Listed(w) = Lists!COP0Unknown
            BY <1>4, <2>0, <3>3, UnknownApart DEF Lists!Listed
        <3> QED
            BY <3>4
    <2> QED
        BY <2>1, <2>2, <2>3
<1>5. CASE w.opcode = 17
    <2>1. CASE w.rs = 8
        <3>1. Traces!TracedCOP1[8] = "BC1"
            BY DEF Traces!TracedCOP1
        <3>2. Traces!Traced(w) = Traces!TracedCOP1BC1[w.rt]
            BY <1>1, <1>5, <2>1, <3>1 DEF Traces!Traced
        <3> QED
            BY <1>0, <1>5, <2>1, <3>2, RefusedCOPTables
    <2>2. CASE w.rs = 16
        <3>1. Traces!TracedCOP1[16] = "S" /\ Lists!ListedCOP1[16] = "S"
            BY DEF Traces!TracedCOP1, Lists!ListedCOP1
        <3>2. Traces!Traced(w) = Traces!TracedCOP1S[w.funct] /\ Lists!Listed(w) = Lists!ListedCOP1S[w.funct]
            BY <1>1, <1>5, <2>2, <3>1 DEF Traces!Traced, Lists!Listed
        <3> QED
            BY <1>0, <3>2, RefusedCOPTables
    <2>3. CASE w.rs = 20
        <3>1. Traces!TracedCOP1[20] = "W" /\ Lists!ListedCOP1[20] = "W"
            BY DEF Traces!TracedCOP1, Lists!ListedCOP1
        <3>2. Traces!Traced(w) = Traces!TracedCOP1W[w.funct] /\ Lists!Listed(w) = Lists!ListedCOP1W[w.funct]
            BY <1>1, <1>5, <2>3, <3>1 DEF Traces!Traced, Lists!Listed
        <3> QED
            BY <1>0, <3>2, RefusedCOPTables
    <2>4. CASE w.rs \notin {8, 16, 20}
        <3>1. Traces!TracedCOP1[w.rs] \notin {"BC1", "S", "W"}
            BY <1>0, <2>4, BadApart DEF Traces!TracedCOP1
        <3>2. Traces!Traced(w) = Traces!TracedCOP1[w.rs]
            BY <1>1, <1>5, <3>1 DEF Traces!Traced
        <3>3. Lists!ListedCOP1[w.rs] = Lists!COP1Unknown
            BY <1>0, <3>2, RefusedCOPTables
        <3>4. Lists!Listed(w) = Lists!COP1Unknown
            BY <1>1, <1>5, <3>3, UnknownApart DEF Lists!Listed
        <3> QED
            BY <3>4
    <2> QED
        BY <2>1, <2>2, <2>3, <2>4
<1>6. CASE w.opcode = 28
    <2>1. Handler(w) = MMI(w) /\ Lists!ListedOpcode[28] = "MMI"
        BY <1>1, <1>6, OpcodeEntries DEF Handler
    <2>2. /\ Lists!ListedMMI[8] = "MMI0" /\ Lists!ListedMMI[9] = "MMI2"
          /\ Lists!ListedMMI[40] = "MMI1" /\ Lists!ListedMMI[41] = "MMI3"
        BY MMIEntries, ListedMMITables DEF M
    <2>3. CASE w.funct = 8
        <3>1. MMI(w) = MMI0PrintTable[w.sa] /\ Lists!Listed(w) = Lists!ListedMMI0[w.sa]
            BY <1>6, <2>1, <2>2, <2>3, MMIEntries DEF MMI, Lists!Listed
        <3> QED
            BY <1>0, <2>1, <3>1, RefusedMMITables
    <2>4. CASE w.funct = 9
        <3>1. MMI(w) = MMI2PrintTable[w.sa] /\ Lists!Listed(w) = Lists!ListedMMI2[w.sa]
            BY <1>6, <2>1, <2>2, <2>4, MMIEntries DEF MMI, Lists!Listed
        <3> QED
            BY <1>0, <2>1, <3>1, RefusedMMITables
    <2>5. CASE w.funct = 40
        <3>1. MMI(w) = MMI1PrintTable[w.sa] /\ Lists!Listed(w) = Lists!ListedMMI1[w.sa]
            BY <1>6, <2>1, <2>2, <2>5, MMIEntries DEF MMI, Lists!Listed
        <3> QED
            BY <1>0, <2>1, <3>1, RefusedMMITables
    <2>6. CASE w.funct = 41
        <3>1. MMI(w) = MMI3PrintTable[w.sa] /\ Lists!Listed(w) = Lists!ListedMMI3[w.sa]
            BY <1>6, <2>1, <2>2, <2>6, MMIEntries DEF MMI, Lists!Listed
        <3> QED
            BY <1>0, <2>1, <3>1, RefusedMMITables
    <2>7. CASE w.funct \notin {8, 9, 40, 41}
        <3>1. MMI(w) = MMIPrintTable[w.funct]
            BY <1>0, <2>7, MMIEntries DEF MMI
        <3>2. Lists!ListedMMI[w.funct] = Lists!MMIUnknown
            BY <1>0, <2>1, <3>1, RefusedMMITables
        <3>3. Lists!Listed(w) = Lists!MMIUnknown
            BY <1>6, <2>1, <3>2, UnknownApart DEF Lists!Listed
        <3> QED
            BY <3>3
    <2> QED
        BY <2>3, <2>4, <2>5, <2>6, <2>7
<1>7. CASE w.opcode \notin {0, 1, 16, 17, 28}
    <2>1. Handler(w) = OpcodePrintTable[w.opcode] /\ OpcodePrintTable[w.opcode] # "COP0"
        BY <1>0, <1>7, OpcodeEntries DEF Handler
    <2>2. Traces!TracedOpcode[w.opcode] \notin {"SPECIAL", "REGIMM", "MMI", "COP0", "COP1"}
        BY <1>0, <1>7, BadApart DEF Traces!TracedOpcode, Traces!Table
    <2>3. Traces!Traced(w) = Traces!TracedOpcode[w.opcode]
        BY <2>2 DEF Traces!Traced
    <2>4. Lists!ListedOpcode[w.opcode] \in {Lists!Unlisted, "COP2", "LQC2", "SQC2"}
        BY <1>0, <2>1, <2>3, RefusedScalarTables
    <2>5. Lists!Listed(w) = Lists!ListedOpcode[w.opcode]
        <3>1. Lists!ListedOpcode[w.opcode] \notin {"SPECIAL", "REGIMM", "MMI", "COP0", "COP1"}
            BY <2>4, UnknownApart
        <3> QED
            BY <3>1 DEF Lists!Listed
    <2> QED
        BY <2>4, <2>5
<1> QED
    BY <1>0, <1>2, <1>3, <1>4, <1>5, <1>6, <1>7

-----------------------------------------------------------------------------
(* The state.                                                              *)

WordInv == code \in Instruction /\ IsWord(code) /\ code.op = Handler(code)

LEMMA FetchedWords ==
    ASSUME Running, program \in DOMAIN Programs, step \in Nat \ {0}, NEW i \in Fetched
    PROVE  i \in Instruction /\ IsWord(i) /\ i.op = Handler(i)
<1>1. step \in DOMAIN Programs[program] /\ Programs[program] \in Seq(SUBSET Words32(ImmBits))
    BY ExecutionAssumption DEF Running, ExecutionAssumption
<1>2. PICK w \in Programs[program][step] : i = Decoded(w)
    BY DEF Fetched
<1>3. w \in Words32(ImmBits)
    BY <1>1, <1>2
<1> QED
    BY <1>1, <1>2, <1>3, DecodedIsWord, ExecutionAssumption DEF ExecutionAssumption

EInv ==
    /\ IInv
    /\ WordInv
    /\ program \in DOMAIN Programs /\ step \in Nat \ {0}

LEMMA EInvInit == ExecInit => EInv
<1> SUFFICES ASSUME ExecInit PROVE EInv
    OBVIOUS
<1>1. NoWord \in Words32(ImmBits)
    BY DEF NoWord, Words32, GPR
<1>2. WordInv
    BY <1>1, DecodedIsWord, ExecutionAssumption DEF ExecInit, WordInv, ExecutionAssumption
<1> QED
    BY <1>2, InitInvariant DEF ExecInit, EInv

LEMMA EInvNext == EInv /\ [ExecNext]_allVars => EInv'
<1> SUFFICES ASSUME EInv, [ExecNext]_allVars PROVE EInv'
    OBVIOUS
<1>1. CASE Execute
    <2>1. PICK i \in Fetched : Step(i)
        BY <1>1 DEF Execute
    <2>2. i \in Instruction /\ IsWord(i) /\ i.op = Handler(i)
        BY <1>1, FetchedWords DEF Execute, EInv
    <2>3. Next
        BY <2>1, <2>2 DEF Next
    <2>4. IInv'
        BY <2>3, NextInvariant DEF EInv
    <2>5. WordInv'
        BY <2>1, <2>2 DEF WordInv, Step
    <2> QED
        BY <1>1, <2>4, <2>5 DEF EInv, Execute, Advance
<1>2. CASE Refuse \/ DivideTrap
    <2>1. PICK i \in Fetched : code' = i
        BY <1>2 DEF Refuse, DivideTrap
    <2>2. i \in Instruction /\ IsWord(i) /\ i.op = Handler(i)
        BY <1>2, FetchedWords DEF Refuse, DivideTrap, EInv
    <2>3. UNCHANGED <<regs, wide, taken>> /\ Advance
        BY <1>2 DEF Refuse, DivideTrap
    <2> QED
        BY <2>1, <2>2, <2>3 DEF EInv, WordInv, IInv, RegistersTypeOK, CanonicalUnlessWide, Advance
<1>3. CASE Finished \/ UNCHANGED allVars
    BY <1>3 DEF Finished, allVars, vars, EInv, WordInv, IInv, RegistersTypeOK, CanonicalUnlessWide
<1> QED
    BY <1>1, <1>2, <1>3 DEF ExecNext

LEMMA EInvAlways == ExecSpec => []EInv
BY EInvInit, EInvNext, PTL DEF ExecSpec

(* For every word that reaches a handler, but MADDU and PMSUBW, the        *)
(* listing of an error path (DisR5900asm.c) names the handler that execI   *)
(* runs, whatever the fields of the word.                                  *)
THEOREM ListingAlwaysNamesWhatRuns == ExecSpec => []ListingNamesWhatRuns
<1>1. EInv => ListingNamesWhatRuns
    BY ListedRuns DEF EInv, WordInv, ListingNamesWhatRuns
<1> QED
    BY <1>1, EInvAlways, PTL

(* For every word that reaches a handler, but three, the trace             *)
(* (DisR5900.c) names the handler that execI runs next, or calls it a bad  *)
(* opcode if it is one of the instructions of the MMI table it lacks.      *)
THEOREM TraceAlwaysNamesWhatRuns == ExecSpec => []TraceNamesWhatRuns
<1>1. EInv => TraceNamesWhatRuns
    BY TracedRuns DEF EInv, WordInv, TraceNamesWhatRuns
<1> QED
    BY <1>1, EInvAlways, PTL

(* No word that both execI and the trace reject is named by the listing    *)
(* that follows, but COP2's and the reserved branches on a flag.           *)
THEOREM AlwaysRefusedAlike == ExecSpec => []RefusedAlike
<1>1. EInv => RefusedAlike
    BY RefusedListed DEF EInv, WordInv, RefusedAlike
<1> QED
    BY <1>1, EInvAlways, PTL

(* Whatever words a program holds, execI's handlers keep the registers in  *)
(* their types: decoding adds nothing that Registers does not allow.       *)
THEOREM ExecutionTypeCorrect == ExecSpec => []RegistersTypeOK
<1>1. EInv => RegistersTypeOK
    BY DEF EInv, IInv
<1> QED
    BY <1>1, EInvAlways, PTL

(* Whatever words a program holds, a register that only 32-bit handlers of *)
(* Interpreter.c have filled stays sign-extended, and register 0 stays 0.  *)
THEOREM ExecutionStaysSignExtended == ExecSpec => []CanonicalUnlessWide
<1>1. EInv => CanonicalUnlessWide
    BY DEF EInv, IInv
<1> QED
    BY <1>1, EInvAlways, PTL

-----------------------------------------------------------------------------
(* What an instruction changes.                                            *)

RtWriters ==
    {"ADDI", "ADDIU", "DADDI", "DADDIU", "ANDI", "ORI", "XORI", "SLTI", "SLTIU", "LUI",
     "LB", "LBU", "LH", "LHU", "LW", "LWU", "LWL", "LWR", "LD", "LDL", "LDR", "LQ"}

RdWriters ==
    {"ADD", "ADDU", "SUB", "SUBU", "DADD", "DADDU", "DSUB", "DSUBU", "AND", "OR", "XOR", "NOR",
     "SLT", "SLTU", "MULT", "MULTU", "MFHI", "MFLO", "SLL", "SRL", "SRA", "DSLL", "DSRL", "DSRA",
     "DSLL32", "DSRL32", "DSRA32", "SLLV", "SRLV", "SRAV", "DSLLV", "DSRLV", "DSRAV",
     "MOVZ", "MOVN", "JALR"}

Changes(i, r) ==
    \/ i.op \in RtWriters /\ r = i.rt
    \/ i.op \in RdWriters /\ r = i.rd
    \/ i.op \in Linking /\ r = ra
    \/ i.op = "MFC0" /\ r = s0
    \/ i.op = "SYSCALL" /\ r = v0
    \/ i.op \in Multimedia \ WithoutRd /\ r = i.rd

LEMMA PutChanges ==
    ASSUME IInv, NEW q \in Register, NEW v, NEW isWide, Put(q, v, isWide), NEW r \in Changed
    PROVE  r = q /\ r # 0
<1>1. CASE q = 0
    BY <1>1 DEF Put, Changed
<1>2. CASE q # 0
    <2>1. regs' = [regs EXCEPT ![q] = v] /\ r \in Register /\ regs \in [Register -> Value]
        BY <1>2 DEF Put, Changed, Register, IInv, RegistersTypeOK
    <2>2. r = q
        BY <2>1 DEF Changed
    <2> QED
        BY <1>2, <2>2
<1> QED
    BY <1>1, <1>2

LEMMA NothingChanges ==
    ASSUME UNCHANGED regs, NEW r \in Changed PROVE FALSE
BY DEF Changed

LEMMA PutLOHIChanges ==
    ASSUME NEW lo, NEW hi, NEW rd \in GPR, NEW isWide, PutLOHI(lo, hi, rd, isWide), NEW r \in Changed
    PROVE  r = rd /\ r # 0
BY DEF PutLOHI, Changed, GPR, Register, LO, HI

LEMMA EffectChanges ==
    ASSUME IInv, NEW i \in Instruction, Effect(i), NEW r \in Changed
    PROVE  Changes(i, r) /\ r # 0
<1>0. /\ i.rs \in GPR /\ i.rt \in GPR /\ i.rd \in GPR /\ GPR \subseteq Register
      /\ i.rt \in Register /\ i.rd \in Register
      /\ LO \in Register /\ HI \in Register /\ s0 \in Register /\ v0 \in Register
    BY Operands DEF Register, LO, HI, s0, v0, GPR
<1>1. CASE AddImmediate(i)
    BY <1>0, <1>1, PutChanges DEF AddImmediate, Changes, RtWriters
<1>2. CASE AddDoubleImmediate(i)
    BY <1>0, <1>2, PutChanges DEF AddDoubleImmediate, Changes, RtWriters
<1>3. CASE LogicalImmediate(i)
    BY <1>0, <1>3, PutChanges DEF LogicalImmediate, Changes, RtWriters
<1>4. CASE SetLessImmediate(i)
    BY <1>0, <1>4, PutChanges DEF SetLessImmediate, Changes, RtWriters
<1>5. CASE AddWords(i)
    BY <1>0, <1>5, PutChanges DEF AddWords, Changes, RdWriters
<1>6. CASE AddDoubles(i)
    BY <1>0, <1>6, PutChanges DEF AddDoubles, Changes, RdWriters
<1>7. CASE Logical(i)
    BY <1>0, <1>7, PutChanges DEF Logical, Changes, RdWriters
<1>8. CASE SetLess(i)
    BY <1>0, <1>8, PutChanges DEF SetLess, Changes, RdWriters
<1>9. CASE LUI(i)
    BY <1>0, <1>9, PutChanges DEF LUI, Changes, RtWriters
<1>10. CASE DIV(i) \/ DIVU(i)
    <2>1. 0 \in GPR
        BY DEF GPR
    <2> QED
        BY <1>10, <2>1, PutLOHIChanges, NothingChanges DEF DIV, DIVU, Nothing
<1>11. CASE MULT(i)
    BY <1>0, <1>11, PutLOHIChanges DEF MULT, Changes, RdWriters
<1>12. CASE MoveFrom(i)
    BY <1>0, <1>12, PutChanges DEF MoveFrom, Changes, RdWriters
<1>13. CASE MoveTo(i)
    <2>1. r \notin {LO, HI}
        BY DEF Changed, GPR, LO, HI
    <2> QED
        BY <1>0, <1>13, <2>1, PutChanges DEF MoveTo
<1>14. CASE Shift(i)
    BY <1>0, <1>14, PutChanges DEF Shift, Changes, RdWriters
<1>15. CASE ShiftVariable(i)
    BY <1>0, <1>15, PutChanges DEF ShiftVariable, Changes, RdWriters
<1>16. CASE Jump(i)
    <2>1. r \in Register /\ r \in GPR /\ regs'[r] # regs[r] /\ regs \in [Register -> Value]
        BY <1>0 DEF Changed, IInv, RegistersTypeOK
    <2>2. CASE i.op = "JAL"
        BY <1>16, <2>1, <2>2 DEF Jump, Changes, Linking, ra
    <2>3. CASE i.op = "JALR"
        BY <1>16, <2>1, <2>3 DEF Jump, Changes, RdWriters
    <2> QED
        BY <1>16, <2>1, <2>2, <2>3 DEF Jump
<1>17. CASE Branch(i)
    <2>1. r \in Register /\ r \in GPR /\ regs'[r] # regs[r] /\ regs \in [Register -> Value]
        BY <1>0 DEF Changed, IInv, RegistersTypeOK
    <2> QED
        BY <1>17, <2>1 DEF Branch, Changes, ra
<1>18. CASE ConditionalMove(i)
    BY <1>0, <1>18, PutChanges, NothingChanges DEF ConditionalMove, Nothing, Changes, RdWriters
<1>19. CASE Load(i)
    BY <1>0, <1>19, PutChanges DEF Load, Changes, RtWriters
<1>20. CASE MergeLoad(i)
    BY <1>0, <1>20, PutChanges DEF MergeLoad, Changes, RtWriters
<1>21. CASE Store(i)
    BY <1>21, NothingChanges DEF Store, Nothing
<1>22. CASE COP0Known(i)
    BY <1>0, <1>22, PutChanges, NothingChanges DEF COP0Known, Nothing, Changes
<1>23. CASE SYSCALL(i)
    BY <1>0, <1>23, PutChanges, NothingChanges DEF SYSCALL, Nothing, Changes
<1>24. CASE MMIHandler(i)
    <2> DEFINE written == {LO, HI} \union (IF i.op \in WithoutRd THEN {} ELSE {i.rd} \ {0})
    <2>1. PICK v \in Computed, changed \in SUBSET written :
             regs' = [q \in Register |-> IF q \in changed THEN v ELSE regs[q]]
        BY <1>24 DEF MMIHandler
    <2>2. r \in changed
        BY <1>0, <2>1 DEF Changed
    <2>3. r \notin {LO, HI}
        BY DEF Changed, GPR, LO, HI
    <2> QED
        BY <1>24, <2>2, <2>3 DEF MMIHandler, Changes
<1> QED
    BY <1>1, <1>2, <1>3, <1>4, <1>5, <1>6, <1>7, <1>8, <1>9, <1>10, <1>11, <1>12, <1>13, <1>14,
       <1>15, <1>16, <1>17, <1>18, <1>19, <1>20, <1>21, <1>22, <1>23, <1>24 DEF Effect

-----------------------------------------------------------------------------
(* Which table an instruction is from.                                     *)

MultimediaNames ==
    {"MADD", "MADDU", "PLZCW", "MFHI1", "MTHI1", "MFLO1", "MTLO1", "MULT1", "MULTU1",
     "DIV1", "DIVU1", "MADD1", "MADDU1", "PMFHL", "PMTHL", "PSLLH", "PSRLH", "PSRAH",
     "PSLLW", "PSRLW", "PSRAW", "PADDW", "PSUBW", "PCGTW", "PMAXW", "PADDH", "PSUBH",
     "PCGTH", "PMAXH", "PADDB", "PSUBB", "PCGTB", "PADDSW", "PSUBSW", "PEXTLW", "PPACW",
     "PADDSH", "PSUBSH", "PEXTLH", "PPACH", "PADDSB", "PSUBSB", "PEXTLB", "PPACB", "PEXT5",
     "PPAC5", "PABSW", "PCEQW", "PMINW", "PADSBH", "PABSH", "PCEQH", "PMINH", "PCEQB",
     "PADDUW", "PSUBUW", "PEXTUW", "PADDUH", "PSUBUH", "PEXTUH", "PADDUB", "PSUBUB",
     "PEXTUB", "QFSRV", "PMADDW", "PSLLVW", "PSRLVW", "PMSUBW", "PMFHI", "PMFLO", "PINTH",
     "PMULTW", "PDIVW", "PCPYLD", "PMADDH", "PHMADH", "PAND", "PXOR", "PMSUBH", "PHMSBH",
     "PEXEH", "PREVH", "PMULTH", "PDIVBW", "PEXEW", "PROT3W", "PMADDUW", "PSRAVW", "PMTHI",
     "PMTLO", "PINTEH", "PMULTUW", "PDIVUW", "PCPYUD", "POR", "PNOR", "PEXCH", "PCPYH",
     "PEXCW"}

LEMMA MultimediaEntries ==
    /\ \A k \in 0 .. 63 : MMIPrintTable[k] \in MultimediaNames \union {M, "MMI0", "MMI1", "MMI2", "MMI3"}
    /\ \A k \in 0 .. 31 : MMI0PrintTable[k] \in MultimediaNames \union {M}
    /\ \A k \in 0 .. 31 : MMI1PrintTable[k] \in MultimediaNames \union {M}
    /\ \A k \in 0 .. 31 : MMI2PrintTable[k] \in MultimediaNames \union {M}
    /\ \A k \in 0 .. 31 : MMI3PrintTable[k] \in MultimediaNames \union {M}
<1>1. \A k \in 0 .. 63 : MMIPrintTable[k] \in MultimediaNames \union {M, "MMI0", "MMI1", "MMI2", "MMI3"}
    BY DEF MMIPrintTable, Table, MultimediaNames
<1>2. \A k \in 0 .. 31 : MMI0PrintTable[k] \in MultimediaNames \union {M}
    BY DEF MMI0PrintTable, Table, MultimediaNames
<1>3. \A k \in 0 .. 31 : MMI1PrintTable[k] \in MultimediaNames \union {M}
    BY DEF MMI1PrintTable, Table, MultimediaNames
<1>4. \A k \in 0 .. 31 : MMI2PrintTable[k] \in MultimediaNames \union {M}
    BY DEF MMI2PrintTable, Table, MultimediaNames
<1>5. \A k \in 0 .. 31 : MMI3PrintTable[k] \in MultimediaNames \union {M}
    BY DEF MMI3PrintTable, Table, MultimediaNames
<1> QED
    BY <1>1, <1>2, <1>3, <1>4, <1>5

LEMMA MultimediaNamed == Multimedia \subseteq MultimediaNames
<1> SUFFICES ASSUME NEW x \in Multimedia PROVE x \in MultimediaNames
    OBVIOUS
<1>1. PICK n \in 1 .. 5 : \E k \in DOMAIN MMITables[n] : x = MMITables[n][k]
    <2>1. PICK table \in { MMITables[n] : n \in 1 .. 5 } : x \in { table[k] : k \in DOMAIN table }
        BY DEF Multimedia
    <2>2. PICK n \in 1 .. 5 : table = MMITables[n]
        BY <2>1
    <2> QED
        BY <2>1, <2>2
<1>2. x \notin {M, "MMI0", "MMI1", "MMI2", "MMI3"}
    BY Zenon DEF Multimedia
<1>3. /\ DOMAIN MMIPrintTable = 0 .. 63 /\ DOMAIN MMI0PrintTable = 0 .. 31
      /\ DOMAIN MMI1PrintTable = 0 .. 31 /\ DOMAIN MMI2PrintTable = 0 .. 31
      /\ DOMAIN MMI3PrintTable = 0 .. 31
    BY DEF MMIPrintTable, MMI0PrintTable, MMI1PrintTable, MMI2PrintTable, MMI3PrintTable, Table
<1>4. /\ MMITables[1] = MMIPrintTable /\ MMITables[2] = MMI0PrintTable /\ MMITables[3] = MMI1PrintTable
      /\ MMITables[4] = MMI2PrintTable /\ MMITables[5] = MMI3PrintTable
    BY DEF MMITables
<1>5. n = 1 \/ n = 2 \/ n = 3 \/ n = 4 \/ n = 5
    OBVIOUS
<1> QED
    BY <1>1, <1>2, <1>3, <1>4, <1>5, MultimediaEntries

LEMMA ScalarEntries ==
    /\ \A k \in 0 .. 63 : OpcodePrintTable[k] \notin MultimediaNames \union RdWriters \union {"MFC0", "SYSCALL"}
    /\ \A k \in 0 .. 63 : SpecialPrintTable[k] \notin MultimediaNames \union RtWriters \union {"MFC0"}
    /\ \A k \in 0 .. 31 : REGIMMPrintTable[k] \notin
          MultimediaNames \union RtWriters \union RdWriters \union {"MFC0", "SYSCALL"}
<1>1. \A k \in 0 .. 63 : OpcodePrintTable[k] \notin MultimediaNames \union RdWriters \union {"MFC0", "SYSCALL"}
    BY DEF OpcodePrintTable, Table, U, MultimediaNames, RdWriters
<1>2. \A k \in 0 .. 63 : SpecialPrintTable[k] \notin MultimediaNames \union RtWriters \union {"MFC0"}
    BY DEF SpecialPrintTable, Table, U, MultimediaNames, RtWriters
<1>3. \A k \in 0 .. 31 : REGIMMPrintTable[k] \notin
          MultimediaNames \union RtWriters \union RdWriters \union {"MFC0", "SYSCALL"}
    BY DEF REGIMMPrintTable, Table, U, MultimediaNames, RtWriters, RdWriters
<1> QED
    BY <1>1, <1>2, <1>3

LEMMA MultimediaNoScalar ==
    MultimediaNames \intersect (RtWriters \union RdWriters \union {"MFC0", "SYSCALL", U, M, "COP0"}) = {}
BY DEF MultimediaNames, RtWriters, RdWriters, U, M

LEMMA ScalarMMI ==
    ASSUME NEW w, IsWord(w) PROVE MMI(w) \in MultimediaNames \union {M}
<1>1. CASE w.funct \in {8, 9, 40, 41}
    <2>1. w.funct = 8 \/ w.funct = 9 \/ w.funct = 40 \/ w.funct = 41
        BY <1>1
    <2>2. MMI(w) \in {MMI0PrintTable[w.sa], MMI1PrintTable[w.sa], MMI2PrintTable[w.sa], MMI3PrintTable[w.sa]}
        BY <2>1, MMIEntries DEF MMI, IsWord
    <2> QED
        BY <2>2, MultimediaEntries DEF IsWord
<1>2. CASE w.funct \notin {8, 9, 40, 41}
    <2>1. MMI(w) = MMIPrintTable[w.funct] /\ MMIPrintTable[w.funct] \notin {"MMI0", "MMI1", "MMI2", "MMI3"}
        BY <1>2, MMIEntries DEF MMI, IsWord
    <2> QED
        BY <2>1, MultimediaEntries DEF IsWord
<1> QED
    BY <1>1, <1>2

LEMMA WhichTable ==
    ASSUME NEW w, IsWord(w)
    PROVE  /\ Handler(w) \in RtWriters =>
                 w.opcode \notin {0, 1, 16, 28} /\ Handler(w) = OpcodePrintTable[w.opcode]
           /\ Handler(w) \in RdWriters => w.opcode = 0 /\ Handler(w) = SpecialPrintTable[w.funct]
           /\ Handler(w) = "MFC0" => w.opcode = 16 /\ w.rs = 0 /\ w.rt = s0
           /\ Handler(w) \in Multimedia => w.opcode = 28 /\ Handler(w) = MMI(w)
<1>1. CASE w.opcode = 0
    <2>1. Handler(w) = SpecialPrintTable[w.funct]
        BY <1>1, OpcodeEntries DEF Handler
    <2> QED
        BY <1>1, <2>1, ScalarEntries, MultimediaNamed DEF IsWord
<1>2. CASE w.opcode = 1
    <2>1. Handler(w) = REGIMMPrintTable[w.rt]
        BY <1>2, OpcodeEntries DEF Handler
    <2> QED
        BY <1>2, <2>1, ScalarEntries, MultimediaNamed DEF IsWord
<1>3. CASE w.opcode = 16
    <2>1. Handler(w) = COP0(w)
        BY <1>3, OpcodeEntries DEF Handler
    <2>2. COP0(w) \in {"MFC0", "EI", "DI", "COP0"}
        BY DEF COP0
    <2>3. {"MFC0", "EI", "DI", "COP0"} \intersect (MultimediaNames \union RtWriters \union RdWriters) = {}
        BY DEF MultimediaNames, RtWriters, RdWriters
    <2>4. COP0(w) = "MFC0" => w.rs = 0 /\ w.rt = s0
        BY DEF COP0, Fields, s0
    <2> QED
        BY <1>3, <2>1, <2>2, <2>3, <2>4, MultimediaNamed
<1>4. CASE w.opcode = 28
    <2>1. Handler(w) = MMI(w)
        BY <1>4, OpcodeEntries DEF Handler
    <2>2. M \notin RtWriters \union RdWriters \union {"MFC0"}
        BY DEF RtWriters, RdWriters, M
    <2> QED
        BY <1>4, <2>1, <2>2, ScalarMMI, MultimediaNoScalar
<1>5. CASE w.opcode \notin {0, 1, 16, 28}
    <2>1. Handler(w) = OpcodePrintTable[w.opcode]
        BY <1>5, OpcodeEntries DEF Handler, IsWord
    <2> QED
        BY <1>5, <2>1, ScalarEntries, MultimediaNamed DEF IsWord
<1> QED
    BY <1>1, <1>2, <1>3, <1>4, <1>5

(* No instruction is called what the listing calls an empty entry.         *)
LEMMA NamesApart ==
    /\ {Lists!Unlisted, Lists!MMIUnknown, Lists!COP0Unknown, Lists!COP1Unknown, "COP2"} \intersect RtWriters = {}
    /\ {Lists!Unlisted, Lists!MMIUnknown, Lists!COP0Unknown, Lists!COP1Unknown, "COP2"} \intersect RdWriters = {}
    /\ {Lists!Unlisted, Lists!MMIUnknown, Lists!COP0Unknown, Lists!COP1Unknown, "COP2"} \intersect
           (MultimediaNames \union {"MSUBW"}) = {}
    /\ {Lists!Unlisted, Lists!MMIUnknown, Lists!COP0Unknown, Lists!COP1Unknown, "COP2"} \intersect {"MFC0"} = {}
<1>1. /\ \A x \in RtWriters : x # "?????" /\ x # "MMI ??" /\ x # "COP0 ??" /\ x # "COP1 ??" /\ x # "COP2"
    BY ZenonT(60) DEF RtWriters
<1>2. /\ \A x \in RdWriters : x # "?????" /\ x # "MMI ??" /\ x # "COP0 ??" /\ x # "COP1 ??" /\ x # "COP2"
    BY ZenonT(60) DEF RdWriters
<1>3. /\ \A x \in MultimediaNames : x # "?????" /\ x # "MMI ??" /\ x # "COP0 ??" /\ x # "COP1 ??" /\ x # "COP2"
    <2>1. \A x \in MultimediaNames : x # "?????" /\ x # "COP2"
        BY DEF MultimediaNames
    <2>2. "MMI ??" \notin MultimediaNames
        BY ZenonT(60) DEF MultimediaNames
    <2>3. "COP0 ??" \notin MultimediaNames
        BY ZenonT(60) DEF MultimediaNames
    <2>4. "COP1 ??" \notin MultimediaNames
        BY ZenonT(60) DEF MultimediaNames
    <2> QED
        BY <2>1, <2>2, <2>3, <2>4, Zenon
<1>4. /\ \A x \in {"MSUBW", "MFC0"} : x # "?????" /\ x # "MMI ??" /\ x # "COP0 ??" /\ x # "COP1 ??" /\ x # "COP2"
    BY Zenon
<1> QED
    BY <1>1, <1>2, <1>3, <1>4, Zenon DEF Lists!Unlisted, Lists!MMIUnknown, Lists!COP0Unknown, Lists!COP1Unknown

-----------------------------------------------------------------------------
(* What the listing shows.                                                 *)

(* The fields of a text that begins with rd.                               *)
RdFirst == {<<"rd">>, <<"rd", "rs">>, Lists!DRT, Lists!DST, Lists!DTS}

LEMMA FirstShown ==
    ASSUME NEW i, 1 \in DOMAIN Lists!ListedFields(i)
    PROVE  /\ Lists!ListedRegisters(i) # <<>>
           /\ Lists!ListedRegisters(i)[1] = i[Lists!ListedFields(i)[1]]
<1>1. 1 \in DOMAIN Lists!ListedRegisters(i) /\ Lists!ListedRegisters(i)[1] = i[Lists!ListedFields(i)[1]]
    BY DEF Lists!ListedRegisters
<1>2. 1 \notin DOMAIN <<>>
    OBVIOUS
<1> QED
    BY <1>1, <1>2

LEMMA RdFirstShown ==
    ASSUME NEW i, Lists!ListedFields(i) \in RdFirst
    PROVE  Lists!ListedRegisters(i) # <<>> /\ i.rd = Lists!ListedRegisters(i)[1]
<1>1. 1 \in DOMAIN Lists!ListedFields(i) /\ Lists!ListedFields(i)[1] = "rd"
    BY DEF RdFirst, Lists!DRT, Lists!DST, Lists!DTS
<1> QED
    BY <1>1, FirstShown

LEMMA RtFirstShown ==
    ASSUME NEW i, Lists!ListedFields(i) \in {<<"rt">>, <<"rt", "rs">>}
    PROVE  Lists!ListedRegisters(i) # <<>> /\ i.rt = Lists!ListedRegisters(i)[1]
<1>1. 1 \in DOMAIN Lists!ListedFields(i) /\ Lists!ListedFields(i)[1] = "rt"
    OBVIOUS
<1> QED
    BY <1>1, FirstShown

LEMMA OpcodeListed ==
    ASSUME NEW i, IsWord(i), i.op = Handler(i), i.op \in RtWriters
    PROVE  Lists!ListedFields(i) \in {<<"rt">>, <<"rt", "rs">>}
<1>1. i.opcode \in 0 .. 63 /\ i.op = OpcodePrintTable[i.opcode] /\ i.op # U
    BY WhichTable DEF IsWord, RtWriters, U
<1>2. Lists!ListedOpcode[i.opcode] = i.op
    BY <1>1, ListedScalarTables
<1>3. i.op \notin Refusals \union {"MADDU", "PMSUBW"}
    BY DEF RtWriters, Refusals, U, M
<1>4. Lists!Listed(i) = i.op
    BY <1>3, ListedRuns
<1>5. i.op \notin {Lists!Unlisted, Lists!MMIUnknown, Lists!COP0Unknown, Lists!COP1Unknown, "COP2"}
    BY NamesApart
<1>6. i.op \notin {"SPECIAL", "REGIMM", "MMI", "COP0", "COP1"}
    BY DEF RtWriters
<1>7. Lists!ListedFields(i) = Lists!OpcodeFields(i.op)
    BY <1>2, <1>4, <1>5, <1>6 DEF Lists!ListedFields
<1>8. Lists!OpcodeFields(i.op) \in {<<"rt">>, Lists!TS}
    BY DEF RtWriters, Lists!OpcodeFields
<1> QED
    BY <1>7, <1>8 DEF Lists!TS

LEMMA SpecialListed ==
    ASSUME NEW i, IsWord(i), i.op = Handler(i), i.op \in RdWriters,
           i.rd # 0, ~(i.op = "JALR" /\ i.rd = ra)
    PROVE  Lists!ListedFields(i) \in RdFirst
<1>1. i.opcode = 0
    BY WhichTable
<1>2. Lists!ListedOpcode[0] = "SPECIAL"
    BY OpcodeEntries, ListedScalarTables DEF U
<1>3. i.op \notin Refusals \union {"MADDU", "PMSUBW"}
    BY DEF RdWriters, Refusals, U, M
<1>4. Lists!Listed(i) = i.op
    BY <1>3, ListedRuns
<1>5. i.op \notin {Lists!Unlisted, Lists!MMIUnknown, Lists!COP0Unknown, Lists!COP1Unknown, "COP2"}
    BY NamesApart
<1>6. Lists!ListedFields(i) = Lists!SpecialFields(i.op, i)
    BY <1>1, <1>2, <1>4, <1>5 DEF Lists!ListedFields
<1>7. ~Lists!IsZero(i)
    BY DEF Lists!IsZero, Lists!Fields
<1> QED
    BY <1>6, <1>7 DEF RdWriters, Lists!SpecialFields, RdFirst, ra

LEMMA COP0Listed ==
    ASSUME NEW i, IsWord(i), i.op = Handler(i), i.op = "MFC0"
    PROVE  Lists!ListedFields(i) = <<"rt">> /\ i.rt = s0
<1>1. i.opcode = 16 /\ i.rt = s0
    BY WhichTable
<1>2. Lists!ListedOpcode[16] = "COP0"
    BY OpcodeEntries, ListedScalarTables DEF U
<1>3. Lists!Listed(i) = "MFC0"
    BY ListedRuns DEF Refusals, U, M
<1>4. "MFC0" \notin {Lists!Unlisted, Lists!MMIUnknown, Lists!COP0Unknown, Lists!COP1Unknown, "COP2"}
    BY NamesApart
<1>5. Lists!ListedFields(i) = Lists!COPFields("MFC0")
    BY <1>1, <1>2, <1>3, <1>4 DEF Lists!ListedFields
<1> QED
    BY <1>1, <1>5 DEF Lists!COPFields

(* The two multimedia instructions that the listing calls something else.  *)
LEMMA Misnamed ==
    /\ \A k \in 0 .. 63 : MMIPrintTable[k] = "MADDU" => k = 1
    /\ \A k \in 0 .. 63 : MMIPrintTable[k] # "PMSUBW"
    /\ \A k \in 0 .. 31 : {MMI0PrintTable[k], MMI1PrintTable[k], MMI3PrintTable[k]} \intersect {"MADDU", "PMSUBW"} = {}
    /\ \A k \in 0 .. 31 : MMI2PrintTable[k] # "MADDU" /\ (MMI2PrintTable[k] = "PMSUBW" => k = 4)
    /\ Lists!ListedMMI[1] = "MADD" /\ Lists!ListedMMI2[4] = "MSUBW"
<1>1. \A k \in 0 .. 63 : (MMIPrintTable[k] = "MADDU" => k = 1) /\ MMIPrintTable[k] # "PMSUBW"
    BY DEF MMIPrintTable, Table, M
<1>2. \A k \in 0 .. 31 : MMI0PrintTable[k] \notin {"MADDU", "PMSUBW"}
    BY DEF MMI0PrintTable, Table, M
<1>3. \A k \in 0 .. 31 : MMI1PrintTable[k] \notin {"MADDU", "PMSUBW"}
    BY DEF MMI1PrintTable, Table, M
<1>4. \A k \in 0 .. 31 : MMI3PrintTable[k] \notin {"MADDU", "PMSUBW"}
    BY DEF MMI3PrintTable, Table, M
<1>5. \A k \in 0 .. 31 : MMI2PrintTable[k] # "MADDU" /\ (MMI2PrintTable[k] = "PMSUBW" => k = 4)
    BY DEF MMI2PrintTable, Table, M
<1>6. Lists!ListedMMI[1] = "MADD" /\ Lists!ListedMMI2[4] = "MSUBW"
    BY DEF Lists!ListedMMI, Lists!ListedMMI2, Lists!Table
<1> QED
    BY <1>1, <1>2, <1>3, <1>4, <1>5, <1>6

LEMMA MisnamedListed ==
    ASSUME NEW i, IsWord(i), i.opcode = 28, MMI(i) \in {"MADDU", "PMSUBW"}
    PROVE  Lists!Listed(i) \in {"MADD", "MSUBW"}
<1>0. i.funct \in 0 .. 63 /\ i.sa \in 0 .. 31
    BY DEF IsWord
<1>1. Lists!ListedOpcode[28] = "MMI"
    BY OpcodeEntries, ListedScalarTables DEF U
<1>2. CASE i.funct = 9
    <2>1. MMI(i) = MMI2PrintTable[i.sa] /\ Lists!ListedMMI[9] = "MMI2"
        BY <1>2, MMIEntries, ListedMMITables DEF MMI, M
    <2>2. i.sa = 4
        BY <1>0, <2>1, Misnamed
    <2> QED
        BY <1>1, <1>2, <2>1, <2>2, Misnamed DEF Lists!Listed
<1>3. CASE i.funct \in {8, 40, 41}
    <2>1. i.funct = 8 \/ i.funct = 40 \/ i.funct = 41
        BY <1>3
    <2>2. MMI(i) \in {MMI0PrintTable[i.sa], MMI1PrintTable[i.sa], MMI3PrintTable[i.sa]}
        BY <1>0, <2>1, MMIEntries DEF MMI
    <2> QED
        BY <1>0, <2>2, Misnamed
<1>4. CASE i.funct \notin {8, 9, 40, 41}
    <2>1. MMI(i) = MMIPrintTable[i.funct]
        BY <1>0, <1>4, MMIEntries DEF MMI
    <2>2. i.funct = 1
        BY <1>0, <2>1, Misnamed
    <2> QED
        BY <1>1, <2>2, Misnamed DEF Lists!Listed
<1> QED
    BY <1>2, <1>3, <1>4

LEMMA MultimediaListed ==
    ASSUME NEW i, IsWord(i), i.op = Handler(i), i.op \in Multimedia \ WithoutRd
    PROVE  Lists!ListedFields(i) \in RdFirst
<1>1. i.opcode = 28 /\ i.op = MMI(i) /\ i.op \in MultimediaNames
    BY WhichTable, MultimediaNamed
<1>2. Lists!ListedOpcode[28] = "MMI"
    BY OpcodeEntries, ListedScalarTables DEF U
<1>3. /\ Lists!Listed(i) \notin WithoutRd
      /\ Lists!Listed(i) \notin {Lists!Unlisted, Lists!MMIUnknown, Lists!COP0Unknown, Lists!COP1Unknown, "COP2"}
    <2>1. CASE i.op \in {"MADDU", "PMSUBW"}
        <3>1. Lists!Listed(i) \in {"MADD", "MSUBW"}
            BY <1>1, <2>1, MisnamedListed
        <3>2. "MADD" \in MultimediaNames
            BY DEF MultimediaNames
        <3> QED
            BY <3>1, <3>2, NamesApart DEF WithoutRd
    <2>2. CASE i.op \notin {"MADDU", "PMSUBW"}
        <3>1. i.op \notin Refusals
            BY <1>1, MultimediaNoScalar DEF Refusals
        <3>2. Lists!Listed(i) = i.op
            BY <2>2, <3>1, ListedRuns
        <3> QED
            BY <1>1, <3>2, NamesApart
    <2> QED
        BY <2>1, <2>2
<1>4. \A name : name \notin WithoutRd =>
         /\ Lists!MMIFields(name) \in RdFirst /\ Lists!MMI0Fields(name) \in RdFirst
         /\ Lists!MMI1Fields(name) \in RdFirst /\ Lists!MMI2Fields(name) \in RdFirst
         /\ Lists!MMI3Fields(name) \in RdFirst
    BY DEF Lists!MMIFields, Lists!MMI0Fields, Lists!MMI1Fields, Lists!MMI2Fields, Lists!MMI3Fields,
           RdFirst, WithoutRd
<1> QED
    BY <1>1, <1>2, <1>3, <1>4 DEF Lists!ListedFields

LEMMA ChangeListedFirst ==
    ASSUME NEW i, IsWord(i), i.op = Handler(i), NEW r, Changes(i, r), r # 0, r \notin Implicit(i)
    PROVE  Lists!ListedRegisters(i) # <<>> /\ r = Lists!ListedRegisters(i)[1]
<1>1. CASE i.op \in RtWriters /\ r = i.rt
    BY <1>1, OpcodeListed, RtFirstShown
<1>2. CASE i.op \in RdWriters /\ r = i.rd
    <2>1. ~(i.op = "JALR" /\ i.rd = ra)
        BY <1>2 DEF Implicit, Linking
    <2>2. Lists!ListedFields(i) \in RdFirst
        BY <1>2, <2>1, SpecialListed
    <2>3. Lists!ListedRegisters(i) # <<>> /\ i.rd = Lists!ListedRegisters(i)[1]
        BY <2>2, RdFirstShown
    <2> QED
        BY <1>2, <2>3
<1>3. CASE i.op = "MFC0" /\ r = s0
    <2>1. Lists!ListedFields(i) = <<"rt">> /\ i.rt = s0
        BY <1>3, COP0Listed
    <2>2. Lists!ListedRegisters(i) # <<>> /\ i.rt = Lists!ListedRegisters(i)[1]
        BY <2>1, RtFirstShown
    <2> QED
        BY <1>3, <2>1, <2>2
<1>4. CASE (i.op \in Linking /\ r = ra) \/ (i.op = "SYSCALL" /\ r = v0)
    BY <1>4 DEF Implicit, Linking
<1>5. CASE i.op \in Multimedia \ WithoutRd /\ r = i.rd
    <2>1. Lists!ListedFields(i) \in RdFirst
        BY <1>5, MultimediaListed
    <2>2. Lists!ListedRegisters(i) # <<>> /\ i.rd = Lists!ListedRegisters(i)[1]
        BY <2>1, RdFirstShown
    <2> QED
        BY <1>5, <2>2
<1> QED
    BY <1>1, <1>2, <1>3, <1>4, <1>5 DEF Changes

-----------------------------------------------------------------------------
(* What the trace shows.                                                   *)

Shown(i, r) == \E k \in DOMAIN Traces!TracedRegisters(i) : Traces!TracedRegisters(i)[k] = r

LEMMA OpcodeTraced ==
    ASSUME NEW i, IsWord(i), i.op = Handler(i), i.op \in RtWriters
    PROVE  Shown(i, i.rt)
<1>1. i.op \notin Refusals \union {"DSUBU", "PEXT5", "PPAC5"} \union Untraced
    BY DEF RtWriters, Refusals, Untraced, U, M
<1>2. Traces!Traced(i) = i.op
    BY <1>1, TracedRuns
<1>3. Traces!TracedRegisters(i) \in {<<i.rt>>, <<i.rt, i.rs>>}
    BY <1>2 DEF RtWriters, Traces!TracedRegisters, Traces!Jumps, Traces!JumpRegistersTraced,
       Traces!ImmediatesTraced, Traces!RegistersTraced, Traces!MovesTraced, Traces!MMITraced,
       Traces!DividesTraced, Traces!EqualityTraced, Traces!MultipliesTraced, Traces!FromHILO,
       Traces!ToHILO, Traces!SignTraced, Traces!ShiftsTraced, Traces!VariableShiftsTraced,
       Traces!AccessesTraced, Traces!COPMovesTraced
<1> QED
    BY <1>3 DEF Shown

LEMMA SpecialTraced ==
    ASSUME NEW i, IsWord(i), i.op = Handler(i), i.op \in RdWriters, i.rd # 0
    PROVE  Shown(i, i.rd)
<1> DEFINE name == IF i.op = "DSUBU" THEN "DSDBU" ELSE i.op
<1>1. Traces!Traced(i) = name
    <2>1. CASE i.op = "DSUBU"
        <3>1. \A k \in 0 .. 63 : SpecialPrintTable[k] = "DSUBU" => Traces!TracedSpecial[k] = "DSDBU"
            BY DEF SpecialPrintTable, Traces!TracedSpecial, Table, Traces!Table, U
        <3>2. i.opcode = 0 /\ i.op = SpecialPrintTable[i.funct] /\ i.funct \in 0 .. 63
            BY WhichTable DEF IsWord
        <3>3. Traces!TracedOpcode[0] = "SPECIAL"
            BY OpcodeEntries, TracedScalarTables DEF U
        <3> QED
            BY <2>1, <3>1, <3>2, <3>3 DEF Traces!Traced
    <2>2. CASE i.op # "DSUBU"
        <3>1. i.op \notin Refusals \union {"DSUBU", "PEXT5", "PPAC5"} \union Untraced
            BY <2>2 DEF RdWriters, Refusals, Untraced, U, M
        <3> QED
            BY <2>2, <3>1, TracedRuns
    <2> QED
        BY <2>1, <2>2
<1>2. ~Traces!IsZero(i)
    BY DEF Traces!IsZero, Traces!Fields
<1>3. Traces!TracedRegisters(i) \in
         {<<i.rs, i.rd>>, <<i.rd, i.rs, i.rt>>, <<i.rs, i.rt, i.rd>>, <<i.rd>>, <<i.rd, i.rt>>, <<i.rd, i.rt, i.rs>>}
    BY <1>1, <1>2 DEF RdWriters, Traces!TracedRegisters, Traces!Jumps, Traces!JumpRegistersTraced,
       Traces!ImmediatesTraced, Traces!RegistersTraced, Traces!MovesTraced, Traces!MMITraced,
       Traces!DividesTraced, Traces!EqualityTraced, Traces!MultipliesTraced, Traces!FromHILO,
       Traces!ToHILO, Traces!SignTraced, Traces!ShiftsTraced, Traces!VariableShiftsTraced,
       Traces!AccessesTraced, Traces!COPMovesTraced
<1> QED
    BY <1>3 DEF Shown

LEMMA LinkTraced ==
    ASSUME NEW i, IsWord(i), i.op = Handler(i), i.op = "JAL"
    PROVE  Shown(i, ra)
<1>1. i.op \notin Refusals \union {"DSUBU", "PEXT5", "PPAC5"} \union Untraced
    BY DEF Refusals, Untraced, U, M
<1>2. Traces!Traced(i) = "JAL"
    BY <1>1, TracedRuns
<1>3. Traces!TracedRegisters(i) = <<31>>
    BY <1>2 DEF Traces!TracedRegisters, Traces!Jumps, Traces!JumpRegistersTraced,
       Traces!ImmediatesTraced, Traces!RegistersTraced, Traces!MovesTraced, Traces!MMITraced,
       Traces!DividesTraced, Traces!EqualityTraced, Traces!MultipliesTraced, Traces!FromHILO,
       Traces!ToHILO, Traces!SignTraced, Traces!ShiftsTraced, Traces!VariableShiftsTraced,
       Traces!AccessesTraced, Traces!COPMovesTraced
<1> QED
    BY <1>3 DEF Shown, ra

LEMMA COP0Traced ==
    ASSUME NEW i, IsWord(i), i.op = Handler(i), i.op = "MFC0"
    PROVE  Shown(i, s0)
<1>1. i.op \notin Refusals \union {"DSUBU", "PEXT5", "PPAC5"} \union Untraced
    BY DEF Refusals, Untraced, U, M
<1>2. Traces!Traced(i) = "MFC0" /\ i.rt = s0
    BY <1>1, TracedRuns, WhichTable
<1>3. Traces!TracedRegisters(i) = <<i.rt>>
    BY <1>2 DEF Traces!TracedRegisters, Traces!Jumps, Traces!JumpRegistersTraced,
       Traces!ImmediatesTraced, Traces!RegistersTraced, Traces!MovesTraced, Traces!MMITraced,
       Traces!DividesTraced, Traces!EqualityTraced, Traces!MultipliesTraced, Traces!FromHILO,
       Traces!ToHILO, Traces!SignTraced, Traces!ShiftsTraced, Traces!VariableShiftsTraced,
       Traces!AccessesTraced, Traces!COPMovesTraced
<1> QED
    BY <1>2, <1>3 DEF Shown

LEMMA MultimediaTraced ==
    ASSUME NEW i, IsWord(i), i.op = Handler(i), i.op \in Multimedia, i.op \notin NameOnly
    PROVE  Shown(i, i.rd)
<1>1. i.op \in {"PEXTLW", "PEXTLH", "PEXTUW", "PEXTUH", "PCPYLD", "PAND", "PXOR", "POR", "PNOR", "PCPYUD", "PCPYH"}
    BY DEF NameOnly
<1>2. i.op \notin Refusals \union {"DSUBU", "PEXT5", "PPAC5"} \union Untraced
    BY <1>1 DEF Refusals, Untraced, U, M
<1>3. Traces!Traced(i) = i.op
    BY <1>2, TracedRuns
<1>4. Traces!TracedRegisters(i) \in {<<i.rd, i.rs, i.rt>>, <<i.rd, i.rt, i.rs>>, <<i.rd, i.rt>>}
    BY <1>1, <1>3 DEF Traces!TracedRegisters, Traces!Jumps, Traces!JumpRegistersTraced,
       Traces!ImmediatesTraced, Traces!RegistersTraced, Traces!MovesTraced, Traces!MMITraced,
       Traces!DividesTraced, Traces!EqualityTraced, Traces!MultipliesTraced, Traces!FromHILO,
       Traces!ToHILO, Traces!SignTraced, Traces!ShiftsTraced, Traces!VariableShiftsTraced,
       Traces!AccessesTraced, Traces!COPMovesTraced
<1> QED
    BY <1>4 DEF Shown

LEMMA ChangeTraced ==
    ASSUME NEW i, IsWord(i), i.op = Handler(i), NEW r, Changes(i, r), r # 0
    PROVE  \/ Shown(i, r)
           \/ r \in Implicit(i) /\ i.op \notin {"JAL", "JALR"}
           \/ i.op \in NameOnly
<1>1. CASE i.op \in RtWriters /\ r = i.rt
    BY <1>1, OpcodeTraced
<1>2. CASE i.op \in RdWriters /\ r = i.rd
    BY <1>2, SpecialTraced
<1>3. CASE i.op = "MFC0" /\ r = s0
    BY <1>3, COP0Traced
<1>4. CASE i.op \in Linking /\ r = ra
    <2>1. CASE i.op = "JAL"
        BY <1>4, <2>1, LinkTraced
    <2>2. CASE i.op # "JAL"
        BY <1>4, <2>2 DEF Implicit, Linking
    <2> QED
        BY <2>1, <2>2
<1>5. CASE i.op = "SYSCALL" /\ r = v0
    BY <1>5 DEF Implicit, Linking
<1>6. CASE i.op \in Multimedia \ WithoutRd /\ r = i.rd
    BY <1>6, MultimediaTraced
<1> QED
    BY <1>1, <1>2, <1>3, <1>4, <1>5, <1>6 DEF Changes

-----------------------------------------------------------------------------
(* Steps.                                                                  *)

(* A step of the program changes a register only by running a handler.     *)
LEMMA StepChanges ==
    ASSUME EInv, [ExecNext]_allVars, NEW r \in Changed
    PROVE  IsWord(code') /\ code'.op = Handler(code') /\ Changes(code', r) /\ r # 0
<1>1. CASE Execute
    <2>1. PICK i \in Fetched : Step(i)
        BY <1>1 DEF Execute
    <2>2. i \in Instruction /\ IsWord(i) /\ i.op = Handler(i)
        BY <1>1, FetchedWords DEF Execute, EInv
    <2>3. code' = i /\ Effect(i)
        BY <2>1 DEF Step
    <2>4. Changes(i, r) /\ r # 0
        BY <2>2, <2>3, EffectChanges DEF EInv
    <2> QED
        BY <2>2, <2>3, <2>4
<1>2. CASE Refuse \/ DivideTrap \/ Finished \/ UNCHANGED allVars
    BY <1>2, NothingChanges DEF Refuse, DivideTrap, Finished, allVars, vars
<1> QED
    BY <1>1, <1>2 DEF ExecNext

(* Whatever the program, the first register in the listing's text of an    *)
(* instruction is the one its handler fills: no other general register     *)
(* changes, but for links and results of system calls.                     *)
THEOREM ChangesAlwaysListedFirst == ExecSpec => ChangesAreListedFirst
<1>1. ASSUME EInv, [ExecNext]_allVars
      PROVE  \A r \in Changed \ Implicit(code') :
                LET shown == Lists!ListedRegisters(code') IN shown # <<>> /\ r = shown[1]
    <2> SUFFICES ASSUME NEW r \in Changed, r \notin Implicit(code')
                 PROVE  LET shown == Lists!ListedRegisters(code') IN shown # <<>> /\ r = shown[1]
        OBVIOUS
    <2>1. IsWord(code') /\ code'.op = Handler(code') /\ Changes(code', r) /\ r # 0
        BY <1>1, StepChanges
    <2> QED
        BY <2>1, ChangeListedFirst
<1> QED
    BY <1>1, EInvAlways, PTL DEF ExecSpec, ChangesAreListedFirst

(* Whatever the program, the trace shows every general register that the   *)
(* instruction changes, but for the links of branches, system calls and    *)
(* the instructions it shows by name only.                                 *)
THEOREM ChangesAlwaysTraced == ExecSpec => ChangesAreTraced
<1>1. ASSUME EInv, [ExecNext]_allVars
      PROVE  \A r \in Changed :
                \/ \E k \in DOMAIN Traces!TracedRegisters(code') : Traces!TracedRegisters(code')[k] = r
                \/ r \in Implicit(code') /\ code'.op \notin {"JAL", "JALR"}
                \/ code'.op \in NameOnly
    <2> SUFFICES ASSUME NEW r \in Changed
                 PROVE  \/ Shown(code', r)
                        \/ r \in Implicit(code') /\ code'.op \notin {"JAL", "JALR"}
                        \/ code'.op \in NameOnly
        BY DEF Shown
    <2>1. IsWord(code') /\ code'.op = Handler(code') /\ Changes(code', r) /\ r # 0
        BY <1>1, StepChanges
    <2> QED
        BY <2>1, ChangeTraced
<1> QED
    BY <1>1, EInvAlways, PTL DEF ExecSpec, ChangesAreTraced
=============================================================================
