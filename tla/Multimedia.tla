----------------------------- MODULE Multimedia -----------------------------
(***************************************************************************)
(* The 128-bit multimedia instructions (MMI.c) as data flow.  A handler is *)
(* a sequence of C assignments, each of which reads lanes of its operands  *)
(* and writes lanes of rd, HI or LO; rd may be the same register as rs or  *)
(* rt, so an assignment may read what an earlier one has overwritten.      *)
(*                                                                         *)
(* What an assignment computes is left out: a byte computed from several   *)
(* bytes becomes New, a byte copied from one byte keeps that byte's        *)
(* identity.  So instructions that only move lanes are modelled exactly.   *)
(* A behaviour starts between two instructions of a program, with any      *)
(* contents of the registers.  DIV1, PDIVW and PDIVBW may trap as DIV does *)
(* (DivideTrap of Interpreter); that is left out here.                     *)
(***************************************************************************)
EXTENDS Integers, FiniteSets, Sequences

CONSTANTS
    GPR,       \* general registers
    Zero,      \* register 0, which a handler must not write
    Programs   \* the sequences of instructions to run

ASSUME MultimediaAssumption == Zero \in GPR /\ GPR \cap {"HI", "LO"} = {}

Register == GPR \union {"HI", "LO"}
Bytes == 0 .. 15

VARIABLES
    regs,   \* the registers, byte by byte
    saved,  \* the registers when the current handler was called
    todo,   \* the instructions still to run, the current one first
    line,   \* the assignment of its handler to run next
    stale,  \* history: instructions that have read an operand byte they had overwritten
    program \* history: what was in todo at first

vars == <<regs, saved, todo, line, stale, program>>

New == <<"new", 0>>

Init ==
    /\ regs = [r \in Register |-> [b \in Bytes |-> <<r, b>>]]
    /\ saved = regs
    /\ todo \in Programs
    /\ line = 1
    /\ stale = {}
    /\ program = todo

-----------------------------------------------------------------------------
(* Assignments.  An operand is rd, rs, rt, HI, LO, or Rs and Rt, the local *)
(* copies of rs and rt some handlers make first.  An assignment maps each  *)
(* byte it writes to the bytes it is computed from.                        *)

Lane(operand, size, n) == {operand} \X (size * n .. size * n + size - 1)

Compute(to, from) == [x \in to |-> from]

Move(dest, size, n, source, k) ==
    [x \in Lane(dest, size, n) |-> {<<source, x[2] + size * (k - n)>>}]

(* One assignment per lane of rd, from the same lane of the operands. *)
LaneWise(size, operands) ==
    [k \in 1 .. 16 \div size |->
        Compute(Lane("rd", size, k - 1), UNION { Lane(o, size, k - 1) : o \in operands })]

(* One assignment per lane of rd, which takes lane lanes[k][2] of lanes[k][1]. *)
Take(size, lanes) ==
    [k \in 1 .. 16 \div size |-> Move("rd", size, k - 1, lanes[k][1], lanes[k][2])]

FromRt(lanes) == [k \in DOMAIN lanes |-> <<"Rt", lanes[k]>>]

(* Lanes of Rt and Rs in turn, from lane `first' of each. *)
Interleave(size, first) ==
    Take(size, [k \in 1 .. 16 \div size |->
                   <<IF k % 2 = 1 THEN "Rt" ELSE "Rs", first + (k - 1) \div 2>>])

(* The even lanes of Rt, then the even lanes of Rs. *)
Pack(size) ==
    LET half == 8 \div size
    IN  Take(size, [k \in 1 .. 2 * half |->
                       IF k <= half THEN <<"Rt", 2 * (k - 1)>>
                                    ELSE <<"Rs", 2 * (k - 1 - half)>>])

(* A product of word lanes `source', written to the double lane d of LO    *)
(* and HI and to double lane e of rd; and the same added to LO and HI.     *)
ProductTo(d, e) == Lane("LO", 8, d) \union Lane("HI", 8, d) \union Lane("rd", 8, e)
Factors(size, n) == Lane("rs", size, n) \union Lane("rt", size, n)

Product(d, e, source) == Compute(ProductTo(d, e), Factors(4, source))
Accumulate(d, e, source) ==
    Compute(ProductTo(d, e),
            Factors(4, source) \union Lane("LO", 4, 2 * d) \union Lane("HI", 4, 2 * d))

(* Half-word products: product k goes to a word of LO or HI and, if k is   *)
(* even, to word k / 2 of rd.                                              *)
HalfSum(k) == Lane(IF k % 4 < 2 THEN "LO" ELSE "HI", 4, 2 * (k \div 4) + (k % 2))
HalfTo(k)  == HalfSum(k) \union (IF k % 2 = 0 THEN Lane("rd", 4, k \div 2) ELSE {})

(* Adjacent half-words from lane n on, to word d of LO or HI and word e of rd. *)
Adjacent(hl, d, n, e) ==
    Compute(Lane(hl, 4, d) \union Lane("rd", 4, e), Factors(2, n) \union Factors(2, n + 1))

-----------------------------------------------------------------------------
(* The handlers.                                                           *)

MultiplyAdd == [op \in {"MADD", "MADDU"} |-> <<Accumulate(0, 0, 0)>>]
PLZCW == [op \in {"PLZCW"} |-> SubSeq(LaneWise(4, {"rs"}), 1, 2)]
MultiplyAdd1 == [op \in {"MADD1", "MADDU1"} |-> <<Accumulate(1, 0, 0)>>]
MoveHiLo1 ==
    [MFHI1 |-> <<Move("rd", 8, 0, "HI", 1)>>, MFLO1 |-> <<Move("rd", 8, 0, "LO", 1)>>,
     MTHI1 |-> <<Move("HI", 8, 1, "rs", 0)>>, MTLO1 |-> <<Move("LO", 8, 1, "rs", 0)>>]
Multiply1 == [op \in {"MULT1", "MULTU1"} |-> <<Product(1, 0, 0)>>]
Divide1 ==
    [op \in {"DIV1", "DIVU1"} |->
        <<Compute(Lane("LO", 8, 1) \union Lane("HI", 8, 1), Factors(4, 0))>>]

(* Assigns nothing. *)
Nothing == <<Compute({}, {})>>

(* PMFHL by its sa field; SLW and SH saturate what they move.              *)
PMFHL ==
    [PMFHL_Other |-> Nothing,
     PMFHL_LW  |-> Take(4, <<<<"LO", 0>>, <<"HI", 0>>, <<"LO", 2>>, <<"HI", 2>>>>),
     PMFHL_UW  |-> Take(4, <<<<"LO", 1>>, <<"HI", 1>>, <<"LO", 3>>, <<"HI", 3>>>>),
     PMFHL_SLW |-> [k \in 1 .. 2 |->
                       Compute(Lane("rd", 8, k - 1),
                               Lane("HI", 4, 2 * k - 2) \union Lane("LO", 4, 2 * k - 2))],
     PMFHL_LH  |-> Take(2, <<<<"LO", 0>>, <<"LO", 2>>, <<"HI", 0>>, <<"HI", 2>>,
                             <<"LO", 4>>, <<"LO", 6>>, <<"HI", 4>>, <<"HI", 6>>>>),
     PMFHL_SH  |-> [k \in 1 .. 8 |-> Compute(Lane("rd", 2, k - 1), HalfSum(k - 1))]]

PMTHL ==
    [PMTHL_Other |-> Nothing,
     PMTHL |-> <<Move("LO", 4, 0, "rs", 0), Move("HI", 4, 0, "rs", 1),
                 Move("LO", 4, 2, "rs", 2), Move("HI", 4, 2, "rs", 3)>>]

ShiftH == [op \in {"PSLLH", "PSRLH", "PSRAH"} |-> LaneWise(2, {"rt"})]
ShiftW == [op \in {"PSLLW", "PSRLW", "PSRAW"} |-> LaneWise(4, {"rt"})]
ArithW == [op \in {"PADDW", "PSUBW", "PCGTW", "PMAXW"} |-> LaneWise(4, {"rs", "rt"})]
ArithH == [op \in {"PADDH", "PSUBH", "PCGTH", "PMAXH"} |-> LaneWise(2, {"rs", "rt"})]
ArithB == [op \in {"PADDB", "PSUBB", "PCGTB"} |-> LaneWise(1, {"rs", "rt"})]
SignedW == [op \in {"PADDSW", "PSUBSW"} |-> LaneWise(4, {"rs", "rt"})]
PEXTLW == [PEXTLW |-> Interleave(4, 0)]
PPACW  == [PPACW |-> Pack(4)]
SignedH == [op \in {"PADDSH", "PSUBSH"} |-> LaneWise(2, {"rs", "rt"})]
PEXTLH == [PEXTLH |-> Interleave(2, 0)]
PPACH  == [PPACH |-> Pack(2)]
SignedB == [op \in {"PADDSB", "PSUBSB"} |-> LaneWise(1, {"rs", "rt"})]
PEXTLB == [PEXTLB |-> Interleave(1, 0)]
PPACB  == [PPACB |-> Pack(1)]
Color5 == [op \in {"PEXT5", "PPAC5"} |-> LaneWise(4, {"rt"})]

CompareW == [PABSW |-> LaneWise(4, {"rt"}), PCEQW |-> LaneWise(4, {"rs", "rt"}),
             PMINW |-> LaneWise(4, {"rs", "rt"})]
CompareH == [PADSBH |-> LaneWise(2, {"rs", "rt"}), PABSH |-> LaneWise(2, {"rt"}),
             PCEQH |-> LaneWise(2, {"rs", "rt"}), PMINH |-> LaneWise(2, {"rs", "rt"})]
PCEQB == [PCEQB |-> LaneWise(1, {"rs", "rt"})]
UnsignedW == [op \in {"PADDUW", "PSUBUW"} |-> LaneWise(4, {"rs", "rt"})]
PEXTUW == [PEXTUW |-> Interleave(4, 2)]
UnsignedH == [op \in {"PADDUH", "PSUBUH"} |-> LaneWise(2, {"rs", "rt"})]
PEXTUH == [PEXTUH |-> Interleave(2, 4)]
UnsignedB == [op \in {"PADDUB", "PSUBUB"} |-> LaneWise(1, {"rs", "rt"})]
PEXTUB == [PEXTUB |-> Interleave(1, 8)]

(* No handler writes cpuRegs.sa, which starts as 0: only its first branch runs. *)
QFSRV == [QFSRV |-> <<Move("rd", 8, 0, "rt", 0), Move("rd", 8, 1, "rt", 1)>>]

PMADDW == [PMADDW |-> <<Accumulate(0, 0, 0), Accumulate(1, 1, 2)>>]
VariableShift ==
    [op \in {"PSLLVW", "PSRLVW"} |->
        [k \in 1 .. 2 |-> Compute(Lane("rd", 8, k - 1), Factors(4, 2 * k - 2))]]
PMSUBW == [PMSUBW |-> <<Accumulate(0, 0, 0), Accumulate(1, 1, 2)>>]
MoveFromHiLo ==
    [PMFHI |-> <<Move("rd", 8, 0, "HI", 0), Move("rd", 8, 1, "HI", 1)>>,
     PMFLO |-> <<Move("rd", 8, 0, "LO", 0), Move("rd", 8, 1, "LO", 1)>>]
PINTH ==
    [PINTH |-> Take(2, [k \in 1 .. 8 |-> IF k % 2 = 1 THEN <<"Rt", (k - 1) \div 2>>
                                                      ELSE <<"Rs", 4 + (k - 1) \div 2>>])]
PMULTW == [PMULTW |-> <<Product(0, 0, 0), Product(1, 1, 2)>>]
PDIVW ==
    [PDIVW |-> [k \in 1 .. 2 |->
        Compute(Lane("LO", 8, k - 1) \union Lane("HI", 8, k - 1), Factors(4, 2 * k - 2))]]

(* Mutant: the two assignments in the order the comment warns of.          *)
PCPYLDSwapped ==
    [PCPYLD |-> <<Move("rd", 8, 0, "rt", 0), Move("rd", 8, 1, "rs", 0)>>]
PCPYLD == [PCPYLD |-> <<Move("rd", 8, 1, "rs", 0), Move("rd", 8, 0, "rt", 0)>>]

PMADDH ==
    [PMADDH |-> [k \in 1 .. 8 |->
        Compute(HalfTo(k - 1), HalfSum(k - 1) \union Factors(2, k - 1))]]
PHMADH ==
    [PHMADH |-> <<Adjacent("LO", 0, 0, 0), Adjacent("HI", 0, 1, 1),
                  Adjacent("LO", 2, 2, 2), Adjacent("HI", 2, 3, 3)>>]
Logic2 == [op \in {"PAND", "PXOR"} |-> LaneWise(8, {"rs", "rt"})]
PMSUBH ==
    [PMSUBH |-> [k \in 1 .. 8 |->
        Compute(HalfTo(k - 1), HalfSum(k - 1) \union Factors(2, k - 1))]]
PHMSBH ==
    [PHMSBH |-> <<Adjacent("LO", 0, 0, 0), Adjacent("HI", 0, 2, 1),
                  Adjacent("LO", 2, 4, 2), Adjacent("HI", 2, 6, 3)>>]
PEXEH == [PEXEH |-> Take(2, FromRt(<<2, 1, 0, 3, 6, 5, 4, 7>>))]

(* Mutant: without the local copy of rt. *)
PREVHInPlace ==
    [PREVH |-> Take(2, [k \in 1 .. 8 |-> <<"rt", <<3, 2, 1, 0, 7, 6, 5, 4>>[k]>>])]
PREVH == [PREVH |-> Take(2, FromRt(<<3, 2, 1, 0, 7, 6, 5, 4>>))]

PMULTH == [PMULTH |-> [k \in 1 .. 8 |-> Compute(HalfTo(k - 1), Factors(2, k - 1))]]
PDIVBW ==
    [PDIVBW |-> [k \in 1 .. 4 |->
        Compute(Lane("LO", 4, k - 1) \union Lane("HI", 4, k - 1),
                Lane("rs", 4, k - 1) \union Lane("rt", 2, 0))]]
PEXEW  == [PEXEW |-> Take(4, FromRt(<<2, 1, 0, 3>>))]
PROT3W == [PROT3W |-> Take(4, FromRt(<<1, 2, 0, 3>>))]

PMADDUW == [PMADDUW |-> <<Accumulate(0, 0, 0), Accumulate(1, 1, 2)>>]
PSRAVW ==
    [PSRAVW |-> [k \in 1 .. 2 |-> Compute(Lane("rd", 8, k - 1), Factors(4, 2 * k - 2))]]
MoveToHiLo ==
    [PMTHI |-> <<Move("HI", 8, 0, "rs", 0), Move("HI", 8, 1, "rs", 1)>>,
     PMTLO |-> <<Move("LO", 8, 0, "rs", 0), Move("LO", 8, 1, "rs", 1)>>]
PINTEH ==
    [PINTEH |-> Take(2, [k \in 1 .. 8 |-> <<IF k % 2 = 1 THEN "Rt" ELSE "Rs",
                                            2 * ((k - 1) \div 2)>>])]
PMULTUW == [PMULTUW |-> <<Product(0, 0, 0), Product(1, 1, 2)>>]
PDIVUW ==
    [PDIVUW |-> [k \in 1 .. 2 |->
        Compute(Lane("LO", 8, k - 1) \union Lane("HI", 8, k - 1), Factors(4, 2 * k - 2))]]
PCPYUD == [PCPYUD |-> <<Move("rd", 8, 0, "rs", 1), Move("rd", 8, 1, "rt", 1)>>]
Logic3 == [op \in {"POR", "PNOR"} |-> LaneWise(8, {"rs", "rt"})]
PEXCH == [PEXCH |-> Take(2, FromRt(<<0, 2, 1, 3, 4, 6, 5, 7>>))]
PCPYH == [PCPYH |-> Take(2, FromRt(<<0, 0, 0, 0, 4, 4, 4, 4>>))]
PEXCW == [PEXCW |-> Take(4, FromRt(<<0, 2, 1, 3>>))]

(* The entries of several tables in one. *)
Merge(tables) ==
    [op \in UNION { DOMAIN tables[n] : n \in DOMAIN tables } |->
        tables[CHOOSE n \in DOMAIN tables : op \in DOMAIN tables[n]][op]]

MMI ==
    Merge(<<MultiplyAdd, PLZCW, MultiplyAdd1, MoveHiLo1, Multiply1, Divide1, PMFHL, PMTHL,
            ShiftH, ShiftW>>)
MMI0 ==
    Merge(<<ArithW, ArithH, ArithB, SignedW, PEXTLW, PPACW, SignedH, PEXTLH, PPACH, SignedB,
            PEXTLB, PPACB, Color5>>)
MMI1 ==
    Merge(<<CompareW, CompareH, PCEQB, UnsignedW, PEXTUW, UnsignedH, PEXTUH, UnsignedB,
            PEXTUB, QFSRV>>)
MMI2 ==
    Merge(<<PMADDW, VariableShift, PMSUBW, MoveFromHiLo, PINTH, PMULTW, PDIVW, PCPYLD, PMADDH,
            PHMADH, Logic2, PMSUBH, PHMSBH, PEXEH, PREVH, PMULTH, PDIVBW, PEXEW, PROT3W>>)
MMI3 ==
    Merge(<<PMADDUW, PSRAVW, MoveToHiLo, PINTEH, PMULTUW, PDIVUW, PCPYUD, Logic3, PEXCH,
            PCPYH, PEXCW>>)

Handler == Merge(<<MMI, MMI0, MMI1, MMI2, MMI3>>)

(* The dispatch tables reach these handlers only. *)
Calls == [op : DOMAIN Handler, rd : GPR, rs : GPR, rt : GPR]

ASSUME ProgramsAssumption == Programs \subseteq Seq(Calls)

-----------------------------------------------------------------------------
(* Execution.                                                              *)

Current == Head(todo)
Assignments == Handler[Current.op]

(* The register an operand names, and where its value is read. *)
Named(operand) ==
    CASE operand = "rd" -> Current.rd
      [] operand \in {"rs", "Rs"} -> Current.rs
      [] operand \in {"rt", "Rt"} -> Current.rt
      [] OTHER -> operand

Read(x) == (IF x[1] \in {"Rs", "Rt"} THEN saved ELSE regs)[Named(x[1])][x[2]]

Value(from) == IF Cardinality(from) = 1 THEN Read(CHOOSE x \in from : TRUE) ELSE New

(* if (!_Rd_) return, or if (_Rd_) before the assignment to rd.            *)
Written(a) == { x \in DOMAIN a : x[1] # "rd" \/ Current.rd # Zero }

Assign(a) ==
    regs' = [r \in Register |-> [b \in Bytes |->
                LET here == { x \in Written(a) : Named(x[1]) = r /\ x[2] = b }
                IN  IF here = {} THEN regs[r][b] ELSE Value(a[CHOOSE x \in here : TRUE])]]

(* The handler has returned: the next instruction is fetched. *)
NextLine(l) ==
    IF l <= Len(Assignments)
    THEN line' = l /\ UNCHANGED <<todo, saved>>
    ELSE line' = 1 /\ todo' = Tail(todo) /\ saved' = regs'

Execute ==
    LET a == Assignments[line] IN
    /\ todo # <<>>
    /\ Assign(a)
    /\ stale' = stale \union
          { Current.op : x \in { z \in Written(a) : \E y \in a[z] :
                                   Read(y) # saved[Named(y[1])][y[2]] } }
    /\ UNCHANGED program
    /\ NextLine(line + 1)

(* A division by zero leaves HI and LO alone: the lane's, or all of PDIVBW's. *)
DivideByZero ==
    /\ todo # <<>>
    /\ \/ Current.op \in {"DIV1", "DIVU1", "PDIVW", "PDIVUW"}
       \/ Current.op = "PDIVBW" /\ line = 1
    /\ UNCHANGED <<regs, stale, program>>
    /\ NextLine(IF Current.op = "PDIVBW" THEN 5 ELSE line + 1)

Finished == todo = <<>> /\ UNCHANGED vars

Next == Execute \/ DivideByZero \/ Finished

Spec == Init /\ [][Next]_vars

-----------------------------------------------------------------------------
(* Properties.                                                             *)

(* The four handlers that read half-words of rs or rt after the word of rd *)
(* that covers them has been written: they go wrong when rd is rs or rt.   *)
ReadsBack == {"PMADDH", "PMSUBH", "PMULTH", "PHMADH"}

(* "when _Rd_ equals _Rs_ or _Rt_ this would screw up" (PCPYLD, PCPYUD):   *)
(* in every handler but those four, each assignment finds its operands as  *)
(* they were before the instruction, whichever registers coincide.         *)
OperandsReadFirst == stale \subseteq ReadsBack

Instruction(op, rd, rs, rt) == [op |-> op, rd |-> rd, rs |-> rs, rt |-> rt]

(* Programs whose last instruction must find register `from' again in      *)
(* register `to', because each undoes what the instructions before it did. *)
RoundTrips(a, b, c) ==
    { [run |-> <<Instruction(e[2], c, a, b), Instruction(e[1], a, a, b),
                 Instruction(e[3], a, c, a)>>, to |-> a, from |-> b] :
        e \in {<<"PEXTLW", "PEXTUW", "PPACW">>, <<"PEXTLH", "PEXTUH", "PPACH">>,
               <<"PEXTLB", "PEXTUB", "PPACB">>} }
    \union
    { [run |-> <<Instruction(op, a, b, a), Instruction(op, a, b, a)>>, to |-> a, from |-> a] :
        op \in {"PEXEH", "PREVH", "PEXEW", "PEXCH", "PEXCW"} }
    \union
    { [run |-> <<Instruction("PROT3W", a, b, a), Instruction("PROT3W", a, b, a),
                 Instruction("PROT3W", a, b, a)>>, to |-> a, from |-> a],
      [run |-> <<Instruction("PCPYUD", c, b, a), Instruction("PCPYLD", a, a, b),
                 Instruction("PCPYLD", a, c, a)>>, to |-> a, from |-> b],
      [run |-> <<Instruction("PMTHL", c, a, b), Instruction("PMFHL_LW", b, a, c)>>,
       to |-> b, from |-> a] }

(* Packing undoes extending, the exchanges undo themselves, three rotations *)
(* make a whole turn, the half copies put a register together again, and    *)
(* PMFHL reads what PMTHL wrote: no lane index is wrong, and working in the *)
(* place of an operand does no harm.                                        *)
RoundTripsRestore ==
    todo = <<>> =>
        \A a, b, c \in GPR \ {Zero} : \A trip \in RoundTrips(a, b, c) :
            Cardinality({a, b, c}) = 3 /\ program = trip.run =>
                \A n \in Bytes : regs[trip.to][n] = <<trip.from, n>>
=============================================================================
