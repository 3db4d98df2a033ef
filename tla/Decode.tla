------------------------------- MODULE Decode -------------------------------
(***************************************************************************)
(* The interpreter's dispatch tables (InterTables.c) and the functions     *)
(* that index them (Interpreter.c, MMI.c): which handler an instruction    *)
(* word reaches.  A handler is named as in the code.                       *)
(*                                                                         *)
(* A word is a record of its fields.  imm, the low half of the word, is a  *)
(* field of its own here: no table looks at it together with rd, sa or     *)
(* funct, which are parts of it.                                           *)
(***************************************************************************)
EXTENDS Integers, Sequences

(* A table of the code, indexed from 0.                                    *)
Table(entries) == [k \in 0 .. Len(entries) - 1 |-> entries[k + 1]]

U == "UnknownOpcode"
M == "MMI_Unknown"

OpcodePrintTable ==
    Table(<<"SPECIAL", "REGIMM", "J", "JAL", "BEQ", "BNE", "BLEZ", "BGTZ",
            "ADDI", "ADDIU", "SLTI", "SLTIU", "ANDI", "ORI", "XORI", "LUI",
            "COP0", U, U, U, "BEQL", "BNEL", "BLEZL", "BGTZL",
            "DADDI", "DADDIU", "LDL", "LDR", "MMI", U, "LQ", "SQ",
            "LB", "LH", "LWL", "LW", "LBU", "LHU", "LWR", "LWU",
            "SB", "SH", "SWL", "SW", "SDL", "SDR", "SWR", U,
            U, U, U, U, U, U, U, "LD",
            U, U, U, U, U, U, U, "SD">>)

SpecialPrintTable ==
    Table(<<"SLL", U, "SRL", "SRA", "SLLV", U, "SRLV", "SRAV",
            "JR", "JALR", "MOVZ", "MOVN", "SYSCALL", "BREAK", U, U,
            "MFHI", "MTHI", "MFLO", "MTLO", "DSLLV", U, "DSRLV", "DSRAV",
            "MULT", "MULTU", "DIV", "DIVU", U, U, U, U,
            "ADD", "ADDU", "SUB", "SUBU", "AND", "OR", "XOR", "NOR",
            U, U, "SLT", "SLTU", "DADD", "DADDU", "DSUB", "DSUBU",
            U, U, U, U, U, U, U, U,
            "DSLL", U, "DSRL", "DSRA", "DSLL32", U, "DSRL32", "DSRA32">>)

REGIMMPrintTable ==
    Table(<<"BLTZ", "BGEZ", "BLTZL", "BGEZL", U, U, U, U,
            U, U, U, U, U, U, U, U,
            "BLTZAL", "BGEZAL", "BLTZALL", "BGEZALL", U, U, U, U,
            U, U, U, U, U, U, U, U>>)

MMIPrintTable ==
    Table(<<"MADD", "MADDU", M, M, "PLZCW", M, M, M,
            "MMI0", "MMI2", M, M, M, M, M, M,
            "MFHI1", "MTHI1", "MFLO1", "MTLO1", M, M, M, M,
            "MULT1", "MULTU1", "DIV1", "DIVU1", M, M, M, M,
            "MADD1", "MADDU1", M, M, M, M, M, M,
            "MMI1", "MMI3", M, M, M, M, M, M,
            "PMFHL", "PMTHL", M, M, "PSLLH", M, "PSRLH", "PSRAH",
            M, M, M, M, "PSLLW", M, "PSRLW", "PSRAW">>)

MMI0PrintTable ==
    Table(<<"PADDW", "PSUBW", "PCGTW", "PMAXW", "PADDH", "PSUBH", "PCGTH", "PMAXH",
            "PADDB", "PSUBB", "PCGTB", M, M, M, M, M,
            "PADDSW", "PSUBSW", "PEXTLW", "PPACW", "PADDSH", "PSUBSH", "PEXTLH", "PPACH",
            "PADDSB", "PSUBSB", "PEXTLB", "PPACB", M, M, "PEXT5", "PPAC5">>)

MMI1PrintTable ==
    Table(<<M, "PABSW", "PCEQW", "PMINW", "PADSBH", "PABSH", "PCEQH", "PMINH",
            M, M, "PCEQB", M, M, M, M, M,
            "PADDUW", "PSUBUW", "PEXTUW", M, "PADDUH", "PSUBUH", "PEXTUH", M,
            "PADDUB", "PSUBUB", "PEXTUB", "QFSRV", M, M, M, M>>)

MMI2PrintTable ==
    Table(<<"PMADDW", M, "PSLLVW", "PSRLVW", "PMSUBW", M, M, M,
            "PMFHI", "PMFLO", "PINTH", M, "PMULTW", "PDIVW", "PCPYLD", M,
            "PMADDH", "PHMADH", "PAND", "PXOR", "PMSUBH", "PHMSBH", M, M,
            M, M, "PEXEH", "PREVH", "PMULTH", "PDIVBW", "PEXEW", "PROT3W">>)

MMI3PrintTable ==
    Table(<<"PMADDUW", M, M, "PSRAVW", M, M, M, M,
            "PMTHI", "PMTLO", "PINTEH", M, "PMULTUW", "PDIVUW", "PCPYUD", M,
            M, M, "POR", "PNOR", M, M, M, M,
            M, M, "PEXCH", "PCPYH", M, M, "PEXCW", M>>)

(* The three words COP0 knows: mfc0 s0, Status; ei; di.                    *)
Fields(w) == <<w.opcode, w.rs, w.rt, w.rd, w.sa, w.funct>>

IsZero(w) == Fields(w) = <<0, 0, 0, 0, 0, 0>>

COP0(w) ==
    CASE Fields(w) = <<16, 0, 16, 12, 0, 0>>  -> "MFC0"
      [] Fields(w) = <<16, 16, 0, 0, 0, 56>>  -> "EI"
      [] Fields(w) = <<16, 16, 0, 0, 0, 57>>  -> "DI"
      [] OTHER -> "COP0"

MMI(w) ==
    LET entry == MMIPrintTable[w.funct] IN
    CASE entry = "MMI0" -> MMI0PrintTable[w.sa]
      [] entry = "MMI1" -> MMI1PrintTable[w.sa]
      [] entry = "MMI2" -> MMI2PrintTable[w.sa]
      [] entry = "MMI3" -> MMI3PrintTable[w.sa]
      [] OTHER -> entry

(* The handler that runs for w; COP0 stands for its error path.            *)
Handler(w) ==
    LET entry == OpcodePrintTable[w.opcode] IN
    CASE entry = "SPECIAL" -> SpecialPrintTable[w.funct]
      [] entry = "REGIMM"  -> REGIMMPrintTable[w.rt]
      [] entry = "COP0"    -> COP0(w)
      [] entry = "MMI"     -> MMI(w)
      [] OTHER -> entry

(* The handlers that list the code and exit.                               *)
Refusals == {U, M, "COP0"}

MMITables == <<MMIPrintTable, MMI0PrintTable, MMI1PrintTable, MMI2PrintTable, MMI3PrintTable>>

Multimedia ==
    (UNION { { table[k] : k \in DOMAIN table } : table \in { MMITables[n] : n \in 1 .. 5 } })
        \ {M, "MMI0", "MMI1", "MMI2", "MMI3"}
=============================================================================
