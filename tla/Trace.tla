------------------------------- MODULE Trace --------------------------------
(***************************************************************************)
(* The disassembler of the instruction trace (DisR5900.c): the instruction *)
(* it names for a word before execI runs it, and the general registers     *)
(* whose values it shows, in their order.  A table's entry is the name     *)
(* that the function it points to prints; BAD is disNULL.  A zero word,    *)
(* printed as "NOP", keeps the name SLL.                                   *)
(***************************************************************************)
EXTENDS Decode

BAD == "*** Bad OP ***"

TracedMMI0 ==
    Table(<<"PADDW", "PSUBW", "PCGTW", "PMAXW", "PADDH", "PSUBH", "PCGTH", "PMAXH",
            "PADDB", "PSUBB", "PCGTB", BAD, BAD, BAD, BAD, BAD,
            "PADDSW", "PSUBSW", "PEXTLW", "PPACW", "PADDSH", "PSUBSH", "PEXTLH", "PPACH",
            "PADDSB", "PSUBSB", "PEXTLB", "PPACB", BAD, BAD, "PEXTS", "PPACS">>)

TracedMMI1 ==
    Table(<<BAD, "PABSW", "PCEQW", "PMINW", "PADSBH", "PABSH", "PCEQH", "PMINH",
            BAD, BAD, "PCEQB", BAD, BAD, BAD, BAD, BAD,
            "PADDUW", "PSUBUW", "PEXTUW", BAD, "PADDUH", "PSUBUH", "PEXTUH", BAD,
            "PADDUB", "PSUBUB", "PEXTUB", "QFSRV", BAD, BAD, BAD, BAD>>)

TracedMMI2 ==
    Table(<<"PMADDW", BAD, "PSLLVW", "PSRLVW", "PMSUBW", BAD, BAD, BAD,
            "PMFHI", "PMFLO", "PINTH", BAD, "PMULTW", "PDIVW", "PCPYLD", BAD,
            "PMADDH", "PHMADH", "PAND", "PXOR", "PMSUBH", "PHMSBH", BAD, BAD,
            BAD, BAD, "PEXEH", "PREVH", "PMULTH", "PDIVBW", "PEXEW", "PROT3W">>)

TracedMMI3 ==
    Table(<<"PMADDUW", BAD, BAD, "PSRAVW", BAD, BAD, BAD, BAD,
            "PMTHI", "PMTLO", "PINTEH", BAD, "PMULTUW", "PDIVUW", "PCPYUD", BAD,
            BAD, BAD, "POR", "PNOR", BAD, BAD, BAD, BAD,
            BAD, BAD, "PEXCH", "PCPYH", BAD, BAD, "PEXCW", BAD>>)

(* Of the instructions of MMI itself, only two are here.                   *)
TracedMMI ==
    [k \in 0 .. 63 |->
        CASE k = 8 -> "MMI0" [] k = 9 -> "MMI2" [] k = 40 -> "MMI1" [] k = 41 -> "MMI3"
          [] k = 24 -> "MULT1" [] k = 25 -> "MULTU1" [] OTHER -> BAD]

TracedCOP0BC0 ==
    [k \in 0 .. 31 |-> IF k < 4 THEN <<"BC0F", "BC0T", "BC0FL", "BC0TL">>[k + 1] ELSE BAD]

TracedCOP0Func ==
    [k \in 0 .. 63 |->
        CASE k = 1 -> "TLBR" [] k = 2 -> "TLBWI" [] k = 6 -> "TLBWR" [] k = 8 -> "TLBP"
          [] k = 24 -> "ERET" [] k = 56 -> "EI" [] k = 57 -> "DI" [] OTHER -> BAD]

TracedCOP0 ==
    [k \in 0 .. 31 |->
        CASE k = 0 -> "MFC0" [] k = 4 -> "MTC0" [] k = 8 -> "BC0" [] k = 16 -> "Func"
          [] OTHER -> BAD]

TracedCOP1S ==
    Table(<<"ADDs", "SUBs", "MULs", "DIVs", "SQRTs", "ABSs", "MOVs", "NEGs",
            BAD, BAD, BAD, BAD, BAD, BAD, BAD, BAD,
            BAD, BAD, BAD, BAD, BAD, BAD, "RSQRTs", BAD,
            "ADDAs", "SUBAs", "MULAs", BAD, "MADDs", "MSUBs", "MADDAs", "MSUBAs",
            BAD, BAD, BAD, BAD, "CVTWs", BAD, BAD, BAD,
            "MINs", "MAXs", BAD, BAD, BAD, BAD, BAD, BAD,
            "CFs", BAD, "CEQs", BAD, "CLTs", BAD, "CLEs", BAD,
            BAD, BAD, BAD, BAD, BAD, BAD, BAD, BAD>>)

TracedCOP1W ==
    [k \in 0 .. 63 |-> IF k = 32 THEN "CVTSw" ELSE BAD]

TracedCOP1BC1 ==
    [k \in 0 .. 31 |-> IF k < 4 THEN <<"BC1F", "BC1T", "BC1FL", "BC1TL">>[k + 1] ELSE BAD]

TracedCOP1 ==
    [k \in 0 .. 31 |->
        CASE k = 0 -> "MFC1" [] k = 2 -> "CFC1" [] k = 4 -> "MTC1" [] k = 6 -> "CTC1"
          [] k = 8 -> "BC1" [] k = 16 -> "S" [] k = 20 -> "W" [] OTHER -> BAD]

(* Mutant: the row of branches that link is one entry late.                *)
TracedREGIMMShifted ==
    Table(<<"BLTZ", "BGEZ", "BLTZL", "BGEZL", BAD, BAD, BAD, BAD,
            "TGEI", "TGEIU", "TLTI", "TLTIU", "TEQI", BAD, "TNEI", BAD,
            BAD, "BLTZAL", "BGEZAL", "BLTZALL", "BGEZALL", BAD, BAD, BAD,
            "MTSAB", "MTSAH", BAD, BAD, BAD, BAD, BAD, BAD>>)

TracedREGIMM ==
    Table(<<"BLTZ", "BGEZ", "BLTZL", "BGEZL", BAD, BAD, BAD, BAD,
            "TGEI", "TGEIU", "TLTI", "TLTIU", "TEQI", BAD, "TNEI", BAD,
            "BLTZAL", "BGEZAL", "BLTZALL", "BGEZALL", BAD, BAD, BAD, BAD,
            "MTSAB", "MTSAH", BAD, BAD, BAD, BAD, BAD, BAD>>)

(* DSUBU prints "DSDBU".                                                   *)
TracedSpecial ==
    Table(<<"SLL", BAD, "SRL", "SRA", "SLLV", BAD, "SRLV", "SRAV",
            "JR", "JALR", "MOVZ", "MOVN", "SYSCALL", "BREAK", BAD, "SYNC",
            "MFHI", "MTHI", "MFLO", "MTLO", "DSLLV", BAD, "DSRLV", "DSRAV",
            "MULT", "MULTU", "DIV", "DIVU", BAD, BAD, BAD, BAD,
            "ADD", "ADDU", "SUB", "SUBU", "AND", "OR", "XOR", "NOR",
            "MFSA", "MTSA", "SLT", "SLTU", "DADD", "DADDU", "DSUB", "DSDBU",
            "TGE", "TGEU", "TLT", "TLTU", "TEQ", BAD, "TNE", BAD,
            "DSLL", BAD, "DSRL", "DSRA", "DSLL32", BAD, "DSRL32", "DSRA32">>)

TracedOpcode ==
    Table(<<"SPECIAL", "REGIMM", "J", "JAL", "BEQ", "BNE", "BLEZ", "BGTZ",
            "ADDI", "ADDIU", "SLTI", "SLTIU", "ANDI", "ORI", "XORI", "LUI",
            "COP0", "COP1", BAD, BAD, "BEQL", "BNEL", "BLEZL", "BGTZL",
            "DADDI", "DADDIU", "LDL", "LDR", "MMI", BAD, "LQ", "SQ",
            "LB", "LH", "LWL", "LW", "LBU", "LHU", "LWR", "LWU",
            "SB", "SH", "SWL", "SW", "SDL", "SDR", "SWR", "CACHE",
            BAD, "LWC1", BAD, "PREF", BAD, BAD, BAD, "LD",
            BAD, "SWC1", BAD, BAD, BAD, BAD, BAD, "SD">>)

Traced(w) ==
    LET entry == TracedOpcode[w.opcode]
        mmi   == TracedMMI[w.funct]
        cop0  == TracedCOP0[w.rs]
        cop1  == TracedCOP1[w.rs]
    IN  CASE entry = "SPECIAL" -> TracedSpecial[w.funct]
          [] entry = "REGIMM" -> TracedREGIMM[w.rt]
          [] entry = "MMI" -> CASE mmi = "MMI0" -> TracedMMI0[w.sa]
                                [] mmi = "MMI1" -> TracedMMI1[w.sa]
                                [] mmi = "MMI2" -> TracedMMI2[w.sa]
                                [] mmi = "MMI3" -> TracedMMI3[w.sa]
                                [] OTHER -> mmi
          [] entry = "COP0" -> CASE cop0 = "BC0" -> TracedCOP0BC0[w.rt]
                                 [] cop0 = "Func" -> TracedCOP0Func[w.funct]
                                 [] OTHER -> cop0
          [] entry = "COP1" -> CASE cop1 = "BC1" -> TracedCOP1BC1[w.rt]
                                 [] cop1 = "S" -> TracedCOP1S[w.funct]
                                 [] cop1 = "W" -> TracedCOP1W[w.funct]
                                 [] OTHER -> cop1
          [] OTHER -> entry

-----------------------------------------------------------------------------
(* The general registers whose values are shown.                           *)

(* Mutant: a jump that links does not show where it links.                 *)
JumpRegistersTracedWithoutLink(name, w) ==
    CASE name = "J"    -> <<>>
      [] name = "JAL"  -> <<31>>
      [] name = "JR"   -> <<w.rs>>
      [] name = "JALR" -> <<w.rs>>
      [] OTHER -> <<>>

JumpRegistersTraced(name, w) ==
    CASE name = "J"    -> <<>>
      [] name = "JAL"  -> <<31>>
      [] name = "JR"   -> <<w.rs>>
      [] name = "JALR" -> <<w.rs, w.rd>>
      [] OTHER -> <<>>

Jumps == {"J", "JAL", "JR", "JALR"}
ImmediatesTraced == {"ADDI", "ADDIU", "ANDI", "ORI", "SLTI", "SLTIU", "XORI", "DADDI", "DADDIU"}
RegistersTraced ==
    {"ADD", "ADDU", "DADD", "DADDU", "SUB", "SUBU", "DSUB", "DSDBU", "AND", "OR", "XOR", "NOR",
     "SLT", "SLTU"}
DividesTraced   == {"DIV", "DIVU"}
MultipliesTraced == {"MULT", "MULTU"}
FromHILO == {"MFHI", "MFLO"}
ToHILO   == {"MTHI", "MTLO"}
ShiftsTraced == {"SLL", "DSLL", "DSLL32", "SRA", "DSRA", "DSRA32", "SRL", "DSRL", "DSRL32"}
VariableShiftsTraced == {"SLLV", "DSLLV", "SRAV", "DSRAV", "SRLV", "DSRLV"}
AccessesTraced ==
    {"LB", "LBU", "LH", "LHU", "LW", "LWU", "LWL", "LWR", "LD", "LDL", "LDR", "LQ",
     "SB", "SH", "SW", "SWL", "SWR", "SD", "SDL", "SDR", "SQ"}
EqualityTraced == {"BEQ", "BNE", "BEQL", "BNEL"}
SignTraced ==
    {"BGEZ", "BGEZAL", "BGTZ", "BLEZ", "BLTZ", "BLTZAL",
     "BLEZL", "BGTZL", "BLTZL", "BGEZL", "BLTZALL", "BGEZALL"}
COPMovesTraced == {"MFC0", "MTC0", "MFC1", "CFC1", "MTC1", "CTC1"}
MovesTraced == {"MOVZ", "MOVN"}
MMITraced == {"PEXTLW", "PEXTLH", "PEXTUW", "PEXTUH", "PCPYLD", "PAND", "PXOR", "POR", "PNOR"}

(* SYNC, BREAK, SYSCALL, PREF show none; CACHE shows its base.             *)
SpecialPurposeTraced(name, w) ==
    CASE name = "CACHE" -> <<w.rs>>
      [] name = "MFSA" -> <<w.rd>>
      [] name \in {"MTSA", "MTSAB", "MTSAH", "TGEI", "TGEIU", "TLTI", "TLTIU", "TEQI", "TNEI"} -> <<w.rs>>
      [] name \in {"TGE", "TGEU", "TLT", "TLTU", "TEQ", "TNE"} -> <<w.rs, w.rt>>
      [] OTHER -> <<>>

(* Everything else, most of the multimedia instructions included, shows    *)
(* its name only; LWC1 and SWC1 show a branch target where the listing     *)
(* shows their base.                                                       *)
TracedRegisters(w) ==
    LET name == Traced(w) IN
    CASE name \in Jumps -> JumpRegistersTraced(name, w)
      [] name \in ImmediatesTraced -> <<w.rt, w.rs>>
      [] name \in RegistersTraced \union MovesTraced \union MMITraced -> <<w.rd, w.rs, w.rt>>
      [] name \in DividesTraced \union EqualityTraced -> <<w.rs, w.rt>>
      [] name \in MultipliesTraced -> <<w.rs, w.rt, w.rd>>
      [] name \in FromHILO -> <<w.rd>>
      [] name \in ToHILO \union SignTraced -> <<w.rs>>
      [] name = "LUI" -> <<w.rt>>
      [] name \in ShiftsTraced -> IF IsZero(w) THEN <<>> ELSE <<w.rd, w.rt>>
      [] name \in VariableShiftsTraced \union {"PCPYUD"} -> <<w.rd, w.rt, w.rs>>
      [] name = "PCPYH" -> <<w.rd, w.rt>>
      [] name \in AccessesTraced -> <<w.rt, w.rs>>
      [] name \in COPMovesTraced -> <<w.rt>>
      [] OTHER -> SpecialPurposeTraced(name, w)
=============================================================================
