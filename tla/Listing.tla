------------------------------ MODULE Listing -------------------------------
(***************************************************************************)
(* The disassembler of the error listing (DisR5900asm.c): the instruction  *)
(* it names for a word, and the general registers it shows, in their       *)
(* order.  A table's entry is the mnemonic that the function it points to  *)
(* prints, in the spelling of the interpreter's handlers; a zero word,     *)
(* printed as "nop", keeps the name SLL.  COP2, which neither the          *)
(* interpreter nor the trace decodes, is left as one name.                 *)
(***************************************************************************)
EXTENDS Decode

Unlisted == "?????"
COP0Unknown == "COP0 ??"
COP1Unknown == "COP1 ??"
MMIUnknown == "MMI ??"

(* Mutant: the entries of SLTI and SLTIU exchanged.                        *)
ListedOpcodeSwapped ==
    LET o == Unlisted IN
    Table(<<"SPECIAL", "REGIMM", "J", "JAL", "BEQ", "BNE", "BLEZ", "BGTZ",
            "ADDI", "ADDIU", "SLTIU", "SLTI", "ANDI", "ORI", "XORI", "LUI",
            "COP0", "COP1", "COP2", o, "BEQL", "BNEL", "BLEZL", "BGTZL",
            "DADDI", "DADDIU", "LDL", "LDR", "MMI", o, "LQ", "SQ",
            "LB", "LH", "LWL", "LW", "LBU", "LHU", "LWR", "LWU",
            "SB", "SH", "SWL", "SW", "SDL", "SDR", "SWR", "CACHE",
            o, "LWC1", o, "PREF", o, o, "LQC2", "LD",
            o, "SWC1", o, o, o, o, "SQC2", "SD">>)

ListedOpcode ==
    LET o == Unlisted IN
    Table(<<"SPECIAL", "REGIMM", "J", "JAL", "BEQ", "BNE", "BLEZ", "BGTZ",
            "ADDI", "ADDIU", "SLTI", "SLTIU", "ANDI", "ORI", "XORI", "LUI",
            "COP0", "COP1", "COP2", o, "BEQL", "BNEL", "BLEZL", "BGTZL",
            "DADDI", "DADDIU", "LDL", "LDR", "MMI", o, "LQ", "SQ",
            "LB", "LH", "LWL", "LW", "LBU", "LHU", "LWR", "LWU",
            "SB", "SH", "SWL", "SW", "SDL", "SDR", "SWR", "CACHE",
            o, "LWC1", o, "PREF", o, o, "LQC2", "LD",
            o, "SWC1", o, o, o, o, "SQC2", "SD">>)

ListedSpecial ==
    LET o == Unlisted IN
    Table(<<"SLL", o, "SRL", "SRA", "SLLV", o, "SRLV", "SRAV",
            "JR", "JALR", "MOVZ", "MOVN", "SYSCALL", "BREAK", o, "SYNC",
            "MFHI", "MTHI", "MFLO", "MTLO", "DSLLV", o, "DSRLV", "DSRAV",
            "MULT", "MULTU", "DIV", "DIVU", o, o, o, o,
            "ADD", "ADDU", "SUB", "SUBU", "AND", "OR", "XOR", "NOR",
            "MFSA", "MTSA", "SLT", "SLTU", "DADD", "DADDU", "DSUB", "DSUBU",
            "TGE", "TGEU", "TLT", "TLTU", "TEQ", o, "TNE", o,
            "DSLL", o, "DSRL", "DSRA", "DSLL32", o, "DSRL32", "DSRA32">>)

ListedREGIMM ==
    LET o == Unlisted IN
    Table(<<"BLTZ", "BGEZ", "BLTZL", "BGEZL", o, o, o, o,
            "TGEI", "TGEIU", "TLTI", "TLTIU", "TEQI", o, "TNEI", o,
            "BLTZAL", "BGEZAL", "BLTZALL", "BGEZALL", o, o, o, o,
            "MTSAB", "MTSAH", o, o, o, o, o, o>>)

(* MADDU prints "madd".                                                    *)
ListedMMI ==
    LET o == MMIUnknown IN
    Table(<<"MADD", "MADD", o, o, "PLZCW", o, o, o,
            "MMI0", "MMI2", o, o, o, o, o, o,
            "MFHI1", "MTHI1", "MFLO1", "MTLO1", o, o, o, o,
            "MULT1", "MULTU1", "DIV1", "DIVU1", o, o, o, o,
            "MADD1", "MADDU1", o, o, o, o, o, o,
            "MMI1", "MMI3", o, o, o, o, o, o,
            "PMFHL", "PMTHL", o, o, "PSLLH", o, "PSRLH", "PSRAH",
            o, o, o, o, "PSLLW", o, "PSRLW", "PSRAW">>)

ListedMMI0 ==
    LET o == MMIUnknown IN
    Table(<<"PADDW", "PSUBW", "PCGTW", "PMAXW", "PADDH", "PSUBH", "PCGTH", "PMAXH",
            "PADDB", "PSUBB", "PCGTB", o, o, o, o, o,
            "PADDSW", "PSUBSW", "PEXTLW", "PPACW", "PADDSH", "PSUBSH", "PEXTLH", "PPACH",
            "PADDSB", "PSUBSB", "PEXTLB", "PPACB", o, o, "PEXT5", "PPAC5">>)

(* Mutant: QFSRV is one entry late.                                        *)
ListedMMI1Late ==
    LET o == MMIUnknown IN
    Table(<<o, "PABSW", "PCEQW", "PMINW", "PADSBH", "PABSH", "PCEQH", "PMINH",
            o, o, "PCEQB", o, o, o, o, o,
            "PADDUW", "PSUBUW", "PEXTUW", o, "PADDUH", "PSUBUH", "PEXTUH", o,
            "PADDUB", "PSUBUB", "PEXTUB", o, "QFSRV", o, o, o>>)

ListedMMI1 ==
    LET o == MMIUnknown IN
    Table(<<o, "PABSW", "PCEQW", "PMINW", "PADSBH", "PABSH", "PCEQH", "PMINH",
            o, o, "PCEQB", o, o, o, o, o,
            "PADDUW", "PSUBUW", "PEXTUW", o, "PADDUH", "PSUBUH", "PEXTUH", o,
            "PADDUB", "PSUBUB", "PEXTUB", "QFSRV", o, o, o, o>>)

(* PMSUBW prints "msubw".                                                  *)
ListedMMI2 ==
    LET o == MMIUnknown IN
    Table(<<"PMADDW", o, "PSLLVW", "PSRLVW", "MSUBW", o, o, o,
            "PMFHI", "PMFLO", "PINTH", o, "PMULTW", "PDIVW", "PCPYLD", o,
            "PMADDH", "PHMADH", "PAND", "PXOR", "PMSUBH", "PHMSBH", o, o,
            o, o, "PEXEH", "PREVH", "PMULTH", "PDIVBW", "PEXEW", "PROT3W">>)

ListedMMI3 ==
    LET o == MMIUnknown IN
    Table(<<"PMADDUW", o, o, "PSRAVW", o, o, o, o,
            "PMTHI", "PMTLO", "PINTEH", o, "PMULTUW", "PDIVUW", "PCPYUD", o,
            o, o, "POR", "PNOR", o, o, o, o,
            o, o, "PEXCH", "PCPYH", o, o, "PEXCW", o>>)

ListedCOP0 ==
    [k \in 0 .. 31 |->
        CASE k = 0 -> "MFC0" [] k = 4 -> "MTC0" [] k = 8 -> "BC0" [] k = 16 -> "C0"
          [] OTHER -> COP0Unknown]

ListedCOP0BC0 ==
    [k \in 0 .. 31 |-> IF k < 4 THEN <<"BC0F", "BC0T", "BC0FL", "BC0TL">>[k + 1] ELSE COP0Unknown]

ListedCOP0C0 ==
    [k \in 0 .. 63 |->
        CASE k = 1 -> "TLBR" [] k = 2 -> "TLBWI" [] k = 6 -> "TLBWR" [] k = 8 -> "TLBP"
          [] k = 24 -> "ERET" [] k = 56 -> "EI" [] k = 57 -> "DI" [] OTHER -> COP0Unknown]

ListedCOP1 ==
    [k \in 0 .. 31 |->
        CASE k = 0 -> "MFC1" [] k = 2 -> "CFC1" [] k = 4 -> "MTC1" [] k = 6 -> "CTC1"
          [] k = 8 -> "BC1" [] k = 16 -> "S" [] k = 20 -> "W" [] OTHER -> COP1Unknown]

ListedCOP1BC1 ==
    [k \in 0 .. 31 |-> IF k < 4 THEN <<"BC1F", "BC1T", "BC1FL", "BC1TL">>[k + 1] ELSE COP1Unknown]

ListedCOP1S ==
    LET o == COP1Unknown IN
    Table(<<"ADDs", "SUBs", "MULs", "DIVs", "SQRTs", "ABSs", "MOVs", "NEGs",
            o, o, o, o, o, o, o, o,
            o, o, o, o, o, o, "RSQRTs", o,
            "ADDAs", "SUBAs", "MULAs", o, "MADDs", "MSUBs", "MADDAs", "MSUBAs",
            o, o, o, o, "CVTWs", o, o, o,
            "MAXs", "MINs", o, o, o, o, o, o,
            "CFs", o, "CEQs", o, "CLTs", o, "CLEs", o,
            o, o, o, o, o, o, o, o>>)

ListedCOP1W ==
    [k \in 0 .. 63 |-> IF k = 32 THEN "CVTSw" ELSE COP1Unknown]

(* DECODE_C0BC, DECODE_C1BC: two bits of rt select the branch, so a word   *)
(* the comments call reserved is listed as one.                            *)
C0BC(w) == w.rt % 4

Listed(w) ==
    LET entry == ListedOpcode[w.opcode]
        mmi   == ListedMMI[w.funct]
        cop0  == ListedCOP0[w.rs]
        cop1  == ListedCOP1[w.rs]
    IN  CASE entry = "SPECIAL" -> ListedSpecial[w.funct]
          [] entry = "REGIMM" -> ListedREGIMM[w.rt]
          [] entry = "MMI" /\ mmi = "MMI0" -> ListedMMI0[w.sa]
          [] entry = "MMI" /\ mmi = "MMI1" -> ListedMMI1[w.sa]
          [] entry = "MMI" /\ mmi = "MMI2" -> ListedMMI2[w.sa]
          [] entry = "MMI" /\ mmi = "MMI3" -> ListedMMI3[w.sa]
          [] entry = "MMI" /\ mmi \notin {"MMI0", "MMI1", "MMI2", "MMI3"} -> mmi
          [] entry = "COP0" /\ cop0 = "BC0" -> ListedCOP0BC0[C0BC(w)]
          [] entry = "COP0" /\ cop0 = "C0" -> ListedCOP0C0[w.funct]
          [] entry = "COP0" /\ cop0 \notin {"BC0", "C0"} -> cop0
          [] entry = "COP1" /\ cop1 = "BC1" -> ListedCOP1BC1[C0BC(w)]
          [] entry = "COP1" /\ cop1 = "S" -> ListedCOP1S[w.funct]
          [] entry = "COP1" /\ cop1 = "W" -> ListedCOP1W[w.funct]
          [] entry = "COP1" /\ cop1 \notin {"BC1", "S", "W"} -> cop1
          [] OTHER -> entry

-----------------------------------------------------------------------------
(* The general registers that an instruction's text shows, by the fields   *)
(* of the word that name them, in the text's order.                        *)

DRT == <<"rd", "rt">>
DST == <<"rd", "rs", "rt">>
DTS == <<"rd", "rt", "rs">>
TS  == <<"rt", "rs">>
ST  == <<"rs", "rt">>

(* Mutant: the base of an access is shown before the register it fills.    *)
OpcodeFieldsBaseFirst(name) ==
    CASE name \in {"BEQ", "BNE", "BEQL", "BNEL"} -> ST
      [] name \in {"BLEZ", "BGTZ", "BLEZL", "BGTZL", "LWC1", "SWC1", "LQC2", "SQC2"} -> <<"rs">>
      [] name = "LUI" -> <<"rt">>
      [] name \in {"J", "JAL", "CACHE", "PREF"} -> <<>>
      [] OTHER -> ST

OpcodeFields(name) ==
    CASE name \in {"BEQ", "BNE", "BEQL", "BNEL"} -> ST
      [] name \in {"BLEZ", "BGTZ", "BLEZL", "BGTZL", "LWC1", "SWC1", "LQC2", "SQC2"} -> <<"rs">>
      [] name = "LUI" -> <<"rt">>
      [] name \in {"J", "JAL", "CACHE", "PREF"} -> <<>>
      [] OTHER -> TS

(* SLL of a zero word is "nop"; JALR leaves register 31 out.               *)
SpecialFields(name, w) ==
    CASE name = "SLL" -> IF IsZero(w) THEN <<>> ELSE DRT
      [] name \in {"SRL", "SRA", "DSLL", "DSRL", "DSRA", "DSLL32", "DSRL32", "DSRA32"} -> DRT
      [] name \in {"SLLV", "SRLV", "SRAV", "DSLLV", "DSRLV", "DSRAV"} -> DTS
      [] name \in {"JR", "MTHI", "MTLO", "MTSA"} -> <<"rs">>
      [] name = "JALR" -> IF w.rd = 31 THEN <<"rs">> ELSE <<"rd", "rs">>
      [] name \in {"MFHI", "MFLO", "MFSA"} -> <<"rd">>
      [] name \in {"DIV", "DIVU", "TGE", "TGEU", "TLT", "TLTU", "TEQ", "TNE"} -> ST
      [] name \in {"SYNC", "SYSCALL", "BREAK"} -> <<>>
      [] OTHER -> DST

MMIFields(name) ==
    CASE name \in {"MFHI1", "MFLO1", "PMFHL"} -> <<"rd">>
      [] name \in {"MTHI1", "MTLO1", "PMTHL"} -> <<"rs">>
      [] name \in {"DIV1", "DIVU1"} -> ST
      [] name = "PLZCW" -> <<"rd", "rs">>
      [] name \in {"PSLLH", "PSRLH", "PSRAH", "PSLLW", "PSRLW", "PSRAW"} -> DRT
      [] OTHER -> DST

MMI0Fields(name) == IF name \in {"PEXT5", "PPAC5"} THEN DRT ELSE DST

MMI1Fields(name) == IF name \in {"PABSW", "PABSH"} THEN DRT ELSE DST

MMI2Fields(name) ==
    CASE name \in {"PMFHI", "PMFLO"} -> <<"rd">>
      [] name \in {"PDIVW", "PDIVBW"} -> ST
      [] name \in {"PEXEH", "PREVH", "PEXEW", "PROT3W"} -> DRT
      [] OTHER -> DST

MMI3Fields(name) ==
    CASE name \in {"PMADDUW", "PSRAVW"} -> DTS
      [] name \in {"PMTHI", "PMTLO"} -> <<"rs">>
      [] name = "PDIVUW" -> ST
      [] name \in {"PEXCH", "PCPYH", "PEXCW"} -> DRT
      [] OTHER -> DST

COPFields(name) == IF name \in {"MFC0", "MTC0", "MFC1", "CFC1", "MTC1", "CTC1"} THEN <<"rt">> ELSE <<>>

(* Every instruction that tests rs against zero or against an immediate.   *)
REGIMMFields == <<"rs">>

ListedFields(w) ==
    LET name  == Listed(w)
        entry == ListedOpcode[w.opcode]
        mmi   == ListedMMI[w.funct]
    IN  CASE name \in {Unlisted, MMIUnknown, COP0Unknown, COP1Unknown, "COP2"} -> <<>>
          [] entry = "SPECIAL" -> SpecialFields(name, w)
          [] entry = "REGIMM" -> REGIMMFields
          [] entry = "MMI" ->
                CASE mmi = "MMI0" -> MMI0Fields(name)
                  [] mmi = "MMI1" -> MMI1Fields(name)
                  [] mmi = "MMI2" -> MMI2Fields(name)
                  [] mmi = "MMI3" -> MMI3Fields(name)
                  [] OTHER -> MMIFields(name)
          [] entry \in {"COP0", "COP1"} -> COPFields(name)
          [] OTHER -> OpcodeFields(name)

(* The registers shown, by number.                                         *)
ListedRegisters(w) == [k \in DOMAIN ListedFields(w) |-> w[ListedFields(w)[k]]]
=============================================================================
