----------------------------- MODULE Execution ------------------------------
(***************************************************************************)
(* execI's dispatch of an instruction word to its handler (Decode), what   *)
(* the handler leaves in the registers (Registers), and what the two       *)
(* disassemblers say about the same word (Listing, Trace).  A behaviour    *)
(* runs one of Programs, each step of which picks one of a set of words;   *)
(* what a branch or a jump leads to is in Interpreter.tla.                 *)
(***************************************************************************)
EXTENDS Registers

CONSTANT Programs  \* sequences of sets of words

VARIABLES
    program,  \* the program that runs
    step,     \* the step it is at
    status    \* the host process: "running", "exited" or "crashed"

allVars == <<vars, program, step, status>>

(* A word with the handler it reaches.                                     *)
Decoded(w) ==
    [op |-> Handler(w), opcode |-> w.opcode, rs |-> w.rs, rt |-> w.rt, rd |-> w.rd,
     sa |-> w.sa, funct |-> w.funct, imm |-> w.imm]

NoWord == [opcode |-> 0, rs |-> 0, rt |-> 0, rd |-> 0, sa |-> 0, funct |-> 0, imm |-> {}]

(* The words whose immediates have n bits.                                 *)
Words32(n) == [opcode : 0 .. 63, rs : GPR, rt : GPR, rd : GPR, sa : 0 .. 31, funct : 0 .. 63,
               imm : SUBSET (0 .. n - 1)]

ASSUME ExecutionAssumption ==
    /\ \A n \in DOMAIN Programs :
          /\ Programs[n] \in Seq(SUBSET Words32(ImmBits))
          /\ \A k \in DOMAIN Programs[n] : { Decoded(w) : w \in Programs[n][k] } \subseteq Instruction
    /\ Decoded(NoWord) \in Instruction

ExecInit ==
    /\ Init
    /\ code = Decoded(NoWord)
    /\ program \in DOMAIN Programs
    /\ step = 1
    /\ status = "running"

Running == status = "running" /\ step <= Len(Programs[program])

Fetched == { Decoded(w) : w \in Programs[program][step] }

Advance == step' = step + 1 /\ UNCHANGED program

(* The handler returns.                                                    *)
Execute ==
    /\ Running
    /\ \E i \in Fetched : Step(i)
    /\ Advance
    /\ UNCHANGED status

(* UnknownOpcode, MMI_Unknown and COP0 list the code and exit; BREAK and   *)
(* the system calls that are not known exit.                               *)
Refuse ==
    /\ Running
    /\ \E i \in Fetched : i.op \in Refusals \union {"BREAK", "SYSCALL"} /\ code' = i
    /\ status' = "exited"
    /\ Advance
    /\ UNCHANGED <<regs, wide, taken>>

(* The least integer divided by -1 traps on the host; which words the      *)
(* multimedia divisions find is left free.                                 *)
DivideTrap ==
    /\ Running
    /\ \E i \in Fetched : /\ \/ i.op = "DIV" /\ Overflows(i)
                             \/ i.op \in {"DIV1", "PDIVW", "PDIVBW"}
                          /\ code' = i
    /\ status' = "crashed"
    /\ Advance
    /\ UNCHANGED <<regs, wide, taken>>

Finished == ~Running /\ UNCHANGED allVars

ExecNext == Execute \/ Refuse \/ DivideTrap \/ Finished

ExecSpec == ExecInit /\ [][ExecNext]_allVars

-----------------------------------------------------------------------------
(* Properties.                                                             *)

Lists == INSTANCE Listing
Traces == INSTANCE Trace

(* When an error path lists a word that the interpreter runs, it names the *)
(* instruction that the interpreter runs for it: the two sets of tables    *)
(* were written separately.  Two texts are wrong: MADDU is printed as      *)
(* "madd" and PMSUBW as "msubw".                                           *)
ListingNamesWhatRuns ==
    code.op \notin Refusals \union {"MADDU", "PMSUBW"} => Lists!Listed(code) = code.op

(* Of the instructions of the MMI table itself the trace knows only two.   *)
Untraced ==
    {"MADD", "MADDU", "PLZCW", "MFHI1", "MTHI1", "MFLO1", "MTLO1", "DIV1", "DIVU1", "MADD1", "MADDU1",
     "PMFHL", "PMTHL", "PSLLH", "PSRLH", "PSRAH", "PSLLW", "PSRLW", "PSRAW"}

(* The trace names the instruction that execI then runs, but for those it  *)
(* calls a bad opcode, and three texts that are not the handler's name.    *)
TraceNamesWhatRuns ==
    code.op \notin Refusals \union {"DSUBU", "PEXT5", "PPAC5"} =>
        Traces!Traced(code) = IF code.op \in Untraced THEN Traces!BAD ELSE code.op

(* A word that the trace calls a bad opcode, and that the interpreter      *)
(* refuses, is not given a name in the listing that follows, but for the   *)
(* reserved branches on a coprocessor's flag (the listing looks at two     *)
(* bits of rt), COP2 and its quadword accesses.                            *)
RefusedAlike ==
    code.op \in Refusals /\ Traces!Traced(code) = Traces!BAD =>
        \/ Lists!Listed(code) \in {Lists!Unlisted, Lists!MMIUnknown, Lists!COP0Unknown, Lists!COP1Unknown}
        \/ Lists!Listed(code) \in {"COP2", "LQC2", "SQC2"}
        \/ code.opcode \in {16, 17} /\ code.rs = 8 /\ code.rt >= 4

(* Registers that an instruction changes without naming them.              *)
Implicit(i) ==
    CASE i.op \in Linking -> {ra}
      [] i.op = "JALR" /\ i.rd = ra -> {ra}
      [] i.op = "SYSCALL" -> {v0}
      [] OTHER -> {}

Changed == { r \in GPR : regs'[r] # regs[r] }

(* The listing puts first the register that an instruction fills: nothing  *)
(* else changes, but for links and results of system calls.                *)
ChangesAreListedFirst ==
    [][ \A r \in Changed \ Implicit(code') :
            LET shown == Lists!ListedRegisters(code') IN shown # <<>> /\ r = shown[1] ]_allVars

(* The instructions whose trace shows their name only.                     *)
NameOnly ==
    Multimedia \ {"PEXTLW", "PEXTLH", "PEXTUW", "PEXTUH", "PCPYLD", "PAND", "PXOR", "POR", "PNOR",
                  "PCPYUD", "PCPYH"}

(* A reader of the trace sees every register that the run changes next,    *)
(* but for the links of branches, system calls and the instructions shown  *)
(* by name only.                                                           *)
ChangesAreTraced ==
    [][ \A r \in Changed :
            \/ \E k \in DOMAIN Traces!TracedRegisters(code') : Traces!TracedRegisters(code')[k] = r
            \/ r \in Implicit(code') /\ code'.op \notin {"JAL", "JALR"}
            \/ code'.op \in NameOnly ]_allVars
=============================================================================
