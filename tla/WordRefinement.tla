--------------------------- MODULE WordRefinement ---------------------------
(***************************************************************************)
(* Execution implements WordMachine, the interpreter's instructions on a   *)
(* machine whose registers are words.                                      *)
(***************************************************************************)
EXTENDS Execution

(* What the registers hold and which way the branches go is what a machine *)
(* of 32-bit words allows, for every register the program has not filled   *)
(* with a 64-bit or unextended result.                                     *)
AsWords(i) ==
    [op |-> i.op, rs |-> i.rs, rt |-> i.rt, rd |-> i.rd, sa |-> i.sa, imm |-> UD(i.imm),
     mmi |-> i.op \in Multimedia]

Words == INSTANCE WordMachine WITH
             word <- [r \in Register |-> UL(regs[r])],
             known <- Register \ wide,
             code <- AsWords(code),
             halted <- (status # "running"),
             Link <- UL(Link),
             HeapEnd <- UL(HeapEnd),
             Instruction <- { AsWords(i) : i \in Instruction }

ImplementsWords == Words!Spec
=============================================================================
