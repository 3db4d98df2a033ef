------------------------------ MODULE Dumpasm -------------------------------
(***************************************************************************)
(* The recursion hidden in the error path.  An error lists the code around *)
(* the faulting instruction with dumpasm (Interpreter.c 56-64) and then    *)
(* calls exit(-1).  dumpasm reads memory with memRead32; a byte it cannot  *)
(* read is itself an error, whose handler in memRead8 calls dumpasm on the *)
(* same cpuRegs.pc - 4 before its own exit(-1) (memory.c 43-52).           *)
(***************************************************************************)
EXTENDS Memory

CONSTANTS
    InsnBytes,   \* size of an instruction (4)
    DumpReach,   \* how far dumpasm lists on each side (32)
    StackFrames  \* activations of dumpasm the host stack can hold

ASSUME DumpasmAssumption ==
    /\ InsnBytes \in Nat \ {0}
    /\ DumpReach \in Nat
    /\ StackFrames \in Nat \ {0}
    /\ 2 * DumpReach + InsnBytes < RegionSize
    /\ (2 * DumpReach) % InsnBytes = 0

VARIABLES
    insn,    \* cpuRegs.pc - 4, which no listing changes
    i,       \* the offset of the innermost dumpasm's loop
    byte,    \* the byte of the word at insn + i that memRead32 is reading
    calls,   \* activations of dumpasm on the host stack
    status   \* "listing", "exited" or "crashed"

vars == <<insn, i, byte, calls, status>>

(* A first error has just called dumpasm. *)
Init ==
    /\ insn \in Address
    /\ i = -DumpReach
    /\ byte = 0
    /\ calls = 1
    /\ status = "listing"

Here == Shift(insn, i + byte)

(* Mutant: the loop stops after the instruction at insn.                   *)
LoopRunsToInsn == i <= 0

(* for (i = -32; i <= 32; i += 4)                                          *)
LoopRuns == i <= DumpReach

ReadByte ==
    /\ status = "listing" /\ LoopRuns
    /\ Accessible(Here)
    /\ IF byte + 1 < InsnBytes
       THEN byte' = byte + 1 /\ i' = i
       ELSE byte' = 0 /\ i' = i + InsnBytes
    /\ UNCHANGED <<insn, calls, status>>

(* Mutants: the nested listing goes on where the first one was, or the     *)
(* handler jumps back into the same activation.                            *)
NestedErrorResumes ==
    /\ status = "listing" /\ LoopRuns
    /\ ~Accessible(Here)
    /\ calls' = calls + 1 /\ i' = i + InsnBytes /\ byte' = 0
    /\ UNCHANGED <<insn, status>>

NestedErrorRestarts ==
    /\ status = "listing" /\ LoopRuns
    /\ ~Accessible(Here)
    /\ i' = -DumpReach /\ byte' = 0
    /\ UNCHANGED <<insn, calls, status>>

(* memRead8 fails: it calls dumpasm(cpuRegs.pc - 4) once more.             *)
NestedError ==
    /\ status = "listing" /\ LoopRuns
    /\ ~Accessible(Here)
    /\ IF calls < StackFrames
       THEN calls' = calls + 1 /\ i' = -DumpReach /\ byte' = 0 /\ status' = status
       ELSE status' = "crashed" /\ UNCHANGED <<i, byte, calls>>
    /\ UNCHANGED insn

(* The innermost dumpasm returns to a caller whose next statement is       *)
(* exit(-1), whichever caller that is.                                     *)
Exit ==
    /\ status = "listing"
    /\ ~LoopRuns
    /\ status' = "exited"
    /\ UNCHANGED <<insn, i, byte, calls>>

Step == ReadByte \/ NestedError \/ Exit

Finished == status # "listing" /\ UNCHANGED vars

Next == Step \/ Finished

Spec == Init /\ [][Next]_vars

(* A single thread, which waits for nothing. *)
FairSpec == Spec /\ WF_vars(Step)

-----------------------------------------------------------------------------
(* Properties.                                                             *)

(* The summary Interpreter.tla relies on (AfterListing): exit(-1) is       *)
(* reached exactly when the whole listing is readable.                     *)
Listable(p) == AllAccessible(Shift(p, -DumpReach), 2 * DumpReach + InsnBytes)

OutcomeIsListable ==
    /\ status = "exited" => Listable(insn)
    /\ status = "crashed" => ~Listable(insn)

(* A nested listing never gets further than the one it interrupted, so no  *)
(* depth of the host stack saves the process: only the first one can end.  *)
OnlyFirstListingEnds == status = "exited" => calls = 1

(* The process does end, one way or the other. *)
ListingEnds == <>(status # "listing")
=============================================================================
