---------------------------- MODULE Interpreter -----------------------------
(***************************************************************************)
(* The emulation core of ps2-unpacker (Interpreter.c) and the detection of *)
(* the unpacked program's entry point.                                     *)
(*                                                                         *)
(* A handler of a taken branch calls doBranch, which calls execI for the   *)
(* instruction of the delay slot; a branch found there calls doBranch      *)
(* again.  The host call stack is the variable depth (doBranch activations *)
(* that have not returned) and `at' tells whether the innermost activation *)
(* is about to fetch or its execI has just returned.  One action is one    *)
(* call of execI up to its handler's return or to its call of execI, or    *)
(* the tail of one doBranch.                                               *)
(*                                                                         *)
(* Instructions and register values are not modelled: the next instruction *)
(* and its operands are chosen freely, as an arbitrary packed program may  *)
(* choose them.  What is kept is everything that decides where execution   *)
(* goes, what is tagged as written, and how the run ends.                  *)
(***************************************************************************)
EXTENDS Memory

CONSTANTS
    InsnBytes,   \* size of an instruction (4)
    DumpReach,   \* how far dumpasm lists on each side of its argument (32)
    AccessBytes, \* sizes of the unaligned accesses: {1, 2, 4, 8}
    QuadBytes,   \* size LQ and SQ align their address to (16)
    MergeBytes,  \* sizes of SWL/SWR and SDL/SDR: {4, 8}
    BranchReach  \* reach of a conditional branch, in instructions (2^15)

ASSUME InterpreterAssumption ==
    /\ InsnBytes \in Nat \ {0}
    /\ DumpReach \in Nat
    /\ AccessBytes \subseteq Nat \ {0}
    /\ QuadBytes \in Nat \ {0}
    /\ MergeBytes \subseteq 1 .. RegionSize
    /\ BranchReach \in Nat
    /\ InsnBytes < RegionSize
    /\ 2 * DumpReach + InsnBytes < RegionSize

VARIABLES
    pc,         \* address of the next instruction to fetch
    branchPC,   \* the static branchPC shared by all doBranch activations
    depth,      \* doBranch activations on the host stack
    at,         \* "exec": execI is about to run; "unwind": execI returned to doBranch
    bounce_pc,  \* the entry point found; 0 while there is none
    hit,        \* what the last "hit" message reported
    status,     \* the host process: "running", "exited" (exit(-1)) or "crashed"
    written,    \* cells whose tag has the write bit
    stored      \* history: cells the guest's own stores were addressed to

flow == <<branchPC, depth, at>>
found == <<bounce_pc, hit>>
tags == <<written, stored>>
vars == <<pc, flow, found, status, tags>>

Init ==
    /\ pc \in Address
    /\ branchPC = 0
    /\ depth = 0
    /\ at = "exec"
    /\ bounce_pc = 0
    /\ hit = "none"
    /\ status = "running"
    /\ written = {}
    /\ stored = {}

-----------------------------------------------------------------------------
(* Helpers.                                                                *)

(* Mutant: main's loop runs execI whatever bounce_pc is.                   *)
AboutToExecAlways == status = "running" /\ at = "exec"

(* execI runs: from main's loop while no entry point is known, or for a    *)
(* delay slot, which doBranch runs without looking at bounce_pc.           *)
AboutToExec == status = "running" /\ at = "exec" /\ (depth > 0 \/ bounce_pc = 0)

Fetched == AboutToExec /\ AllAccessible(pc, InsnBytes)

(* Mutant: execI goes on with the instruction after a delay slot.          *)
RetireWithoutUnwinding(next) ==
    /\ pc' = next
    /\ at' = "exec"
    /\ UNCHANGED <<branchPC, depth, status>>

(* The handler returns, and with it execI: to doBranch or to main's loop.  *)
Retire(next) ==
    /\ pc' = next
    /\ at' = IF depth > 0 THEN "unwind" ELSE "exec"
    /\ UNCHANGED <<branchPC, depth, status>>

Next4 == Shift(pc, InsnBytes)

(* Mutant: the listing covers the instructions before p only.              *)
ListableBefore(p) == AllAccessible(Shift(p, -DumpReach), DumpReach)

(* dumpasm reads from DumpReach bytes before p to one instruction past     *)
(* p + DumpReach.                                                          *)
Listable(p) == AllAccessible(Shift(p, -DumpReach), 2 * DumpReach + InsnBytes)

(* How an error path that lists the code around p ends.  A byte of the     *)
(* listing that cannot be read calls dumpasm again on the same cpuRegs.pc, *)
(* which fails on the same byte: the host stack overflows before the       *)
(* exit(-1) that follows.  Dumpasm.tla models that recursion itself.       *)
AfterListing(p) == IF Listable(p) THEN "exited" ELSE "crashed"

Stop(s) == status' = s /\ UNCHANGED <<pc, flow, found>>

(* The calls of memRead and memWrite a program can make: any address for   *)
(* most sizes, an aligned one for LQ and SQ.                               *)
Spans ==
    (Address \X AccessBytes)
        \union { s \in Address \X {QuadBytes} : s[1] % QuadBytes = 0 }

Merges == { s \in Address \X MergeBytes : s[1] % s[2] = 0 }

(* J and JAL stay in the 256 MiB segment of the delay slot; a conditional  *)
(* branch is relative to the delay slot; JR and JALR go anywhere.          *)
JumpTargets ==
    { t \in Address : /\ t % InsnBytes = 0
                      /\ t \div (2 * RegionSize) = Next4 \div (2 * RegionSize) }

BranchTargets ==
    { t \in Address : \E k \in -BranchReach .. BranchReach - 1 :
                          t = (Next4 + k * InsnBytes) % AddrSpace }

(* Mutant: the delay slot is fetched before pc has moved past the branch.  *)
doBranchInPlace(target) ==
    /\ branchPC' = target
    /\ depth' = depth + 1
    /\ pc' = pc
    /\ at' = "exec"
    /\ UNCHANGED <<found, status, tags>>

(* doBranch up to its call of execI.                                       *)
doBranch(target) ==
    /\ branchPC' = target
    /\ depth' = depth + 1
    /\ pc' = Next4
    /\ at' = "exec"
    /\ UNCHANGED <<found, status, tags>>

-----------------------------------------------------------------------------
(* Actions.                                                                *)

(* execI cannot read the instruction at pc: memRead8 lists and exits.      *)
FetchFault ==
    /\ AboutToExec
    /\ ~AllAccessible(pc, InsnBytes)
    /\ Stop(AfterListing(pc))
    /\ UNCHANGED tags

(* Arithmetic, moves, shifts, multiplications, MMI, COP0's three known     *)
(* codes, a branch that is not taken, the partial loads to register 0, and *)
(* the system calls that change nothing here (0x3c, 0x3d, 0x3e, 0x64).     *)
RegisterOp ==
    /\ Fetched
    /\ Retire(Next4)
    /\ UNCHANGED <<found, tags>>

(* DIV of the least integer by -1: a trap on the host, or any result.      *)
DivideTrap ==
    /\ Fetched
    /\ Stop("crashed")
    /\ UNCHANGED tags

Load(a, n) ==
    /\ Fetched
    /\ UNCHANGED tags
    /\ \/ AllAccessible(a, n) /\ Retire(Next4) /\ UNCHANGED found
       \/ ~AllAccessible(a, n) /\ Stop(AfterListing(pc))

(* Mutant: only the first byte of a store is tagged.                       *)
StoreTaggingFirstByte(a, n) ==
    /\ Fetched
    /\ written' = written \union Reached(a, 1)
    /\ stored' = stored \union Reached(a, n)
    /\ \/ AllAccessible(a, n) /\ Retire(Next4) /\ UNCHANGED found
       \/ ~AllAccessible(a, n) /\ Stop(AfterListing(pc))

(* memWrite8, ..., memWrite128: the bytes before the first that faults are *)
(* stored and tagged.                                                      *)
Store(a, n) ==
    /\ Fetched
    /\ written' = written \union Reached(a, n)
    /\ stored' = stored \union Reached(a, n)
    /\ \/ AllAccessible(a, n) /\ Retire(Next4) /\ UNCHANGED found
       \/ ~AllAccessible(a, n) /\ Stop(AfterListing(pc))

(* SWL, SWR, SDL, SDR: read the aligned word, merge, write it back whole.  *)
(* The instruction stores its first or its last bytes only.                *)
MergeStore(a, n) ==
    /\ Fetched
    /\ \/ /\ AllAccessible(a, n)
          /\ written' = written \union Reached(a, n)
          /\ \E m \in 1 .. n :
                \/ stored' = stored \union Reached(a, m)
                \/ stored' = stored \union Reached(Shift(a, n - m), m)
          /\ Retire(Next4)
          /\ UNCHANGED found
       \/ /\ ~AllAccessible(a, n)
          /\ Stop(AfterListing(pc))
          /\ UNCHANGED tags

Jump         == Fetched /\ \E t \in JumpTargets : doBranch(t)
JumpRegister == Fetched /\ \E t \in Address : doBranch(t)
Branch       == Fetched /\ \E t \in BranchTargets : doBranch(t)

(* A likely branch that is not taken skips its delay slot.                 *)
BranchLikelyNotTaken ==
    /\ Fetched
    /\ Retire(Shift(Next4, InsnBytes))
    /\ UNCHANGED <<found, tags>>

(* SYSCALL 7: a0, whatever it holds, is the entry point.                   *)
ExecPS2(a0) ==
    /\ Fetched
    /\ bounce_pc' = a0
    /\ hit' = "ExecPS2"
    /\ Retire(Next4)
    /\ UNCHANGED tags

(* Unknown opcodes, COP0, MMI_Unknown and SleepThread list the code first. *)
Unsupported ==
    /\ Fetched
    /\ Stop(AfterListing(pc))
    /\ UNCHANGED tags

(* BREAK and the unknown system calls exit without a listing.              *)
Break ==
    /\ Fetched
    /\ Stop("exited")
    /\ UNCHANGED tags

(* Mutant: on a hit, pc stays in the delay slot.                           *)
ReturnWithoutJump ==
    /\ status = "running"
    /\ at = "unwind"
    /\ depth' = depth - 1
    /\ at' = IF depth > 1 THEN "unwind" ELSE "exec"
    /\ \/ TRUE \in HasWrite(written, branchPC)
          /\ bounce_pc' = branchPC /\ hit' = "branch" /\ pc' = pc
       \/ FALSE \in HasWrite(written, branchPC) /\ pc' = branchPC /\ UNCHANGED found
    /\ UNCHANGED <<branchPC, status, tags>>

(* Mutant: the target runs inside the outer activation of doBranch.        *)
ReturnIntoTarget ==
    /\ status = "running"
    /\ at = "unwind"
    /\ pc' = branchPC
    /\ depth' = depth - 1
    /\ at' = "exec"
    /\ \/ TRUE \in HasWrite(written, branchPC) /\ bounce_pc' = branchPC /\ hit' = "branch"
       \/ FALSE \in HasWrite(written, branchPC) /\ UNCHANGED found
    /\ UNCHANGED <<branchPC, status, tags>>

(* The rest of doBranch, once execI has run the delay slot.  Execution     *)
(* goes to the static branchPC, and has_write decides whether it is the    *)
(* entry point.                                                            *)
Return ==
    /\ status = "running"
    /\ at = "unwind"
    /\ pc' = branchPC
    /\ depth' = depth - 1
    /\ at' = IF depth > 1 THEN "unwind" ELSE "exec"
    /\ \/ TRUE \in HasWrite(written, branchPC) /\ bounce_pc' = branchPC /\ hit' = "branch"
       \/ FALSE \in HasWrite(written, branchPC) /\ UNCHANGED found
    /\ UNCHANGED <<branchPC, status, tags>>

(* has_write reads past tags[] and the host faults.                        *)
ReturnFault ==
    /\ status = "running"
    /\ at = "unwind"
    /\ branchPC \notin Cell
    /\ Stop("crashed")
    /\ UNCHANGED tags

Step ==
    \/ FetchFault \/ RegisterOp \/ DivideTrap
    \/ \E s \in Spans : Load(s[1], s[2]) \/ Store(s[1], s[2])
    \/ \E s \in Merges : MergeStore(s[1], s[2])
    \/ Jump \/ JumpRegister \/ Branch \/ BranchLikelyNotTaken
    \/ \E a0 \in Address : ExecPS2(a0)
    \/ Unsupported \/ Break
    \/ Return \/ ReturnFault

(* main's loop is over, or the process is gone.                            *)
LoopDone == status = "running" /\ at = "exec" /\ depth = 0 /\ bounce_pc # 0
Finished == (LoopDone \/ status # "running") /\ UNCHANGED vars

Next == Step \/ Finished

Spec == Init /\ [][Next]_vars

(* One thread runs the loop and nothing can block it.                      *)
FairSpec == Spec /\ WF_vars(Step)

-----------------------------------------------------------------------------
(* Properties.                                                             *)

(* Every variable stays in its type; a guest store only reaches memory.    *)
TypeOK ==
    /\ pc \in Address
    /\ branchPC \in Address
    /\ depth \in Nat
    /\ at \in {"exec", "unwind"}
    /\ bounce_pc \in Address
    /\ hit \in {"none", "ExecPS2", "branch"}
    /\ status \in {"running", "exited", "crashed"}
    /\ written \subseteq Cell
    /\ stored \subseteq Cell

(* doBranch calls execI, which may call doBranch: the host stack never     *)
(* holds more activations than memory holds instructions, because each of  *)
(* them has fetched a word that the next one has left behind.              *)
DepthBounded == depth * InsnBytes <= MemSize

(* doBranch runs its delay slot without looking at bounce_pc, and branches *)
(* may nest; still no instruction runs once an entry point is known.       *)
StopsAtOnce == AboutToExec => bounce_pc = 0

(* When main's loop ends on a "hit written memory" message, the machine    *)
(* stands at the entry point reported and that byte is tagged (or is not a *)
(* byte of memory[]), however many nested branches shared branchPC and     *)
(* even when the delay slot was an ExecPS2.                                *)
HitExplained ==
    LoopDone /\ hit = "branch" =>
        pc = bounce_pc /\ TRUE \in HasWrite(written, bounce_pc)

(* The error paths reach exit(-1) only while pc is inside memory: a        *)
(* program that runs out of memory makes the unpacker crash in dumpasm.    *)
ExitedInsideMemory == status = "exited" => AllAccessible(pc, InsnBytes)

(* No jump lands unnoticed on a byte the program stored: when the last     *)
(* doBranch returns to such a byte, it is announced and is the entry       *)
(* point, whatever the delay slots did.  At address 0, main's "none yet",  *)
(* this forgets an entry point that a delay slot has found.                *)
StoredTargetStops ==
    [][ depth = 1 /\ depth' = 0 /\ branchPC \in stored
            => bounce_pc' = branchPC /\ pc' = branchPC /\ hit' = "branch" ]_vars

(* Every doBranch returns: delay slots cannot nest for ever.               *)
BranchesReturn == (depth > 0) ~> (depth = 0 \/ status # "running")

(* The core implements the search main relies on.                          *)
Search == INSTANCE EntrySearch WITH entry <- bounce_pc, alive <- (status = "running")

(* Every behaviour of the core is a behaviour of EntrySearch.              *)
SearchSpec == Search!Spec

(* What the README says: "When the execution reaches the ExecPS2 syscall,  *)
(* or a jump to a written part of the memory, it will consider that the    *)
(* job is done."  memRead and memWrite map 0x08000000 to memory; has_write *)
(* does not, so a jump to a written byte's mirror is not seen.             *)
WrittenTargetStops ==
    [][ at = "unwind" /\ depth = 1 /\ status = "running"
            /\ Accessible(branchPC) /\ Resolve(branchPC) \in stored \ {0}
            => bounce_pc' # 0 ]_vars
=============================================================================
