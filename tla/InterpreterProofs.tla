------------------------- MODULE InterpreterProofs --------------------------
(***************************************************************************)
(* Proofs about the emulation core, for every size of memory, instruction  *)
(* and access: its safety properties, and that it implements EntrySearch.  *)
(***************************************************************************)
EXTENDS Interpreter, TLAPS

-----------------------------------------------------------------------------
(* Facts about addresses.                                                  *)

(* u32 arithmetic stays in the address space.                              *)
LEMMA ShiftType ==
    ASSUME NEW a \in Address, NEW k \in Int, -AddrSpace <= k, k <= AddrSpace
    PROVE  Shift(a, k) \in Address
BY MemoryAssumption DEF Address, Shift

(* A run of accesses only reaches cells of memory, and all of them if no   *)
(* byte faults.                                                            *)
LEMMA ReachedCells ==
    ASSUME NEW a \in Address, NEW n \in Nat
    PROVE  Reached(a, n) \subseteq Cell
<1> SUFFICES ASSUME NEW i \in 0 .. n - 1, Accessible(Shift(a, i))
             PROVE  Resolve(Shift(a, i)) \in Cell
  BY DEF Reached
<1>1. Shift(a, i) \in Int /\ Shift(a, i) >= 0
  BY MemoryAssumption DEF Address, Shift
<1> QED
  BY <1>1, MemoryAssumption DEF Accessible, Mapped, Resolve, Cell

(* The base of the region an instruction was fetched from: the word lies   *)
(* wholly in memory or wholly in its mirror, because of the gap between.   *)
Region == {0, RegionSize}

LEMMA FetchInRegion ==
    ASSUME NEW a \in Address, AllAccessible(a, InsnBytes)
    PROVE  \E base \in Region : base <= a /\ a + InsnBytes <= base + MemSize
<1> USE MemoryAssumption, InterpreterAssumption
<1>1. \A i \in 0 .. InsnBytes - 1 : Accessible(Shift(a, i))
  BY DEF AllAccessible
<1>2. Accessible(a)
  <2>1. Shift(a, 0) = a /\ 0 \in 0 .. InsnBytes - 1
    BY DEF Shift, Address
  <2> QED BY <1>1, <2>1
<1>3. a < MemSize \/ (RegionSize <= a /\ a < RegionSize + MemSize)
  BY <1>2 DEF Accessible, Mapped, Resolve, Address
<1>4. CASE a < MemSize
  <2>1. a + InsnBytes <= MemSize
    <3> SUFFICES ASSUME a + InsnBytes > MemSize PROVE FALSE
      BY DEF Address
    <3>1. MemSize - a \in 0 .. InsnBytes - 1
      BY <1>4 DEF Address
    <3>2. Shift(a, MemSize - a) = MemSize
      BY DEF Shift, Address
    <3> QED
      BY <1>1, <3>1, <3>2 DEF Accessible, Mapped, Resolve
  <2> QED BY <2>1, <1>4 DEF Region, Address
<1>5. CASE RegionSize <= a /\ a < RegionSize + MemSize
  <2>1. a + InsnBytes <= RegionSize + MemSize
    <3> SUFFICES ASSUME a + InsnBytes > RegionSize + MemSize PROVE FALSE
      BY DEF Address
    <3> DEFINE i == RegionSize + MemSize - a
    <3>1. i \in 0 .. InsnBytes - 1
      BY <1>5 DEF Address
    <3>2. Shift(a, i) = RegionSize + MemSize
      BY DEF Shift, Address
    <3> QED
      BY <1>1, <3>1, <3>2 DEF Accessible, Mapped, Resolve
  <2> QED BY <2>1, <1>5 DEF Region
<1> QED BY <1>3, <1>4, <1>5

(* A listing that is readable as a whole contains its own instruction.     *)
LEMMA ListableIsFetchable ==
    ASSUME NEW p \in Address, Listable(p)
    PROVE  AllAccessible(p, InsnBytes)
<1> USE MemoryAssumption, InterpreterAssumption
<1> SUFFICES ASSUME NEW i \in 0 .. InsnBytes - 1
             PROVE  Accessible(Shift(p, i))
  BY DEF AllAccessible
<1>1. DumpReach + i \in 0 .. (2 * DumpReach + InsnBytes) - 1
  OBVIOUS
<1>2. Shift(Shift(p, -DumpReach), DumpReach + i) = Shift(p, i)
  BY DEF Shift, Address
<1> QED
  BY <1>1, <1>2 DEF Listable, AllAccessible

-----------------------------------------------------------------------------
(* The inductive invariant.                                                *)

(* The branches that doBranch activations stand for were fetched from      *)
(* consecutive words that end at pc.                                       *)
StackOnMemory ==
    /\ at = "exec" /\ depth > 0 =>
          \E base \in Region : base + depth * InsnBytes <= pc /\ pc <= base + MemSize
    /\ at = "unwind" => depth > 0 /\ depth * InsnBytes <= MemSize

SlotsBeforeEntry == at = "exec" /\ depth > 0 => bounce_pc = 0

EntryIsTarget ==
    hit = "branch" /\ bounce_pc # 0 =>
        /\ pc = bounce_pc /\ branchPC = bounce_pc
        /\ TRUE \in HasWrite(written, bounce_pc)

IInv ==
    /\ TypeOK
    /\ StackOnMemory
    /\ SlotsBeforeEntry
    /\ EntryIsTarget
    /\ stored \subseteq written
    /\ ExitedInsideMemory

(* The invariant holds initially.                                          *)
LEMMA InitIInv == Init => IInv
BY MemoryAssumption, InterpreterAssumption
   DEF Init, IInv, TypeOK, StackOnMemory, SlotsBeforeEntry, EntryIsTarget,
       ExitedInsideMemory, Address, Cell

(* What every handler that runs knows.                                     *)
LEMMA FetchedFacts ==
    ASSUME IInv, Fetched
    PROVE  /\ status = "running" /\ at = "exec" /\ bounce_pc = 0
           /\ depth \in Nat /\ pc \in Address
           /\ Next4 \in Address /\ Next4 = pc + InsnBytes
           /\ (depth + 1) * InsnBytes <= MemSize
           /\ \E base \in Region :
                 base + (depth + 1) * InsnBytes <= Next4 /\ Next4 <= base + MemSize
<1> USE MemoryAssumption, InterpreterAssumption
<1>1. status = "running" /\ at = "exec" /\ bounce_pc = 0 /\ depth \in Nat /\ pc \in Address
  BY DEF IInv, TypeOK, SlotsBeforeEntry, Fetched, AboutToExec
<1>2. PICK base \in Region : base <= pc /\ pc + InsnBytes <= base + MemSize
  BY <1>1, FetchInRegion DEF Fetched
<1>3. Next4 = pc + InsnBytes /\ Next4 \in Address
  BY <1>1, <1>2 DEF Next4, Shift, Address, Region
<1>4. (depth + 1) * InsnBytes = depth * InsnBytes + InsnBytes /\ depth * InsnBytes \in Nat
  BY <1>1
<1>5. base + depth * InsnBytes <= pc
  <2>1. CASE depth = 0
    BY <2>1, <1>1, <1>2 DEF Region, Address
  <2>2. CASE depth > 0
    <3>1. PICK b \in Region : b + depth * InsnBytes <= pc /\ pc <= b + MemSize
      BY <2>2, <1>1 DEF IInv, StackOnMemory
    <3>2. b = base
      BY <3>1, <1>1, <1>2, <1>4 DEF Region, Address
    <3> QED BY <3>1, <3>2
  <2> QED BY <2>1, <2>2, <1>1
<1> HIDE DEF Next4
<1>6. base \in Nat
  BY <1>2 DEF Region
<1>7. base + (depth + 1) * InsnBytes <= Next4 /\ Next4 <= base + MemSize
  BY <1>1, <1>2, <1>3, <1>4, <1>5, <1>6 DEF Address
<1>8. (depth + 1) * InsnBytes <= MemSize
  BY <1>1, <1>3, <1>4, <1>6, <1>7 DEF Address
<1> QED BY <1>1, <1>2, <1>3, <1>7, <1>8

-----------------------------------------------------------------------------
(* The steps, by the way they end.                                         *)

Grow == written \subseteq written' /\ written' \subseteq Cell /\ stored' \subseteq written'

(* A handler that returns keeps the invariant.                             *)
LEMMA RetireKeepsIInv ==
    ASSUME IInv, Fetched, Grow, NEW next \in Address, Retire(next),
           UNCHANGED found \/ (bounce_pc' \in Address /\ hit' = "ExecPS2")
    PROVE  IInv'
<1> USE MemoryAssumption, InterpreterAssumption
<1>1. /\ status = "running" /\ at = "exec" /\ bounce_pc = 0 /\ depth \in Nat
      /\ (depth + 1) * InsnBytes <= MemSize
  BY FetchedFacts
<1>2. depth * InsnBytes <= MemSize
  <2>1. (depth + 1) * InsnBytes = depth * InsnBytes + InsnBytes
    BY <1>1
  <2> QED BY <1>1, <2>1
<1>3. TypeOK'
  BY <1>1 DEF IInv, TypeOK, Retire, Grow, found
<1>4. StackOnMemory'
  BY <1>1, <1>2 DEF StackOnMemory, Retire
<1>5. SlotsBeforeEntry'
  BY <1>1 DEF SlotsBeforeEntry, Retire
<1>6. EntryIsTarget'
  BY <1>1 DEF EntryIsTarget, found
<1>7. ExitedInsideMemory'
  BY <1>1 DEF ExitedInsideMemory, Retire
<1> QED BY <1>3, <1>4, <1>5, <1>6, <1>7 DEF IInv, Grow

(* A step that ends the process keeps it, if it exits inside memory only.  *)
LEMMA StopKeepsIInv ==
    ASSUME IInv, Grow, status = "running", NEW s \in {"exited", "crashed"}, Stop(s),
           s = "exited" => AllAccessible(pc, InsnBytes)
    PROVE  IInv'
<1>1. TypeOK'
  BY DEF IInv, TypeOK, Stop, Grow, flow, found
<1>2. StackOnMemory' /\ SlotsBeforeEntry'
  BY DEF IInv, StackOnMemory, SlotsBeforeEntry, Stop, flow, found
<1>3. EntryIsTarget'
  <2>1. TRUE \in HasWrite(written, bounce_pc) => TRUE \in HasWrite(written', bounce_pc)
    BY DEF HasWrite, Grow
  <2> QED BY <2>1 DEF IInv, EntryIsTarget, Stop, flow, found
<1>4. ExitedInsideMemory'
  BY DEF ExitedInsideMemory, Stop, AllAccessible, Accessible, Mapped, Resolve, Shift
<1> QED BY <1>1, <1>2, <1>3, <1>4 DEF IInv, Grow

(* A listing that ends in exit(-1) showed the instruction at pc.           *)
LEMMA AfterListingFacts ==
    ASSUME IInv
    PROVE  /\ AfterListing(pc) \in {"exited", "crashed"}
           /\ AfterListing(pc) = "exited" => AllAccessible(pc, InsnBytes)
BY ListableIsFetchable DEF IInv, TypeOK, AfterListing

(* A branch that is taken keeps it: the delay slot is the next word.       *)
LEMMA doBranchKeepsIInv ==
    ASSUME IInv, Fetched, NEW target \in Address, doBranch(target)
    PROVE  IInv'
<1> USE MemoryAssumption, InterpreterAssumption
<1>1. /\ status = "running" /\ at = "exec" /\ bounce_pc = 0 /\ depth \in Nat
      /\ Next4 \in Address
      /\ \E base \in Region :
            base + (depth + 1) * InsnBytes <= Next4 /\ Next4 <= base + MemSize
  BY FetchedFacts
<1>2. depth' = depth + 1 /\ pc' = Next4 /\ at' = "exec" /\ branchPC' = target
      /\ UNCHANGED <<bounce_pc, hit, status, written, stored>>
  BY DEF doBranch, found, tags
<1>3. TypeOK'
  BY <1>1, <1>2 DEF IInv, TypeOK
<1>4. StackOnMemory'
  BY <1>1, <1>2 DEF StackOnMemory, Region
<1>5. SlotsBeforeEntry' /\ EntryIsTarget' /\ ExitedInsideMemory'
  BY <1>1, <1>2 DEF SlotsBeforeEntry, EntryIsTarget, ExitedInsideMemory
<1> QED BY <1>2, <1>3, <1>4, <1>5 DEF IInv

(* The end of a doBranch keeps it.                                         *)
LEMMA ReturnKeepsIInv ==
    ASSUME IInv, Return
    PROVE  IInv'
<1> USE MemoryAssumption, InterpreterAssumption
<1>1. depth \in Nat /\ depth > 0 /\ depth * InsnBytes <= MemSize /\ at = "unwind"
      /\ status = "running"
  BY DEF IInv, TypeOK, StackOnMemory, Return
<1>2. (depth - 1) * InsnBytes <= MemSize
  <2>1. (depth - 1) * InsnBytes = depth * InsnBytes - InsnBytes
    BY <1>1
  <2> QED BY <1>1, <2>1
<1>3. TypeOK'
  <2>1. pc' \in Address /\ branchPC' \in Address /\ at' \in {"exec", "unwind"}
    BY DEF IInv, TypeOK, Return
  <2>2. depth' \in Nat
    BY <1>1 DEF Return
  <2>3. bounce_pc' \in Address /\ hit' \in {"none", "ExecPS2", "branch"}
    BY DEF IInv, TypeOK, Return, found
  <2>4. status' = status /\ written' = written /\ stored' = stored
    BY DEF Return, tags
  <2> QED BY <2>1, <2>2, <2>3, <2>4 DEF IInv, TypeOK
<1>4. StackOnMemory'
  BY <1>1, <1>2 DEF StackOnMemory, Return
<1>5. SlotsBeforeEntry'
  BY <1>1 DEF SlotsBeforeEntry, Return
<1>6. EntryIsTarget'
  <2>1. CASE TRUE \in HasWrite(written, branchPC) /\ bounce_pc' = branchPC /\ hit' = "branch"
    BY <2>1 DEF EntryIsTarget, Return, tags
  <2>2. CASE UNCHANGED found
    BY <2>2 DEF IInv, EntryIsTarget, Return, tags, found
  <2> QED BY <2>1, <2>2 DEF Return
<1>7. ExitedInsideMemory'
  BY <1>1 DEF ExitedInsideMemory, Return
<1>8. stored' \subseteq written'
  BY DEF IInv, Return, tags
<1> QED BY <1>3, <1>4, <1>5, <1>6, <1>7, <1>8 DEF IInv

(* What a load or a store may touch is an address and a size.              *)
LEMMA SpanTypes ==
    /\ \A s \in Spans : s[1] \in Address /\ s[2] \in Nat
    /\ \A s \in Merges : s[1] \in Address /\ s[2] \in Nat /\ s[2] <= AddrSpace
<1> USE MemoryAssumption, InterpreterAssumption
<1>1. \A s \in Address \X AccessBytes : s[1] \in Address /\ s[2] \in Nat
  OBVIOUS
<1>2. \A s \in Address \X {QuadBytes} : s[1] \in Address /\ s[2] \in Nat
  OBVIOUS
<1>3. \A s \in Address \X MergeBytes : s[1] \in Address /\ s[2] \in 1 .. RegionSize
  OBVIOUS
<1>4. \A n \in 1 .. RegionSize : n \in Nat /\ n <= AddrSpace
  OBVIOUS
<1>5. \A s \in Spans : s[1] \in Address /\ s[2] \in Nat
  BY <1>1, <1>2 DEF Spans
<1>6. \A s \in Merges : s[1] \in Address /\ s[2] \in Nat /\ s[2] <= AddrSpace
  BY <1>3, <1>4 DEF Merges
<1> QED BY <1>5, <1>6

(* A store tags every byte it writes.                                      *)
LEMMA StoreGrows ==
    ASSUME IInv, NEW a \in Address, NEW n \in Nat,
           written' = written \union Reached(a, n),
           stored' = stored \union Reached(a, n)
    PROVE  Grow
BY ReachedCells DEF IInv, TypeOK, Grow

(* SWL, SWR, SDL and SDR tag the whole word: more than they store.         *)
LEMMA MergeGrows ==
    ASSUME IInv, NEW a \in Address, NEW n \in Nat, AllAccessible(a, n), n <= AddrSpace,
           written' = written \union Reached(a, n), NEW m \in 1 .. n,
           \/ stored' = stored \union Reached(a, m)
           \/ stored' = stored \union Reached(Shift(a, n - m), m)
    PROVE  Grow
<1> USE MemoryAssumption
<1>1. Reached(a, n) = { Resolve(Shift(a, i)) : i \in 0 .. n - 1 }
  BY DEF Reached, AllAccessible
<1>2. Reached(a, m) \subseteq Reached(a, n)
  BY <1>1 DEF Reached
<1>3. Reached(Shift(a, n - m), m) \subseteq Reached(a, n)
  <2> SUFFICES ASSUME NEW i \in 0 .. m - 1
               PROVE  Resolve(Shift(Shift(a, n - m), i)) \in Reached(a, n)
    BY DEF Reached
  <2>1. Shift(Shift(a, n - m), i) = Shift(a, n - m + i)
    BY DEF Shift, Address
  <2>2. n - m + i \in 0 .. n - 1
    OBVIOUS
  <2> QED BY <1>1, <2>1, <2>2
<1> QED
  BY <1>2, <1>3, ReachedCells DEF IInv, TypeOK, Grow

-----------------------------------------------------------------------------
(* Every step keeps the invariant.                                         *)

LEMMA LoadKeepsIInv ==
    ASSUME IInv, NEW a \in Address, NEW n \in Nat, Load(a, n)
    PROVE  IInv'
<1>1. Fetched /\ status = "running" /\ Next4 \in Address /\ Grow
  BY FetchedFacts DEF Load, Grow, IInv, TypeOK, tags
<1>2. CASE AllAccessible(a, n) /\ Retire(Next4) /\ UNCHANGED found
  BY <1>1, <1>2, RetireKeepsIInv
<1>3. CASE Stop(AfterListing(pc))
  BY <1>1, <1>3, StopKeepsIInv, AfterListingFacts
<1> QED BY <1>2, <1>3 DEF Load

LEMMA StoreKeepsIInv ==
    ASSUME IInv, NEW a \in Address, NEW n \in Nat, Store(a, n)
    PROVE  IInv'
<1>1. Fetched /\ status = "running" /\ Next4 \in Address /\ Grow
  BY FetchedFacts, StoreGrows DEF Store
<1>2. CASE AllAccessible(a, n) /\ Retire(Next4) /\ UNCHANGED found
  BY <1>1, <1>2, RetireKeepsIInv
<1>3. CASE Stop(AfterListing(pc))
  BY <1>1, <1>3, StopKeepsIInv, AfterListingFacts
<1> QED BY <1>2, <1>3 DEF Store

LEMMA MergeStoreKeepsIInv ==
    ASSUME IInv, NEW a \in Address, NEW n \in Nat, n <= AddrSpace, MergeStore(a, n)
    PROVE  IInv'
<1>1. Fetched /\ status = "running" /\ Next4 \in Address
  BY FetchedFacts DEF MergeStore
<1>2. CASE /\ AllAccessible(a, n)
           /\ written' = written \union Reached(a, n)
           /\ \E m \in 1 .. n :
                 \/ stored' = stored \union Reached(a, m)
                 \/ stored' = stored \union Reached(Shift(a, n - m), m)
           /\ Retire(Next4)
           /\ UNCHANGED found
  BY <1>1, <1>2, MergeGrows, RetireKeepsIInv
<1>3. CASE Stop(AfterListing(pc)) /\ UNCHANGED tags
  <2>1. Grow
    BY <1>3 DEF Grow, IInv, TypeOK, tags
  <2> QED BY <1>1, <1>3, <2>1, StopKeepsIInv, AfterListingFacts
<1> QED BY <1>2, <1>3 DEF MergeStore

(* The invariant is inductive.                                             *)
LEMMA NextKeepsIInv ==
    ASSUME IInv, [Next]_vars
    PROVE  IInv'
<1>1. UNCHANGED tags => Grow
  BY DEF Grow, IInv, TypeOK, tags
<1>2. CASE FetchFault
  BY <1>1, <1>2, StopKeepsIInv, AfterListingFacts DEF FetchFault, AboutToExec
<1>3. CASE RegisterOp
  BY <1>1, <1>3, FetchedFacts, RetireKeepsIInv DEF RegisterOp, tags
<1>4. CASE DivideTrap
  BY <1>1, <1>4, FetchedFacts, StopKeepsIInv DEF DivideTrap
<1>5. CASE \E s \in Spans : Load(s[1], s[2]) \/ Store(s[1], s[2])
  BY <1>5, SpanTypes, LoadKeepsIInv, StoreKeepsIInv
<1>6. CASE \E s \in Merges : MergeStore(s[1], s[2])
  BY <1>6, SpanTypes, MergeStoreKeepsIInv
<1>7. CASE Jump \/ JumpRegister \/ Branch
  BY <1>7, doBranchKeepsIInv DEF Jump, JumpRegister, Branch, JumpTargets, BranchTargets
<1>8. CASE BranchLikelyNotTaken
  <2>1. Fetched /\ Next4 \in Address
    BY <1>8, FetchedFacts DEF BranchLikelyNotTaken
  <2>2. Shift(Next4, InsnBytes) \in Address
    BY <2>1, ShiftType, MemoryAssumption, InterpreterAssumption
  <2> QED BY <1>1, <1>8, <2>1, <2>2, RetireKeepsIInv DEF BranchLikelyNotTaken, tags
<1>9. CASE \E a0 \in Address : ExecPS2(a0)
  BY <1>1, <1>9, FetchedFacts, RetireKeepsIInv DEF ExecPS2
<1>10. CASE Unsupported
  BY <1>1, <1>10, FetchedFacts, StopKeepsIInv, AfterListingFacts DEF Unsupported
<1>11. CASE Break
  <2>1. AllAccessible(pc, InsnBytes) /\ status = "running"
    BY <1>11, FetchedFacts DEF Break, Fetched
  <2> QED BY <1>1, <1>11, <2>1, StopKeepsIInv DEF Break
<1>12. CASE Return
  BY <1>12, ReturnKeepsIInv
<1>13. CASE ReturnFault
  BY <1>1, <1>13, StopKeepsIInv DEF ReturnFault
<1>14. CASE UNCHANGED vars
  <2>1. pc' = pc /\ UNCHANGED <<branchPC, depth, at, bounce_pc, hit, status, written, stored>>
    BY <1>14 DEF vars, flow, found, tags
  <2>2. TypeOK' /\ StackOnMemory' /\ SlotsBeforeEntry' /\ stored' \subseteq written'
    BY <2>1 DEF IInv, TypeOK, StackOnMemory, SlotsBeforeEntry
  <2>3. EntryIsTarget' /\ ExitedInsideMemory'
    BY <2>1 DEF IInv, EntryIsTarget, ExitedInsideMemory
  <2> QED BY <2>2, <2>3 DEF IInv
<1> QED
  BY <1>2, <1>3, <1>4, <1>5, <1>6, <1>7, <1>8, <1>9, <1>10, <1>11, <1>12, <1>13, <1>14
     DEF Next, Step, Finished

(* The invariant holds throughout every run.                               *)
THEOREM Invariance == Spec => []IInv
<1>1. Init => IInv
  BY InitIInv
<1>2. IInv /\ [Next]_vars => IInv'
  BY NextKeepsIInv
<1> QED BY <1>1, <1>2, PTL DEF Spec

-----------------------------------------------------------------------------
(* The properties.                                                         *)

(* Every variable stays in its type, however addresses wrap. *)
THEOREM TypeCorrect == Spec => []TypeOK
<1>1. IInv => TypeOK
  BY DEF IInv
<1> QED BY <1>1, Invariance, PTL

(* However branches nest in delay slots, doBranch's activations are no     *)
(* more than the instructions memory can hold.                             *)
THEOREM RecursionBounded == Spec => []DepthBounded
<1>1. IInv => DepthBounded
  <2> SUFFICES ASSUME IInv PROVE DepthBounded
    OBVIOUS
  <2> USE MemoryAssumption, InterpreterAssumption
  <2>1. depth \in Nat /\ pc \in Address /\ at \in {"exec", "unwind"}
    BY DEF IInv, TypeOK
  <2>2. CASE depth = 0
    BY <2>2 DEF DepthBounded
  <2>3. CASE at = "exec" /\ depth > 0
    <3>1. PICK base \in Region : base + depth * InsnBytes <= pc /\ pc <= base + MemSize
      BY <2>3 DEF IInv, StackOnMemory
    <3>2. depth * InsnBytes \in Nat /\ base \in Nat /\ pc \in Nat
      BY <2>1 DEF Region, Address
    <3> QED BY <3>1, <3>2 DEF DepthBounded
  <2>4. CASE at = "unwind"
    BY <2>4 DEF IInv, StackOnMemory, DepthBounded
  <2> QED BY <2>1, <2>2, <2>3, <2>4
<1> QED BY <1>1, Invariance, PTL

(* No instruction runs once an entry point is known. *)
THEOREM StopsAtOnceAlways == Spec => []StopsAtOnce
<1>1. IInv => StopsAtOnce
  BY DEF IInv, SlotsBeforeEntry, StopsAtOnce, AboutToExec
<1> QED BY <1>1, Invariance, PTL

(* A reported branch to written memory is where the machine stands. *)
THEOREM HitExplainedAlways == Spec => []HitExplained
<1>1. IInv => HitExplained
  BY DEF IInv, EntryIsTarget, HitExplained, LoopDone
<1> QED BY <1>1, Invariance, PTL

(* exit(-1) is only reached while pc is inside memory. *)
THEOREM ExitedInsideMemoryAlways == Spec => []ExitedInsideMemory
<1>1. IInv => ExitedInsideMemory
  BY DEF IInv
<1> QED BY <1>1, Invariance, PTL

(* The invariant that makes the stored bytes tagged turns a jump to one of *)
(* them into an entry point: only the outermost doBranch's return counts.  *)
THEOREM StoredTargetStopsAlways == Spec => StoredTargetStops
<1> DEFINE Stops == depth = 1 /\ depth' = 0 /\ branchPC \in stored
                        => bounce_pc' = branchPC /\ pc' = branchPC /\ hit' = "branch"
<1>1. IInv /\ [Next]_vars => [Stops]_vars
  <2> SUFFICES ASSUME IInv, [Next]_vars, depth = 1, depth' = 0, branchPC \in stored
               PROVE  bounce_pc' = branchPC /\ pc' = branchPC /\ hit' = "branch"
    OBVIOUS
  <2>1. Return
    BY DEF Next, Step, Finished, vars, flow, FetchFault, RegisterOp, DivideTrap, Load,
           Store, MergeStore, Jump, JumpRegister, Branch, BranchLikelyNotTaken, ExecPS2,
           Unsupported, Break, ReturnFault, Retire, Stop, doBranch
  <2>2. branchPC \in Cell /\ branchPC \in written
    BY DEF IInv, TypeOK
  <2> QED BY <2>1, <2>2 DEF Return, HasWrite
<1> QED BY <1>1, Invariance, PTL DEF Spec, StoredTargetStops

-----------------------------------------------------------------------------
(* The core implements EntrySearch.                                        *)

(* The search begins where the emulation begins.                           *)
LEMMA SearchInit == Init => Search!Init
BY DEF Init, Search!Init, Search!Address, Address

(* A handler that returns is one instruction of the search.                *)
LEMMA RetireSearches ==
    ASSUME IInv, Fetched, Grow, Retire(Next4) \/ Retire(Shift(Next4, InsnBytes)),
           UNCHANGED found
    PROVE  Search!Next
<1>1. bounce_pc = 0 /\ status = "running"
  BY FetchedFacts
<1>2. written' = written \union written' /\ written' \in SUBSET Cell
  BY DEF Grow
<1> QED
  BY <1>1, <1>2 DEF Search!Next, Search!Advance, Search!Shift, Search!Cell, Cell, Shift,
                    Next4, Retire, found

(* A step that ends the process is the end of the search.                  *)
LEMMA StopSearches ==
    ASSUME IInv, Grow, status = "running", NEW s \in {"exited", "crashed"}, Stop(s),
           bounce_pc = 0 \/ UNCHANGED tags
    PROVE  Search!Next
<1>1. pc' = pc /\ bounce_pc' = bounce_pc /\ status' # "running"
  BY DEF Stop, found
<1>2. written' = written \union (IF bounce_pc = 0 THEN written' ELSE {})
  BY DEF Grow, tags
<1>3. written' \in SUBSET Cell
  BY DEF Grow
<1> QED
  BY <1>1, <1>2, <1>3 DEF Search!Next, Search!Die, Search!Cell, Cell

LEMMA NextSearches ==
    ASSUME IInv, [Next]_vars
    PROVE  [Search!Next]_(Search!vars)
<1>1. UNCHANGED tags => Grow
  BY DEF Grow, IInv, TypeOK, tags
<1>2. Fetched => bounce_pc = 0 /\ status = "running"
  BY FetchedFacts
<1>3. CASE FetchFault
  BY <1>1, <1>3, StopSearches, AfterListingFacts DEF FetchFault, AboutToExec
<1>4. CASE RegisterOp
  BY <1>1, <1>4, RetireSearches DEF RegisterOp, found
<1>5. CASE DivideTrap
  BY <1>1, <1>2, <1>5, StopSearches DEF DivideTrap
<1>6. ASSUME NEW s \in Spans, Load(s[1], s[2]) PROVE Search!Next
  BY <1>1, <1>2, <1>6, RetireSearches, StopSearches, AfterListingFacts DEF Load
<1>7. ASSUME NEW s \in Spans, Store(s[1], s[2]) PROVE Search!Next
  <2>1. Grow
    BY <1>7, SpanTypes, StoreGrows DEF Store
  <2> QED
    BY <1>2, <1>7, <2>1, RetireSearches, StopSearches, AfterListingFacts DEF Store
<1>8. ASSUME NEW s \in Merges, MergeStore(s[1], s[2]) PROVE Search!Next
  <2>1. Grow
    BY <1>1, <1>8, SpanTypes, MergeGrows DEF MergeStore
  <2> QED
    BY <1>2, <1>8, <2>1, RetireSearches, StopSearches, AfterListingFacts DEF MergeStore
<1>9. CASE Jump \/ JumpRegister \/ Branch
  <2>1. Fetched /\ pc' = Next4 /\ UNCHANGED <<bounce_pc, status, written>>
    BY <1>9 DEF Jump, JumpRegister, Branch, doBranch, found, tags
  <2>2. written' = written \union {} /\ {} \in SUBSET Search!Cell
    BY <2>1
  <2> QED
    BY <1>2, <2>1, <2>2 DEF Search!Next, Search!Advance, Search!Shift, Shift, Next4
<1>10. CASE BranchLikelyNotTaken
  BY <1>1, <1>10, RetireSearches DEF BranchLikelyNotTaken, found
<1>11. CASE \E a0 \in Address : ExecPS2(a0)
  BY <1>2, <1>11 DEF ExecPS2, Retire, tags, Next4, Shift, Address,
                    Search!Next, Search!Announce, Search!Shift, Search!Address
<1>12. CASE Unsupported
  BY <1>1, <1>2, <1>12, StopSearches, AfterListingFacts DEF Unsupported
<1>13. CASE Break
  BY <1>1, <1>2, <1>13, StopSearches DEF Break
<1>14. CASE Return
  <2>1. branchPC \in Address /\ written \subseteq Cell
    BY DEF IInv, TypeOK
  <2>2. /\ status = "running" /\ pc' = branchPC /\ UNCHANGED <<status, written>>
        /\ \/ TRUE \in HasWrite(written, branchPC) /\ bounce_pc' = branchPC
           \/ FALSE \in HasWrite(written, branchPC) /\ bounce_pc' = bounce_pc
    BY <1>14 DEF Return, found, tags
  <2>3. CASE TRUE \in HasWrite(written, branchPC) /\ bounce_pc' = branchPC
    <3>1. Search!LooksWritten(branchPC)
      BY <2>3 DEF HasWrite, Search!LooksWritten, Search!Cell, Cell
    <3>2. Search!Arrive(branchPC)
      BY <2>2, <2>3, <3>1 DEF Search!Arrive
    <3> QED BY <2>1, <3>2 DEF Search!Next, Search!Address, Address
  <2>4. CASE FALSE \in HasWrite(written, branchPC) /\ bounce_pc' = bounce_pc
    <3>1. branchPC \notin written
      BY <2>1, <2>4 DEF HasWrite
    <3>2. Search!Pass(branchPC)
      BY <2>2, <2>4, <3>1 DEF Search!Pass
    <3> QED BY <2>1, <3>2 DEF Search!Next, Search!Address, Address
  <2> QED BY <2>2, <2>3, <2>4
<1>15. CASE ReturnFault
  BY <1>1, <1>15, StopSearches DEF ReturnFault
<1>16. CASE UNCHANGED vars
  BY <1>16 DEF vars, found, tags, Search!vars
<1> QED
  BY <1>3, <1>4, <1>5, <1>6, <1>7, <1>8, <1>9, <1>10, <1>11, <1>12, <1>13, <1>14, <1>15,
     <1>16
     DEF Next, Step, Finished

(* Delay slots, nested branches and the host stack only implement the      *)
(* search that EntrySearch states: follow the program until ExecPS2 or a   *)
(* jump to written memory, then change nothing.                            *)
THEOREM ImplementsSearch == Spec => SearchSpec
<1>1. Init => Search!Init
  BY SearchInit
<1>2. IInv /\ [Next]_vars => [Search!Next]_(Search!vars)
  BY NextSearches
<1> QED BY <1>1, <1>2, Invariance, PTL DEF Spec, SearchSpec, Search!Spec
=============================================================================
