-------------------------- MODULE DumpBoundsProofs --------------------------
(***************************************************************************)
(* Proofs about the search for the dump's bounds, for every memory, every  *)
(* tagging and every entry point: which bytes are sure to be dumped, and   *)
(* that nothing outside the block is but the padding.                      *)
(***************************************************************************)
EXTENDS DumpBounds, TLAPS

(* u32 increments and decrements stay in the address space.                *)
LEMMA StepType ==
    ASSUME NEW a \in Address
    PROVE  Shift(a, 1) \in Address /\ Shift(a, -1) \in Address
BY MemoryAssumption DEF Address, Shift

(* Rounding down never goes up, nor down by a whole alignment.             *)
LEMMA AlignDownBounds ==
    ASSUME NEW a \in Nat
    PROVE  /\ AlignDown(a) \in Nat
           /\ AlignDown(a) <= a
           /\ a < AlignDown(a) + Align
<1>1. Align \in Nat \ {0}
  BY DumpBoundsAssumption
<1>2. a % Align \in 0 .. Align - 1
  BY <1>1
<1>3. a = Align * (a \div Align) + (a % Align)
  BY <1>1
<1>4. a \div Align \in Nat
  BY <1>1
<1>5. Align * (a \div Align) \in Nat
  BY <1>1, <1>4
<1> QED
  BY <1>1, <1>2, <1>3, <1>5 DEF AlignDown

-----------------------------------------------------------------------------
(* The inductive invariant.  Sound runs start at an entry point in memory  *)
(* and have read inside the arrays only.                                   *)

Sound == bounce_pc \in Cell /\ ~stray

(* Which option each part of the search depends on.                        *)
Options ==
    /\ scan = "lo_start" => lo_base = opt_lo
    /\ scan \in {"lo_down", "lo_skip", "lo_align"} => opt_lo = 0
    /\ scan \in {"lo_start", "lo_down", "lo_skip", "lo_align", "hi_start"} => hi_base = opt_hi
    /\ scan \in {"hi_up", "hi_trim"} => opt_hi = 0

(* Between the low address and the entry point everything is written,      *)
(* except for the padding once the address is aligned.                     *)
LowInBlock ==
    /\ scan \in {"lo_down", "lo_skip", "lo_align"} =>
          \A b \in Cell : lo_base <= b /\ b < bounce_pc => b \in written
    /\ scan \in {"hi_start", "hi_up", "hi_trim", "done"} /\ opt_lo = 0 =>
          \A b \in Cell : lo_base + Align <= b /\ b < bounce_pc => b \in written
    /\ scan = "lo_down" => lo_base <= bounce_pc

(* The upward zero scan leaves only zeros of the block behind.             *)
LowKeeps ==
    scan \in {"lo_skip", "lo_align", "hi_start", "hi_up", "hi_trim", "done"} /\ opt_lo = 0 =>
        \A c \in Cell : InBlock(c) /\ c < lo_base => memory[c] = 0

HighInBlock ==
    /\ scan = "hi_up" => /\ bounce_pc <= hi_base /\ hi_base < MemSize
                         /\ \A b \in Cell : bounce_pc < b /\ b <= hi_base => b \in written
    /\ scan \in {"hi_trim", "done"} /\ opt_hi = 0 =>
          /\ hi_base < MemSize
          /\ \A b \in Cell : bounce_pc < b /\ b < hi_base => b \in written

(* The downward zero scan leaves zeros behind, and the block's last byte.  *)
HighKeeps ==
    scan \in {"hi_trim", "done"} /\ opt_hi = 0 =>
        \A c \in Cell : InBlock(c) /\ InBlock(c + 1) /\ hi_base <= c => memory[c] = 0

IInv ==
    /\ TypeOK
    /\ Options
    /\ Sound => LowInBlock /\ LowKeeps /\ HighInBlock /\ HighKeeps

(* The invariant holds initially.                                          *)
LEMMA InitIInv == Init => IInv
BY DEF Init, IInv, TypeOK, Options, LowInBlock, LowKeeps, HighInBlock, HighKeeps, Scans

(* Only the two addresses, the place in main and the history move.         *)
LEMMA GivenKept ==
    ASSUME UNCHANGED given
    PROVE  /\ UNCHANGED <<memory, written, bounce_pc, opt_lo, opt_hi>>
           /\ \A c : InBlock(c)' <=> InBlock(c)
BY DEF given, InBlock

(* A sound step reads inside the arrays.                                   *)
LEMMA SoundSteps ==
    ASSUME NEW a, Noted(a), bounce_pc' = bounce_pc, Sound'
    PROVE  Sound /\ a \in Cell
BY DEF Noted, Sound

(* A decrement that ends in a cell, or an increment from one, has not      *)
(* wrapped.                                                                *)
LEMMA StepInCell ==
    ASSUME NEW a \in Address
    PROVE  /\ Shift(a, -1) \in Cell => Shift(a, -1) = a - 1
           /\ a \in Cell => Shift(a, 1) = a + 1
BY MemoryAssumption DEF Address, Cell, Shift

-----------------------------------------------------------------------------
(* Every step keeps it.                                                    *)

LEMMA LowStartKeepsIInv ==
    ASSUME IInv, LowStart
    PROVE  IInv'
<1> USE GivenKept DEF LowStart
<1>1. TypeOK' /\ Options'
  BY DEF IInv, TypeOK, Options, Scans
<1>2. ASSUME Sound'
      PROVE  LowInBlock' /\ LowKeeps' /\ HighInBlock' /\ HighKeeps'
  <2>1. CASE lo_base = 0 /\ lo_base' = bounce_pc /\ scan' = "lo_down"
    BY <1>2, <2>1 DEF IInv, TypeOK, LowInBlock, LowKeeps, HighInBlock, HighKeeps, Address, Cell
  <2>2. CASE lo_base # 0 /\ scan' = "hi_start" /\ UNCHANGED lo_base
    <3>1. opt_lo' # 0
      BY <2>2 DEF IInv, Options
    <3> QED BY <2>2, <3>1 DEF LowInBlock, LowKeeps, HighInBlock, HighKeeps
  <2> QED BY <2>1, <2>2
<1> QED BY <1>1, <1>2 DEF IInv

LEMMA LowDownKeepsIInv ==
    ASSUME IInv, LowDown
    PROVE  IInv'
<1> DEFINE below == Shift(lo_base, -1)
<1>1. /\ scan = "lo_down" /\ lo_base \in Address /\ below \in Address /\ UNCHANGED given
      /\ UNCHANGED hi_base /\ Noted(below)
      /\ \/ TRUE \in HasWrite(written, below) /\ lo_base' = below /\ scan' = scan
         \/ FALSE \in HasWrite(written, below) /\ scan' = "lo_skip" /\ lo_base' = lo_base
  BY StepType DEF IInv, TypeOK, LowDown
<1> HIDE DEF below
<1>2. TypeOK' /\ Options'
  BY <1>1, GivenKept DEF IInv, TypeOK, Options, Scans, Noted
<1>3. ASSUME Sound'
      PROVE  LowInBlock' /\ LowKeeps' /\ HighInBlock' /\ HighKeeps'
  <2>1. Sound /\ below \in Cell /\ below = lo_base - 1
    BY <1>1, <1>3, GivenKept, SoundSteps, StepInCell DEF below
  <2>2. LowInBlock /\ bounce_pc \in Cell
    BY <2>1 DEF IInv, Sound
  <2>3. CASE TRUE \in HasWrite(written, below) /\ lo_base' = below /\ scan' = scan
    <3>1. below \in written
      BY <2>1, <2>3 DEF HasWrite
    <3>2. LowInBlock'
      BY <1>1, <2>1, <2>2, <2>3, <3>1, GivenKept DEF LowInBlock, Address, Cell
    <3> QED
      BY <1>1, <2>3, <3>2 DEF LowKeeps, HighInBlock, HighKeeps
  <2>4. CASE FALSE \in HasWrite(written, below) /\ scan' = "lo_skip" /\ lo_base' = lo_base
    <3>1. below \notin written
      BY <2>1, <2>4 DEF HasWrite
    <3>2. LowInBlock'
      BY <1>1, <2>2, <2>4, GivenKept DEF LowInBlock
    <3>3. \A c \in Cell : c < lo_base => ~InBlock(c)
      BY <1>1, <2>1, <2>2, <3>1 DEF LowInBlock, InBlock, Address, Cell
    <3>4. LowKeeps'
      BY <2>4, <3>3, GivenKept, <1>1 DEF LowKeeps
    <3> QED
      BY <2>4, <3>2, <3>4 DEF HighInBlock, HighKeeps
  <2> QED BY <1>1, <2>3, <2>4
<1> QED BY <1>2, <1>3 DEF IInv

LEMMA LowSkipKeepsIInv ==
    ASSUME IInv, LowSkip
    PROVE  IInv'
<1>1. /\ scan = "lo_skip" /\ lo_base \in Address /\ UNCHANGED given /\ UNCHANGED hi_base
      /\ Noted(lo_base)
      /\ \/ TRUE \in IsZero(lo_base) /\ lo_base' = Shift(lo_base, 1) /\ scan' = scan
         \/ FALSE \in IsZero(lo_base) /\ scan' = "lo_align" /\ lo_base' = lo_base
  BY DEF IInv, TypeOK, LowSkip
<1>2. TypeOK' /\ Options'
  BY <1>1, StepType, GivenKept DEF IInv, TypeOK, Options, Scans, Noted
<1>3. ASSUME Sound'
      PROVE  LowInBlock' /\ LowKeeps' /\ HighInBlock' /\ HighKeeps'
  <2>1. Sound /\ lo_base \in Cell /\ Shift(lo_base, 1) = lo_base + 1
    BY <1>1, <1>3, GivenKept, SoundSteps, StepInCell
  <2>2. LowInBlock /\ LowKeeps /\ opt_lo = 0
    BY <1>1, <2>1 DEF IInv, Options
  <2>3. CASE TRUE \in IsZero(lo_base) /\ lo_base' = Shift(lo_base, 1) /\ scan' = scan
    <3>1. memory[lo_base] = 0
      BY <2>1, <2>3 DEF IsZero
    <3>2. LowInBlock' /\ LowKeeps'
      BY <1>1, <2>1, <2>2, <2>3, <3>1, GivenKept DEF LowInBlock, LowKeeps, Cell
    <3> QED BY <1>1, <2>3, <3>2 DEF HighInBlock, HighKeeps
  <2>4. CASE FALSE \in IsZero(lo_base) /\ scan' = "lo_align" /\ lo_base' = lo_base
    BY <1>1, <2>2, <2>4, GivenKept DEF LowInBlock, LowKeeps, HighInBlock, HighKeeps
  <2> QED BY <1>1, <2>3, <2>4
<1> QED BY <1>2, <1>3 DEF IInv

LEMMA LowAlignKeepsIInv ==
    ASSUME IInv, LowAlign
    PROVE  IInv'
<1>1. /\ scan = "lo_align" /\ scan' = "hi_start" /\ lo_base \in Address /\ opt_lo = 0
      /\ UNCHANGED given /\ UNCHANGED <<hi_base, stray>>
      /\ lo_base' = AlignDown(lo_base)
  BY DEF IInv, TypeOK, Options, LowAlign
<1>2. lo_base' \in Nat /\ lo_base' <= lo_base /\ lo_base < lo_base' + Align
  BY <1>1, AlignDownBounds, MemoryAssumption DEF Address
<1>3. TypeOK' /\ Options'
  <2>1. lo_base' \in Address
    BY <1>1, <1>2, MemoryAssumption DEF Address
  <2> QED BY <1>1, <2>1, GivenKept DEF IInv, TypeOK, Options, Scans
<1>4. ASSUME Sound'
      PROVE  LowInBlock' /\ LowKeeps' /\ HighInBlock' /\ HighKeeps'
  <2>1. Sound
    BY <1>1, <1>4, GivenKept DEF Sound
  <2>2. LowInBlock /\ LowKeeps
    BY <2>1 DEF IInv
  <2>3. LowInBlock'
    <3>1. \A b \in Cell : lo_base' + Align <= b => lo_base <= b
      BY <1>1, <1>2, DumpBoundsAssumption DEF Cell, Address
    <3> QED BY <1>1, <2>2, <3>1, GivenKept DEF LowInBlock
  <2>4. LowKeeps'
    <3>1. \A c \in Cell : c < lo_base' => c < lo_base
      BY <1>1, <1>2 DEF Cell, Address
    <3> QED BY <1>1, <2>2, <3>1, GivenKept DEF LowKeeps
  <2> QED BY <1>1, <2>3, <2>4 DEF HighInBlock, HighKeeps
<1> QED BY <1>3, <1>4 DEF IInv

LEMMA HighStartKeepsIInv ==
    ASSUME IInv, HighStart
    PROVE  IInv'
<1>1. /\ scan = "hi_start" /\ UNCHANGED given /\ UNCHANGED <<lo_base, stray>>
      /\ \/ hi_base = 0 /\ hi_base' = bounce_pc /\ scan' = "hi_up"
         \/ hi_base # 0 /\ scan' = "done" /\ hi_base' = hi_base
  BY DEF HighStart
<1>2. TypeOK' /\ Options' /\ (scan' = "done" => opt_hi # 0)
  BY <1>1, GivenKept DEF IInv, TypeOK, Options, Scans
<1>3. ASSUME Sound'
      PROVE  LowInBlock' /\ LowKeeps' /\ HighInBlock' /\ HighKeeps'
  <2>1. Sound /\ LowInBlock /\ LowKeeps
    BY <1>1, <1>3, GivenKept DEF Sound, IInv
  <2>2. LowInBlock' /\ LowKeeps'
    BY <1>1, <2>1, GivenKept DEF LowInBlock, LowKeeps
  <2>3. HighInBlock' /\ HighKeeps'
    BY <1>1, <1>2, <2>1, GivenKept, MemoryAssumption
       DEF Sound, HighInBlock, HighKeeps, Cell
  <2> QED BY <2>2, <2>3
<1> QED BY <1>2, <1>3 DEF IInv

LEMMA HighUpKeepsIInv ==
    ASSUME IInv, HighUp
    PROVE  IInv'
<1> DEFINE above == Shift(hi_base, 1)
<1>1. /\ scan = "hi_up" /\ hi_base \in Address /\ above \in Address /\ UNCHANGED given
      /\ UNCHANGED lo_base /\ Noted(above)
      /\ \/ TRUE \in HasWrite(written, above) /\ hi_base' = above /\ scan' = scan
         \/ FALSE \in HasWrite(written, above) /\ scan' = "hi_trim" /\ hi_base' = hi_base
  BY StepType DEF IInv, TypeOK, HighUp
<1> HIDE DEF above
<1>2. TypeOK' /\ Options'
  BY <1>1, GivenKept DEF IInv, TypeOK, Options, Scans, Noted
<1>3. ASSUME Sound'
      PROVE  LowInBlock' /\ LowKeeps' /\ HighInBlock' /\ HighKeeps'
  <2>1. Sound /\ above \in Cell
    BY <1>1, <1>3, GivenKept, SoundSteps
  <2>2. LowInBlock /\ LowKeeps /\ HighInBlock
    BY <2>1 DEF IInv
  <2>3. LowInBlock' /\ LowKeeps'
    BY <1>1, <2>2, GivenKept DEF LowInBlock, LowKeeps
  <2>4. bounce_pc <= hi_base /\ hi_base \in Cell /\ above = hi_base + 1
    BY <1>1, <2>2, StepInCell, MemoryAssumption DEF HighInBlock, Cell, Address, above
  <2>5. \A b \in Cell : bounce_pc < b /\ b <= hi_base => b \in written
    BY <1>1, <2>2 DEF HighInBlock
  <2>6. CASE TRUE \in HasWrite(written, above) /\ hi_base' = above /\ scan' = scan
    <3>1. above \in written
      BY <2>1, <2>6 DEF HasWrite
    <3>2. HighInBlock'
      BY <1>1, <2>1, <2>4, <2>5, <2>6, <3>1, GivenKept, MemoryAssumption
         DEF HighInBlock, Cell, Sound
    <3> QED BY <1>1, <2>3, <2>6, <3>2 DEF HighKeeps
  <2>7. CASE FALSE \in HasWrite(written, above) /\ scan' = "hi_trim" /\ hi_base' = hi_base
    <3>1. above \notin written
      BY <2>1, <2>7 DEF HasWrite
    <3>2. HighInBlock'
      BY <1>1, <2>4, <2>5, <2>7, GivenKept, MemoryAssumption DEF HighInBlock, Cell
    <3>3. \A c \in Cell : hi_base <= c => ~InBlock(c + 1)
      BY <2>1, <2>4, <3>1 DEF InBlock, Cell, Sound
    <3>4. HighKeeps'
      BY <1>1, <2>7, <3>3, GivenKept DEF HighKeeps
    <3> QED BY <2>3, <3>2, <3>4
  <2> QED BY <1>1, <2>6, <2>7
<1> QED BY <1>2, <1>3 DEF IInv

LEMMA HighTrimKeepsIInv ==
    ASSUME IInv, HighTrim
    PROVE  IInv'
<1> DEFINE below == Shift(hi_base, -1)
<1>1. /\ scan = "hi_trim" /\ hi_base \in Address /\ below \in Address /\ UNCHANGED given
      /\ UNCHANGED lo_base /\ Noted(below)
      /\ \/ TRUE \in IsZero(below) /\ hi_base' = below /\ scan' = scan
         \/ FALSE \in IsZero(below) /\ scan' = "done" /\ hi_base' = hi_base
  BY StepType DEF IInv, TypeOK, HighTrim
<1> HIDE DEF below
<1>2. TypeOK' /\ Options'
  BY <1>1, GivenKept DEF IInv, TypeOK, Options, Scans, Noted
<1>3. ASSUME Sound'
      PROVE  LowInBlock' /\ LowKeeps' /\ HighInBlock' /\ HighKeeps'
  <2>1. Sound /\ below \in Cell /\ below = hi_base - 1
    BY <1>1, <1>3, GivenKept, SoundSteps, StepInCell DEF below
  <2>2. LowInBlock /\ LowKeeps /\ HighInBlock /\ HighKeeps /\ opt_hi = 0
    BY <1>1, <2>1 DEF IInv, Options
  <2>3. LowInBlock' /\ LowKeeps'
    BY <1>1, <2>2, GivenKept DEF LowInBlock, LowKeeps
  <2>4. CASE TRUE \in IsZero(below) /\ hi_base' = below /\ scan' = scan
    <3>1. memory[below] = 0
      BY <2>1, <2>4 DEF IsZero
    <3>2. HighInBlock'
      BY <1>1, <2>1, <2>2, <2>4, GivenKept, MemoryAssumption DEF HighInBlock, Cell, Address
    <3>3. \A c \in Cell : below <= c => c = below \/ hi_base <= c
      BY <1>1, <2>1 DEF Cell, Address
    <3>4. HighKeeps'
      BY <1>1, <2>2, <2>4, <3>1, <3>3, GivenKept DEF HighKeeps
    <3> QED BY <2>3, <3>2, <3>4
  <2>5. CASE FALSE \in IsZero(below) /\ scan' = "done" /\ hi_base' = hi_base
    BY <1>1, <2>2, <2>3, <2>5, GivenKept DEF HighInBlock, HighKeeps
  <2> QED BY <1>1, <2>4, <2>5
<1> QED BY <1>2, <1>3 DEF IInv

(* A fault, or a step that changes nothing.                                *)
LEMMA OtherKeepsIInv ==
    ASSUME IInv, ProbeFault \/ UNCHANGED vars
    PROVE  IInv'
<1>1. CASE ProbeFault
  BY <1>1, GivenKept DEF IInv, TypeOK, Options, Sound, Scans, ProbeFault
<1>2. CASE UNCHANGED vars
  <2>1. UNCHANGED given /\ UNCHANGED <<lo_base, hi_base, scan, stray>>
    BY <1>2 DEF vars
  <2>2. TypeOK' /\ Options' /\ (Sound' <=> Sound)
    BY <2>1, GivenKept DEF IInv, TypeOK, Options, Sound
  <2>3. LowInBlock /\ LowKeeps => LowInBlock' /\ LowKeeps'
    BY <2>1, GivenKept DEF LowInBlock, LowKeeps
  <2>4. HighInBlock /\ HighKeeps => HighInBlock' /\ HighKeeps'
    BY <2>1, GivenKept DEF HighInBlock, HighKeeps
  <2> QED BY <2>2, <2>3, <2>4 DEF IInv
<1> QED BY <1>1, <1>2

LEMMA NextKeepsIInv == IInv /\ [Next]_vars => IInv'
BY LowStartKeepsIInv, LowDownKeepsIInv, LowSkipKeepsIInv, LowAlignKeepsIInv,
   HighStartKeepsIInv, HighUpKeepsIInv, HighTrimKeepsIInv, OtherKeepsIInv
   DEF Next, Step, Finished

(* The invariant holds throughout every run.                               *)
THEOREM Invariance == Spec => []IInv
BY InitIInv, NextKeepsIInv, PTL DEF Spec

-----------------------------------------------------------------------------
(* The properties.                                                         *)

(* Every variable stays in its type: lo_base and hi_base wrap in u32. *)
THEOREM TypeCorrect == Spec => []TypeOK
<1>1. IInv => TypeOK
  BY DEF IInv
<1> QED BY <1>1, Invariance, PTL

LEMMA SettledFacts ==
    ASSUME IInv, Settled
    PROVE  /\ scan = "done" /\ LowInBlock /\ LowKeeps /\ HighInBlock /\ HighKeeps
           /\ bounce_pc \in Cell /\ lo_base \in Nat /\ hi_base \in Nat
BY DEF IInv, Settled, Sound, TypeOK, Address

(* Every non-zero byte of the block but its last one is dumped. *)
THEOREM NoNonZeroLostAlways == Spec => []NoNonZeroLost
<1>1. IInv => NoNonZeroLost
  <2> SUFFICES ASSUME IInv, NEW c \in Cell, Settled, memory[c] # 0, InBlock(c), InBlock(c + 1)
               PROVE  (opt_lo = 0 => lo_base <= c) /\ (opt_hi = 0 => c < hi_base)
    BY DEF NoNonZeroLost
  <2>1. opt_lo = 0 => ~(c < lo_base)
    BY SettledFacts DEF LowKeeps
  <2>2. opt_hi = 0 => ~(hi_base <= c)
    BY SettledFacts DEF HighKeeps
  <2> QED BY <2>1, <2>2, SettledFacts DEF Cell
<1> QED BY <1>1, Invariance, PTL

(* Nothing outside the block is dumped but the padding of the low address. *)
THEOREM NothingForeignAlways == Spec => []NothingForeign
<1>1. IInv => NothingForeign
  <2> SUFFICES ASSUME IInv, NEW c \in Cell, Settled, opt_lo = 0, opt_hi = 0,
                      lo_base + Align <= c, c < hi_base
               PROVE  InBlock(c)
    BY DEF NothingForeign
  <2>1. \A b \in Cell : c <= b /\ b < bounce_pc => b \in written
    <3>1. \A b \in Cell : c <= b => lo_base + Align <= b
      BY SettledFacts, DumpBoundsAssumption DEF Cell
    <3> QED BY <3>1, SettledFacts DEF LowInBlock
  <2>2. \A b \in Cell : bounce_pc < b /\ b <= c => b \in written
    <3>1. \A b \in Cell : b <= c => b < hi_base
      BY SettledFacts DEF Cell
    <3> QED BY <3>1, SettledFacts DEF HighInBlock
  <2> QED BY <2>1, <2>2 DEF InBlock
<1> QED BY <1>1, Invariance, PTL

-----------------------------------------------------------------------------
(* Blocks inside memory.                                                   *)

(* From such a block every loop's next read is inside the arrays: the      *)
(* scans over the tags stop at its ends, and those over zeros meet its     *)
(* non-zero byte.                                                          *)
LEMMA ContainedProbes ==
    ASSUME IInv, Contained, ~stray
    PROVE  /\ scan = "lo_down" => Shift(lo_base, -1) \in Cell
           /\ scan = "lo_skip" => lo_base \in Cell
           /\ scan = "hi_up"   => Shift(hi_base, 1) \in Cell
           /\ scan = "hi_trim" => Shift(hi_base, -1) \in Cell
<1>1. /\ LowInBlock /\ LowKeeps /\ HighInBlock /\ HighKeeps
      /\ bounce_pc \in Cell /\ lo_base \in Address /\ hi_base \in Address
  BY DEF IInv, Sound, Contained, TypeOK
<1>2. PICK c \in Cell : memory[c] # 0 /\ InBlock(c) /\ InBlock(c + 1)
  BY DEF Contained
<1>3. ASSUME scan = "lo_down"
      PROVE  Shift(lo_base, -1) \in Cell
  <2>1. lo_base # 0
    <3> SUFFICES ASSUME lo_base = 0 PROVE FALSE
      OBVIOUS
    <3>1. InBlock(0)
      BY <1>1, <1>3, MemoryAssumption DEF LowInBlock, InBlock, Cell
    <3>2. opt_lo = 0
      BY <1>3 DEF IInv, Options
    <3> QED BY <3>1, <3>2 DEF Contained
  <2>2. lo_base <= bounce_pc
    BY <1>1, <1>3 DEF LowInBlock
  <2> QED BY <1>1, <2>1, <2>2, MemoryAssumption DEF Shift, Cell, Address
<1>4. ASSUME scan = "lo_skip"
      PROVE  lo_base \in Cell
  <2>1. opt_lo = 0
    BY <1>4 DEF IInv, Options
  <2>2. ~(c < lo_base)
    BY <1>1, <1>2, <1>4, <2>1 DEF LowKeeps
  <2> QED BY <1>1, <2>2, MemoryAssumption DEF Cell, Address
<1>5. ASSUME scan = "hi_up"
      PROVE  Shift(hi_base, 1) \in Cell
  <2>1. /\ bounce_pc <= hi_base /\ hi_base < MemSize
        /\ \A b \in Cell : bounce_pc < b /\ b <= hi_base => b \in written
    BY <1>1, <1>5 DEF HighInBlock
  <2>2. hi_base # MemSize - 1
    <3> SUFFICES ASSUME hi_base = MemSize - 1 PROVE FALSE
      OBVIOUS
    <3>1. InBlock(MemSize - 1)
      BY <1>1, <2>1, MemoryAssumption DEF InBlock, Cell
    <3>2. opt_hi = 0
      BY <1>5 DEF IInv, Options
    <3> QED BY <3>1, <3>2 DEF Contained
  <2> QED BY <1>1, <2>1, <2>2, MemoryAssumption DEF Shift, Cell, Address
<1>6. ASSUME scan = "hi_trim"
      PROVE  Shift(hi_base, -1) \in Cell
  <2>1. opt_hi = 0
    BY <1>6 DEF IInv, Options
  <2>2. ~(hi_base <= c)
    BY <1>1, <1>2, <1>6, <2>1 DEF HighKeeps
  <2>3. hi_base < MemSize
    BY <1>1, <1>6, <2>1 DEF HighInBlock
  <2> QED BY <1>1, <2>2, <2>3, MemoryAssumption DEF Shift, Cell, Address
<1> QED BY <1>3, <1>4, <1>5, <1>6

(* So no read strays.                                                      *)
LEMMA ContainedStays ==
    ASSUME IInv, Contained => ~stray, [Next]_vars
    PROVE  (Contained => ~stray)'
<1> SUFFICES ASSUME Contained', stray' PROVE FALSE
  OBVIOUS
<1>1. UNCHANGED given
  BY DEF Next, Step, Finished, vars, LowStart, LowDown, LowSkip, LowAlign,
         HighStart, HighUp, HighTrim, ProbeFault
<1>2. Contained /\ ~stray
  <2>1. Contained
    BY <1>1 DEF given, Contained, InBlock
  <2> QED BY <2>1
<1>3. /\ scan = "lo_down" => Shift(lo_base, -1) \in Cell
      /\ scan = "lo_skip" => lo_base \in Cell
      /\ scan = "hi_up"   => Shift(hi_base, 1) \in Cell
      /\ scan = "hi_trim" => Shift(hi_base, -1) \in Cell
  BY <1>2, ContainedProbes
<1>4. 0 \in Cell
  BY MemoryAssumption DEF Cell
<1>5. ~ProbeFault
  BY <1>3, <1>4 DEF ProbeFault, Probed
<1>6. LowStart \/ LowAlign \/ HighStart \/ UNCHANGED vars => FALSE
  BY <1>2 DEF LowStart, LowAlign, HighStart, vars
<1>7. LowDown \/ LowSkip \/ HighUp \/ HighTrim => FALSE
  BY <1>2, <1>3 DEF LowDown, LowSkip, HighUp, HighTrim, Noted
<1> QED BY <1>5, <1>6, <1>7 DEF Next, Step, Finished

(* From a block inside memory no loop reads past the arrays, and the dump  *)
(* has a positive size inside memory.                                      *)
THEOREM SizeDoesNotWrapAlways == Spec => []SizeDoesNotWrap
<1>1. Init => (Contained => ~stray)
  BY DEF Init
<1>2. IInv /\ (Contained => ~stray) /\ [Next]_vars => (Contained => ~stray)'
  BY ContainedStays
<1>3. IInv /\ (Contained => ~stray) => SizeDoesNotWrap
  <2> SUFFICES ASSUME IInv, Contained, ~stray, scan = "done", opt_lo = 0, opt_hi = 0
               PROVE  lo_base < hi_base /\ hi_base <= MemSize
    BY DEF SizeDoesNotWrap
  <2>1. PICK c \in Cell : memory[c] # 0 /\ InBlock(c) /\ InBlock(c + 1)
    BY DEF Contained
  <2>2. Settled
    BY DEF Settled, Contained
  <2>3. ~(c < lo_base) /\ ~(hi_base <= c)
    BY <2>1, <2>2, SettledFacts DEF LowKeeps, HighKeeps
  <2>4. hi_base < MemSize
    BY <2>2, SettledFacts DEF HighInBlock
  <2> QED BY <2>2, <2>3, <2>4, SettledFacts, MemoryAssumption DEF Cell
<1> QED BY <1>1, <1>2, <1>3, Invariance, PTL DEF Spec

-----------------------------------------------------------------------------
(* Where the zero scans stop.                                              *)

(* No unwritten cell lies between a and the entry point: the upward zero   *)
(* scan, which starts at the block's low end, may come to a.               *)
WrittenFrom(a) == \A b \in Cell : a <= b /\ b < bounce_pc => b \in written

(* The first non-zero byte of the block, or after it.                      *)
First(f) ==
    /\ f \in Cell /\ memory[f] # 0 /\ WrittenFrom(f)
    /\ \A c \in Cell : WrittenFrom(c) /\ c < f => memory[c] = 0

(* The upward zero scan finds it, and the low address is derived from it.  *)
LowFinds ==
    /\ scan = "lo_skip" =>
          WrittenFrom(lo_base) /\ \A c \in Cell : WrittenFrom(c) /\ c < lo_base => memory[c] = 0
    /\ scan = "lo_align" => First(lo_base)
    /\ scan \in {"hi_start", "hi_up", "hi_trim", "done"} /\ opt_lo = 0 =>
          \E f \in Cell : First(f) /\ lo_base = AlignDown(f)

(* The downward zero scan stops after a non-zero byte.                     *)
HighFinds ==
    /\ scan \in {"hi_trim", "done"} /\ opt_hi = 0 =>
          \A b \in Cell : bounce_pc < b /\ b <= hi_base => b \in written
    /\ scan = "done" /\ opt_hi = 0 => hi_base - 1 \in Cell /\ memory[hi_base - 1] # 0

Finds == Sound => LowFinds /\ HighFinds

(* Rounding down reaches e exactly from below the multiple after e.        *)
LEMMA AlignDownBelow ==
    ASSUME NEW a \in Nat, NEW e \in Nat
    PROVE  AlignDown(a) <= e <=> a < AlignDown(e) + Align
<1> DEFINE p == a \div Align
           q == e \div Align
<1>1. Align \in Nat \ {0}
  BY DumpBoundsAssumption
<1>2. /\ a % Align \in 0 .. Align - 1 /\ e % Align \in 0 .. Align - 1
      /\ a = Align * p + (a % Align) /\ e = Align * q + (e % Align)
      /\ p \in Nat /\ q \in Nat
  BY <1>1
<1> HIDE DEF p, q
<1>3. AlignDown(a) = Align * p /\ AlignDown(e) = Align * q
  BY <1>1, <1>2 DEF AlignDown
<1>4. CASE p <= q
  <2>1. Align * p <= Align * q
    BY <1>1, <1>2, <1>4
  <2> QED BY <1>1, <1>2, <1>3, <2>1
<1>5. CASE q + 1 <= p
  <2>1. Align * (q + 1) <= Align * p
    BY <1>1, <1>2, <1>5
  <2>2. Align * (q + 1) = Align * q + Align
    BY <1>1, <1>2
  <2> QED BY <1>1, <1>2, <1>3, <2>1, <2>2
<1> QED BY <1>2, <1>4, <1>5

LEMMA FindsKept ==
    ASSUME UNCHANGED given
    PROVE  /\ \A a : WrittenFrom(a)' <=> WrittenFrom(a)
           /\ \A f : First(f)' <=> First(f)
BY DEF given, WrittenFrom, First

LEMMA LowFindsKept ==
    ASSUME IInv, Finds, Sound', LowDown \/ LowSkip \/ LowAlign
    PROVE  Finds'
<1>1. UNCHANGED given /\ UNCHANGED hi_base
  BY DEF LowDown, LowSkip, LowAlign
<1>2. lo_base \in Address /\ (\A c \in Cell : c \in Nat) /\ Cell \subseteq Address
  BY MemoryAssumption DEF IInv, TypeOK, Cell, Address
<1>3. HighFinds'
  BY DEF LowDown, LowSkip, LowAlign, HighFinds
<1>4. CASE LowDown
  <2>1. Sound /\ Shift(lo_base, -1) \in Cell /\ Shift(lo_base, -1) = lo_base - 1
    BY <1>1, <1>2, <1>4, GivenKept, SoundSteps, StepInCell DEF LowDown
  <2>2. /\ lo_base <= bounce_pc /\ scan = "lo_down" /\ bounce_pc \in Cell
        /\ WrittenFrom(lo_base)
    BY <1>4, <2>1 DEF LowDown, IInv, LowInBlock, Sound, WrittenFrom
  <2>3. CASE scan' = scan
    BY <1>3, <2>2, <2>3 DEF LowFinds, Finds
  <2>4. CASE scan' = "lo_skip" /\ lo_base' = lo_base
                /\ FALSE \in HasWrite(written, Shift(lo_base, -1))
    <3>1. lo_base - 1 \notin written /\ lo_base - 1 \in Cell
      BY <2>1, <2>4 DEF HasWrite
    <3>2. \A c \in Cell : c < lo_base => ~WrittenFrom(c)
      BY <1>2, <2>2, <3>1 DEF WrittenFrom, Address, Cell
    <3> QED
      BY <1>1, <1>3, <2>2, <2>4, <3>2, FindsKept DEF LowFinds, Finds
  <2> QED BY <1>4, <2>3, <2>4 DEF LowDown
<1>5. CASE LowSkip
  <2>1. Sound /\ lo_base \in Cell /\ Shift(lo_base, 1) = lo_base + 1
    BY <1>1, <1>2, <1>5, GivenKept, SoundSteps, StepInCell DEF LowSkip
  <2>2. /\ scan = "lo_skip" /\ WrittenFrom(lo_base)
        /\ \A c \in Cell : WrittenFrom(c) /\ c < lo_base => memory[c] = 0
    BY <1>5, <2>1 DEF LowSkip, Finds, LowFinds
  <2>3. CASE TRUE \in IsZero(lo_base) /\ lo_base' = Shift(lo_base, 1) /\ scan' = scan
    <3>1. memory[lo_base] = 0
      BY <2>1, <2>3 DEF IsZero
    <3>2. WrittenFrom(lo_base + 1)
      BY <1>2, <2>1, <2>2 DEF WrittenFrom
    <3>3. \A c \in Cell : WrittenFrom(c) /\ c < lo_base + 1 => memory[c] = 0
      BY <1>2, <2>1, <2>2, <3>1
    <3>4. memory' = memory /\ scan' = "lo_skip" /\ lo_base' = lo_base + 1
      BY <1>1, <2>1, <2>2, <2>3, GivenKept
    <3> QED BY <1>1, <1>3, <3>2, <3>3, <3>4, FindsKept DEF LowFinds, Finds
  <2>4. CASE FALSE \in IsZero(lo_base) /\ scan' = "lo_align" /\ lo_base' = lo_base
    <3>1. First(lo_base)
      BY <2>1, <2>2, <2>4 DEF IsZero, First
    <3> QED BY <1>1, <1>3, <2>4, <3>1, FindsKept DEF LowFinds, Finds
  <2> QED BY <1>5, <2>3, <2>4 DEF LowSkip
<1>6. CASE LowAlign
  <2>1. Sound
    BY <1>1, <1>6, GivenKept DEF Sound, LowAlign
  <2>2. First(lo_base) /\ lo_base \in Cell
    BY <1>6, <2>1 DEF LowAlign, Finds, LowFinds, First
  <2>3. \E f \in Cell : First(f)' /\ lo_base' = AlignDown(f)
    BY <1>1, <1>6, <2>2, FindsKept DEF LowAlign
  <2> QED BY <1>1, <1>3, <1>6, <2>3 DEF LowAlign, LowFinds, Finds
<1> QED BY <1>4, <1>5, <1>6

LEMMA HighFindsKept ==
    ASSUME IInv, Finds, Sound', HighStart \/ HighUp \/ HighTrim
    PROVE  Finds'
<1>1. /\ UNCHANGED given /\ UNCHANGED lo_base
      /\ scan \in {"hi_start", "hi_up", "hi_trim"} /\ scan' \in {"hi_up", "hi_trim", "done"}
  BY DEF HighStart, HighUp, HighTrim
<1>2. /\ hi_base \in Address /\ Cell \subseteq Address /\ (\A c \in Cell : c \in Nat)
      /\ scan = "hi_start" => hi_base = opt_hi
  BY MemoryAssumption DEF IInv, TypeOK, Options, Cell, Address
<1>3. Sound
  <2>1. CASE HighStart
    BY <1>1, <2>1, GivenKept DEF HighStart, Sound
  <2>2. CASE HighUp
    BY <1>1, <2>2, GivenKept, SoundSteps DEF HighUp
  <2>3. CASE HighTrim
    BY <1>1, <2>3, GivenKept, SoundSteps DEF HighTrim
  <2> QED BY <2>1, <2>2, <2>3
<1>4. LowFinds'
  BY <1>1, <1>3, GivenKept, FindsKept DEF Finds, LowFinds
<1>5. CASE HighStart
  BY <1>1, <1>2, <1>4, <1>5, GivenKept DEF HighStart, HighFinds, Finds
<1>6. CASE HighUp
  <2>1. \A b \in Cell : bounce_pc < b /\ b <= hi_base => b \in written
    BY <1>3, <1>6 DEF IInv, HighInBlock, HighUp
  <2>2. scan' = "hi_trim" => hi_base' = hi_base
    BY <1>6 DEF HighUp
  <2>3. scan' # "done"
    BY <1>6 DEF HighUp
  <2> QED BY <1>1, <1>4, <1>6, <2>1, <2>2, <2>3, GivenKept DEF HighFinds, Finds, HighUp
<1>7. CASE HighTrim
  <2>1. Shift(hi_base, -1) \in Cell /\ Shift(hi_base, -1) = hi_base - 1
    BY <1>1, <1>2, <1>7, GivenKept, SoundSteps, StepInCell DEF HighTrim
  <2>2. opt_hi = 0 /\ \A b \in Cell : bounce_pc < b /\ b <= hi_base => b \in written
    BY <1>3, <1>7 DEF HighTrim, IInv, Options, Finds, HighFinds
  <2>3. CASE hi_base' = Shift(hi_base, -1) /\ scan' = scan
    <3>1. \A b \in Cell : bounce_pc < b /\ b <= hi_base' => b \in written
      BY <1>2, <2>1, <2>2, <2>3 DEF Cell, Address
    <3>2. scan' # "done"
      BY <1>7, <2>3 DEF HighTrim
    <3> QED BY <1>1, <1>4, <3>1, <3>2, GivenKept DEF HighFinds, Finds
  <2>4. CASE FALSE \in IsZero(Shift(hi_base, -1)) /\ scan' = "done" /\ hi_base' = hi_base
    <3>1. hi_base - 1 \in Cell /\ memory[hi_base - 1] # 0
      BY <2>1, <2>4 DEF IsZero
    <3> QED BY <1>1, <1>4, <2>2, <2>4, <3>1, GivenKept DEF HighFinds, Finds
  <2> QED BY <1>7, <2>3, <2>4 DEF HighTrim
<1> QED BY <1>5, <1>6, <1>7

LEMMA NextKeepsFinds ==
    ASSUME IInv, Finds, [Next]_vars
    PROVE  Finds'
<1> SUFFICES ASSUME Sound' PROVE Finds'
  BY DEF Finds
<1>1. CASE LowStart
  <2>1. UNCHANGED given /\ Sound /\ (scan' = "hi_start" => opt_lo # 0)
    BY <1>1, GivenKept DEF LowStart, Sound, IInv, Options
  <2> QED BY <1>1, <2>1, GivenKept DEF LowStart, Finds, LowFinds, HighFinds
<1>2. ~ProbeFault
  BY DEF ProbeFault, Sound
<1>3. CASE UNCHANGED vars
  <2>1. UNCHANGED given /\ UNCHANGED <<lo_base, hi_base, scan, stray>>
    BY <1>3 DEF vars
  <2>2. Sound /\ UNCHANGED <<memory, written, bounce_pc, opt_lo, opt_hi>>
    BY <2>1, GivenKept DEF Sound
  <2> QED BY <2>1, <2>2, FindsKept DEF Finds, LowFinds, HighFinds
<1> QED BY <1>1, <1>2, <1>3, LowFindsKept, HighFindsKept DEF Next, Step, Finished

(* The entry point is in the dump exactly if what the zero scans pass over *)
(* leaves it there.                                                        *)
THEOREM EntryInsideDumpExactly == Spec => []EntryInsideDump
<1>1. Init => Finds
  BY DEF Init, Finds, LowFinds, HighFinds
<1>2. IInv /\ Finds => EntryInsideDump
  <2> SUFFICES ASSUME IInv, Finds, Settled PROVE EntryInsideDump
    BY DEF EntryInsideDump
  <2>1. LowFinds /\ HighFinds /\ HighKeeps /\ HighInBlock /\ scan = "done"
    BY SettledFacts DEF Finds, Sound, Settled
  <2>2. bounce_pc \in Nat /\ lo_base \in Nat /\ hi_base \in Nat /\ (\A c \in Cell : c \in Nat)
    BY SettledFacts, MemoryAssumption DEF Cell
  <2>3. ASSUME opt_lo = 0
        PROVE  lo_base <= bounce_pc <=>
                  \E c \in Cell : /\ memory[c] # 0 /\ c < AlignDown(bounce_pc) + Align
                                  /\ WrittenFrom(c)
    <3>1. PICK f \in Cell : First(f) /\ lo_base = AlignDown(f)
      BY <2>1, <2>3 DEF LowFinds
    <3>2. lo_base <= bounce_pc <=> f < AlignDown(bounce_pc) + Align
      BY <2>2, <3>1, AlignDownBelow
    <3>3. \A c \in Cell : memory[c] # 0 /\ WrittenFrom(c) => f <= c
      BY <2>2, <3>1 DEF First
    <3>4. AlignDown(bounce_pc) + Align \in Nat
      BY <2>2, AlignDownBounds, DumpBoundsAssumption
    <3> QED BY <2>2, <3>1, <3>2, <3>3, <3>4 DEF First
  <2>4. ASSUME opt_hi = 0
        PROVE  bounce_pc < hi_base <=>
                  \E c \in Cell :
                      memory[c] # 0 /\ bounce_pc <= c /\ InBlock(c) /\ InBlock(c + 1)
    <3>1. ASSUME bounce_pc < hi_base
          PROVE  InBlock(hi_base - 1) /\ InBlock(hi_base)
      BY <2>1, <2>2, <2>4, <3>1, MemoryAssumption DEF HighFinds, HighInBlock, InBlock, Cell
    <3>2. ASSUME bounce_pc < hi_base
          PROVE  \E c \in Cell :
                      memory[c] # 0 /\ bounce_pc <= c /\ InBlock(c) /\ InBlock(c + 1)
      <4>1. hi_base - 1 \in Cell /\ memory[hi_base - 1] # 0 /\ bounce_pc <= hi_base - 1
                /\ (hi_base - 1) + 1 = hi_base
        BY <2>1, <2>2, <2>4, <3>2 DEF HighFinds
      <4> QED BY <3>1, <3>2, <4>1
    <3>3. ASSUME NEW c \in Cell, memory[c] # 0, bounce_pc <= c, InBlock(c), InBlock(c + 1)
          PROVE  bounce_pc < hi_base
      BY <2>1, <2>2, <2>4, <3>3 DEF HighKeeps
    <3> QED BY <3>2, <3>3
  <2> QED BY <2>3, <2>4 DEF EntryInsideDump, WrittenFrom
<1> QED BY <1>1, <1>2, NextKeepsFinds, Invariance, PTL DEF Spec
=============================================================================
