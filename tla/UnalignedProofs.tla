-------------------------- MODULE UnalignedProofs ---------------------------
(***************************************************************************)
(* Pairs of partial accesses reach a word at any address, for memories of  *)
(* any size with any contents.  What the first access of a pair leaves is  *)
(* the invariant: its part of the word and of the register agree.  The     *)
(* second access keeps that part and makes the rest agree.                 *)
(***************************************************************************)
EXTENDS Unaligned, TLAPS

Left  == {"LoadLeft", "StoreLeft"}
Right == {"LoadRight", "StoreRight"}

Typed ==
    /\ memory \in [Cell -> Byte]
    /\ reg \in [0 .. 7 -> Byte]
    /\ last \in [op : Left \union Right \union {"none"}, size : Size, addr : Cell]

(* The register and memory agree on the bytes of a word at a that lie in   *)
(* the aligned word of its last byte (left) or of its first (right).       *)
LeftAgrees(n, a) ==
    \A j \in 0 .. n - 1 : a - (n - 1) + j >= Base(n, a) => reg[j] = memory[a - (n - 1) + j]
RightAgrees(n, a) ==
    \A j \in 0 .. n - 1 : a + j < Base(n, a) + n => reg[j] = memory[a + j]

IInv ==
    /\ Typed
    /\ last.op \in Left => LeftAgrees(last.size, last.addr)
    /\ last.op \in Right => RightAgrees(last.size, last.addr)

-----------------------------------------------------------------------------
(* Addresses.                                                              *)

LEMMA Offsets ==
    ASSUME NEW n \in Size, NEW a \in Cell
    PROVE  /\ n \in Nat /\ n <= 8 /\ n > 0
           /\ a \in Nat /\ Cell \subseteq Nat
           /\ Offset(n, a) \in 0 .. n - 1
           /\ Base(n, a) = a - Offset(n, a)
           /\ Base(n, a) \in Nat
           /\ Base(n, a) .. Base(n, a) + n - 1 \subseteq Cell
<1>1. Words \in Nat \ {0}
    BY UnalignedAssumption DEF UnalignedAssumption
<1>2. CASE n = 4
    BY <1>1, <1>2 DEF Offset, Base, Cell
<1>3. CASE n = 8
    BY <1>1, <1>3 DEF Offset, Base, Cell
<1> QED
    BY <1>2, <1>3 DEF Size

(* The last byte of a word at a lies in the aligned word of its first, or  *)
(* in the next one.                                                        *)
LEMMA LastByte ==
    ASSUME NEW n \in Size, NEW a \in Cell, a + n - 1 \in Cell
    PROVE  Base(n, a + n - 1) = IF Offset(n, a) = 0 THEN Base(n, a) ELSE Base(n, a) + n
<1>1. CASE n = 4
    BY <1>1 DEF Offset, Base, Cell
<1>2. CASE n = 8
    BY <1>2 DEF Offset, Base, Cell
<1> QED
    BY <1>1, <1>2 DEF Size

-----------------------------------------------------------------------------
(* What each access leaves, byte by byte.                                  *)

LEMMA LoadLeftBytes ==
    ASSUME Typed, NEW n \in Size, NEW a \in Cell, LoadLeft(n, a)
    PROVE  /\ reg' \in [0 .. 7 -> Byte]
           /\ \A j \in 0 .. n - 1 :
                 reg'[j] = IF j < n - 1 - Offset(n, a) THEN reg[j]
                           ELSE memory[a - (n - 1) + j]
<1> DEFINE s == Offset(n, a)
           kept == Keep(Low(n), LWL_MASK(n, s))
           read == ShiftLeft(Word(n, a), LeftShift(n, s))
           merged == Or(kept, read)
<1>1. /\ n \in Nat /\ n <= 8 /\ s \in 0 .. n - 1 /\ Base(n, a) = a - s
      /\ a \in Nat /\ Base(n, a) .. Base(n, a) + n - 1 \subseteq Cell
    BY Offsets
<1>2. \A j \in 0 .. n - 1 : kept[j] = IF j <= n - 2 - s THEN reg[j] ELSE 0
    BY <1>1 DEF Keep, Low, LWL_MASK
<1>3. \A j \in 0 .. n - 1 :
          read[j] = IF j >= n - 1 - s THEN memory[a - (n - 1) + j] ELSE 0
    BY <1>1 DEF ShiftLeft, Word, LeftShift
<1>4. /\ DOMAIN merged = 0 .. n - 1
      /\ \A j \in 0 .. n - 1 : merged[j] = IF kept[j] = 0 THEN read[j] ELSE kept[j]
    BY <1>1 DEF Or, Keep, Low
<1>5. reg' = [k \in 0 .. 7 |-> IF k \in DOMAIN merged THEN merged[k] ELSE 0]
    BY DEF LoadLeft, SetReg
<1> HIDE DEF s, kept, read, merged
<1>6. \A j \in 0 .. n - 1 :
          merged[j] = IF j < n - 1 - s THEN reg[j] ELSE memory[a - (n - 1) + j]
    BY <1>1, <1>2, <1>3, <1>4
<1>7. \A j \in 0 .. n - 1 : merged[j] \in Byte
    BY <1>1, <1>6 DEF Typed
<1>8. 0 \in Byte
    BY UnalignedAssumption DEF UnalignedAssumption
<1> QED
    BY <1>1, <1>4, <1>5, <1>6, <1>7, <1>8 DEF s

LEMMA LoadRightBytes ==
    ASSUME Typed, NEW n \in Size, NEW a \in Cell, LoadRight(n, a)
    PROVE  /\ reg' \in [0 .. 7 -> Byte]
           /\ \A j \in 0 .. n - 1 :
                 reg'[j] = IF j < n - Offset(n, a) THEN memory[a + j] ELSE reg[j]
<1> DEFINE s == Offset(n, a)
           kept == Keep(Low(n), LWR_MASK(n, s))
           read == ShiftRight(Word(n, a), RightShift(n, s))
           merged == Or(kept, read)
<1>1. /\ n \in Nat /\ n <= 8 /\ s \in 0 .. n - 1 /\ Base(n, a) = a - s
      /\ a \in Nat /\ Base(n, a) .. Base(n, a) + n - 1 \subseteq Cell
    BY Offsets
<1>2. \A j \in 0 .. n - 1 : kept[j] = IF j >= n - s THEN reg[j] ELSE 0
    BY <1>1 DEF Keep, Low, LWR_MASK
<1>3. \A j \in 0 .. n - 1 : read[j] = IF j < n - s THEN memory[a + j] ELSE 0
    BY <1>1 DEF ShiftRight, Word, RightShift
<1>4. /\ DOMAIN merged = 0 .. n - 1
      /\ \A j \in 0 .. n - 1 : merged[j] = IF kept[j] = 0 THEN read[j] ELSE kept[j]
    BY <1>1 DEF Or, Keep, Low
<1>5. reg' = [k \in 0 .. 7 |-> IF k \in DOMAIN merged THEN merged[k] ELSE 0]
    BY DEF LoadRight, SetReg
<1> HIDE DEF s, kept, read, merged
<1>6. \A j \in 0 .. n - 1 : merged[j] = IF j < n - s THEN memory[a + j] ELSE reg[j]
    BY <1>1, <1>2, <1>3, <1>4
<1>7. \A j \in 0 .. n - 1 : merged[j] \in Byte
    BY <1>1, <1>6 DEF Typed
<1>8. 0 \in Byte
    BY UnalignedAssumption DEF UnalignedAssumption
<1> QED
    BY <1>1, <1>4, <1>5, <1>6, <1>7, <1>8 DEF s

LEMMA StoreLeftBytes ==
    ASSUME Typed, NEW n \in Size, NEW a \in Cell, StoreLeft(n, a)
    PROVE  /\ memory' \in [Cell -> Byte]
           /\ \A c \in Cell :
                 memory'[c] = IF Base(n, a) <= c /\ c <= a THEN reg[c - a + n - 1]
                              ELSE memory[c]
<1> DEFINE s == Offset(n, a)
           moved == ShiftRight(Low(n), LeftShift(n, s))
           old == Keep(Word(n, a), SWL_MASK(n, s))
           merged == Or(moved, old)
<1>1. /\ n \in Nat /\ n <= 8 /\ s \in 0 .. n - 1 /\ Base(n, a) = a - s
      /\ a \in Nat /\ Base(n, a) .. Base(n, a) + n - 1 \subseteq Cell /\ Cell \subseteq Nat
    BY Offsets
<1>2. \A j \in 0 .. n - 1 : moved[j] = IF j <= s THEN reg[j + (n - 1 - s)] ELSE 0
    BY <1>1 DEF ShiftRight, Low, LeftShift
<1>3. \A j \in 0 .. n - 1 : old[j] = IF j > s THEN memory[a - s + j] ELSE 0
    BY <1>1 DEF Keep, Word, SWL_MASK
<1>4. \A j \in 0 .. n - 1 : merged[j] = IF moved[j] = 0 THEN old[j] ELSE moved[j]
    BY <1>1 DEF Or, ShiftRight, Low
<1>5. memory' = [c \in Cell |->
                   IF c - Base(n, a) \in 0 .. n - 1 THEN merged[c - Base(n, a)] ELSE memory[c]]
    BY DEF StoreLeft, SetWord
<1> HIDE DEF s, moved, old, merged
<1>6. \A j \in 0 .. n - 1 :
          merged[j] = IF j <= s THEN reg[j + (n - 1 - s)] ELSE memory[a - s + j]
    BY <1>1, <1>2, <1>3, <1>4
<1>7. ASSUME NEW c \in Cell
      PROVE  memory'[c] = IF Base(n, a) <= c /\ c <= a THEN reg[c - a + n - 1] ELSE memory[c]
    <2>1. CASE c - Base(n, a) \in 0 .. n - 1
        <3>1. memory'[c] = merged[c - Base(n, a)]
            BY <1>5, <2>1
        <3>2. /\ (c - Base(n, a)) + (n - 1 - s) = c - a + n - 1
              /\ a - s + (c - Base(n, a)) = c
              /\ c - Base(n, a) <= s <=> Base(n, a) <= c /\ c <= a
            BY <1>1, <2>1
        <3> QED
            BY <1>6, <2>1, <3>1, <3>2
    <2>2. CASE c - Base(n, a) \notin 0 .. n - 1
        <3>1. memory'[c] = memory[c]
            BY <1>5, <2>2
        <3> QED
            BY <1>1, <2>2, <3>1
    <2> QED
        BY <2>1, <2>2
<1>8. \A c \in Cell : memory'[c] \in Byte
    <2>1. \A c \in Cell : Base(n, a) <= c /\ c <= a => c - a + n - 1 \in 0 .. 7
        BY <1>1
    <2> QED
        BY <1>7, <2>1 DEF Typed
<1> QED
    BY <1>5, <1>7, <1>8

LEMMA StoreRightBytes ==
    ASSUME Typed, NEW n \in Size, NEW a \in Cell, StoreRight(n, a)
    PROVE  /\ memory' \in [Cell -> Byte]
           /\ \A c \in Cell :
                 memory'[c] = IF a <= c /\ c < Base(n, a) + n THEN reg[c - a] ELSE memory[c]
<1> DEFINE s == Offset(n, a)
           moved == ShiftLeft(Low(n), RightShift(n, s))
           old == Keep(Word(n, a), SWR_MASK(n, s))
           merged == Or(moved, old)
<1>1. /\ n \in Nat /\ n <= 8 /\ s \in 0 .. n - 1 /\ Base(n, a) = a - s
      /\ a \in Nat /\ Base(n, a) .. Base(n, a) + n - 1 \subseteq Cell /\ Cell \subseteq Nat
    BY Offsets
<1>2. \A j \in 0 .. n - 1 : moved[j] = IF j >= s THEN reg[j - s] ELSE 0
    BY <1>1 DEF ShiftLeft, Low, RightShift
<1>3. \A j \in 0 .. n - 1 : old[j] = IF j < s THEN memory[a - s + j] ELSE 0
    BY <1>1 DEF Keep, Word, SWR_MASK
<1>4. \A j \in 0 .. n - 1 : merged[j] = IF moved[j] = 0 THEN old[j] ELSE moved[j]
    BY <1>1 DEF Or, ShiftLeft, Low
<1>5. memory' = [c \in Cell |->
                   IF c - Base(n, a) \in 0 .. n - 1 THEN merged[c - Base(n, a)] ELSE memory[c]]
    BY DEF StoreRight, SetWord
<1> HIDE DEF s, moved, old, merged
<1>6. \A j \in 0 .. n - 1 : merged[j] = IF j >= s THEN reg[j - s] ELSE memory[a - s + j]
    BY <1>1, <1>2, <1>3, <1>4
<1>7. ASSUME NEW c \in Cell
      PROVE  memory'[c] = IF a <= c /\ c < Base(n, a) + n THEN reg[c - a] ELSE memory[c]
    <2>1. CASE c - Base(n, a) \in 0 .. n - 1
        <3>1. memory'[c] = merged[c - Base(n, a)]
            BY <1>5, <2>1
        <3> QED
            BY <1>1, <1>6, <2>1, <3>1
    <2>2. CASE c - Base(n, a) \notin 0 .. n - 1
        <3>1. memory'[c] = memory[c]
            BY <1>5, <2>2
        <3> QED
            BY <1>1, <2>2, <3>1
    <2> QED
        BY <2>1, <2>2
<1>8. \A c \in Cell : memory'[c] \in Byte
    <2>1. \A c \in Cell : a <= c /\ c < Base(n, a) + n => c - a \in 0 .. 7
        BY <1>1
    <2> QED
        BY <1>7, <2>1 DEF Typed
<1> QED
    BY <1>5, <1>7, <1>8

-----------------------------------------------------------------------------
(* The invariant.                                                          *)

Loads(n, a)  == LoadLeft(n, a) \/ LoadRight(n, a)
Stores(n, a) == StoreLeft(n, a) \/ StoreRight(n, a)

LEMMA StepAccesses == Step => \E n \in Size, a \in Cell : Loads(n, a) \/ Stores(n, a)
BY DEF Step, LWL, LWR, LDL, LDR, SWL, SWR, SDL, SDR, Size, Loads, Stores

LEMMA InitInvariant == Init => IInv
<1> SUFFICES ASSUME Init PROVE IInv
    OBVIOUS
<1>1. 0 \in Cell
    BY UnalignedAssumption DEF UnalignedAssumption, Cell
<1> QED
    BY <1>1 DEF Init, IInv, Typed, Left, Right, Size

LEMMA LoadPreserves ==
    ASSUME IInv, NEW n \in Size, NEW a \in Cell, Loads(n, a)
    PROVE  IInv'
<1>1. /\ n \in Nat /\ n > 0 /\ Base(n, a) = a - Offset(n, a) /\ Offset(n, a) \in 0 .. n - 1
      /\ a \in Nat
    BY Offsets
<1>2. UNCHANGED memory
    BY DEF Loads, LoadLeft, LoadRight
<1>3. CASE LoadLeft(n, a)
    <2>1. last' = [op |-> "LoadLeft", size |-> n, addr |-> a]
        BY <1>3 DEF LoadLeft, Executed
    <2>2. Typed'
        BY <1>2, <1>3, <2>1, LoadLeftBytes DEF IInv, Typed, Left
    <2>3. LeftAgrees(n, a)'
        BY <1>1, <1>2, <1>3, LoadLeftBytes DEF IInv, LeftAgrees
    <2> QED
        BY <2>1, <2>2, <2>3 DEF IInv, Right
<1>4. CASE LoadRight(n, a)
    <2>1. last' = [op |-> "LoadRight", size |-> n, addr |-> a]
        BY <1>4 DEF LoadRight, Executed
    <2>2. Typed'
        BY <1>2, <1>4, <2>1, LoadRightBytes DEF IInv, Typed, Right
    <2>3. RightAgrees(n, a)'
        BY <1>1, <1>2, <1>4, LoadRightBytes DEF IInv, RightAgrees
    <2> QED
        BY <2>1, <2>2, <2>3 DEF IInv, Left
<1> QED
    BY <1>3, <1>4 DEF Loads

LEMMA StorePreserves ==
    ASSUME IInv, NEW n \in Size, NEW a \in Cell, Stores(n, a)
    PROVE  IInv'
<1>1. /\ n \in Nat /\ n > 0 /\ n <= 8 /\ Base(n, a) = a - Offset(n, a)
      /\ Offset(n, a) \in 0 .. n - 1 /\ a \in Nat /\ Base(n, a) \in Nat
      /\ Base(n, a) .. Base(n, a) + n - 1 \subseteq Cell
    BY Offsets
<1>2. UNCHANGED reg
    BY DEF Stores, StoreLeft, StoreRight
<1>3. CASE StoreLeft(n, a)
    <2>1. last' = [op |-> "StoreLeft", size |-> n, addr |-> a]
        BY <1>3 DEF StoreLeft, Executed
    <2>2. Typed'
        BY <1>2, <1>3, <2>1, StoreLeftBytes DEF IInv, Typed, Left
    <2>3. ASSUME NEW j \in 0 .. n - 1, a - (n - 1) + j >= Base(n, a)
          PROVE  reg[j] = memory'[a - (n - 1) + j]
        <3>1. /\ a - (n - 1) + j \in Cell
              /\ a - (n - 1) + j <= a
              /\ (a - (n - 1) + j) - a + n - 1 = j
            BY <1>1, <2>3
        <3> QED
            BY <1>3, <2>3, <3>1, StoreLeftBytes DEF IInv
    <2>4. LeftAgrees(n, a)'
        BY <1>2, <2>3 DEF LeftAgrees, Base, Offset
    <2> QED
        BY <2>1, <2>2, <2>4 DEF IInv, Right
<1>4. CASE StoreRight(n, a)
    <2>1. last' = [op |-> "StoreRight", size |-> n, addr |-> a]
        BY <1>4 DEF StoreRight, Executed
    <2>2. Typed'
        BY <1>2, <1>4, <2>1, StoreRightBytes DEF IInv, Typed, Right
    <2>3. ASSUME NEW j \in 0 .. n - 1, a + j < Base(n, a) + n
          PROVE  reg[j] = memory'[a + j]
        <3>1. a + j \in Cell /\ (a + j) - a = j
            BY <1>1, <2>3
        <3> QED
            BY <1>4, <2>3, <3>1, <1>1, StoreRightBytes DEF IInv
    <2>4. RightAgrees(n, a)'
        BY <1>2, <2>3 DEF RightAgrees, Base, Offset
    <2> QED
        BY <2>1, <2>2, <2>4 DEF IInv, Left
<1> QED
    BY <1>3, <1>4 DEF Stores

LEMMA NextInvariant == IInv /\ [Next]_vars => IInv'
<1> SUFFICES ASSUME IInv, [Next]_vars PROVE IInv'
    OBVIOUS
<1>1. CASE Step
    BY <1>1, StepAccesses, LoadPreserves, StorePreserves
<1>2. CASE UNCHANGED vars
    BY <1>2 DEF vars, IInv, Typed, LeftAgrees, RightAgrees
<1> QED
    BY <1>1, <1>2 DEF Next, Finished

-----------------------------------------------------------------------------
(* The theorems.                                                           *)

Access(op, n, a) == [op |-> op, size |-> n, addr |-> a]

LEMMA WhichAccess ==
    ASSUME Step, NEW n, NEW a
    PROVE  /\ last' = Access("LoadLeft", n, a) => a \in Cell /\ LoadLeft(n, a)
           /\ last' = Access("LoadRight", n, a) => a \in Cell /\ LoadRight(n, a)
           /\ last' = Access("StoreLeft", n, a) => a \in Cell /\ StoreLeft(n, a)
           /\ last' = Access("StoreRight", n, a) => a \in Cell /\ StoreRight(n, a)
<1>1. PICK m \in Size, b \in Cell : Loads(m, b) \/ Stores(m, b)
    BY StepAccesses
<1>2. CASE LoadLeft(m, b)
    BY <1>2 DEF LoadLeft, Executed, Access
<1>3. CASE LoadRight(m, b)
    BY <1>3 DEF LoadRight, Executed, Access
<1>4. CASE StoreLeft(m, b)
    BY <1>4 DEF StoreLeft, Executed, Access
<1>5. CASE StoreRight(m, b)
    BY <1>5 DEF StoreRight, Executed, Access
<1> QED
    BY <1>1, <1>2, <1>3, <1>4, <1>5 DEF Loads, Stores

(* The two accesses of a pair, in either order.                            *)
LEMMA PairSplits ==
    ASSUME [Next]_vars, NEW left, NEW right, left # right, NEW n, NEW a, Pair(left, right, n, a)
    PROVE  /\ Step
           /\ \/ last = Access(left, n, a + n - 1) /\ last' = Access(right, n, a)
              \/ last = Access(right, n, a) /\ last' = Access(left, n, a + n - 1)
<1>1. Step
    BY DEF Pair, Next, Finished, vars
<1>2. Access(left, n, a + n - 1) # Access(right, n, a)
    BY DEF Access
<1>3. {last, last'} = {Access(left, n, a + n - 1), Access(right, n, a)}
    BY DEF Pair, Access
<1> QED
    BY <1>1, <1>2, <1>3

LEMMA PairLoads ==
    ASSUME IInv, [Next]_vars, NEW n \in Size, NEW a \in Cell,
           Pair("LoadLeft", "LoadRight", n, a), NEW j \in 0 .. n - 1
    PROVE  reg'[j] = memory[a + j]
<1> DEFINE b == a + n - 1
<1>1. Step
    BY PairSplits
<1>2. CASE last = Access("LoadLeft", n, b) /\ last' = Access("LoadRight", n, a)
    <2>1. LoadRight(n, a) /\ LeftAgrees(n, b) /\ b \in Cell
        BY <1>1, <1>2, WhichAccess DEF IInv, Typed, Left, Access
    <2>2. reg'[j] = IF j < n - Offset(n, a) THEN memory[a + j] ELSE reg[j]
        BY <2>1, LoadRightBytes DEF IInv
    <2>3. ASSUME j >= n - Offset(n, a) PROVE reg[j] = memory[a + j]
        <3>1. b - (n - 1) + j >= Base(n, b) /\ b - (n - 1) + j = a + j
            BY <2>1, <2>3, Offsets, LastByte
        <3> QED
            BY <2>1, <3>1 DEF LeftAgrees
    <2> QED
        BY <2>2, <2>3, Offsets
<1>3. CASE last = Access("LoadRight", n, a) /\ last' = Access("LoadLeft", n, b)
    <2>1. LoadLeft(n, b) /\ RightAgrees(n, a) /\ b \in Cell
        BY <1>1, <1>3, WhichAccess DEF IInv, Typed, Right, Access
    <2>2. reg'[j] = IF j < n - 1 - Offset(n, b) THEN reg[j] ELSE memory[b - (n - 1) + j]
        BY <2>1, LoadLeftBytes DEF IInv
    <2>3. ASSUME j < n - 1 - Offset(n, b) PROVE reg[j] = memory[a + j]
        <3>1. a + j < Base(n, a) + n
            BY <2>1, <2>3, Offsets, LastByte
        <3> QED
            BY <2>1, <3>1 DEF RightAgrees
    <2>4. b - (n - 1) + j = a + j
        BY Offsets
    <2> QED
        BY <2>1, <2>2, <2>3, <2>4, Offsets
<1> QED
    BY <1>2, <1>3, PairSplits

LEMMA PairStores ==
    ASSUME IInv, [Next]_vars, NEW n \in Size, NEW a \in Cell,
           Pair("StoreLeft", "StoreRight", n, a), NEW j \in 0 .. n - 1
    PROVE  memory'[a + j] = reg[j]
<1> DEFINE b == a + n - 1
<1>1. Step
    BY PairSplits
<1>2. CASE last = Access("StoreLeft", n, b) /\ last' = Access("StoreRight", n, a)
    <2>1. StoreRight(n, a) /\ LeftAgrees(n, b) /\ b \in Cell
        BY <1>1, <1>2, WhichAccess DEF IInv, Typed, Left, Access
    <2>2. a + j \in Cell /\ (a + j) - a = j /\ a <= a + j
        BY <2>1, Offsets, UnalignedAssumption DEF Cell, UnalignedAssumption
    <2>3. memory'[a + j] = IF a + j < Base(n, a) + n THEN reg[j] ELSE memory[a + j]
        BY <2>1, <2>2, StoreRightBytes DEF IInv
    <2>4. ASSUME ~(a + j < Base(n, a) + n) PROVE reg[j] = memory[a + j]
        <3>1. b - (n - 1) + j >= Base(n, b) /\ b - (n - 1) + j = a + j
            BY <2>1, <2>4, Offsets, LastByte
        <3> QED
            BY <2>1, <3>1 DEF LeftAgrees
    <2> QED
        BY <2>3, <2>4
<1>3. CASE last = Access("StoreRight", n, a) /\ last' = Access("StoreLeft", n, b)
    <2>1. StoreLeft(n, b) /\ RightAgrees(n, a) /\ b \in Cell
        BY <1>1, <1>3, WhichAccess DEF IInv, Typed, Right, Access
    <2>2. a + j \in Cell /\ (a + j) - b + n - 1 = j /\ a + j <= b
        BY <2>1, Offsets, UnalignedAssumption DEF Cell, UnalignedAssumption
    <2>3. memory'[a + j] = IF Base(n, b) <= a + j THEN reg[j] ELSE memory[a + j]
        BY <2>1, <2>2, StoreLeftBytes DEF IInv
    <2>4. ASSUME ~(Base(n, b) <= a + j) PROVE reg[j] = memory[a + j]
        <3>1. a + j < Base(n, a) + n
            BY <2>1, <2>4, Offsets, LastByte
        <3> QED
            BY <2>1, <3>1 DEF RightAgrees
    <2> QED
        BY <2>3, <2>4
<1> QED
    BY <1>2, <1>3, PairSplits

LEMMA StoreChanges ==
    ASSUME IInv, [Next]_vars, NEW c \in Cell, memory'[c] # memory[c]
    PROVE  LET n == last'.size
               a == last'.addr
           IN  /\ Base(n, a) <= c /\ c < Base(n, a) + n
               /\ last'.op = "StoreLeft" => c <= a
               /\ last'.op = "StoreRight" => c >= a
<1>1. Step
    BY DEF Next, Finished, vars
<1>2. PICK n \in Size, a \in Cell : Loads(n, a) \/ Stores(n, a)
    BY <1>1, StepAccesses
<1>3. CASE Loads(n, a)
    BY <1>3 DEF Loads, LoadLeft, LoadRight
<1>4. CASE StoreLeft(n, a)
    <2>1. last'.op = "StoreLeft" /\ last'.size = n /\ last'.addr = a
        BY <1>4 DEF StoreLeft, Executed
    <2>2. Base(n, a) <= c /\ c <= a
        BY <1>4, StoreLeftBytes DEF IInv
    <2> QED
        BY <2>1, <2>2, Offsets
<1>5. CASE StoreRight(n, a)
    <2>1. last'.op = "StoreRight" /\ last'.size = n /\ last'.addr = a
        BY <1>5 DEF StoreRight, Executed
    <2>2. a <= c /\ c < Base(n, a) + n
        BY <1>5, StoreRightBytes DEF IInv
    <2> QED
        BY <2>1, <2>2, Offsets
<1> QED
    BY <1>2, <1>3, <1>4, <1>5 DEF Stores

(* A pair of partial loads fetches the word at any address, in any memory. *)
THEOREM LoadPairFetchesWord == Spec => PairLoadsWord
<1>1. IInv /\ [Next]_vars =>
          [ \A n \in Size, a \in Cell :
                Pair("LoadLeft", "LoadRight", n, a) =>
                    \A i \in 0 .. n - 1 : reg'[i] = memory[a + i] ]_vars
    BY PairLoads
<1> QED
    BY <1>1, InitInvariant, NextInvariant, PTL DEF Spec, PairLoadsWord

(* A pair of partial stores writes the register at any address.            *)
THEOREM StorePairWritesWord == Spec => PairStoresWord
<1>1. IInv /\ [Next]_vars =>
          [ \A n \in Size, a \in Cell :
                Pair("StoreLeft", "StoreRight", n, a) =>
                    \A i \in 0 .. n - 1 : memory'[a + i] = reg[i] ]_vars
    BY PairStores
<1> QED
    BY <1>1, InitInvariant, NextInvariant, PTL DEF Spec, PairStoresWord

(* A partial store changes only the bytes that it addresses.               *)
THEOREM StoresChangeAddressed == Spec => StoresOnlyAddressed
<1>1. IInv /\ [Next]_vars =>
          [ \A c \in Cell :
                memory'[c] # memory[c] =>
                    LET n == last'.size
                        a == last'.addr
                    IN  /\ Base(n, a) <= c /\ c < Base(n, a) + n
                        /\ last'.op = "StoreLeft" => c <= a
                        /\ last'.op = "StoreRight" => c >= a ]_vars
    BY StoreChanges
<1> QED
    BY <1>1, InitInvariant, NextInvariant, PTL DEF Spec, StoresOnlyAddressed

=============================================================================
