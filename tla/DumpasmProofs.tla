--------------------------- MODULE DumpasmProofs ----------------------------
(***************************************************************************)
(* The outcome of an error's listing, for every memory layout, every size  *)
(* of the listing and every depth of the host stack.  The invariant: what  *)
(* the innermost listing has read is readable, and while one listing is    *)
(* nested in another some byte of the listing is not.                      *)
(***************************************************************************)
EXTENDS Dumpasm, TLAPS

(* Bytes of the whole listing, and the address of each.                    *)
Length == 2 * DumpReach + InsnBytes
At(k)  == Shift(Shift(insn, -DumpReach), k)

Position == i + DumpReach + byte

IInv ==
    /\ insn \in Address
    /\ i \in Int
    /\ byte \in 0 .. InsnBytes - 1
    /\ calls \in Nat \ {0}
    /\ status \in {"listing", "exited", "crashed"}
    /\ \E n \in Nat : i + DumpReach = n * InsnBytes
    /\ \A k \in 0 .. Position - 1 : Accessible(At(k))
    /\ calls > 1 => ~Listable(insn)
    /\ status = "crashed" => ~Listable(insn)
    /\ status = "exited" => Listable(insn)

-----------------------------------------------------------------------------

LEMMA Constants ==
    /\ InsnBytes \in Nat \ {0} /\ DumpReach \in Nat
    /\ AddrSpace \in Nat /\ 2 * RegionSize <= AddrSpace
    /\ RegionSize \in Nat /\ Length < RegionSize
BY DumpasmAssumption, MemoryAssumption DEF DumpasmAssumption, MemoryAssumption, Length

LEMMA ListableByteByByte ==
    Listable(insn) <=> \A k \in 0 .. Length - 1 : Accessible(At(k))
BY DEF Listable, AllAccessible, Length, At

(* The loop's offset and the listing's name the same byte.                 *)
LEMMA HereIsAt ==
    ASSUME insn \in Address, i \in Int, byte \in Int, Position \in 0 .. Length - 1
    PROVE  Here = At(Position)
<1>1. /\ i + byte = Position - DumpReach
      /\ Position \in Nat /\ Position < RegionSize /\ DumpReach < RegionSize
    BY Constants DEF Position, Length
<1> QED
    BY <1>1, Constants DEF Here, At, Shift, Address, Position

(* The loop visits whole instructions, so it ends after the last byte.     *)
LEMMA LoopEndsAfterLast ==
    ASSUME NEW n \in Nat, i + DumpReach = n * InsnBytes, i \in Int
    PROVE  /\ i <= DumpReach => i + DumpReach + InsnBytes <= Length
           /\ i > DumpReach => i + DumpReach >= Length
<1>1. PICK c \in Int : 2 * DumpReach = c * InsnBytes
    <2> DEFINE reach == 2 * DumpReach
    <2>1. reach \in Nat /\ reach % InsnBytes = 0
        BY Constants, DumpasmAssumption DEF DumpasmAssumption
    <2> HIDE DEF reach
    <2>2. reach = InsnBytes * (reach \div InsnBytes) + (reach % InsnBytes)
        BY <2>1, Constants
    <2>3. reach \div InsnBytes \in Int
        BY <2>1, Constants
    <2> DEFINE m == reach \div InsnBytes
    <2>4. reach = m * InsnBytes /\ m \in Int
        <3> HIDE DEF m
        <3>1. m \in Int /\ reach = InsnBytes * m + 0
            BY <2>1, <2>2, <2>3 DEF m
        <3> QED
            BY <2>1, <3>1, Constants
    <2> HIDE DEF m
    <2> QED
        BY <2>4 DEF reach
<1>2. ASSUME i > DumpReach PROVE i + DumpReach >= Length
    <2>1. n * InsnBytes > c * InsnBytes
        BY <1>1, <1>2, Constants
    <2>2. n > c
        BY <2>1, Constants
    <2>3. n * InsnBytes >= (c + 1) * InsnBytes
        BY <2>2, Constants
    <2>4. (c + 1) * InsnBytes = c * InsnBytes + InsnBytes
        BY Constants
    <2> QED
        BY <1>1, <2>3, <2>4, Constants DEF Length
<1>3. ASSUME i <= DumpReach PROVE i + DumpReach + InsnBytes <= Length
    BY <1>3, Constants DEF Length
<1> QED
    BY <1>2, <1>3

-----------------------------------------------------------------------------

LEMMA InitInvariant == Init => IInv
<1> SUFFICES ASSUME Init PROVE IInv
    OBVIOUS
<1>1. i + DumpReach = 0 * InsnBytes /\ Position = 0 /\ i \in Int
    BY Constants DEF Init, Position
<1>2. \A k \in 0 .. Position - 1 : Accessible(At(k))
    BY <1>1
<1>3. \E n \in Nat : i + DumpReach = n * InsnBytes
    BY <1>1
<1> QED
    BY <1>1, <1>2, <1>3, Constants DEF Init, IInv

(* While the loop runs, the next byte is one of the listing's.             *)
LEMMA NextByteIsListed ==
    ASSUME IInv, LoopRuns
    PROVE  Position \in 0 .. Length - 1 /\ Here = At(Position)
<1>1. PICK n \in Nat : i + DumpReach = n * InsnBytes
    BY DEF IInv
<1>2. i + DumpReach + InsnBytes <= Length
    BY <1>1, LoopEndsAfterLast DEF IInv, LoopRuns
<1>3. n * InsnBytes \in Nat
    BY Constants
<1>4. Position \in 0 .. Length - 1
    BY <1>1, <1>2, <1>3, Constants DEF IInv, Position, Length
<1> QED
    BY <1>4, HereIsAt DEF IInv

LEMMA ReadBytePreserves == IInv /\ ReadByte => IInv'
<1> SUFFICES ASSUME IInv, ReadByte PROVE IInv'
    OBVIOUS
<1>1. PICK n \in Nat : i + DumpReach = n * InsnBytes
    BY DEF IInv
<1>2. Position \in 0 .. Length - 1 /\ Accessible(At(Position))
    BY NextByteIsListed DEF ReadByte
<1>3. /\ i' \in Int /\ byte' \in 0 .. InsnBytes - 1
      /\ Position' = Position + 1
    BY Constants DEF IInv, ReadByte, Position
<1>4. \E k \in Nat : (i + DumpReach)' = k * InsnBytes
    <2>1. i' = i \/ i' = i + InsnBytes
        BY DEF ReadByte
    <2>2. (n + 1) * InsnBytes = n * InsnBytes + InsnBytes
        BY Constants
    <2>3. i' = i + InsnBytes => i' + DumpReach = (n + 1) * InsnBytes
        BY <1>1, <2>2, Constants DEF IInv
    <2> QED
        BY <1>1, <2>1, <2>3
<1>5. \A k \in 0 .. Position' - 1 : Accessible(At(k)')
    <2>1. \A k : At(k)' = At(k)
        BY DEF At, ReadByte
    <2>2. \A k \in 0 .. Position - 1 : Accessible(At(k))
        BY DEF IInv
    <2> QED
        BY <1>2, <1>3, <2>1, <2>2
<1>6. UNCHANGED <<insn, calls, status>> /\ Listable(insn)' = Listable(insn)
    BY DEF ReadByte, Listable
<1> QED
    BY <1>3, <1>4, <1>5, <1>6 DEF IInv

LEMMA NestedErrorPreserves == IInv /\ NestedError => IInv'
<1> SUFFICES ASSUME IInv, NestedError PROVE IInv'
    OBVIOUS
<1>1. ~Listable(insn)
    BY NextByteIsListed, ListableByteByByte DEF NestedError
<1>2. insn' = insn /\ ~Listable(insn)'
    BY <1>1 DEF NestedError, Listable
<1>3. CASE calls < StackFrames
    <2>1. /\ i' = -DumpReach /\ byte' = 0 /\ calls' = calls + 1
          /\ status' = status /\ status = "listing"
        BY <1>3 DEF NestedError
    <2>2. Position' = 0 /\ (i + DumpReach)' = 0 * InsnBytes /\ i' \in Int
        BY <2>1, Constants DEF Position
    <2>3. \A k \in 0 .. Position' - 1 : Accessible(At(k)')
        BY <2>2
    <2>4. \E n \in Nat : (i + DumpReach)' = n * InsnBytes
        BY <2>2
    <2> QED
        BY <1>2, <2>1, <2>2, <2>3, <2>4, Constants DEF IInv
<1>4. CASE ~(calls < StackFrames)
    <2>1. UNCHANGED <<i, byte, calls>> /\ status' = "crashed"
        BY <1>4 DEF NestedError
    <2>2. \A k \in 0 .. Position' - 1 : Accessible(At(k)')
        BY <1>2, <2>1 DEF IInv, Position, At
    <2> QED
        BY <1>2, <2>1, <2>2 DEF IInv
<1> QED
    BY <1>3, <1>4

LEMMA ExitPreserves == IInv /\ Exit => IInv'
<1> SUFFICES ASSUME IInv, Exit PROVE IInv'
    OBVIOUS
<1>1. PICK n \in Nat : i + DumpReach = n * InsnBytes
    BY DEF IInv
<1>2. i > DumpReach
    BY Constants DEF IInv, Exit, LoopRuns
<1>3. Position >= Length
    BY <1>1, <1>2, LoopEndsAfterLast, Constants DEF IInv, Position, Length
<1>4. Listable(insn)
    BY <1>3, ListableByteByByte, Constants DEF IInv, Length, Position
<1>5. \A k \in 0 .. Position' - 1 : Accessible(At(k)')
    BY DEF IInv, Exit, Position, At
<1> QED
    BY <1>4, <1>5 DEF IInv, Exit, Listable

LEMMA NextInvariant == IInv /\ [Next]_vars => IInv'
<1> SUFFICES ASSUME IInv, [Next]_vars PROVE IInv'
    OBVIOUS
<1>1. CASE UNCHANGED vars
    <2>1. \A k \in 0 .. Position' - 1 : Accessible(At(k)')
        BY <1>1 DEF IInv, vars, Position, At
    <2> QED
        BY <1>1, <2>1 DEF IInv, vars, Listable
<1> QED
    BY <1>1, ReadBytePreserves, NestedErrorPreserves, ExitPreserves DEF Next, Step, Finished

-----------------------------------------------------------------------------

(* The summary that Interpreter takes of an error's listing is right for   *)
(* every size of memory: exit(-1) is reached exactly when all bytes of the *)
(* listing are readable, and otherwise the recursion overflows the stack.  *)
THEOREM ListingOutcome == Spec => []OutcomeIsListable
<1>1. IInv => OutcomeIsListable
    BY DEF IInv, OutcomeIsListable
<1> QED
    BY <1>1, InitInvariant, NextInvariant, PTL DEF Spec

(* However deep the host's stack is, a nested listing never ends.          *)
THEOREM OnlyTheFirstEnds == Spec => []OnlyFirstListingEnds
<1>1. IInv => OnlyFirstListingEnds
    BY DEF IInv, OnlyFirstListingEnds
<1> QED
    BY <1>1, InitInvariant, NextInvariant, PTL DEF Spec

=============================================================================
