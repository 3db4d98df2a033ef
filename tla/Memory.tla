------------------------------- MODULE Memory -------------------------------
(***************************************************************************)
(* The flat memory of the emulated machine (memory.c): how a guest address *)
(* is mapped to a cell of memory[] and tags[], which accesses fault, and   *)
(* what a run of byte accesses reaches before it faults.                   *)
(*                                                                         *)
(* The real sizes are MemSize = 32 MiB, RegionSize = 2^27 and              *)
(* AddrSpace = 2^32; the model keeps their order, not their values.        *)
(***************************************************************************)
EXTENDS Integers

CONSTANTS
    MemSize,     \* bytes in memory[] and in tags[]
    RegionSize,  \* bytes selected by one value of mem & 0xf8000000
    AddrSpace    \* number of guest addresses (u32)

ASSUME MemoryAssumption ==
    /\ MemSize \in Nat \ {0}
    /\ RegionSize \in Nat
    /\ AddrSpace \in Nat
    /\ MemSize < RegionSize
    /\ 2 * RegionSize <= AddrSpace

Address == 0 .. AddrSpace - 1
Cell    == 0 .. MemSize - 1

(* Mutant: an address computed in more than 32 bits.                       *)
ShiftWithoutWrap(a, k) == a + k

(* u32 arithmetic: a + k modulo the address space, for -AddrSpace <= k <= AddrSpace. *)
Shift(a, k) ==
    IF a + k < 0 THEN a + k + AddrSpace
    ELSE IF a + k >= AddrSpace THEN a + k - AddrSpace
    ELSE a + k

(* Region 0 is memory itself, region 8 (0x08000000) is its mirror. *)
Mapped(a)  == a < 2 * RegionSize
Resolve(a) == IF a < RegionSize THEN a ELSE a - RegionSize

Accessible(a)       == Mapped(a) /\ Resolve(a) < MemSize
AllAccessible(a, n) == \A i \in 0 .. n - 1 : Accessible(Shift(a, i))

(* Mutant: the mirror's bit is tested but not cleared.                     *)
ReachedUnmasked(a, n) ==
    { Shift(a, i) :
        i \in { j \in 0 .. n - 1 : \A k \in 0 .. j : Accessible(Shift(a, k)) } }

(* The cells an n-byte access at a reaches, byte after byte, before the    *)
(* first byte that faults.                                                 *)
Reached(a, n) ==
    { Resolve(Shift(a, i)) :
        i \in { j \in 0 .. n - 1 : \A k \in 0 .. j : Accessible(Shift(a, k)) } }

(* What has_write(a) may return.  It indexes tags[] with the guest address *)
(* itself, neither mapped nor checked: past the array the value read is    *)
(* whatever the build has there (and the read may fault, see the callers). *)
HasWrite(written, a) == IF a \in Cell THEN { a \in written } ELSE BOOLEAN
=============================================================================
