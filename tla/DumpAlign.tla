----------------------------- MODULE DumpAlign ------------------------------
(***************************************************************************)
(* The alignment of the dump's low address (ps2-unpacker.c 208-212) for    *)
(* any value of -a, bit by bit: one action per statement.  DumpBounds.tla  *)
(* uses its result for powers of two, which RoundsDown below justifies.    *)
(***************************************************************************)
EXTENDS Integers

CONSTANTS
    Modulus,   \* 2 to the number of bits of a u32
    Powers,    \* the powers of two below it
    BitAnd(_, _)  \* C's & on u32

Word == 0 .. Modulus - 1

(* BitAnd picks bits of either operand; a mask and its complement share a  *)
(* word out between them; and p - 1 is the mask of a remainder by p.       *)
ASSUME DumpAlignAssumption ==
    /\ Modulus \in Nat \ {0}
    /\ Powers \subseteq Word \ {0}
    /\ \A a, m \in Word : /\ BitAnd(a, m) \in 0 .. m
                          /\ BitAnd(a, Modulus - 1 - m) = a - BitAnd(a, m)
    /\ \A a \in Word, p \in Powers : BitAnd(a, p - 1) = a % p

VARIABLES
    lo_base,  \* low address, as the zero scan left it and then as it is aligned
    align,    \* the -a option
    line,     \* the statement to run
    lo_found  \* history: the low address before the alignment

vars == <<lo_base, align, line, lo_found>>

Init ==
    /\ lo_base \in Word
    /\ align \in Word
    /\ line = "test"
    /\ lo_found = lo_base

(* if (lo_base & (align - 1)), with align - 1 = 0xffffffff for align = 0   *)
Test ==
    /\ line = "test"
    /\ line' = IF BitAnd(lo_base, (align + Modulus - 1) % Modulus) # 0 THEN "add" ELSE "done"
    /\ UNCHANGED <<lo_base, align, lo_found>>

Add ==
    /\ line = "add"
    /\ lo_base' = (lo_base + align) % Modulus
    /\ line' = "mask"
    /\ UNCHANGED <<align, lo_found>>

(* Mutants: the mask is align, or align - 1, instead of -align.            *)
MaskWithAlign ==
    /\ line = "mask"
    /\ lo_base' = BitAnd(lo_base, align)
    /\ line' = "subtract"
    /\ UNCHANGED <<align, lo_found>>

MaskKeepingLowBits ==
    /\ line = "mask"
    /\ lo_base' = BitAnd(lo_base, (align + Modulus - 1) % Modulus)
    /\ line' = "subtract"
    /\ UNCHANGED <<align, lo_found>>

(* lo_base &= -align                                                       *)
Mask ==
    /\ line = "mask"
    /\ lo_base' = BitAnd(lo_base, (Modulus - align) % Modulus)
    /\ line' = "subtract"
    /\ UNCHANGED <<align, lo_found>>

Subtract ==
    /\ line = "subtract"
    /\ lo_base' = (lo_base - align + Modulus) % Modulus
    /\ line' = "done"
    /\ UNCHANGED <<align, lo_found>>

Finished == line = "done" /\ UNCHANGED vars

Next == Test \/ Add \/ Mask \/ Subtract \/ Finished

Spec == Init /\ [][Next]_vars

-----------------------------------------------------------------------------
(* Properties.                                                             *)

(* For the alignments the README lists, all powers of two, the statements  *)
(* round the low address down to a multiple, without any wrap.             *)
RoundsDown ==
    line = "done" /\ align \in Powers => lo_base = lo_found - (lo_found % align)

(* For any other value but 0 the padding stays below one alignment, so no  *)
(* byte found by the scans is cut off: unless the low address is itself    *)
(* below the alignment, when it may wrap to the top of the address space.  *)
PaddingBelowAlign ==
    line = "done" /\ align # 0 /\ lo_found >= align - 1 =>
        lo_base <= lo_found /\ lo_found - lo_base < align

(* What the README says: "Any value accepted", and "The low address will   *)
(* be aligned to the alignment specified".                                 *)
AlignedToAnyValue == line = "done" /\ align # 0 => lo_base % align = 0
=============================================================================
