----------------------------- MODULE DumpBounds -----------------------------
(***************************************************************************)
(* How main finds the part of memory to dump, around the entry point       *)
(* (ps2-unpacker.c 203-220): two scans over the write tags, two over zero  *)
(* bytes, and the alignment of the low address.  One action is one test of *)
(* a loop's condition with what follows it.                                *)
(*                                                                         *)
(* The scans index tags[] and memory[] without a bounds check.  A read     *)
(* past either end returns whatever the host has there, or faults; the     *)
(* history variable `stray' says that such a read has happened.            *)
(***************************************************************************)
EXTENDS Memory

CONSTANTS
    Byte,   \* values of a byte, 0 among them
    Align   \* the -a option, here a power of two (see DumpAlign.tla for others)

ASSUME DumpBoundsAssumption ==
    /\ 0 \in Byte
    /\ Align \in Nat \ {0}
    /\ AddrSpace % Align = 0

VARIABLES
    memory,     \* contents of memory[] when emulation ends
    written,    \* cells whose tag has the write bit
    bounce_pc,  \* the entry point
    opt_lo,     \* the -l option, 0 if absent
    opt_hi,     \* the -i option, 0 if absent
    lo_base,    \* low address of the dump
    hi_base,    \* high address of the dump (exclusive)
    scan,       \* where main is
    stray       \* history: a read past the arrays has happened

given == <<memory, written, bounce_pc, opt_lo, opt_hi>>
vars == <<given, lo_base, hi_base, scan, stray>>

Scans == {"lo_start", "lo_down", "lo_skip", "lo_align",
          "hi_start", "hi_up", "hi_trim", "done", "crashed"}

(* The program may have left anything in memory and anywhere in the tags.  *)
Init ==
    /\ memory \in [Cell -> Byte]
    /\ written \in SUBSET Cell
    /\ bounce_pc \in Address \ {0}
    /\ opt_lo \in Address
    /\ opt_hi \in Address
    /\ lo_base = opt_lo
    /\ hi_base = opt_hi
    /\ scan = "lo_start"
    /\ stray = FALSE

(* What is_zero(a) may return: memory[a] is read with no mapping or check. *)
IsZero(a) == IF a \in Cell THEN { memory[a] = 0 } ELSE BOOLEAN

Noted(a) == stray' = (stray \/ a \notin Cell)

(* if (!lo_base) for (lo_base = bounce_pc; ...                             *)
LowStart ==
    /\ scan = "lo_start"
    /\ \/ lo_base = 0 /\ lo_base' = bounce_pc /\ scan' = "lo_down"
       \/ lo_base # 0 /\ scan' = "hi_start" /\ UNCHANGED lo_base
    /\ UNCHANGED <<given, hi_base, stray>>

(* Mutant: the loop forgets lo_base--.                                     *)
LowDownWithoutDecrement ==
    LET below == Shift(lo_base, -1) IN
    /\ scan = "lo_down"
    /\ \/ TRUE \in HasWrite(written, below) /\ UNCHANGED <<lo_base, scan>>
       \/ FALSE \in HasWrite(written, below) /\ scan' = "lo_skip" /\ UNCHANGED lo_base
    /\ Noted(below)
    /\ UNCHANGED <<given, hi_base>>

(* Mutant: the loop tests has_write(lo_base).                              *)
LowDownTestsOwn ==
    /\ scan = "lo_down"
    /\ \/ TRUE \in HasWrite(written, lo_base)
          /\ lo_base' = Shift(lo_base, -1) /\ UNCHANGED scan
       \/ FALSE \in HasWrite(written, lo_base) /\ scan' = "lo_skip" /\ UNCHANGED lo_base
    /\ Noted(lo_base)
    /\ UNCHANGED <<given, hi_base>>

(* ... has_write(lo_base - 1); lo_base--)                                  *)
LowDown ==
    LET below == Shift(lo_base, -1) IN
    /\ scan = "lo_down"
    /\ \/ TRUE \in HasWrite(written, below) /\ lo_base' = below /\ UNCHANGED scan
       \/ FALSE \in HasWrite(written, below) /\ scan' = "lo_skip" /\ UNCHANGED lo_base
    /\ Noted(below)
    /\ UNCHANGED <<given, hi_base>>

(* for (; is_zero(lo_base); lo_base++)                                     *)
LowSkip ==
    /\ scan = "lo_skip"
    /\ \/ TRUE \in IsZero(lo_base) /\ lo_base' = Shift(lo_base, 1) /\ UNCHANGED scan
       \/ FALSE \in IsZero(lo_base) /\ scan' = "lo_align" /\ UNCHANGED lo_base
    /\ Noted(lo_base)
    /\ UNCHANGED <<given, hi_base>>

(* Mutants: line 209 or line 211 of ps2-unpacker.c is missing.             *)
AlignDownWithoutAdding(a) == Shift(a - (a % Align), -Align)
AlignUp(a) == IF a % Align = 0 THEN a ELSE a - (a % Align) + Align

(* The next lower multiple of Align: what the mask, the addition and the   *)
(* subtraction of lines 208-212 come to when Align is a power of two.      *)
AlignDown(a) == a - (a % Align)

LowAlign ==
    /\ scan = "lo_align"
    /\ lo_base' = AlignDown(lo_base)
    /\ scan' = "hi_start"
    /\ UNCHANGED <<given, hi_base, stray>>

(* Mutant: -i is not looked at.                                            *)
HighStartAlwaysScans ==
    /\ scan = "hi_start"
    /\ hi_base' = bounce_pc
    /\ scan' = "hi_up"
    /\ UNCHANGED <<given, lo_base, stray>>

(* if (!hi_base) for (hi_base = bounce_pc; ...                             *)
HighStart ==
    /\ scan = "hi_start"
    /\ \/ hi_base = 0 /\ hi_base' = bounce_pc /\ scan' = "hi_up"
       \/ hi_base # 0 /\ scan' = "done" /\ UNCHANGED hi_base
    /\ UNCHANGED <<given, lo_base, stray>>

(* ... has_write(hi_base + 1); hi_base++)                                  *)
HighUp ==
    LET above == Shift(hi_base, 1) IN
    /\ scan = "hi_up"
    /\ \/ TRUE \in HasWrite(written, above) /\ hi_base' = above /\ UNCHANGED scan
       \/ FALSE \in HasWrite(written, above) /\ scan' = "hi_trim" /\ UNCHANGED hi_base
    /\ Noted(above)
    /\ UNCHANGED <<given, lo_base>>

(* Mutant: the loop tests is_zero(hi_base).                                *)
HighTrimOffByOne ==
    /\ scan = "hi_trim"
    /\ \/ TRUE \in IsZero(hi_base) /\ hi_base' = Shift(hi_base, -1) /\ UNCHANGED scan
       \/ FALSE \in IsZero(hi_base) /\ scan' = "done" /\ UNCHANGED hi_base
    /\ Noted(hi_base)
    /\ UNCHANGED <<given, lo_base>>

(* for (; is_zero(hi_base - 1); hi_base--)                                 *)
HighTrim ==
    LET below == Shift(hi_base, -1) IN
    /\ scan = "hi_trim"
    /\ \/ TRUE \in IsZero(below) /\ hi_base' = below /\ UNCHANGED scan
       \/ FALSE \in IsZero(below) /\ scan' = "done" /\ UNCHANGED hi_base
    /\ Noted(below)
    /\ UNCHANGED <<given, lo_base>>

(* The address the loop in progress is about to read.                      *)
Probed ==
    CASE scan \in {"lo_down"} -> Shift(lo_base, -1)
      [] scan \in {"lo_skip"} -> lo_base
      [] scan \in {"hi_up"}   -> Shift(hi_base, 1)
      [] scan \in {"hi_trim"} -> Shift(hi_base, -1)
      [] OTHER -> 0

(* A read past the arrays may also fault.                                  *)
ProbeFault ==
    /\ Probed \notin Cell
    /\ scan' = "crashed"
    /\ stray' = TRUE
    /\ UNCHANGED <<given, lo_base, hi_base>>

Step ==
    \/ LowStart \/ LowDown \/ LowSkip \/ LowAlign
    \/ HighStart \/ HighUp \/ HighTrim \/ ProbeFault

Finished == scan \in {"done", "crashed"} /\ UNCHANGED vars

Next == Step \/ Finished

Spec == Init /\ [][Next]_vars

(* main runs the loops and waits for nothing. *)
FairSpec == Spec /\ WF_vars(Step)

-----------------------------------------------------------------------------
(* Properties.                                                             *)

(* Every variable stays in its type. *)
TypeOK ==
    /\ memory \in [Cell -> Byte]
    /\ written \subseteq Cell
    /\ bounce_pc \in Address \ {0}
    /\ opt_lo \in Address
    /\ opt_hi \in Address
    /\ lo_base \in Address
    /\ hi_base \in Address
    /\ scan \in Scans
    /\ stray \in BOOLEAN

(* The block of written memory around the entry point: the cells joined to *)
(* it by written ones.  The entry point's own tag does not matter.         *)
InBlock(c) ==
    /\ c \in Cell
    /\ \A b \in Cell : c <= b /\ b < bounce_pc => b \in written
    /\ \A b \in Cell : bounce_pc < b /\ b <= c => b \in written

(* The scans are over and every read was inside the arrays.  (From an      *)
(* entry point of 0xffffffff the upward scan would wrap to 0: an address   *)
(* outside memory has no block around it.)                                 *)
Settled == scan = "done" /\ ~stray /\ bounce_pc \in Cell

(* The README's promise, as far as the code keeps it: every non-zero byte  *)
(* of the block but the block's last one is dumped, unless -l or -i says   *)
(* otherwise.                                                              *)
NoNonZeroLost ==
    \A c \in Cell :
        Settled /\ memory[c] # 0 /\ InBlock(c) /\ InBlock(c + 1) =>
            (opt_lo = 0 => lo_base <= c) /\ (opt_hi = 0 => c < hi_base)

(* Only the block is dumped, and below it the padding that aligns the low  *)
(* address.                                                                *)
NothingForeign ==
    \A c \in Cell :
        Settled /\ opt_lo = 0 /\ opt_hi = 0 /\ lo_base + Align <= c /\ c < hi_base =>
            InBlock(c)

(* The entry point lies in the dump exactly if what the zero scans pass    *)
(* over leaves it there: it lies below the dump if everything from the     *)
(* block's low end to the next aligned address above it is zero, as where  *)
(* an unpacked program begins with nops; and above it if nothing from it   *)
(* to the block's last byte is non-zero.                                   *)
EntryInsideDump ==
    Settled =>
        /\ opt_lo = 0 =>
              (lo_base <= bounce_pc <=>
                  \E c \in Cell :
                      /\ memory[c] # 0 /\ c < AlignDown(bounce_pc) + Align
                      /\ \A b \in Cell : c <= b /\ b < bounce_pc => b \in written)
        /\ opt_hi = 0 =>
              (bounce_pc < hi_base <=>
                  \E c \in Cell :
                      memory[c] # 0 /\ bounce_pc <= c /\ InBlock(c) /\ InBlock(c + 1))

(* The block has a non-zero byte besides its last, and does not touch the  *)
(* end of memory towards which a scan over the tags goes.                  *)
Contained ==
    /\ bounce_pc \in Cell
    /\ opt_lo = 0 => ~InBlock(0)
    /\ opt_hi = 0 => ~InBlock(MemSize - 1)
    /\ \E c \in Cell : memory[c] # 0 /\ InBlock(c) /\ InBlock(c + 1)

(* From such a block the four loops, which test no bound, never read past  *)
(* the arrays; the zero scans do not cross, so the size does not wrap.     *)
SizeDoesNotWrap ==
    Contained =>
        /\ ~stray
        /\ scan = "done" /\ opt_lo = 0 /\ opt_hi = 0 => lo_base < hi_base /\ hi_base <= MemSize

(* The four loops end: for such a block main goes on to the dump; for any  *)
(* other they may also leave the arrays, and then nothing is promised.     *)
ScansEnd == <>(scan = "done" \/ (~Contained /\ (scan = "crashed" \/ stray)))

(* What the README says: "The bloc of non-zero written memory around the   *)
(* detected entry point will be dumped."  The code drops the last byte.    *)
BlockIsDumped ==
    \A c \in Cell :
        Settled /\ opt_lo = 0 /\ opt_hi = 0
            /\ c \in written /\ memory[c] # 0 /\ InBlock(c) =>
            lo_base <= c /\ c < hi_base
=============================================================================
