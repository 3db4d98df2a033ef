----------------------------- MODULE Unaligned ------------------------------
(***************************************************************************)
(* The partial loads and stores (Interpreter.c 368-571): LWL, LWR, SWL,    *)
(* SWR and their 64-bit forms, which a program uses in pairs to reach a    *)
(* word at any address.  Each reads the aligned word around its address,   *)
(* merges it with the register by a mask and a shift taken from a table,   *)
(* and a store writes the whole aligned word back.                         *)
(*                                                                         *)
(* Masks and shifts are whole bytes, so a word is a sequence of bytes, the *)
(* least significant first, and the tables are functions of the address.   *)
(* Faults and write tags are in Interpreter.tla (MergeStore).              *)
(***************************************************************************)
EXTENDS Integers

CONSTANTS
    Byte,      \* values of a byte, 0 among them
    Words,     \* 64-bit words of memory
    MaxSteps   \* bound: instructions executed

ASSUME UnalignedAssumption ==
    /\ 0 \in Byte
    /\ Words \in Nat \ {0}
    /\ MaxSteps \in Nat

Cell == 0 .. 8 * Words - 1
Size == {4, 8}

VARIABLES
    memory,  \* the bytes of memory[]
    reg,     \* the low 64 bits of register rt
    last,    \* history: the instruction executed last
    steps    \* instructions executed

vars == <<memory, reg, last, steps>>

Init ==
    /\ memory \in [Cell -> Byte]
    /\ reg \in [0 .. 7 -> Byte]
    /\ last = [op |-> "none", size |-> 4, addr |-> 0]
    /\ steps = 0

-----------------------------------------------------------------------------
(* Words, masks and shifts.                                                *)

Offset(n, a) == a % n
Base(n, a)   == a - Offset(n, a)

Word(n, a) == [i \in 0 .. n - 1 |-> memory[Base(n, a) + i]]
Low(n)     == [i \in 0 .. n - 1 |-> reg[i]]

Keep(v, kept)     == [i \in DOMAIN v |-> IF i \in kept THEN v[i] ELSE 0]
ShiftLeft(v, k)   == [i \in DOMAIN v |-> IF i - k \in DOMAIN v THEN v[i - k] ELSE 0]
ShiftRight(v, k)  == [i \in DOMAIN v |-> IF i + k \in DOMAIN v THEN v[i + k] ELSE 0]

(* OR of two words that have no byte in common. *)
Or(u, v) == [i \in DOMAIN u |-> IF u[i] = 0 THEN v[i] ELSE u[i]]

(* Mutants: a mask table and a shift shifted by one entry, and a mask table *)
(* written for the other byte order.                                        *)
LWL_MASKOffByOne(n, s) == 0 .. n - 1 - s
SWR_MASKSwapped(n, s)  == n - s .. n - 1
LeftShiftOffByOne(n, s) == n - s

(* The tables: which bytes survive, and by how many bytes the word moves.  *)
LWL_MASK(n, s) == 0 .. n - 2 - s
LWR_MASK(n, s) == n - s .. n - 1
SWL_MASK(n, s) == s + 1 .. n - 1
SWR_MASK(n, s) == 0 .. s - 1
LeftShift(n, s)  == n - 1 - s
RightShift(n, s) == s

(* The result of a load replaces the register's 64 bits: 32-bit forms are  *)
(* zero-extended, unlike LW.                                               *)
SetReg(v) == reg' = [i \in 0 .. 7 |-> IF i \in DOMAIN v THEN v[i] ELSE 0]

SetWord(n, a, v) ==
    memory' = [c \in Cell |->
                 IF c - Base(n, a) \in 0 .. n - 1 THEN v[c - Base(n, a)] ELSE memory[c]]

Executed(op, n, a) ==
    /\ steps < MaxSteps
    /\ steps' = steps + 1
    /\ last' = [op |-> op, size |-> n, addr |-> a]

-----------------------------------------------------------------------------
(* The instructions, 32-bit for n = 4 and 64-bit for n = 8.                *)

LoadLeft(n, a) ==
    LET s == Offset(n, a) IN
    /\ Executed("LoadLeft", n, a)
    /\ SetReg(Or(Keep(Low(n), LWL_MASK(n, s)), ShiftLeft(Word(n, a), LeftShift(n, s))))
    /\ UNCHANGED memory

LoadRight(n, a) ==
    LET s == Offset(n, a) IN
    /\ Executed("LoadRight", n, a)
    /\ SetReg(Or(Keep(Low(n), LWR_MASK(n, s)), ShiftRight(Word(n, a), RightShift(n, s))))
    /\ UNCHANGED memory

StoreLeft(n, a) ==
    LET s == Offset(n, a) IN
    /\ Executed("StoreLeft", n, a)
    /\ SetWord(n, a, Or(ShiftRight(Low(n), LeftShift(n, s)), Keep(Word(n, a), SWL_MASK(n, s))))
    /\ UNCHANGED reg

StoreRight(n, a) ==
    LET s == Offset(n, a) IN
    /\ Executed("StoreRight", n, a)
    /\ SetWord(n, a, Or(ShiftLeft(Low(n), RightShift(n, s)), Keep(Word(n, a), SWR_MASK(n, s))))
    /\ UNCHANGED reg

LWL(a) == LoadLeft(4, a)
LWR(a) == LoadRight(4, a)
LDL(a) == LoadLeft(8, a)
LDR(a) == LoadRight(8, a)
SWL(a) == StoreLeft(4, a)
SWR(a) == StoreRight(4, a)
SDL(a) == StoreLeft(8, a)
SDR(a) == StoreRight(8, a)

Step ==
    \E a \in Cell :
        \/ LWL(a) \/ LWR(a) \/ LDL(a) \/ LDR(a)
        \/ SWL(a) \/ SWR(a) \/ SDL(a) \/ SDR(a)

Finished == steps = MaxSteps /\ UNCHANGED vars

Next == Step \/ Finished

Spec == Init /\ [][Next]_vars

-----------------------------------------------------------------------------
(* Properties.                                                             *)

(* The left form of a pair names the last byte of the word at a, the right *)
(* form its first; a program may run them in either order.                 *)
Pair(left, right, n, a) ==
    LET L == [op |-> left, size |-> n, addr |-> a + n - 1]
        R == [op |-> right, size |-> n, addr |-> a]
    IN  steps' # steps /\ {last, last'} = {L, R}

(* A pair of partial loads fetches the word at any address, aligned or not. *)
PairLoadsWord ==
    [][ \A n \in Size, a \in Cell :
            Pair("LoadLeft", "LoadRight", n, a) =>
                \A i \in 0 .. n - 1 : reg'[i] = memory[a + i] ]_vars

(* A pair of partial stores writes the register at any address. *)
PairStoresWord ==
    [][ \A n \in Size, a \in Cell :
            Pair("StoreLeft", "StoreRight", n, a) =>
                \A i \in 0 .. n - 1 : memory'[a + i] = reg[i] ]_vars

(* Although the whole aligned word is written back, a partial store changes *)
(* no byte but those from the word's start to its address (left) or from    *)
(* its address to the word's end (right): what MergeStore of Interpreter    *)
(* takes for the bytes the program stored.                                  *)
StoresOnlyAddressed ==
    [][ \A c \in Cell :
            memory'[c] # memory[c] =>
                LET n == last'.size
                    a == last'.addr
                IN  /\ Base(n, a) <= c /\ c < Base(n, a) + n
                    /\ last'.op = "StoreLeft" => c <= a
                    /\ last'.op = "StoreRight" => c >= a ]_vars
=============================================================================
