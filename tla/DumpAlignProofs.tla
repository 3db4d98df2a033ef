-------------------------- MODULE DumpAlignProofs ---------------------------
(***************************************************************************)
(* RoundsDown and PaddingBelowAlign hold for every width of a word and     *)
(* every & that picks bits.  Whatever the alignment, the masked sum less   *)
(* the alignment is the low address less BitAnd(sum, align - 1): the low bits *)
(* of the sum, and so of the low address if the alignment is a power of    *)
(* two.                                                                    *)
(***************************************************************************)
EXTENDS DumpAlign, TLAPS

-----------------------------------------------------------------------------
(* Remainders.                                                             *)

LEMMA DivMod ==
    ASSUME NEW m \in Nat \ {0}, NEW x \in Int
    PROVE  /\ x \div m \in Int
           /\ x % m \in 0 .. m - 1
           /\ x = m * (x \div m) + (x % m)
<1>1. m \in Int /\ m > 0
    OBVIOUS
<1>2. x \div m \in Int /\ x % m \in Int
    BY <1>1
<1>3. x % m \in 0 .. m - 1
    BY <1>1
<1>4. x = m * (x \div m) + (x % m)
    BY <1>1
<1> QED
    BY <1>2, <1>3, <1>4

LEMMA SmallMultiple ==
    ASSUME NEW m \in Nat \ {0}, NEW k \in Int
    PROVE  /\ k > 0 => m * k >= m
           /\ k < 0 => m * k <= -m
           /\ k > 1 => m * k >= 2 * m
OBVIOUS

LEMMA ModUnique ==
    ASSUME NEW m \in Nat \ {0}, NEW x \in Int, NEW y \in 0 .. m - 1, NEW k \in Int,
           x = m * k + y
    PROVE  x % m = y
<1> DEFINE d == x \div m
           r == x % m
<1>1. d \in Int /\ r \in 0 .. m - 1 /\ x = m * d + r
    BY DivMod
<1> HIDE DEF d, r
<1>2. m * (d - k) = y - r
    BY <1>1
<1>3. d - k = 0
    BY <1>1, <1>2, SmallMultiple, d - k \in Int
<1> QED
    BY <1>1, <1>2, <1>3 DEF r

LEMMA ModNear ==
    ASSUME NEW m \in Nat \ {0}, NEW x \in Int
    PROVE  /\ x \in 0 .. m - 1 => x % m = x
           /\ x \in -m .. -1 => x % m = x + m
           /\ x \in m .. 2 * m - 1 => x % m = x - m
<1>1. ASSUME x \in 0 .. m - 1 PROVE x % m = x
    BY <1>1, ModUnique, x = m * 0 + x
<1>2. ASSUME x \in -m .. -1 PROVE x % m = x + m
    BY <1>2, ModUnique, x = m * (-1) + (x + m)
<1>3. ASSUME x \in m .. 2 * m - 1 PROVE x % m = x - m
    BY <1>3, ModUnique, x = m * 1 + (x - m)
<1> QED
    BY <1>1, <1>2, <1>3

-----------------------------------------------------------------------------
(* The masks.                                                              *)

LEMMA Masks ==
    ASSUME NEW n \in Word \ {0}
    PROVE  /\ (n + Modulus - 1) % Modulus = n - 1
           /\ (Modulus - n) % Modulus = Modulus - 1 - (n - 1)
           /\ n - 1 \in Word
<1>1. Modulus \in Nat \ {0} /\ n \in 1 .. Modulus - 1
    BY DumpAlignAssumption DEF DumpAlignAssumption, Word
<1> DEFINE s == n + Modulus - 1
           t == Modulus - n
<1>2. s \in Int /\ s \in Modulus .. 2 * Modulus - 1 /\ t \in Int /\ t \in 0 .. Modulus - 1
    BY <1>1
<1> HIDE DEF s, t
<1>3. s % Modulus = s - Modulus /\ t % Modulus = t
    BY <1>1, <1>2, ModNear
<1> QED
    BY <1>1, <1>3 DEF Word, s, t

LEMMA SumInWord ==
    ASSUME NEW lo \in Word, NEW n \in Word
    PROVE  /\ (lo + n) % Modulus \in Word
           /\ (lo + n) % Modulus = lo + n \/ (lo + n) % Modulus = lo + n - Modulus
<1>1. Modulus \in Nat \ {0} /\ lo \in 0 .. Modulus - 1 /\ n \in 0 .. Modulus - 1
    BY DumpAlignAssumption DEF DumpAlignAssumption, Word
<1> DEFINE s == lo + n
<1>2. s \in Int /\ (s \in 0 .. Modulus - 1 \/ s \in Modulus .. 2 * Modulus - 1)
    BY <1>1
<1> HIDE DEF s
<1>3. CASE s \in 0 .. Modulus - 1
    <2>1. s % Modulus = s
        BY <1>1, <1>2, <1>3, ModNear
    <2> QED
        BY <1>3, <2>1 DEF s, Word
<1>4. CASE s \in Modulus .. 2 * Modulus - 1
    <2>1. s % Modulus = s - Modulus
        BY <1>1, <1>2, <1>4, ModNear
    <2>2. s - Modulus \in Word
        BY <1>1, <1>4 DEF Word
    <2> QED
        BY <1>1, <2>1, <2>2 DEF s
<1> QED
    BY <1>2, <1>3, <1>4

(* The three statements take away BitAnd(sum, align - 1), if that leaves   *)
(* anything.                                                               *)
LEMMA TakesLowBits ==
    ASSUME NEW lo \in Word, NEW n \in Word \ {0},
           NEW x, x = (lo + n) % Modulus,
           lo >= BitAnd(x, n - 1)
    PROVE  (BitAnd(x, (Modulus - n) % Modulus) - n + Modulus) % Modulus = lo - BitAnd(x, n - 1)
<1>1. Modulus \in Nat \ {0} /\ lo \in 0 .. Modulus - 1 /\ n \in 1 .. Modulus - 1 /\ x \in 0 .. Modulus - 1
    BY SumInWord, DumpAlignAssumption DEF DumpAlignAssumption, Word
<1>2. n - 1 \in Word /\ x \in Word /\ (Modulus - n) % Modulus = Modulus - 1 - (n - 1)
    BY <1>1, Masks DEF Word
<1> DEFINE low == BitAnd(x, n - 1)
           high == BitAnd(x, (Modulus - n) % Modulus)
<1>3. low \in 0 .. n - 1 /\ high = x - low
    BY <1>2, DumpAlignAssumption DEF DumpAlignAssumption
<1>4. BitAnd(x, Modulus - 1 - (n - 1)) \in 0 .. Modulus - 1 - (n - 1)
    <2>1. Modulus - 1 - (n - 1) \in Word
        BY <1>1 DEF Word
    <2> QED
        BY <1>2, <2>1, DumpAlignAssumption DEF DumpAlignAssumption
<1>5. high \in Nat
    BY <1>1, <1>2, <1>4
<1>6. x = lo + n \/ x = lo + n - Modulus
    BY SumInWord
<1>7. lo >= low
    OBVIOUS
<1> DEFINE rest == high - n + Modulus
<1> HIDE DEF low, high
<1>8. CASE x = lo + n
    <2>1. rest \in Int /\ rest = (lo - low) + Modulus
        BY <1>1, <1>3, <1>8
    <2>2. rest \in Modulus .. 2 * Modulus - 1
        BY <1>1, <1>3, <1>7, <2>1
    <2> HIDE DEF rest
    <2>3. rest % Modulus = rest - Modulus
        BY <1>1, <2>1, <2>2, ModNear
    <2>4. rest % Modulus = lo - low
        BY <1>1, <1>3, <2>1, <2>3
    <2> QED
        BY <2>4 DEF rest, high, low
<1>9. CASE x = lo + n - Modulus
    <2>1. rest \in Int /\ rest = lo - low
        BY <1>1, <1>3, <1>9
    <2>2. rest \in 0 .. Modulus - 1
        BY <1>1, <1>3, <1>7, <2>1
    <2> HIDE DEF rest
    <2>3. rest % Modulus = rest
        BY <1>1, <2>1, <2>2, ModNear
    <2> QED
        BY <2>1, <2>3 DEF rest, high, low
<1> QED
    BY <1>6, <1>8, <1>9

(* A power of two divides the modulus: all bits of the mask p - 1 are in   *)
(* the greatest word.                                                      *)
LEMMA PowersDivide ==
    ASSUME NEW p \in Powers
    PROVE  \E q \in Int : Modulus = p * q
<1>1. Modulus \in Nat \ {0} /\ p \in 1 .. Modulus - 1 /\ p \in Nat \ {0}
    BY DumpAlignAssumption DEF DumpAlignAssumption, Word
<1> DEFINE all == Modulus - 1
           m == p - 1
<1>2. all \in Word /\ m \in Word /\ Modulus - 1 - m \in Word
    BY <1>1 DEF Word
<1>3. BitAnd(all, m) \in 0 .. m /\ BitAnd(all, Modulus - 1 - m) = all - BitAnd(all, m)
    BY <1>2, DumpAlignAssumption DEF DumpAlignAssumption
<1>4. BitAnd(all, Modulus - 1 - m) \in 0 .. Modulus - 1 - m
    BY <1>2, DumpAlignAssumption DEF DumpAlignAssumption
<1>5. BitAnd(all, m) = m
    BY <1>1, <1>3, <1>4
<1>6. BitAnd(all, p - 1) = all % p
    BY <1>2, DumpAlignAssumption DEF DumpAlignAssumption
<1> DEFINE d == all \div p
           r == all % p
<1>7. all \in Int
    BY <1>1
<1> HIDE DEF all
<1>8. d \in Int /\ all = p * d + r /\ r = p - 1
    BY <1>1, <1>5, <1>6, <1>7, DivMod
<1> HIDE DEF d, r
<1>9. Modulus = p * (d + 1) /\ d + 1 \in Int
    BY <1>1, <1>8 DEF all
<1> QED
    BY <1>9

LEMMA SumKeepsRemainder ==
    ASSUME NEW lo \in Word, NEW p \in Powers
    PROVE  ((lo + p) % Modulus) % p = lo % p
<1>1. Modulus \in Nat \ {0} /\ lo \in Int /\ p \in Nat \ {0} /\ p \in Word
    BY DumpAlignAssumption DEF DumpAlignAssumption, Word
<1> DEFINE x == (lo + p) % Modulus
           a == lo \div p
           r == lo % p
<1>2. a \in Int /\ r \in 0 .. p - 1 /\ lo = p * a + r
    BY <1>1, DivMod
<1>3. x = lo + p \/ x = lo + p - Modulus
    BY <1>1, SumInWord
<1>4. PICK q \in Int : Modulus = p * q
    BY PowersDivide
<1> HIDE DEF x, a, r
<1>5. CASE x = lo + p
    <2>1. x = p * (a + 1) + r /\ x \in Int /\ a + 1 \in Int
        BY <1>1, <1>2, <1>5
    <2>2. x % p = r
        BY <1>1, <1>2, <2>1, ModUnique
    <2> QED
        BY <2>2 DEF x, r
<1>6. CASE x = lo + p - Modulus
    <2>1. x = p * (a + 1 - q) + r /\ x \in Int /\ a + 1 - q \in Int
        BY <1>1, <1>2, <1>4, <1>6
    <2>2. x % p = r
        BY <1>1, <1>2, <2>1, ModUnique
    <2> QED
        BY <2>2 DEF x, r
<1> QED
    BY <1>3, <1>5, <1>6

-----------------------------------------------------------------------------
(* The statements.                                                         *)

Aligned ==
    /\ align \in Powers => lo_base = lo_found - (lo_found % align)
    /\ align # 0 /\ lo_found >= align - 1 => lo_base <= lo_found /\ lo_found - lo_base < align

AInv ==
    /\ lo_base \in Word /\ align \in Word /\ lo_found \in Word
    /\ line \in {"test", "add", "mask", "subtract", "done"}
    /\ line \in {"test", "add"} => lo_base = lo_found
    /\ line = "mask" => lo_base = (lo_found + align) % Modulus
    /\ line = "subtract" => lo_base = BitAnd((lo_found + align) % Modulus, (Modulus - align) % Modulus)
    /\ line = "done" => Aligned

LEMMA TestKeeps == AInv /\ Test => AInv'
<1> SUFFICES ASSUME AInv, Test PROVE AInv'
    OBVIOUS
<1>1. lo_base \in Word /\ align \in Word /\ lo_found = lo_base /\ UNCHANGED <<lo_base, align, lo_found>>
    BY DEF AInv, Test
<1>2. line' \in {"add", "done"}
    BY DEF Test
<1>3. ASSUME line' = "done", align \in Powers PROVE lo_base % align = 0
    <2>1. align \in Word \ {0}
        BY <1>3, DumpAlignAssumption DEF DumpAlignAssumption
    <2>2. BitAnd(lo_base, align - 1) = 0
        BY <1>3, <2>1, Masks DEF Test
    <2> QED
        BY <1>1, <1>3, <2>2, DumpAlignAssumption DEF DumpAlignAssumption
<1>4. line' = "done" => Aligned'
    <2>1. lo_base \in Int /\ align \in Nat
        BY <1>1, DumpAlignAssumption DEF DumpAlignAssumption, Word
    <2> QED
        BY <1>1, <1>3, <2>1 DEF Aligned
<1> QED
    BY <1>1, <1>2, <1>4 DEF AInv

LEMMA AddKeeps == AInv /\ Add => AInv'
BY SumInWord DEF AInv, Add

LEMMA MaskKeeps == AInv /\ Mask => AInv'
<1> SUFFICES ASSUME AInv, Mask PROVE AInv'
    OBVIOUS
<1> DEFINE mask == (Modulus - align) % Modulus
<1>1. lo_base \in Word /\ align \in Word /\ Modulus \in Nat \ {0}
    BY DumpAlignAssumption DEF AInv, DumpAlignAssumption
<1>2. Modulus - align \in Int
    BY <1>1 DEF Word
<1>3. mask \in 0 .. Modulus - 1
    BY <1>1, <1>2, DivMod
<1> HIDE DEF mask
<1>4. BitAnd(lo_base, mask) \in 0 .. mask
    BY <1>1, <1>3, DumpAlignAssumption DEF DumpAlignAssumption, Word
<1>5. BitAnd(lo_base, mask) \in Word
    BY <1>1, <1>3, <1>4 DEF Word
<1> QED
    BY <1>5 DEF AInv, Mask, mask

LEMMA SubtractKeeps == AInv /\ Subtract => AInv'
<1> SUFFICES ASSUME AInv, Subtract PROVE AInv'
    OBVIOUS
<1> DEFINE x == (lo_found + align) % Modulus
<1>1. /\ lo_base \in Word /\ align \in Word /\ lo_found \in Word /\ Modulus \in Nat \ {0}
      /\ lo_base = BitAnd(x, (Modulus - align) % Modulus)
      /\ lo_base' = (lo_base - align + Modulus) % Modulus
      /\ line' = "done" /\ UNCHANGED <<align, lo_found>>
    BY DumpAlignAssumption DEF AInv, Subtract, DumpAlignAssumption
<1>2. x \in Word
    BY <1>1, SumInWord
<1>3. lo_base' \in Word
    <2>1. lo_base - align + Modulus \in Int
        BY <1>1 DEF Word
    <2> QED
        BY <1>1, <2>1, DivMod DEF Word
<1>4. ASSUME align # 0, lo_found >= BitAnd(x, align - 1) PROVE lo_base' = lo_found - BitAnd(x, align - 1)
    BY <1>1, <1>4, TakesLowBits
<1>5. ASSUME align \in Powers PROVE lo_base' = lo_found - (lo_found % align)
    <2>1. align # 0 /\ align \in Nat \ {0} /\ lo_found \in Nat
        BY <1>1, <1>5, DumpAlignAssumption DEF DumpAlignAssumption, Word
    <2>2. BitAnd(x, align - 1) = lo_found % align
        BY <1>1, <1>2, <1>5, SumKeepsRemainder, DumpAlignAssumption DEF DumpAlignAssumption
    <2>3. lo_found % align <= lo_found
        <3>1. CASE lo_found < align
            BY <2>1, <3>1, ModNear
        <3>2. CASE lo_found >= align
            BY <2>1, <3>2, DivMod
        <3> QED
            BY <2>1, <3>1, <3>2
    <2>4. lo_found >= BitAnd(x, align - 1)
        BY <2>1, <2>2, <2>3
    <2> QED
        BY <1>4, <2>1, <2>2, <2>4
<1>6. ASSUME align # 0, lo_found >= align - 1
      PROVE  lo_base' <= lo_found /\ lo_found - lo_base' < align
    <2>1. align \in 1 .. Modulus - 1 /\ lo_found \in Nat /\ align - 1 \in Word
        BY <1>1, <1>6 DEF Word
    <2>2. BitAnd(x, align - 1) \in 0 .. align - 1
        BY <1>2, <2>1, DumpAlignAssumption DEF DumpAlignAssumption
    <2>3. lo_base' = lo_found - BitAnd(x, align - 1)
        BY <1>4, <1>6, <2>1, <2>2
    <2> QED
        BY <2>1, <2>2, <2>3
<1> QED
    BY <1>1, <1>3, <1>5, <1>6 DEF AInv, Aligned

LEMMA AInvAlways == Spec => []AInv
<1>1. Init => AInv
    BY DEF Init, AInv
<1>2. AInv /\ [Next]_vars => AInv'
    <2> SUFFICES ASSUME AInv, [Next]_vars PROVE AInv'
        OBVIOUS
    <2>1. CASE Finished \/ UNCHANGED vars
        BY <2>1 DEF AInv, Aligned, Finished, vars
    <2> QED
        BY <2>1, TestKeeps, AddKeeps, MaskKeeps, SubtractKeeps DEF Next
<1> QED
    BY <1>1, <1>2, PTL DEF Spec

(* For every alignment that is a power of two, main's four statements on   *)
(* lo_base round it down to a multiple and nothing wraps, whatever the     *)
(* width of a u32.                                                         *)
THEOREM AlwaysRoundsDown == Spec => []RoundsDown
<1>1. AInv => RoundsDown
    BY DEF AInv, Aligned, RoundsDown
<1> QED
    BY <1>1, AInvAlways, PTL

(* For every other value of -a the padding stays below one alignment, so   *)
(* that main cuts off no byte that the scans have found, as long as the    *)
(* low address is not itself below the alignment.                          *)
THEOREM PaddingAlwaysBelowAlign == Spec => []PaddingBelowAlign
<1>1. AInv => PaddingBelowAlign
    BY DEF AInv, Aligned, PaddingBelowAlign
<1> QED
    BY <1>1, AInvAlways, PTL
=============================================================================
