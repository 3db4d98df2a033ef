------------------------------- MODULE Lanes -------------------------------
(***************************************************************************)
(* What the multimedia instructions whose C is easy to get wrong compute   *)
(* (MMI.c): the saturating sums and moves, and the accumulations.  A lane  *)
(* holds a number below Modulus, twice SignBit; C's unions read it as      *)
(* that number (UL, US, UC) or, through Signed, as a signed one (SL, SS,   *)
(* SC).  A constant 0x7FFFFFFF of the code is Most, 0x80000000 is          *)
(* Low(Least), 0x100000000 is Modulus, whatever the width of the lane: the *)
(* code for words, half-words and bytes differs in the width alone.        *)
(* Multimedia says which lanes an assignment reads; here are its values.   *)
(***************************************************************************)
EXTENDS Multimedia

CONSTANT SignBit   \* what the highest bit of a lane stands for: 2^7, 2^15 or 2^31

ASSUME LanesAssumption == SignBit \in Nat \ {0, 1}

Modulus == 2 * SignBit
Most    == SignBit - 1
Least   == -SignBit
LaneValues == 0 .. Modulus - 1

Signed(u) == IF u > Most THEN u - Modulus ELSE u
Low(x)    == x % Modulus

(* The same of two lanes, the high one first. *)
Pair(high, low) == high * Modulus + low
PairSigned(u)   == IF u > Most * Modulus + Modulus - 1 THEN u - Modulus * Modulus ELSE u
PairLow(x)      == x % (Modulus * Modulus)

-----------------------------------------------------------------------------
(* The saturating sums.  The last test before the sum is stored meets only *)
(* sums that the first has stored already.                                 *)

StoreSaturated(x, over) ==
    IF over THEN Most
    ELSE IF x \in Modulus .. Modulus + Most THEN Low(Least) ELSE Low(x)

PADDS(s, t) == LET x == Signed(s) + Signed(t) IN StoreSaturated(x, x > Most)

(* Mutant: stores a sum that does not fit, as PADDB does. *)
PSUBSWrapping(s, t) == Low(Signed(s) - Signed(t))
PSUBS(s, t) == LET x == Signed(s) - Signed(t) IN StoreSaturated(x, x >= Most)

(* PSUBSW alone subtracts the lanes without their signs. *)
PSUBSW(s, t) == LET x == s - t IN StoreSaturated(x, x >= Most)

PADDU(s, t) == IF s + t > Modulus - 1 THEN Modulus - 1 ELSE s + t
PSUBU(s, t) == IF s - t <= 0 THEN 0 ELSE s - t

-----------------------------------------------------------------------------
(* The saturating moves from LO and HI: a pair of words to a double word   *)
(* (SLW), a word to a half-word (SH).  All their comparisons are unsigned. *)

(* Mutant: the comparisons signed. *)
SLWSigned(high, low) ==
    LET x == PairSigned(Pair(high, low))
    IN  IF x >= Most THEN Most ELSE PairLow(IF x <= Least THEN Least ELSE Signed(low))
SLW(high, low) ==
    LET x == Pair(high, low)
    IN  IF x >= Most THEN Most
        ELSE PairLow(IF x <= PairLow(Least) THEN Least ELSE Signed(low))

SH(x) ==
    IF x > Most THEN Most
    ELSE IF x < PairLow(Least) THEN Low(Least) ELSE Low(x)

-----------------------------------------------------------------------------
(* The accumulations: the pair of HI and LO with the product added.  MADD  *)
(* and MADD1 widen LO without its sign; PMADDW and PMSUBW with it, so that *)
(* a negative LO overwrites the bits of HI with ones.                      *)

(* Mutant: widens LO with its sign. *)
MADDSigned(high, low, s, t) ==
    PairLow((IF low > Most THEN Signed(low) ELSE Pair(high, low)) + Signed(s) * Signed(t))
MADD(high, low, s, t)  == PairLow(Pair(high, low) + Signed(s) * Signed(t))
MADDU(high, low, s, t) == PairLow(Pair(high, low) + s * t)

WithSign(high, low) == IF low > Most THEN Signed(low) ELSE Pair(high, low)
PMADDWValue(high, low, s, t) == PairLow(WithSign(high, low) + Signed(s) * Signed(t))
PMSUBWValue(high, low, s, t) == PairLow(WithSign(high, low) - Signed(s) * Signed(t))

-----------------------------------------------------------------------------
(* Properties.  Each says what the instruction that runs next makes of any *)
(* lanes it can find.                                                      *)

Runs(ops) == todo # <<>> /\ Current.op \in ops

Clamp(least, x, most) == IF x < least THEN least ELSE IF x > most THEN most ELSE x

(* The saturating sums (_PADDSW and its likes): unsigned ones stop at 0    *)
(* and at the largest number, signed ones at the largest number, but a sum *)
(* below the least wraps round; PSUBSW is right only for two lanes of one  *)
(* sign, and for a difference of a positive and a negative lane that fits. *)
SumsSaturate ==
    \A s, t \in LaneValues :
        LET sum  == Signed(s) + Signed(t)
            diff == Signed(s) - Signed(t)
        IN  /\ Runs(DOMAIN UnsignedW \union DOMAIN UnsignedH \union DOMAIN UnsignedB) =>
                   /\ PADDU(s, t) = Clamp(0, s + t, Modulus - 1)
                   /\ PSUBU(s, t) = Clamp(0, s - t, Modulus - 1)
            /\ Runs({"PADDSW", "PADDSH", "PADDSB"}) =>
                   PADDS(s, t) = Low(IF sum < Least THEN sum ELSE Clamp(Least, sum, Most))
            /\ Runs({"PSUBSH", "PSUBSB"}) =>
                   PSUBS(s, t) = Low(IF diff < Least THEN diff ELSE Clamp(Least, diff, Most))
            /\ Runs({"PSUBSW"}) =>
                   (PSUBSW(s, t) = Low(Clamp(Least, diff, Most))
                        <=> \/ (s > Most) <=> (t > Most)
                            \/ s <= Most /\ diff <= Most)

(* The saturating moves of PMFHL (SLW, SH) saturate upwards and do nothing *)
(* else: they are right exactly for the numbers above the range, and SLW   *)
(* for the largest number in it.  The others come out as an extreme.       *)
MovesSaturateUpOnly ==
    Runs({"PMFHL_SLW", "PMFHL_SH"}) =>
        \A high, low \in LaneValues :
            LET x == PairSigned(Pair(high, low))
            IN  /\ SLW(high, low) = PairLow(Clamp(Least, x, Most)) <=> x >= Most
                /\ SH(Pair(high, low)) = Low(Clamp(Least, x, Most)) <=> x > Most

Accumulates == {"MADD", "MADD1", "MADDU", "MADDU1", "PMADDW", "PMADDUW", "PMSUBW"}

(* A sum of products kept in HI and LO over several instructions: each     *)
(* accumulation adds its product to the whole pair, but PMADDW and PMSUBW  *)
(* lose HI exactly when LO looks negative and HI is not all ones.          *)
AccumulatorsAddUp ==
    Runs(Accumulates) =>
        \A high, low, s, t \in LaneValues :
            LET pair == Pair(high, low)
                product == Signed(s) * Signed(t)
                kept == low <= Most \/ high = Modulus - 1
            IN  CASE Runs({"PMADDW"}) ->
                         PMADDWValue(high, low, s, t) = PairLow(pair + product) <=> kept
                  [] Runs({"PMSUBW"}) ->
                         PMSUBWValue(high, low, s, t) = PairLow(pair - product) <=> kept
                  [] Runs({"MADD", "MADD1"}) ->
                         MADD(high, low, s, t) = PairLow(pair + product)
                  [] OTHER -> MADDU(high, low, s, t) = PairLow(pair + s * t)
=============================================================================
