-------------------------- MODULE MultimediaProofs --------------------------
(***************************************************************************)
(* Theorems about the multimedia instructions, for every set of registers, *)
(* every set of programs and every width of a lane.                        *)
(*                                                                         *)
(* OperandsReadFirst: every handler but those of ReadsBack is Typed (its   *)
(* assignments write lanes of rd, HI and LO and read lanes of operands)    *)
(* and Ordered (no assignment reads a byte that an earlier one may have    *)
(* overwritten, even where rd is rs or rt); HandlerGood says so, table by  *)
(* table.  The state's part is OverwrittenInv: what differs from the       *)
(* registers at the call was assigned by an earlier line of the handler.   *)
(*                                                                         *)
(* The saturating arithmetic of Lanes rests on facts about remainders:     *)
(* what one is one modulus below, in and one above its range, and when two *)
(* numbers at most a modulus apart have the same one.                      *)
(*                                                                         *)
(* RoundTripsRestore is about handlers that only copy bytes: the lines     *)
(* that have run have copied theirs from the registers as they were at the *)
(* call (CopiedInv), so that a call is a map of registers to registers     *)
(* (Moved), and a run that has ended is the composition of its calls'      *)
(* (HistoryInv).  What is left is where each byte goes in each trip.       *)
(***************************************************************************)
EXTENDS Lanes, SequenceTheorems, FiniteSetTheorems, TLAPS

-----------------------------------------------------------------------------
(* Handlers.                                                               *)

(* What a handler may assign and read.                                     *)
Target == {"rd", "HI", "LO"} \X Bytes
Source == {"rs", "rt", "Rs", "Rt", "HI", "LO"} \X Bytes

LineTyped(a) == DOMAIN a \subseteq Target /\ \A x \in DOMAIN a : a[x] \subseteq Source

Typed(h) ==
    /\ Len(h) \in Nat \ {0}
    /\ DOMAIN h = 1 .. Len(h)
    /\ \A k \in DOMAIN h : LineTyped(h[k])

(* An assignment to x changes y, if rd is rs and rt.                       *)
Clobbers(x, y) == x[2] = y[2] /\ (x[1] = y[1] \/ (x[1] = "rd" /\ y[1] \in {"rs", "rt"}))

LineSafe(a, b) == \A x \in DOMAIN a, z \in DOMAIN b : \A y \in b[z] : ~Clobbers(x, y)

Ordered(h) == \A l \in DOMAIN h : \A k \in 1 .. l - 1 : LineSafe(h[k], h[l])

GoodTable(t) ==
    \A op \in DOMAIN t : Typed(t[op]) /\ (op \notin ReadsBack => Ordered(t[op]))

(* A table's entry is one of the tables' it was merged from.               *)
LEMMA MergedEntry ==
    ASSUME NEW tables, NEW op \in DOMAIN Merge(tables)
    PROVE  \E n \in DOMAIN tables : op \in DOMAIN tables[n] /\ Merge(tables)[op] = tables[n][op]
<1> DEFINE t == Merge(tables)
           n == CHOOSE n \in DOMAIN tables : op \in DOMAIN tables[n]
<1>1. PICK m \in DOMAIN tables : op \in DOMAIN tables[m]
    BY DEF Merge
<1>2. n \in DOMAIN tables /\ op \in DOMAIN tables[n]
    BY <1>1
<1>3. t[op] = tables[n][op]
    BY DEF Merge
<1> QED
    BY <1>2, <1>3

LEMMA GoodMerge ==
    ASSUME NEW tables, \A n \in DOMAIN tables : GoodTable(tables[n])
    PROVE  GoodTable(Merge(tables))
BY MergedEntry DEF GoodTable

-----------------------------------------------------------------------------
(* Lanes and lines.                                                        *)

LEMMA LaneBytes ==
    ASSUME NEW o, NEW size \in Int, NEW n \in Int, NEW x \in Lane(o, size, n)
    PROVE  x = <<x[1], x[2]>> /\ x[1] = o /\ x[2] \in size * n .. size * n + size - 1
BY DEF Lane

LEMMA LaneIn ==
    ASSUME NEW o, NEW size \in {1, 2, 4, 8}, NEW n \in 0 .. 16 \div size - 1
    PROVE  Lane(o, size, n) \subseteq {o} \X Bytes
<1>1. CASE size = 1
    BY <1>1 DEF Lane, Bytes
<1>2. CASE size = 2
    BY <1>2 DEF Lane, Bytes
<1>3. CASE size = 4
    BY <1>3 DEF Lane, Bytes
<1>4. CASE size = 8
    BY <1>4 DEF Lane, Bytes
<1> QED
    BY <1>1, <1>2, <1>3, <1>4

LEMMA LanesApart ==
    ASSUME NEW size \in {1, 2, 4, 8}, NEW k \in Int, NEW l \in Int, k < l,
           NEW o, NEW p, NEW x \in Lane(o, size, k), NEW y \in Lane(p, size, l)
    PROVE  x[2] # y[2]
<1>1. x[2] \in size * k .. size * k + size - 1 /\ y[2] \in size * l .. size * l + size - 1
    BY LaneBytes
<1>2. size * k + size <= size * l
    OBVIOUS
<1> QED
    BY <1>1, <1>2

LEMMA ComputeTyped ==
    ASSUME NEW to \in SUBSET Target, NEW from \in SUBSET Source
    PROVE  LineTyped(Compute(to, from))
BY DEF LineTyped, Compute

LEMMA ComputeReads ==
    ASSUME NEW to, NEW from, NEW z \in DOMAIN Compute(to, from)
    PROVE  Compute(to, from)[z] = from
BY DEF Compute

LEMMA MoveReads ==
    ASSUME NEW dest, NEW source, NEW size \in Int, NEW n \in Int, NEW k \in Int
    PROVE  /\ DOMAIN Move(dest, size, n, source, k) = Lane(dest, size, n)
           /\ \A z \in Lane(dest, size, n) : Move(dest, size, n, source, k)[z] \subseteq Lane(source, size, k)
<1>1. ASSUME NEW z \in Lane(dest, size, n)
      PROVE  <<source, z[2] + size * (k - n)>> \in Lane(source, size, k)
    <2>1. z[2] \in size * n .. size * n + size - 1
        BY LaneBytes
    <2>2. size * (k - n) = size * k - size * n
        OBVIOUS
    <2> QED
        BY <2>1, <2>2 DEF Lane
<1> QED
    BY <1>1 DEF Move

LEMMA MoveTyped ==
    ASSUME NEW dest \in {"rd", "HI", "LO"}, NEW source \in {"rs", "rt", "Rs", "Rt", "HI", "LO"},
           NEW size \in {1, 2, 4, 8}, NEW n \in 0 .. 16 \div size - 1, NEW k \in 0 .. 16 \div size - 1
    PROVE  LineTyped(Move(dest, size, n, source, k))
<1>1. Lane(dest, size, n) \subseteq Target
    BY LaneIn DEF Target
<1>2. Lane(source, size, k) \subseteq Source
    BY LaneIn DEF Source
<1> QED
    BY <1>1, <1>2, MoveReads, n \in Int, k \in Int DEF LineTyped

-----------------------------------------------------------------------------
(* Handlers by the shape of their lines.                                   *)

LEMMA SingleGood ==
    ASSUME NEW a, LineTyped(a) PROVE Typed(<<a>>) /\ Ordered(<<a>>)
BY DEF Typed, Ordered

LEMMA PairGood ==
    ASSUME NEW a, NEW b, LineTyped(a), LineTyped(b)
    PROVE  /\ Typed(<<a, b>>)
           /\ LineSafe(a, b) => Ordered(<<a, b>>)
<1>1. Typed(<<a, b>>)
    BY DEF Typed
<1>2. ASSUME LineSafe(a, b) PROVE Ordered(<<a, b>>)
    BY <1>2 DEF Ordered
<1> QED
    BY <1>1, <1>2

LEMMA FourGood ==
    ASSUME NEW a, NEW b, NEW c, NEW d, LineTyped(a), LineTyped(b), LineTyped(c), LineTyped(d)
    PROVE  /\ Typed(<<a, b, c, d>>)
           /\ LineSafe(a, b) /\ LineSafe(a, c) /\ LineSafe(a, d) /\ LineSafe(b, c) /\ LineSafe(b, d) /\ LineSafe(c, d)
                => Ordered(<<a, b, c, d>>)
<1>1. Typed(<<a, b, c, d>>)
    <2> DEFINE h == <<a, b, c, d>>
    <2>1. Len(h) = 4 /\ DOMAIN h = 1 .. 4
        OBVIOUS
    <2>2. h[1] = a /\ h[2] = b /\ h[3] = c /\ h[4] = d
        OBVIOUS
    <2> HIDE DEF h
    <2> QED
        BY <2>1, <2>2 DEF Typed
<1> QED
    BY <1>1 DEF Ordered

LEMMA FamilyTyped ==
    ASSUME NEW n \in Nat \ {0}, NEW h, DOMAIN h = 1 .. n, h = [k \in 1 .. n |-> h[k]],
           \A k \in 1 .. n : LineTyped(h[k])
    PROVE  Typed(h)
<1>1. Len(h) = n
    OBVIOUS
<1> QED
    BY <1>1 DEF Typed

(* No register that is read is written.                                    *)
LEMMA ElsewhereSafe ==
    ASSUME NEW a, NEW b,
           \A x \in DOMAIN a, z \in DOMAIN b : \A y \in b[z] :
               x[1] # y[1] /\ ~(x[1] = "rd" /\ y[1] \in {"rs", "rt"})
    PROVE  LineSafe(a, b)
BY DEF LineSafe, Clobbers

LEMMA FamilyOrdered ==
    ASSUME NEW h, NEW n \in Nat, DOMAIN h = 1 .. n,
           \A l \in 1 .. n : \A k \in 1 .. l - 1 : LineSafe(h[k], h[l])
    PROVE  Ordered(h)
BY DEF Ordered

LEMMA LaneWiseGood ==
    ASSUME NEW size \in {1, 2, 4, 8}, NEW ops \in SUBSET {"rs", "rt"}
    PROVE  Typed(LaneWise(size, ops)) /\ Ordered(LaneWise(size, ops))
<1> DEFINE n == 16 \div size
           h == LaneWise(size, ops)
           from(k) == UNION { Lane(o, size, k - 1) : o \in ops }
<1>1. n \in Nat \ {0} /\ DOMAIN h = 1 .. n /\ h = [k \in 1 .. n |-> h[k]]
    BY DEF LaneWise
<1>2. ASSUME NEW k \in 1 .. n PROVE h[k] = Compute(Lane("rd", size, k - 1), from(k))
    BY DEF LaneWise
<1> HIDE DEF h, from
<1>3. ASSUME NEW k \in 1 .. n PROVE LineTyped(h[k])
    <2>1. k - 1 \in 0 .. n - 1
        BY <1>1
    <2>2. Lane("rd", size, k - 1) \subseteq Target
        BY <2>1, LaneIn DEF Target
    <2>3. from(k) \subseteq Source
        BY <2>1, LaneIn DEF Source, from
    <2>4. LineTyped(Compute(Lane("rd", size, k - 1), from(k)))
        BY <2>2, <2>3, ComputeTyped
    <2> QED
        BY <1>2, <2>4
<1>4. ASSUME NEW l \in 1 .. n, NEW k \in 1 .. l - 1 PROVE LineSafe(h[k], h[l])
    <2>1. k \in 1 .. n /\ k - 1 \in Int /\ l - 1 \in Int /\ k - 1 < l - 1
        BY <1>1
    <2>2. ASSUME NEW x \in DOMAIN h[k], NEW z \in DOMAIN h[l], NEW y \in h[l][z]
          PROVE  x[2] # y[2]
        <3>1. x \in Lane("rd", size, k - 1) /\ y \in from(l)
            BY <1>2, <2>1 DEF Compute
        <3>2. PICK o \in ops : y \in Lane(o, size, l - 1)
            BY <3>1 DEF from
        <3> QED
            BY <2>1, <3>1, <3>2, LanesApart
    <2> QED
        BY <2>2 DEF LineSafe, Clobbers
<1> HIDE DEF n
<1> QED
    BY <1>1, <1>3, <1>4, FamilyTyped, FamilyOrdered DEF h

(* Assignments from the local copies, or from HI and LO.                   *)
LEMMA TakeGood ==
    ASSUME NEW size \in {1, 2, 4, 8}, NEW lanes,
           \A k \in 1 .. 16 \div size :
               lanes[k][1] \in {"Rs", "Rt", "HI", "LO"} /\ lanes[k][2] \in 0 .. 16 \div size - 1
    PROVE  Typed(Take(size, lanes)) /\ Ordered(Take(size, lanes))
<1> DEFINE n == 16 \div size
           h == Take(size, lanes)
<1>1. n \in Nat \ {0} /\ DOMAIN h = 1 .. n /\ h = [k \in 1 .. n |-> h[k]]
    BY DEF Take
<1>2. ASSUME NEW k \in 1 .. n PROVE h[k] = Move("rd", size, k - 1, lanes[k][1], lanes[k][2])
    BY DEF Take
<1>3. ASSUME NEW k \in 1 .. n PROVE LineTyped(h[k])
    <2>1. k - 1 \in 0 .. n - 1
        BY <1>1
    <2>2. LineTyped(Move("rd", size, k - 1, lanes[k][1], lanes[k][2]))
        BY <2>1, MoveTyped
    <2> QED
        BY <1>2, <2>2
<1>4. ASSUME NEW l \in 1 .. n, NEW k \in 1 .. l - 1 PROVE LineSafe(h[k], h[l])
    <2>1. k \in 1 .. n /\ k - 1 \in Int /\ l - 1 \in Int
        BY <1>1
    <2>2. ASSUME NEW x \in DOMAIN h[k], NEW z \in DOMAIN h[l], NEW y \in h[l][z]
          PROVE  x[1] = "rd" /\ y[1] \in {"Rs", "Rt", "HI", "LO"}
        <3>1. lanes[k][2] \in Int /\ lanes[l][2] \in Int
            BY <1>1, <2>1
        <3>2. x \in Lane("rd", size, k - 1) /\ y \in Lane(lanes[l][1], size, lanes[l][2])
            BY <1>2, <2>1, <3>1, MoveReads
        <3> QED
            BY <2>1, <3>1, <3>2, LaneBytes
    <2> QED
        BY <2>2 DEF LineSafe, Clobbers
<1> HIDE DEF h, n
<1> QED
    BY <1>1, <1>3, <1>4, FamilyTyped, FamilyOrdered DEF h

-----------------------------------------------------------------------------
(* The tables.                                                             *)

LEMMA UniformGood ==
    ASSUME NEW D, NEW h, Typed(h), Ordered(h) PROVE GoodTable([op \in D |-> h])
BY DEF GoodTable

LEMMA InterleaveGood ==
    ASSUME NEW size \in {1, 2, 4}, NEW first \in {0, 8 \div size}
    PROVE  Typed(Interleave(size, first)) /\ Ordered(Interleave(size, first))
<1> DEFINE lanes == [k \in 1 .. 16 \div size |->
                       <<IF k % 2 = 1 THEN "Rt" ELSE "Rs", first + ((k - 1) \div 2)>>]
<1>1. ASSUME NEW k \in 1 .. 16 \div size
      PROVE  lanes[k][1] \in {"Rs", "Rt"} /\ lanes[k][2] \in 0 .. 16 \div size - 1
    <2>1. first = 0 \/ first = 8 \div size
        OBVIOUS
    <2>2. CASE size = 1
        BY <2>1, <2>2
    <2>3. CASE size = 2
        BY <2>1, <2>3
    <2>4. CASE size = 4
        BY <2>1, <2>4
    <2> QED
        BY <2>2, <2>3, <2>4
<1> QED
    BY <1>1, TakeGood DEF Interleave

LEMMA PackGood ==
    ASSUME NEW size \in {1, 2, 4} PROVE Typed(Pack(size)) /\ Ordered(Pack(size))
<1> DEFINE half == 8 \div size
           lanes == [k \in 1 .. 2 * half |-> IF k <= half THEN <<"Rt", 2 * (k - 1)>>
                                              ELSE <<"Rs", 2 * (k - 1 - half)>>]
<1>1. 2 * half = 16 \div size /\ half \in Nat
    OBVIOUS
<1>2. ASSUME NEW k \in 1 .. 16 \div size
      PROVE  lanes[k][1] \in {"Rs", "Rt"} /\ lanes[k][2] \in 0 .. 16 \div size - 1
    <2>1. CASE size = 1
        BY <2>1
    <2>2. CASE size = 2
        BY <2>2
    <2>3. CASE size = 4
        BY <2>3
    <2> QED
        BY <2>1, <2>2, <2>3
<1> QED
    BY <1>1, <1>2, TakeGood DEF Pack

LEMMA CopiesGood ==
    ASSUME NEW size \in {1, 2, 4}, NEW lanes, DOMAIN lanes = 1 .. 16 \div size,
           \A k \in 1 .. 16 \div size : lanes[k] \in 0 .. 16 \div size - 1
    PROVE  Typed(Take(size, FromRt(lanes))) /\ Ordered(Take(size, FromRt(lanes)))
<1>1. ASSUME NEW k \in 1 .. 16 \div size
      PROVE  FromRt(lanes)[k][1] = "Rt" /\ FromRt(lanes)[k][2] \in 0 .. 16 \div size - 1
    BY DEF FromRt
<1> QED
    BY <1>1, TakeGood

(* Lines that stay within a part of the registers of their own.            *)
LineWithin(a, least, most) ==
    \A z \in DOMAIN a : z[2] \in least .. most /\ \A y \in a[z] : y[2] \in least .. most

LEMMA WindowsSafe ==
    ASSUME NEW a, NEW b, NEW p \in Int, NEW q \in Int, NEW r \in Int, NEW s \in Int,
           LineWithin(a, p, q), LineWithin(b, r, s), q < r \/ s < p
    PROVE  LineSafe(a, b)
BY DEF LineWithin, LineSafe, Clobbers

LEMMA MoveWithin ==
    ASSUME NEW dest, NEW source, NEW size \in Int, NEW n \in Int
    PROVE  LineWithin(Move(dest, size, n, source, n), size * n, size * n + size - 1)
BY MoveReads, LaneBytes DEF LineWithin

(* The halves of the registers, for double words and for pairs of words.   *)
LEMMA HalvesIn ==
    ASSUME NEW o, NEW d \in {0, 1}
    PROVE  /\ Lane(o, 8, d) \subseteq {o} \X (8 * d .. 8 * d + 7)
           /\ Lane(o, 4, 2 * d) \subseteq {o} \X (8 * d .. 8 * d + 7)
           /\ 8 * d .. 8 * d + 7 \subseteq Bytes
BY DEF Lane, Bytes

HalfLine(a, d) == LineTyped(a) /\ LineWithin(a, 8 * d, 8 * d + 7)

LEMMA HalvesGood ==
    ASSUME NEW a, NEW b, NEW d \in {0, 1}, HalfLine(a, d), HalfLine(b, 1 - d)
    PROVE  Typed(<<a, b>>) /\ Ordered(<<a, b>>)
<1>1. LineSafe(a, b)
    BY WindowsSafe DEF HalfLine
<1> QED
    BY <1>1, PairGood DEF HalfLine

LEMMA ComputeHalf ==
    ASSUME NEW d \in {0, 1},
           NEW to \in SUBSET ({"rd", "HI", "LO"} \X (8 * d .. 8 * d + 7)),
           NEW from \in SUBSET ({"rs", "rt", "HI", "LO"} \X (8 * d .. 8 * d + 7))
    PROVE  HalfLine(Compute(to, from), d)
<1>1. to \subseteq Target /\ from \subseteq Source
    BY DEF Target, Source, Bytes
<1>2. LineWithin(Compute(to, from), 8 * d, 8 * d + 7)
    BY DEF LineWithin, Compute
<1> QED
    BY <1>1, <1>2, ComputeTyped DEF HalfLine

LEMMA MoveHalf ==
    ASSUME NEW d \in {0, 1}, NEW dest \in {"rd", "HI", "LO"}, NEW source \in {"rs", "rt", "HI", "LO"}
    PROVE  HalfLine(Move(dest, 8, d, source, d), d)
<1>1. LineTyped(Move(dest, 8, d, source, d))
    <2>1. d \in 0 .. 16 \div 8 - 1 /\ 8 \in {1, 2, 4, 8}
        OBVIOUS
    <2>2. source \in {"rs", "rt", "Rs", "Rt", "HI", "LO"}
        OBVIOUS
    <2> QED
        BY <2>1, <2>2, MoveTyped
<1>2. LineWithin(Move(dest, 8, d, source, d), 8 * d, 8 * d + 7)
    BY MoveWithin
<1> QED
    BY <1>1, <1>2 DEF HalfLine

LEMMA ProductsHalf ==
    ASSUME NEW d \in {0, 1}
    PROVE  /\ HalfLine(Product(d, d, 2 * d), d)
           /\ HalfLine(Accumulate(d, d, 2 * d), d)
           /\ HalfLine(Compute(Lane("rd", 8, d), Factors(4, 2 * d)), d)
           /\ HalfLine(Compute(Lane("LO", 8, d) \union Lane("HI", 8, d), Factors(4, 2 * d)), d)
<1> DEFINE part == 8 * d .. 8 * d + 7
<1>1. Factors(4, 2 * d) \subseteq {"rs", "rt", "HI", "LO"} \X part
    BY HalvesIn DEF Factors
<1>2. Lane("LO", 4, 2 * d) \union Lane("HI", 4, 2 * d) \subseteq {"rs", "rt", "HI", "LO"} \X part
    BY HalvesIn
<1>3. /\ ProductTo(d, d) \subseteq {"rd", "HI", "LO"} \X part
      /\ Lane("rd", 8, d) \subseteq {"rd", "HI", "LO"} \X part
      /\ Lane("LO", 8, d) \union Lane("HI", 8, d) \subseteq {"rd", "HI", "LO"} \X part
    BY HalvesIn DEF ProductTo
<1> HIDE DEF part
<1> QED
    BY <1>1, <1>2, <1>3, ComputeHalf DEF Product, Accumulate, part

LEMMA MMI0Good == GoodTable(MMI0)
<1>1. GoodTable(ArithW) /\ GoodTable(ArithH) /\ GoodTable(ArithB)
    BY LaneWiseGood, UniformGood DEF ArithW, ArithH, ArithB
<1>2. GoodTable(SignedW) /\ GoodTable(SignedH) /\ GoodTable(SignedB) /\ GoodTable(Color5)
    BY LaneWiseGood, UniformGood DEF SignedW, SignedH, SignedB, Color5
<1>3. GoodTable(PEXTLW) /\ GoodTable(PEXTLH) /\ GoodTable(PEXTLB)
    BY InterleaveGood DEF PEXTLW, PEXTLH, PEXTLB, GoodTable
<1>4. GoodTable(PPACW) /\ GoodTable(PPACH) /\ GoodTable(PPACB)
    BY PackGood DEF PPACW, PPACH, PPACB, GoodTable
<1> QED
    BY <1>1, <1>2, <1>3, <1>4, GoodMerge DEF MMI0

LEMMA MMI1Good == GoodTable(MMI1)
<1>1. GoodTable(CompareW) /\ GoodTable(CompareH) /\ GoodTable(PCEQB)
    BY LaneWiseGood DEF CompareW, CompareH, PCEQB, GoodTable
<1>2. GoodTable(UnsignedW) /\ GoodTable(UnsignedH) /\ GoodTable(UnsignedB)
    BY LaneWiseGood, UniformGood DEF UnsignedW, UnsignedH, UnsignedB
<1>3. GoodTable(PEXTUW) /\ GoodTable(PEXTUH) /\ GoodTable(PEXTUB)
    BY InterleaveGood DEF PEXTUW, PEXTUH, PEXTUB, GoodTable
<1>4. GoodTable(QFSRV)
    <2>1. HalfLine(Move("rd", 8, 0, "rt", 0), 0) /\ HalfLine(Move("rd", 8, 1, "rt", 1), 1)
        BY MoveHalf
    <2>2. Typed(QFSRV.QFSRV) /\ Ordered(QFSRV.QFSRV)
        BY <2>1, HalvesGood DEF QFSRV
    <2> QED
        BY <2>2 DEF QFSRV, GoodTable
<1> QED
    BY <1>1, <1>2, <1>3, <1>4, GoodMerge DEF MMI1

-----------------------------------------------------------------------------
(* MMI.                                                                    *)

(* Lines that write registers none of them reads.                          *)
Elsewhere(a, T, S) ==
    /\ LineTyped(a)
    /\ \A x \in DOMAIN a : x[1] \in T /\ \A y \in a[x] : y[1] \in S

ApartFrom(T, S) == \A t \in T, s \in S : t # s /\ ~(t = "rd" /\ s \in {"rs", "rt"})

LEMMA ApartSafe ==
    ASSUME NEW a, NEW b, NEW T, NEW S, Elsewhere(a, T, S), Elsewhere(b, T, S), ApartFrom(T, S)
    PROVE  LineSafe(a, b)
BY DEF Elsewhere, ApartFrom, LineSafe, Clobbers

LEMMA ElsewhereGood ==
    ASSUME NEW n \in Nat \ {0}, NEW h, DOMAIN h = 1 .. n, h = [k \in 1 .. n |-> h[k]],
           NEW T, NEW S, ApartFrom(T, S), \A k \in 1 .. n : Elsewhere(h[k], T, S)
    PROVE  Typed(h) /\ Ordered(h)
<1>1. \A k \in 1 .. n : LineTyped(h[k])
    BY DEF Elsewhere
<1>2. ASSUME NEW l \in 1 .. n, NEW k \in 1 .. l - 1 PROVE LineSafe(h[k], h[l])
    <2>1. k \in 1 .. n
        OBVIOUS
    <2> QED
        BY <2>1, ApartSafe
<1> QED
    BY <1>1, <1>2, FamilyTyped, FamilyOrdered

LEMMA ComputeElsewhere ==
    ASSUME NEW T \in SUBSET {"rd", "HI", "LO"}, NEW S \in SUBSET {"rs", "rt", "Rs", "Rt", "HI", "LO"},
           NEW to \in SUBSET (T \X Bytes), NEW from \in SUBSET (S \X Bytes)
    PROVE  Elsewhere(Compute(to, from), T, S)
<1>1. to \subseteq Target /\ from \subseteq Source
    BY DEF Target, Source
<1>2. \A x \in to : x[1] \in T
    OBVIOUS
<1>3. \A x \in from : x[1] \in S
    OBVIOUS
<1> QED
    BY <1>1, <1>2, <1>3, ComputeTyped DEF Compute, Elsewhere

LEMMA MoveElsewhere ==
    ASSUME NEW dest \in {"rd", "HI", "LO"}, NEW source \in {"rs", "rt", "Rs", "Rt", "HI", "LO"},
           NEW size \in {1, 2, 4, 8}, NEW n \in 0 .. 16 \div size - 1, NEW k \in 0 .. 16 \div size - 1
    PROVE  Elsewhere(Move(dest, size, n, source, k), {dest}, {source})
<1>1. n \in Int /\ k \in Int
    OBVIOUS
<1>2. Lane(dest, size, n) \subseteq Target /\ Lane(source, size, k) \subseteq Source
    BY LaneIn DEF Target, Source
<1>3. /\ DOMAIN Move(dest, size, n, source, k) = Lane(dest, size, n)
      /\ \A z \in Lane(dest, size, n) :
             Move(dest, size, n, source, k)[z] \subseteq Lane(source, size, k)
    BY <1>1, MoveReads
<1>4. /\ \A x \in Lane(dest, size, n) : x[1] = dest
      /\ \A x \in Lane(source, size, k) : x[1] = source
    BY <1>1, LaneBytes
<1> QED
    BY <1>2, <1>3, <1>4 DEF Elsewhere, LineTyped

(* The two lines of a handler that works on the halves one after the other. *)
LEMMA TwoHalvesGood ==
    ASSUME NEW h, h = [k \in 1 .. 2 |-> h[k]], HalfLine(h[1], 0), HalfLine(h[2], 1)
    PROVE  Typed(h) /\ Ordered(h)
<1>1. \A k \in 1 .. 2 : LineTyped(h[k])
    BY DEF HalfLine
<1>2. DOMAIN h = 1 .. 2
    OBVIOUS
<1>3. LineSafe(h[1], h[2])
    <2>1. LineWithin(h[1], 0, 7) /\ LineWithin(h[2], 8, 15)
        BY DEF HalfLine
    <2>2. 0 \in Int /\ 7 \in Int /\ 8 \in Int /\ 15 \in Int /\ 7 < 8
        OBVIOUS
    <2> QED
        BY <2>1, <2>2, WindowsSafe
<1>4. \A l \in 1 .. 2 : \A k \in 1 .. l - 1 : LineSafe(h[k], h[l])
    BY <1>3
<1> QED
    <2>1. Typed(h)
        BY <1>1, <1>2, 2 \in Nat \ {0}, FamilyTyped
    <2>2. Ordered(h)
        BY <1>4, <1>2, 2 \in Nat, FamilyOrdered
    <2> QED
        BY <2>1, <2>2

LEMMA PrefixGood ==
    ASSUME NEW h, Typed(h), Ordered(h), Len(h) >= 2
    PROVE  Typed(SubSeq(h, 1, 2)) /\ Ordered(SubSeq(h, 1, 2))
<1> DEFINE g == SubSeq(h, 1, 2)
<1>1. Len(g) = 2 /\ DOMAIN g = 1 .. 2 /\ g[1] = h[1] /\ g[2] = h[2]
    <2> DEFINE S == { h[k] : k \in DOMAIN h }
    <2>1. \A i \in 1 .. 2 : h[i] \in S
        BY DEF Typed
    <2> HIDE DEF S
    <2>2. /\ g \in Seq(S) /\ Len(g) = (IF 1 <= 2 THEN 2 - 1 + 1 ELSE 0)
          /\ \A i \in 1 .. 2 - 1 + 1 : g[i] = h[i + 1 - 1]
        BY <2>1, SubSeqProperties
    <2> HIDE DEF g
    <2>3. Len(g) = 2
        BY <2>2
    <2>4. DOMAIN g = 1 .. 2
        BY <2>2, <2>3
    <2>5. g[1] = h[1] /\ g[2] = h[2]
        BY <2>2
    <2> QED
        BY <2>3, <2>4, <2>5
<1>2. LineTyped(g[1]) /\ LineTyped(g[2])
    BY <1>1 DEF Typed
<1>3. LineSafe(g[1], g[2])
    BY <1>1 DEF Typed, Ordered
<1> HIDE DEF g
<1>4. Typed(g)
    BY <1>1, <1>2 DEF Typed
<1>5. Ordered(g)
    BY <1>1, <1>3 DEF Ordered
<1> QED
    BY <1>4, <1>5 DEF g

LEMMA NothingGood == Typed(Nothing) /\ Ordered(Nothing)
<1>1. LineTyped(Compute({}, {}))
    BY ComputeTyped
<1> QED
    BY <1>1, SingleGood DEF Nothing

LEMMA HalfSumIn ==
    ASSUME NEW k \in 0 .. 7
    PROVE  HalfSum(k) \subseteq {"HI", "LO"} \X Bytes
<1>1. 2 * (k \div 4) + (k % 2) \in 0 .. 16 \div 4 - 1
    OBVIOUS
<1> QED
    BY <1>1, LaneIn DEF HalfSum

LEMMA FactorsIn ==
    ASSUME NEW size \in {1, 2, 4, 8}, NEW n \in 0 .. 16 \div size - 1
    PROVE  Factors(size, n) \subseteq {"rs", "rt"} \X Bytes
<1>1. Lane("rs", size, n) \subseteq {"rs"} \X Bytes /\ Lane("rt", size, n) \subseteq {"rt"} \X Bytes
    BY LaneIn
<1> QED
    BY <1>1 DEF Factors

LEMMA SinglesGood ==
    /\ GoodTable(MultiplyAdd) /\ GoodTable(MultiplyAdd1) /\ GoodTable(Multiply1)
    /\ GoodTable(Divide1) /\ GoodTable(MoveHiLo1)
<1>1. GoodTable(MultiplyAdd)
    <2>1. HalfLine(Accumulate(0, 0, 2 * 0), 0)
        BY ProductsHalf
    <2>2. LineTyped(Accumulate(0, 0, 0))
        BY <2>1 DEF HalfLine
    <2> QED
        BY <2>2, SingleGood, UniformGood DEF MultiplyAdd
<1>2. Factors(4, 0) \subseteq Source
    BY FactorsIn, 0 \in 0 .. 16 \div 4 - 1 DEF Source
<1>3. Lane("LO", 8, 1) \union Lane("HI", 8, 1) \subseteq Target /\ Lane("rd", 8, 0) \subseteq Target
    BY HalvesIn DEF Target
<1>4. ProductTo(1, 0) \subseteq Target
    BY <1>3 DEF ProductTo
<1>5. Lane("LO", 4, 2 * 1) \union Lane("HI", 4, 2 * 1) \subseteq Source
    BY HalvesIn DEF Source
<1>6. LineTyped(Accumulate(1, 0, 0)) /\ LineTyped(Product(1, 0, 0))
    BY <1>2, <1>4, <1>5, ComputeTyped DEF Accumulate, Product
<1>7. LineTyped(Compute(Lane("LO", 8, 1) \union Lane("HI", 8, 1), Factors(4, 0)))
    BY <1>2, <1>3, ComputeTyped
<1>8. GoodTable(MultiplyAdd1) /\ GoodTable(Multiply1) /\ GoodTable(Divide1)
    BY <1>6, <1>7, SingleGood, UniformGood DEF MultiplyAdd1, Multiply1, Divide1
<1>9. GoodTable(MoveHiLo1)
    <2>1. 0 \in 0 .. 16 \div 8 - 1 /\ 1 \in 0 .. 16 \div 8 - 1 /\ 8 \in {1, 2, 4, 8}
        OBVIOUS
    <2>2. /\ LineTyped(Move("rd", 8, 0, "HI", 1)) /\ LineTyped(Move("rd", 8, 0, "LO", 1))
          /\ LineTyped(Move("HI", 8, 1, "rs", 0)) /\ LineTyped(Move("LO", 8, 1, "rs", 0))
        BY <2>1, MoveTyped
    <2> QED
        BY <2>2, SingleGood DEF MoveHiLo1, GoodTable
<1> QED
    BY <1>1, <1>8, <1>9

LEMMA PMFHLGood == GoodTable(PMFHL)
<1>1. Typed(PMFHL.PMFHL_LW) /\ Ordered(PMFHL.PMFHL_LW)
    <2> DEFINE lanes == <<<<"LO", 0>>, <<"HI", 0>>, <<"LO", 2>>, <<"HI", 2>>>>
    <2>1. \A k \in 1 .. 16 \div 4 : lanes[k][1] \in {"HI", "LO"} /\ lanes[k][2] \in 0 .. 16 \div 4 - 1
        OBVIOUS
    <2> QED
        BY <2>1, TakeGood DEF PMFHL
<1>2. Typed(PMFHL.PMFHL_UW) /\ Ordered(PMFHL.PMFHL_UW)
    <2> DEFINE lanes == <<<<"LO", 1>>, <<"HI", 1>>, <<"LO", 3>>, <<"HI", 3>>>>
    <2>1. \A k \in 1 .. 16 \div 4 : lanes[k][1] \in {"HI", "LO"} /\ lanes[k][2] \in 0 .. 16 \div 4 - 1
        OBVIOUS
    <2> QED
        BY <2>1, TakeGood DEF PMFHL
<1>3. Typed(PMFHL.PMFHL_LH) /\ Ordered(PMFHL.PMFHL_LH)
    <2> DEFINE lanes == <<<<"LO", 0>>, <<"LO", 2>>, <<"HI", 0>>, <<"HI", 2>>,
                          <<"LO", 4>>, <<"LO", 6>>, <<"HI", 4>>, <<"HI", 6>>>>
    <2>1. \A k \in 1 .. 16 \div 2 : lanes[k][1] \in {"HI", "LO"} /\ lanes[k][2] \in 0 .. 16 \div 2 - 1
        OBVIOUS
    <2> QED
        BY <2>1, TakeGood DEF PMFHL
<1>4. Typed(PMFHL.PMFHL_SLW) /\ Ordered(PMFHL.PMFHL_SLW)
    <2> DEFINE h == [k \in 1 .. 2 |-> Compute(Lane("rd", 8, k - 1),
                                              Lane("HI", 4, 2 * k - 2) \union Lane("LO", 4, 2 * k - 2))]
    <2>1. HalfLine(Compute(Lane("rd", 8, 0), Lane("HI", 4, 2 * 0) \union Lane("LO", 4, 2 * 0)), 0)
        BY HalvesIn, ComputeHalf
    <2>2. HalfLine(Compute(Lane("rd", 8, 1), Lane("HI", 4, 2 * 1) \union Lane("LO", 4, 2 * 1)), 1)
        BY HalvesIn, ComputeHalf
    <2>3. HalfLine(h[1], 0) /\ HalfLine(h[2], 1)
        BY <2>1, <2>2
    <2>4. h = [k \in 1 .. 2 |-> h[k]]
        OBVIOUS
    <2>5. PMFHL.PMFHL_SLW = h
        BY DEF PMFHL
    <2> HIDE DEF h
    <2> QED
        BY <2>3, <2>4, <2>5, TwoHalvesGood
<1>5. Typed(PMFHL.PMFHL_SH) /\ Ordered(PMFHL.PMFHL_SH)
    <2> DEFINE h == [k \in 1 .. 8 |-> Compute(Lane("rd", 2, k - 1), HalfSum(k - 1))]
               T == {"rd"}
               S == {"HI", "LO"}
    <2>1. ASSUME NEW k \in 1 .. 8 PROVE Elsewhere(h[k], T, S)
        <3>1. k - 1 \in 0 .. 7 /\ k - 1 \in 0 .. 16 \div 2 - 1
            OBVIOUS
        <3>2. Lane("rd", 2, k - 1) \subseteq T \X Bytes /\ HalfSum(k - 1) \subseteq S \X Bytes
            BY <3>1, LaneIn, HalfSumIn
        <3> QED
            BY <3>2, ComputeElsewhere
    <2>2. ApartFrom(T, S)
        BY DEF ApartFrom
    <2>3. DOMAIN h = 1 .. 8 /\ h = [k \in 1 .. 8 |-> h[k]]
        OBVIOUS
    <2>4. PMFHL.PMFHL_SH = h
        BY DEF PMFHL
    <2> HIDE DEF h, T, S
    <2>5. \A k \in 1 .. 8 : Elsewhere(h[k], T, S)
        BY <2>1
    <2>6. Typed(h) /\ Ordered(h)
        BY <2>2, <2>3, <2>5, 8 \in Nat \ {0}, ElsewhereGood
    <2> QED
        BY <2>4, <2>6
<1>6. Typed(PMFHL.PMFHL_Other) /\ Ordered(PMFHL.PMFHL_Other)
    BY NothingGood DEF PMFHL
<1>7. \A op \in DOMAIN PMFHL : Typed(PMFHL[op]) /\ Ordered(PMFHL[op])
    <2>1. DOMAIN PMFHL = {"PMFHL_Other", "PMFHL_LW", "PMFHL_UW", "PMFHL_SLW", "PMFHL_LH", "PMFHL_SH"}
        BY DEF PMFHL
    <2> QED
        BY <2>1, <1>1, <1>2, <1>3, <1>4, <1>5, <1>6
<1> QED
    BY <1>7 DEF GoodTable

LEMMA PMTHLGood == GoodTable(PMTHL)
<1> DEFINE a == Move("LO", 4, 0, "rs", 0)
           b == Move("HI", 4, 0, "rs", 1)
           c == Move("LO", 4, 2, "rs", 2)
           d == Move("HI", 4, 2, "rs", 3)
           T == {"HI", "LO"}
           S == {"rs"}
<1>1. 0 \in 0 .. 16 \div 4 - 1 /\ 1 \in 0 .. 16 \div 4 - 1 /\ 2 \in 0 .. 16 \div 4 - 1 /\ 3 \in 0 .. 16 \div 4 - 1
    OBVIOUS
<1>2. /\ Elsewhere(a, {"LO"}, S) /\ Elsewhere(b, {"HI"}, S)
      /\ Elsewhere(c, {"LO"}, S) /\ Elsewhere(d, {"HI"}, S)
    BY <1>1, MoveElsewhere
<1>3. Elsewhere(a, T, S) /\ Elsewhere(b, T, S) /\ Elsewhere(c, T, S) /\ Elsewhere(d, T, S)
    BY <1>2 DEF Elsewhere
<1>4. ApartFrom(T, S)
    BY DEF ApartFrom
<1> HIDE DEF a, b, c, d, T, S
<1>5. LineTyped(a) /\ LineTyped(b) /\ LineTyped(c) /\ LineTyped(d)
    BY <1>3 DEF Elsewhere
<1>6. Typed(<<a, b, c, d>>) /\ Ordered(<<a, b, c, d>>)
    BY <1>3, <1>4, <1>5, ApartSafe, FourGood
<1> QED
    BY <1>6, NothingGood DEF GoodTable, PMTHL, a, b, c, d

LEMMA MMIGood == GoodTable(MMI)
<1>1. GoodTable(PLZCW)
    <2>1. Typed(LaneWise(4, {"rs"})) /\ Ordered(LaneWise(4, {"rs"}))
        BY LaneWiseGood
    <2>2. Len(LaneWise(4, {"rs"})) >= 2
        BY DEF LaneWise
    <2> QED
        BY <2>1, <2>2, PrefixGood, UniformGood DEF PLZCW
<1>2. GoodTable(ShiftH) /\ GoodTable(ShiftW)
    BY LaneWiseGood, UniformGood DEF ShiftH, ShiftW
<1> QED
    BY <1>1, <1>2, SinglesGood, PMFHLGood, PMTHLGood, GoodMerge DEF MMI

-----------------------------------------------------------------------------
(* MMI2 and MMI3.                                                          *)

LEMMA HalvesByTurns ==
    ASSUME NEW h, NEW D, h = [k \in 1 .. 2 |-> h[k]], HalfLine(h[1], 0), HalfLine(h[2], 1)
    PROVE  GoodTable([op \in D |-> h])
BY TwoHalvesGood, UniformGood

(* MADD, MULT and DIV on both word pairs, and the variable shifts.         *)
LEMMA WordPairsGood ==
    /\ GoodTable(PMADDW) /\ GoodTable(PMSUBW) /\ GoodTable(PMADDUW)
    /\ GoodTable(PMULTW) /\ GoodTable(PMULTUW)
    /\ GoodTable(PDIVW) /\ GoodTable(PDIVUW)
    /\ GoodTable(VariableShift) /\ GoodTable(PSRAVW)
<1>1. /\ HalfLine(Accumulate(0, 0, 2 * 0), 0) /\ HalfLine(Accumulate(1, 1, 2 * 1), 1)
      /\ HalfLine(Product(0, 0, 2 * 0), 0) /\ HalfLine(Product(1, 1, 2 * 1), 1)
      /\ HalfLine(Compute(Lane("rd", 8, 0), Factors(4, 2 * 0)), 0)
      /\ HalfLine(Compute(Lane("rd", 8, 1), Factors(4, 2 * 1)), 1)
      /\ HalfLine(Compute(Lane("LO", 8, 0) \union Lane("HI", 8, 0), Factors(4, 2 * 0)), 0)
      /\ HalfLine(Compute(Lane("LO", 8, 1) \union Lane("HI", 8, 1), Factors(4, 2 * 1)), 1)
    BY ProductsHalf, 0 \in {0, 1}, 1 \in {0, 1}
<1>2. /\ Typed(<<Accumulate(0, 0, 0), Accumulate(1, 1, 2)>>)
      /\ Ordered(<<Accumulate(0, 0, 0), Accumulate(1, 1, 2)>>)
    BY <1>1, HalvesGood
<1>3. /\ Typed(<<Product(0, 0, 0), Product(1, 1, 2)>>)
      /\ Ordered(<<Product(0, 0, 0), Product(1, 1, 2)>>)
    BY <1>1, HalvesGood
<1>4. GoodTable(VariableShift) /\ GoodTable(PSRAVW)
    <2> DEFINE h == [k \in 1 .. 2 |-> Compute(Lane("rd", 8, k - 1), Factors(4, 2 * k - 2))]
    <2>1. h = [k \in 1 .. 2 |-> h[k]] /\ HalfLine(h[1], 0) /\ HalfLine(h[2], 1)
        BY <1>1
    <2>2. VariableShift = [op \in {"PSLLVW", "PSRLVW"} |-> h] /\ PSRAVW = [op \in {"PSRAVW"} |-> h]
        BY DEF VariableShift, PSRAVW
    <2> HIDE DEF h
    <2> QED
        BY <2>1, <2>2, HalvesByTurns
<1>5. GoodTable(PDIVW) /\ GoodTable(PDIVUW)
    <2> DEFINE h == [k \in 1 .. 2 |-> Compute(Lane("LO", 8, k - 1) \union Lane("HI", 8, k - 1),
                                              Factors(4, 2 * k - 2))]
    <2>1. h = [k \in 1 .. 2 |-> h[k]] /\ HalfLine(h[1], 0) /\ HalfLine(h[2], 1)
        BY <1>1
    <2>2. PDIVW = [op \in {"PDIVW"} |-> h] /\ PDIVUW = [op \in {"PDIVUW"} |-> h]
        BY DEF PDIVW, PDIVUW
    <2> HIDE DEF h
    <2> QED
        BY <2>1, <2>2, HalvesByTurns
<1> QED
    BY <1>2, <1>3, <1>4, <1>5 DEF PMADDW, PMSUBW, PMADDUW, PMULTW, PMULTUW, GoodTable

(* Moves of whole double words.                                            *)
LEMMA DoubleMovesGood ==
    /\ GoodTable(MoveFromHiLo) /\ GoodTable(MoveToHiLo)
    /\ GoodTable(PCPYLD) /\ GoodTable(PCPYUD)
<1>1. \A d \in {0, 1} :
         /\ HalfLine(Move("rd", 8, d, "HI", d), d) /\ HalfLine(Move("rd", 8, d, "LO", d), d)
         /\ HalfLine(Move("HI", 8, d, "rs", d), d) /\ HalfLine(Move("LO", 8, d, "rs", d), d)
         /\ HalfLine(Move("rd", 8, d, "rt", d), d)
    BY MoveHalf
<1>2. GoodTable(MoveFromHiLo)
    <2>1. /\ Typed(MoveFromHiLo.PMFHI) /\ Ordered(MoveFromHiLo.PMFHI)
          /\ Typed(MoveFromHiLo.PMFLO) /\ Ordered(MoveFromHiLo.PMFLO)
        BY <1>1, HalvesGood DEF MoveFromHiLo
    <2> QED
        BY <2>1 DEF MoveFromHiLo, GoodTable
<1>3. GoodTable(MoveToHiLo)
    <2>1. /\ Typed(MoveToHiLo.PMTHI) /\ Ordered(MoveToHiLo.PMTHI)
          /\ Typed(MoveToHiLo.PMTLO) /\ Ordered(MoveToHiLo.PMTLO)
        BY <1>1, HalvesGood DEF MoveToHiLo
    <2> QED
        BY <2>1 DEF MoveToHiLo, GoodTable
<1>4. 0 \in 0 .. 16 \div 8 - 1 /\ 1 \in 0 .. 16 \div 8 - 1 /\ 8 \in {1, 2, 4, 8}
    OBVIOUS
<1>5. LineTyped(Move("rd", 8, 1, "rs", 0)) /\ LineTyped(Move("rd", 8, 0, "rs", 1))
    BY <1>4, MoveTyped
<1>6. GoodTable(PCPYLD)
    <2> DEFINE a == Move("rd", 8, 1, "rs", 0)
               b == Move("rd", 8, 0, "rt", 0)
    <2>1. DOMAIN a = Lane("rd", 8, 1)
        BY MoveReads
    <2>2. LineTyped(b) /\ LineWithin(b, 0, 7)
        BY <1>1 DEF HalfLine
    <2> HIDE DEF a, b
    <2>3. LineSafe(a, b)
        BY <2>1, <2>2 DEF LineSafe, LineWithin, Clobbers, Lane
    <2>4. Typed(<<a, b>>) /\ Ordered(<<a, b>>)
        BY <1>5, <2>2, <2>3, PairGood DEF a
    <2> QED
        BY <2>4 DEF PCPYLD, GoodTable, a, b
<1>7. GoodTable(PCPYUD)
    <2> DEFINE a == Move("rd", 8, 0, "rs", 1)
               b == Move("rd", 8, 1, "rt", 1)
    <2>1. DOMAIN a = Lane("rd", 8, 0)
        BY MoveReads
    <2>2. LineTyped(b) /\ LineWithin(b, 8, 15)
        BY <1>1 DEF HalfLine
    <2> HIDE DEF a, b
    <2>3. LineSafe(a, b)
        BY <2>1, <2>2 DEF LineSafe, LineWithin, Clobbers, Lane
    <2>4. Typed(<<a, b>>) /\ Ordered(<<a, b>>)
        BY <1>5, <2>2, <2>3, PairGood DEF a
    <2> QED
        BY <2>4 DEF PCPYUD, GoodTable, a, b
<1> QED
    BY <1>2, <1>3, <1>6, <1>7

LEMMA ExchangesGood ==
    /\ GoodTable(PINTH) /\ GoodTable(PINTEH) /\ GoodTable(PEXEH) /\ GoodTable(PREVH)
    /\ GoodTable(PEXEW) /\ GoodTable(PROT3W) /\ GoodTable(PEXCH) /\ GoodTable(PCPYH)
    /\ GoodTable(PEXCW)
<1>1. GoodTable(PINTH)
    <2> DEFINE lanes == [k \in 1 .. 8 |-> IF k % 2 = 1 THEN <<"Rt", (k - 1) \div 2>>
                                                       ELSE <<"Rs", 4 + ((k - 1) \div 2)>>]
    <2>1. \A k \in 1 .. 16 \div 2 : lanes[k][1] \in {"Rs", "Rt"} /\ lanes[k][2] \in 0 .. 16 \div 2 - 1
        OBVIOUS
    <2>2. Typed(Take(2, lanes)) /\ Ordered(Take(2, lanes))
        BY <2>1, TakeGood
    <2> QED
        BY <2>2 DEF PINTH, GoodTable
<1>2. GoodTable(PINTEH)
    <2> DEFINE lanes == [k \in 1 .. 8 |-> <<IF k % 2 = 1 THEN "Rt" ELSE "Rs",
                                            2 * ((k - 1) \div 2)>>]
    <2>1. \A k \in 1 .. 16 \div 2 : lanes[k][1] \in {"Rs", "Rt"} /\ lanes[k][2] \in 0 .. 16 \div 2 - 1
        OBVIOUS
    <2>2. Typed(Take(2, lanes)) /\ Ordered(Take(2, lanes))
        BY <2>1, TakeGood
    <2> QED
        BY <2>2 DEF PINTEH, GoodTable
<1>3. ASSUME NEW lanes, DOMAIN lanes = 1 .. 8, \A k \in 1 .. 8 : lanes[k] \in 0 .. 7
      PROVE  Typed(Take(2, FromRt(lanes))) /\ Ordered(Take(2, FromRt(lanes)))
    <2>1. 16 \div 2 = 8
        OBVIOUS
    <2> QED
        BY <1>3, <2>1, CopiesGood
<1>4. ASSUME NEW lanes, DOMAIN lanes = 1 .. 4, \A k \in 1 .. 4 : lanes[k] \in 0 .. 3
      PROVE  Typed(Take(4, FromRt(lanes))) /\ Ordered(Take(4, FromRt(lanes)))
    <2>1. 16 \div 4 = 4
        OBVIOUS
    <2> QED
        BY <1>4, <2>1, CopiesGood
<1>5. GoodTable(PEXEH) /\ GoodTable(PREVH) /\ GoodTable(PEXCH) /\ GoodTable(PCPYH)
    BY <1>3 DEF PEXEH, PREVH, PEXCH, PCPYH, GoodTable
<1>6. GoodTable(PEXEW) /\ GoodTable(PROT3W) /\ GoodTable(PEXCW)
    BY <1>4 DEF PEXEW, PROT3W, PEXCW, GoodTable
<1> QED
    BY <1>1, <1>2, <1>5, <1>6

(* The half-word products.  Only PHMSBH keeps to the order.                *)
LEMMA AdjacentTyped ==
    ASSUME NEW hl \in {"HI", "LO"}, NEW d \in 0 .. 3, NEW n \in 0 .. 6, NEW e \in 0 .. 3
    PROVE  LineTyped(Adjacent(hl, d, n, e))
<1>1. n \in 0 .. 16 \div 2 - 1 /\ n + 1 \in 0 .. 16 \div 2 - 1
      /\ d \in 0 .. 16 \div 4 - 1 /\ e \in 0 .. 16 \div 4 - 1
    OBVIOUS
<1>2. Factors(2, n) \union Factors(2, n + 1) \subseteq Source
    BY <1>1, FactorsIn DEF Source
<1>3. Lane(hl, 4, d) \union Lane("rd", 4, e) \subseteq Target
    BY <1>1, LaneIn DEF Target
<1> QED
    BY <1>2, <1>3, ComputeTyped DEF Adjacent

(* The lines of PHMSBH keep to a word of rd, rs and rt each.                *)
KeepsToWord(a, e) ==
    /\ \A x \in DOMAIN a : x[1] \in {"HI", "LO"} \/ x[2] \in 4 * e .. 4 * e + 3
    /\ \A z \in DOMAIN a : \A y \in a[z] : y[1] \in {"rs", "rt"} /\ y[2] \in 4 * e .. 4 * e + 3

LEMMA AdjacentKeeps ==
    ASSUME NEW hl \in {"HI", "LO"}, NEW d \in 0 .. 3, NEW e \in 0 .. 3, NEW n \in 0 .. 6, n = 2 * e
    PROVE  KeepsToWord(Adjacent(hl, d, n, e), e)
<1>1. \A x \in Lane(hl, 4, d) : x[1] \in {"HI", "LO"}
    BY DEF Lane
<1>2. \A x \in Lane("rd", 4, e) : x[2] \in 4 * e .. 4 * e + 3
    BY DEF Lane
<1>3. \A y \in Factors(2, n) \union Factors(2, n + 1) :
         y[1] \in {"rs", "rt"} /\ y[2] \in 4 * e .. 4 * e + 3
    BY DEF Factors, Lane
<1> QED
    BY <1>1, <1>2, <1>3 DEF KeepsToWord, Adjacent, Compute

LEMMA WordsSafe ==
    ASSUME NEW a, NEW b, NEW e \in Int, NEW f \in Int, e # f, KeepsToWord(a, e), KeepsToWord(b, f)
    PROVE  LineSafe(a, b)
BY DEF KeepsToWord, LineSafe, Clobbers

LEMMA HalfToIn == ASSUME NEW k \in 0 .. 7 PROVE HalfTo(k) \subseteq Target
<1>1. HalfSum(k) \subseteq Target
    BY HalfSumIn DEF Target
<1>2. k % 2 = 0 => k \div 2 \in 0 .. 16 \div 4 - 1
    OBVIOUS
<1>3. k % 2 = 0 => Lane("rd", 4, k \div 2) \subseteq Target
    BY <1>2, LaneIn DEF Target
<1> QED
    BY <1>1, <1>3 DEF HalfTo

LEMMA HalfProductsGood ==
    /\ GoodTable(PMADDH) /\ GoodTable(PMSUBH) /\ GoodTable(PMULTH)
    /\ GoodTable(PHMADH) /\ GoodTable(PHMSBH)
<1>1. ASSUME NEW k \in 1 .. 8
      PROVE  /\ LineTyped(Compute(HalfTo(k - 1), HalfSum(k - 1) \union Factors(2, k - 1)))
             /\ LineTyped(Compute(HalfTo(k - 1), Factors(2, k - 1)))
    <2>1. k - 1 \in 0 .. 7 /\ k - 1 \in 0 .. 16 \div 2 - 1
        OBVIOUS
    <2>2. HalfTo(k - 1) \subseteq Target /\ HalfSum(k - 1) \subseteq Source /\ Factors(2, k - 1) \subseteq Source
        BY <2>1, HalfToIn, HalfSumIn, FactorsIn DEF Source
    <2>3. HalfSum(k - 1) \union Factors(2, k - 1) \subseteq Source
        BY <2>2
    <2> QED
        BY <2>2, <2>3, ComputeTyped
<1>2. Typed([k \in 1 .. 8 |-> Compute(HalfTo(k - 1), HalfSum(k - 1) \union Factors(2, k - 1))])
    <2> DEFINE h == [k \in 1 .. 8 |-> Compute(HalfTo(k - 1), HalfSum(k - 1) \union Factors(2, k - 1))]
    <2>1. DOMAIN h = 1 .. 8 /\ h = [k \in 1 .. 8 |-> h[k]] /\ \A k \in 1 .. 8 : LineTyped(h[k])
        BY <1>1
    <2> HIDE DEF h
    <2>2. Typed(h)
        BY <2>1, 8 \in Nat \ {0}, FamilyTyped
    <2> QED
        BY <2>2 DEF h
<1>3. Typed([k \in 1 .. 8 |-> Compute(HalfTo(k - 1), Factors(2, k - 1))])
    <2> DEFINE h == [k \in 1 .. 8 |-> Compute(HalfTo(k - 1), Factors(2, k - 1))]
    <2>1. DOMAIN h = 1 .. 8 /\ h = [k \in 1 .. 8 |-> h[k]] /\ \A k \in 1 .. 8 : LineTyped(h[k])
        BY <1>1
    <2> HIDE DEF h
    <2>2. Typed(h)
        BY <2>1, 8 \in Nat \ {0}, FamilyTyped
    <2> QED
        BY <2>2 DEF h
<1>4. GoodTable(PMADDH) /\ GoodTable(PMSUBH) /\ GoodTable(PMULTH)
    <2>1. ASSUME NEW h, Typed(h)
          PROVE  GoodTable([PMADDH |-> h]) /\ GoodTable([PMSUBH |-> h]) /\ GoodTable([PMULTH |-> h])
        BY <2>1 DEF GoodTable, ReadsBack
    <2> QED
        BY <1>2, <1>3, <2>1 DEF PMADDH, PMSUBH, PMULTH
<1>5. GoodTable(PHMADH)
    <2>1. /\ LineTyped(Adjacent("LO", 0, 0, 0)) /\ LineTyped(Adjacent("HI", 0, 1, 1))
          /\ LineTyped(Adjacent("LO", 2, 2, 2)) /\ LineTyped(Adjacent("HI", 2, 3, 3))
        BY AdjacentTyped
    <2> QED
        BY <2>1, FourGood DEF PHMADH, GoodTable, ReadsBack
<1>6. GoodTable(PHMSBH)
    <2> DEFINE a == Adjacent("LO", 0, 0, 0)
               b == Adjacent("HI", 0, 2, 1)
               c == Adjacent("LO", 2, 4, 2)
               d == Adjacent("HI", 2, 6, 3)
    <2>1. LineTyped(a) /\ LineTyped(b) /\ LineTyped(c) /\ LineTyped(d)
        BY AdjacentTyped
    <2>2. KeepsToWord(a, 0) /\ KeepsToWord(b, 1) /\ KeepsToWord(c, 2) /\ KeepsToWord(d, 3)
        BY AdjacentKeeps
    <2> HIDE DEF a, b, c, d
    <2>3. /\ LineSafe(a, b) /\ LineSafe(a, c) /\ LineSafe(a, d)
          /\ LineSafe(b, c) /\ LineSafe(b, d) /\ LineSafe(c, d)
        BY <2>2, WordsSafe
    <2>4. Typed(<<a, b, c, d>>) /\ Ordered(<<a, b, c, d>>)
        BY <2>1, <2>3, FourGood
    <2> QED
        BY <2>4 DEF PHMSBH, GoodTable, a, b, c, d
<1> QED
    BY <1>4, <1>5, <1>6

LEMMA PDIVBWGood == GoodTable(PDIVBW)
<1> DEFINE h == [k \in 1 .. 4 |->
                    Compute(Lane("LO", 4, k - 1) \union Lane("HI", 4, k - 1),
                            Lane("rs", 4, k - 1) \union Lane("rt", 2, 0))]
           T == {"HI", "LO"}
           S == {"rs", "rt"}
<1>1. ASSUME NEW k \in 1 .. 4 PROVE Elsewhere(h[k], T, S)
    <2>1. k - 1 \in 0 .. 16 \div 4 - 1 /\ 0 \in 0 .. 16 \div 2 - 1
        OBVIOUS
    <2>2. /\ Lane("LO", 4, k - 1) \union Lane("HI", 4, k - 1) \subseteq T \X Bytes
          /\ Lane("rs", 4, k - 1) \union Lane("rt", 2, 0) \subseteq S \X Bytes
        BY <2>1, LaneIn
    <2> QED
        BY <2>2, ComputeElsewhere
<1>2. ApartFrom(T, S)
    BY DEF ApartFrom
<1>3. DOMAIN h = 1 .. 4 /\ h = [k \in 1 .. 4 |-> h[k]]
    OBVIOUS
<1>4. PDIVBW = [PDIVBW |-> h]
    BY DEF PDIVBW
<1> HIDE DEF h, T, S
<1>5. \A k \in 1 .. 4 : Elsewhere(h[k], T, S)
    BY <1>1
<1>6. Typed(h) /\ Ordered(h)
    BY <1>2, <1>3, <1>5, 4 \in Nat \ {0}, ElsewhereGood
<1> QED
    BY <1>4, <1>6 DEF GoodTable

LEMMA MMI2Good == GoodTable(MMI2)
<1>1. GoodTable(Logic2)
    BY LaneWiseGood, UniformGood DEF Logic2
<1> QED
    BY <1>1, WordPairsGood, DoubleMovesGood, ExchangesGood, HalfProductsGood, PDIVBWGood, GoodMerge
    DEF MMI2

LEMMA MMI3Good == GoodTable(MMI3)
<1>1. GoodTable(Logic3)
    BY LaneWiseGood, UniformGood DEF Logic3
<1> QED
    BY <1>1, WordPairsGood, DoubleMovesGood, ExchangesGood, GoodMerge DEF MMI3

LEMMA HandlerGood == GoodTable(Handler)
BY MMIGood, MMI0Good, MMI1Good, MMI2Good, MMI3Good, GoodMerge DEF Handler

-----------------------------------------------------------------------------
(* The state.                                                              *)

ProgramInv ==
    /\ todo \in Seq(Calls)
    /\ line \in Nat \ {0}
    /\ todo # <<>> => line \in DOMAIN Assignments

(* What differs from the registers at the call was assigned by a line      *)
(* before the current one.                                                 *)
OverwrittenInv ==
    todo # <<>> =>
        \A r \in Register, b \in Bytes :
            regs[r][b] # saved[r][b] =>
                \E k \in 1 .. line - 1 :
                    \E x \in DOMAIN Assignments[k] : Named(x[1]) = r /\ x[2] = b

MInv == ProgramInv /\ OverwrittenInv /\ OperandsReadFirst

LEMMA CurrentCall ==
    ASSUME ProgramInv, todo # <<>>
    PROVE  /\ Current.op \in DOMAIN Handler
           /\ Current.rd \in GPR /\ Current.rs \in GPR /\ Current.rt \in GPR
           /\ Typed(Assignments)
           /\ Current.op \notin ReadsBack => Ordered(Assignments)
<1>1. Current \in Calls
    BY DEF ProgramInv, Current
<1>2. Current.op \in DOMAIN Handler /\ Current.rd \in GPR /\ Current.rs \in GPR /\ Current.rt \in GPR
    BY <1>1 DEF Calls
<1> QED
    BY <1>2, HandlerGood DEF GoodTable, Assignments

(* Two operands name the same register only as Clobbers says.              *)
LEMMA NamedApart ==
    ASSUME ProgramInv, todo # <<>>, NEW x \in Target, NEW y \in Source, y[1] \notin {"Rs", "Rt"},
           Named(x[1]) = Named(y[1]), x[2] = y[2]
    PROVE  Clobbers(x, y)
<1>1. Current.rd \in GPR /\ Current.rs \in GPR /\ Current.rt \in GPR
    BY CurrentCall
<1>2. x[1] \in {"rd", "HI", "LO"} /\ y[1] \in {"rs", "rt", "HI", "LO"}
    BY DEF Target, Source
<1>3. "HI" \notin GPR /\ "LO" \notin GPR
    BY MultimediaAssumption
<1>4. CASE y[1] \in {"rs", "rt"}
    <2>1. Named(y[1]) \in GPR
        BY <1>1, <1>4 DEF Named
    <2>2. x[1] = "rd"
        BY <1>2, <1>3, <2>1 DEF Named
    <2> QED
        BY <1>4, <2>2 DEF Clobbers
<1>5. CASE y[1] \in {"HI", "LO"}
    <2>1. Named(y[1]) = y[1]
        BY <1>5 DEF Named
    <2>2. x[1] # "rd"
        BY <1>1, <1>3, <1>5, <2>1 DEF Named
    <2>3. Named(x[1]) = x[1]
        BY <1>2, <2>2 DEF Named
    <2> QED
        BY <2>1, <2>3 DEF Clobbers
<1> QED
    BY <1>2, <1>4, <1>5

(* An operand byte that differs was overwritten by an earlier line.        *)
LEMMA OutOfOrderReadsBack ==
    ASSUME MInv, todo # <<>>, NEW z \in DOMAIN Assignments[line], NEW y \in Assignments[line][z],
           Read(y) # saved[Named(y[1])][y[2]]
    PROVE  Current.op \in ReadsBack
<1>1. ProgramInv /\ line \in DOMAIN Assignments /\ line \in Nat \ {0}
    BY DEF MInv, ProgramInv
<1>2. Typed(Assignments)
    BY <1>1, CurrentCall
<1>3. y \in Source /\ LineTyped(Assignments[line])
    BY <1>1, <1>2 DEF Typed, LineTyped
<1>4. y[1] \notin {"Rs", "Rt"}
    BY DEF Read
<1>5. regs[Named(y[1])][y[2]] # saved[Named(y[1])][y[2]]
    BY <1>4 DEF Read
<1>6. Named(y[1]) \in Register /\ y[2] \in Bytes
    BY <1>1, <1>3, CurrentCall DEF Source, Named, Register
<1>7. PICK k \in 1 .. line - 1 : \E x \in DOMAIN Assignments[k] : Named(x[1]) = Named(y[1]) /\ x[2] = y[2]
    BY <1>5, <1>6 DEF MInv, OverwrittenInv
<1>8. PICK x \in DOMAIN Assignments[k] : Named(x[1]) = Named(y[1]) /\ x[2] = y[2]
    BY <1>7
<1>9. k \in DOMAIN Assignments
    BY <1>1, <1>2 DEF Typed
<1>10. x \in Target
    BY <1>2, <1>8, <1>9 DEF Typed, LineTyped
<1>11. Clobbers(x, y)
    BY <1>1, <1>3, <1>4, <1>8, <1>10, NamedApart
<1>12. ~Ordered(Assignments)
    BY <1>1, <1>7, <1>8, <1>11 DEF Ordered, LineSafe
<1> QED
    BY <1>1, <1>12, CurrentCall

(* The next line of the handler, or the first one of the next.             *)
LEMMA NextLineTyped ==
    ASSUME ProgramInv, todo # <<>>, NEW l \in Nat \ {0}, NextLine(l)
    PROVE  ProgramInv'
<1>1. Typed(Assignments)
    BY CurrentCall
<1>2. CASE l <= Len(Assignments)
    <2>1. l \in DOMAIN Assignments
        BY <1>1, <1>2 DEF Typed
    <2> QED
        BY <1>2, <2>1 DEF NextLine, ProgramInv, Assignments, Current
<1>3. CASE ~(l <= Len(Assignments))
    <2>1. line' = 1 /\ todo' = Tail(todo)
        BY <1>3 DEF NextLine
    <2>2. todo' \in Seq(Calls)
        BY <2>1, todo \in Seq(Calls) DEF ProgramInv
    <2>3. ASSUME todo' # <<>> PROVE 1 \in DOMAIN Assignments'
        <3>1. Head(todo') \in Calls
            BY <2>2, <2>3
        <3>2. Typed(Handler[Head(todo').op])
            BY <3>1, HandlerGood DEF Calls, GoodTable
        <3> QED
            BY <3>2 DEF Typed, Assignments, Current
    <2> QED
        BY <2>1, <2>2, <2>3 DEF ProgramInv
<1> QED
    BY <1>2, <1>3

LEMMA ExecuteKeeps == MInv /\ Execute => MInv'
<1> SUFFICES ASSUME MInv, Execute PROVE MInv'
    OBVIOUS
<1> DEFINE a == Assignments[line]
<1>1. ProgramInv /\ todo # <<>> /\ line \in Nat \ {0} /\ NextLine(line + 1) /\ Assign(a)
    BY DEF MInv, Execute, ProgramInv
<1>2. ProgramInv'
    BY <1>1, NextLineTyped
<1>3. OverwrittenInv'
    <2>1. CASE line + 1 <= Len(Assignments)
        <3>1. line' = line + 1 /\ todo' = todo /\ saved' = saved
            BY <1>1, <2>1 DEF NextLine
        <3>2. Assignments' = Assignments /\ \A o : Named(o)' = Named(o)
            BY <3>1 DEF Assignments, Current, Named
        <3>3. ASSUME NEW r \in Register, NEW b \in Bytes, regs'[r][b] # saved'[r][b]
              PROVE  \E k \in 1 .. line : \E x \in DOMAIN Assignments[k] : Named(x[1]) = r /\ x[2] = b
            <4> DEFINE here == { x \in Written(a) : Named(x[1]) = r /\ x[2] = b }
            <4>1. CASE here = {}
                <5>1. regs'[r][b] = regs[r][b]
                    BY <1>1, <4>1 DEF Assign
                <5> QED
                    BY <1>1, <3>1, <3>3, <5>1 DEF MInv, OverwrittenInv
            <4>2. CASE here # {}
                BY <1>1, <4>2 DEF Written
            <4> QED
                BY <4>1, <4>2
        <3> QED
            BY <1>1, <3>1, <3>2, <3>3 DEF OverwrittenInv
    <2>2. CASE ~(line + 1 <= Len(Assignments))
        BY <1>1, <2>2 DEF NextLine, OverwrittenInv
    <2> QED
        BY <2>1, <2>2
<1>4. OperandsReadFirst'
    <2>1. \A z \in Written(a) : \A y \in a[z] :
             Read(y) # saved[Named(y[1])][y[2]] => Current.op \in ReadsBack
        BY <1>1, OutOfOrderReadsBack DEF Written
    <2> QED
        BY <2>1 DEF Execute, OperandsReadFirst, MInv
<1> QED
    BY <1>2, <1>3, <1>4 DEF MInv

LEMMA DivideByZeroKeeps == MInv /\ DivideByZero => MInv'
<1> SUFFICES ASSUME MInv, DivideByZero PROVE MInv'
    OBVIOUS
<1> DEFINE l == IF Current.op = "PDIVBW" THEN 5 ELSE line + 1
<1>1. ProgramInv /\ todo # <<>> /\ line \in Nat \ {0} /\ NextLine(l) /\ UNCHANGED <<regs, stale>>
    BY DEF MInv, DivideByZero, ProgramInv
<1>2. l \in Nat \ {0} /\ l > line
    BY DEF DivideByZero, MInv, ProgramInv
<1> HIDE DEF l
<1>3. ProgramInv'
    BY <1>1, <1>2, NextLineTyped
<1>4. OverwrittenInv'
    <2>1. CASE l <= Len(Assignments)
        <3>1. line' = l /\ todo' = todo /\ saved' = saved /\ regs' = regs
            BY <1>1, <2>1 DEF NextLine
        <3>2. Assignments' = Assignments /\ \A o : Named(o)' = Named(o)
            BY <3>1 DEF Assignments, Current, Named
        <3>3. 1 .. line - 1 \subseteq 1 .. l - 1
            BY <1>1, <1>2
        <3> QED
            BY <1>1, <3>1, <3>2, <3>3 DEF OverwrittenInv, MInv
    <2>2. CASE ~(l <= Len(Assignments))
        BY <1>1, <2>2 DEF NextLine, OverwrittenInv
    <2> QED
        BY <2>1, <2>2
<1> QED
    BY <1>1, <1>3, <1>4 DEF MInv, OperandsReadFirst

LEMMA MInvInit == Init => MInv
<1> SUFFICES ASSUME Init PROVE MInv
    OBVIOUS
<1>1. todo \in Seq(Calls)
    BY ProgramsAssumption DEF Init
<1>2. ASSUME todo # <<>> PROVE 1 \in DOMAIN Assignments
    <2>1. Head(todo) \in Calls
        BY <1>1, <1>2
    <2>2. Typed(Handler[Head(todo).op])
        BY <2>1, HandlerGood DEF Calls, GoodTable
    <2> QED
        BY <2>2 DEF Typed, Assignments, Current
<1> QED
    BY <1>1, <1>2 DEF Init, MInv, ProgramInv, OverwrittenInv, OperandsReadFirst

(* An instruction whose rd is also rs or rt computes from its operands as  *)
(* they were at the call: no handler of MMI.c, but those of ReadsBack,     *)
(* reads a byte that one of its own assignments has overwritten.           *)
THEOREM OperandsAlwaysReadFirst == Spec => []OperandsReadFirst
<1>1. Init => MInv
    BY MInvInit
<1>2. MInv /\ [Next]_vars => MInv'
    <2> SUFFICES ASSUME MInv, [Next]_vars PROVE MInv'
        OBVIOUS
    <2>1. CASE Execute
        BY <2>1, ExecuteKeeps
    <2>2. CASE DivideByZero
        BY <2>2, DivideByZeroKeeps
    <2>3. CASE Finished \/ UNCHANGED vars
        <3>1. UNCHANGED <<regs, saved, todo, line, stale>>
            BY <2>3 DEF Finished, vars
        <3>2. Assignments' = Assignments /\ \A o : Named(o)' = Named(o)
            BY <3>1 DEF Assignments, Current, Named
        <3> QED
            BY <3>1, <3>2 DEF MInv, ProgramInv, OverwrittenInv, OperandsReadFirst
    <2> QED
        BY <2>1, <2>2, <2>3 DEF Next
<1>3. MInv => OperandsReadFirst
    BY DEF MInv
<1> QED
    BY <1>1, <1>2, <1>3, PTL DEF Spec

-----------------------------------------------------------------------------
(* Remainders.                                                             *)

LEMMA DivMod ==
    ASSUME NEW m \in Nat \ {0}, NEW x \in Int
    PROVE  /\ x \div m \in Int
           /\ x % m \in 0 .. m - 1
           /\ x = m * (x \div m) + (x % m)
<1>1. m \in Int /\ m > 0
    OBVIOUS
<1>2. x \div m \in Int /\ x % m \in Int
    BY <1>1
<1>3. x % m \in 0 .. m - 1
    BY <1>1
<1>4. x = m * (x \div m) + (x % m)
    BY <1>1
<1> QED
    BY <1>2, <1>3, <1>4

LEMMA SmallMultiple ==
    ASSUME NEW m \in Nat \ {0}, NEW k \in Int
    PROVE  /\ k > 0 => m * k >= m
           /\ k < 0 => m * k <= -m
           /\ k > 1 => m * k >= 2 * m
OBVIOUS

LEMMA ModUnique ==
    ASSUME NEW m \in Nat \ {0}, NEW x \in Int, NEW y \in 0 .. m - 1, NEW k \in Int,
           x = m * k + y
    PROVE  x % m = y
<1> DEFINE d == x \div m
           r == x % m
<1>1. d \in Int /\ r \in 0 .. m - 1 /\ x = m * d + r
    BY DivMod
<1> HIDE DEF d, r
<1>2. m * (d - k) = y - r
    BY <1>1
<1>3. d - k = 0
    BY <1>1, <1>2, SmallMultiple, d - k \in Int
<1> QED
    BY <1>1, <1>2, <1>3 DEF r

LEMMA ModNear ==
    ASSUME NEW m \in Nat \ {0}, NEW x \in Int
    PROVE  /\ x \in 0 .. m - 1 => x % m = x
           /\ x \in -m .. -1 => x % m = x + m
           /\ x \in m .. 2 * m - 1 => x % m = x - m
<1>1. ASSUME x \in 0 .. m - 1 PROVE x % m = x
    BY <1>1, ModUnique, x = m * 0 + x
<1>2. ASSUME x \in -m .. -1 PROVE x % m = x + m
    BY <1>2, ModUnique, x = m * (-1) + (x + m)
<1>3. ASSUME x \in m .. 2 * m - 1 PROVE x % m = x - m
    BY <1>3, ModUnique, x = m * 1 + (x - m)
<1> QED
    BY <1>1, <1>2, <1>3

(* Two numbers at most m apart.                                            *)
LEMMA ModEqual ==
    ASSUME NEW m \in Nat \ {0}, NEW a \in Int, NEW b \in Int, 0 <= b - a, b - a <= m
    PROVE  a % m = b % m <=> b = a \/ b = a + m
<1> DEFINE da == a \div m
           db == b \div m
           ra == a % m
           rb == b % m
<1>1. /\ da \in Int /\ ra \in 0 .. m - 1 /\ a = m * da + ra
      /\ db \in Int /\ rb \in 0 .. m - 1 /\ b = m * db + rb
    BY DivMod
<1>2. ASSUME b = a + m PROVE rb = ra
    <2>1. b = m * (da + 1) + ra
        BY <1>1, <1>2
    <2> QED
        BY <1>1, <2>1, ModUnique, da + 1 \in Int
<1> HIDE DEF da, db, ra, rb
<1>3. ASSUME ra = rb PROVE b = a \/ b = a + m
    <2>1. b - a = m * (db - da)
        BY <1>1, <1>3
    <2>2. db - da \in {0, 1}
        BY <1>1, <2>1, SmallMultiple, db - da \in Int
    <2> QED
        BY <1>1, <2>1, <2>2
<1> QED
    BY <1>2, <1>3 DEF ra, rb

-----------------------------------------------------------------------------
(* Lanes and pairs of lanes.                                               *)

Square == Modulus * Modulus

LEMMA Sizes ==
    /\ SignBit \in Nat /\ SignBit >= 2
    /\ Modulus \in Nat \ {0} /\ Square \in Nat \ {0}
    /\ SignBit * Modulus \in Nat
    /\ Square = 2 * (SignBit * Modulus)
    /\ SignBit * Modulus >= 2 * Modulus
    /\ Most * Modulus + Modulus - 1 = SignBit * Modulus - 1
<1>1. SignBit \in Nat /\ SignBit >= 2
    BY LanesAssumption DEF LanesAssumption
<1> DEFINE m == Modulus
<1>2. m \in Nat \ {0} /\ m = 2 * SignBit
    BY <1>1 DEF Modulus
<1> HIDE DEF m
<1>3. SignBit * m \in Nat /\ m * m = 2 * (SignBit * m)
    BY <1>1, <1>2
<1>4. SignBit * m = 2 * m + (SignBit - 2) * m /\ (SignBit - 2) * m >= 0
    BY <1>1, <1>2
<1>5. m * m # 0
    BY <1>2
<1>6. (SignBit - 1) * m + m - 1 = SignBit * m - 1
    BY <1>1, <1>2
<1> QED
    BY <1>1, <1>2, <1>3, <1>4, <1>5, <1>6 DEF m, Square, Most

LEMMA SignedRange ==
    ASSUME NEW u \in LaneValues
    PROVE  /\ Signed(u) \in Least .. Most
           /\ u <= Most => Signed(u) = u
           /\ u > Most => Signed(u) = u - Modulus
BY Sizes DEF Signed, LaneValues, Modulus, Most, Least

(* The high lane's part of a pair is a multiple of Modulus below Square.   *)
LEMMA PairRange ==
    ASSUME NEW high \in LaneValues, NEW low \in LaneValues
    PROVE  /\ high * Modulus \in 0 .. Square - Modulus
           /\ Pair(high, low) = high * Modulus + low
           /\ Pair(high, low) \in 0 .. Square - 1
<1> DEFINE m == Modulus
<1>1. m \in Nat \ {0} /\ high \in 0 .. m - 1 /\ low \in 0 .. m - 1
    BY Sizes DEF LaneValues
<1>2. m * m \in Nat
    BY Sizes DEF Square
<1> HIDE DEF m
<1>3. high * m \in Nat /\ (m - 1 - high) * m >= 0
    BY <1>1
<1>4. (m - 1 - high) * m = m * m - m - high * m
    BY <1>1
<1> QED
    BY <1>1, <1>2, <1>3, <1>4 DEF m, Pair, Square

LEMMA LowNear ==
    ASSUME NEW x \in Int
    PROVE  /\ x \in 0 .. Modulus - 1 => Low(x) = x
           /\ x \in -Modulus .. -1 => Low(x) = x + Modulus
BY Sizes, ModNear DEF Low

LEMMA PairLowNear ==
    ASSUME NEW x \in Int
    PROVE  /\ x \in 0 .. Square - 1 => PairLow(x) = x
           /\ x \in -Square .. -1 => PairLow(x) = x + Square
BY Sizes, ModNear DEF PairLow, Square

-----------------------------------------------------------------------------
(* The saturating sums.                                                    *)

LEMMA SignedSumsSaturate ==
    ASSUME NEW s \in LaneValues, NEW t \in LaneValues
    PROVE  LET sum  == Signed(s) + Signed(t)
               diff == Signed(s) - Signed(t)
           IN  /\ PADDS(s, t) = Low(IF sum < Least THEN sum ELSE Clamp(Least, sum, Most))
               /\ PSUBS(s, t) = Low(IF diff < Least THEN diff ELSE Clamp(Least, diff, Most))
<1> DEFINE a == Signed(s)
           b == Signed(t)
<1>1. a \in Int /\ a >= Least /\ a <= Most /\ b \in Int /\ b >= Least /\ b <= Most
    BY SignedRange, Sizes DEF Least, Most
<1>2. Low(Most) = Most
    BY LowNear, Sizes DEF Modulus, Most
<1> HIDE DEF a, b
<1>3. PADDS(s, t) = IF a + b > Most THEN Most ELSE Low(a + b)
    BY <1>1, Sizes DEF a, b, PADDS, StoreSaturated, Modulus, Most, Least
<1>4. PSUBS(s, t) = IF a - b >= Most THEN Most ELSE Low(a - b)
    BY <1>1, Sizes DEF a, b, PSUBS, StoreSaturated, Modulus, Most, Least
<1>5. PADDS(s, t) = Low(IF a + b < Least THEN a + b ELSE Clamp(Least, a + b, Most))
    BY <1>1, <1>2, <1>3, Sizes DEF Clamp, Most, Least
<1>6. PSUBS(s, t) = Low(IF a - b < Least THEN a - b ELSE Clamp(Least, a - b, Most))
    BY <1>1, <1>2, <1>4, Sizes DEF Clamp, Most, Least
<1> QED
    BY <1>5, <1>6 DEF a, b

LEMMA UnsignedSumsSaturate ==
    ASSUME NEW s \in LaneValues, NEW t \in LaneValues
    PROVE  /\ PADDU(s, t) = Clamp(0, s + t, Modulus - 1)
           /\ PSUBU(s, t) = Clamp(0, s - t, Modulus - 1)
BY Sizes DEF LaneValues, PADDU, PSUBU, Clamp

(* The three ways the signs of the lanes may differ.                       *)
LEMMA UnsignedDifference ==
    ASSUME NEW s \in LaneValues, NEW t \in LaneValues
    PROVE  PSUBSW(s, t) = Low(Clamp(Least, Signed(s) - Signed(t), Most))
             <=> \/ (s > Most) <=> (t > Most)
                 \/ s <= Most /\ Signed(s) - Signed(t) <= Most
<1> DEFINE diff == Signed(s) - Signed(t)
           H == SignBit
<1>1. H \in Nat /\ H >= 2 /\ Modulus = 2 * H /\ Most = H - 1 /\ Least = -H
    BY Sizes DEF Modulus, Most, Least
<1>2. s \in 0 .. 2 * H - 1 /\ t \in 0 .. 2 * H - 1
    BY <1>1 DEF LaneValues
<1>3. PSUBSW(s, t) = IF s - t >= Most THEN Most ELSE Low(s - t)
    BY <1>1, <1>2 DEF PSUBSW, StoreSaturated
<1>4. diff \in Int /\ s - t \in Int
    BY <1>1, <1>2, SignedRange
<1>5. Low(Most) = Most /\ Low(Least) = H
    BY <1>1, LowNear
<1>6. CASE (s > Most) <=> (t > Most)
    <2>1. diff = s - t /\ diff <= Most /\ diff >= -Most
        BY <1>1, <1>2, <1>6, SignedRange
    <2>2. Clamp(Least, diff, Most) = diff
        BY <1>1, <2>1, <1>4 DEF Clamp
    <2>3. PSUBSW(s, t) = Low(diff)
        BY <1>1, <1>3, <1>4, <1>5, <2>1
    <2> QED
        BY <1>6, <2>2, <2>3
<1>7. CASE s <= Most /\ t > Most
    <2>1. diff = s - t + 2 * H /\ diff > 0 /\ diff <= 2 * H - 1
        BY <1>1, <1>2, <1>7, SignedRange
    <2>2. PSUBSW(s, t) = diff
        BY <1>1, <1>2, <1>3, <1>4, <1>7, <2>1, LowNear
    <2>3. Low(Clamp(Least, diff, Most)) = IF diff > Most THEN Most ELSE diff
        <3>1. diff <= Most => Low(diff) = diff
            BY <1>1, <1>4, <2>1, LowNear
        <3> QED
            BY <1>1, <1>4, <1>5, <2>1, <3>1 DEF Clamp
    <2> QED
        BY <1>1, <1>2, <1>4, <1>7, <2>2, <2>3
<1>8. CASE s > Most /\ t <= Most
    <2>1. diff = s - t - 2 * H /\ diff < 0 /\ diff >= -(2 * H) + 1 /\ s - t > 0
        BY <1>1, <1>2, <1>8, SignedRange
    <2>2. PSUBSW(s, t) <= Most
        <3>1. s - t < Most => Low(s - t) = s - t
            BY <1>1, <1>4, <2>1, LowNear
        <3> QED
            BY <1>1, <1>3, <1>4, <3>1
    <2>3. Low(Clamp(Least, diff, Most)) >= H
        <3>1. diff >= Least => Low(diff) = diff + 2 * H
            BY <1>1, <1>4, <2>1, LowNear
        <3> QED
            BY <1>1, <1>4, <1>5, <2>1, <3>1 DEF Clamp
    <2>4. PSUBSW(s, t) # Low(Clamp(Least, diff, Most))
        <3> DEFINE p == PSUBSW(s, t)
                   q == Low(Clamp(Least, diff, Most))
        <3>1. q \in Int
            BY <1>1, <1>4, <1>5, <2>1, LowNear DEF Clamp
        <3> QED
            BY <1>1, <2>2, <2>3, <3>1
    <2> QED
        BY <1>1, <1>2, <1>8, <2>4
<1> QED
    BY <1>1, <1>2, <1>6, <1>7, <1>8

(* The saturating sums do what SumsSaturate says on lanes of every width.  *)
THEOREM SumsAlwaysSaturate == Spec => []SumsSaturate
<1>1. SumsSaturate
    BY SignedSumsSaturate, UnsignedSumsSaturate, UnsignedDifference DEF SumsSaturate
<1> QED
    BY <1>1, PTL

-----------------------------------------------------------------------------
(* The saturating moves.                                                   *)

(* A pair read as a signed number, and the extremes stored as pairs.       *)
LEMMA PairSignedRange ==
    ASSUME NEW P \in 0 .. Square - 1
    PROVE  /\ P < SignBit * Modulus => PairSigned(P) = P
           /\ P >= SignBit * Modulus => PairSigned(P) = P - Square
BY Sizes DEF PairSigned, Square

LEMMA Extremes ==
    /\ Low(Most) = Most /\ Low(Least) = SignBit
    /\ PairLow(Most) = Most /\ PairLow(Least) = Square - SignBit
    /\ Square - SignBit > SignBit * Modulus
BY Sizes, LowNear, PairLowNear DEF Modulus, Most, Least

LEMMA WordMoveSaturates ==
    ASSUME NEW high \in LaneValues, NEW low \in LaneValues
    PROVE  LET x == PairSigned(Pair(high, low))
           IN  SLW(high, low) = PairLow(Clamp(Least, x, Most)) <=> x >= Most
<1> DEFINE P == Pair(high, low)
           x == PairSigned(P)
           Half == SignBit * Modulus
<1>1. P \in 0 .. Square - 1
    BY PairRange
<1>2. /\ SignBit \in Nat /\ SignBit >= 2 /\ Modulus = 2 * SignBit
      /\ Most = SignBit - 1 /\ Least = -SignBit
      /\ Half \in Nat /\ Square = 2 * Half /\ Half >= 2 * Modulus
    BY Sizes DEF Modulus, Most, Least
<1>3. /\ P < Half => x = P
      /\ P >= Half => x = P - Square
    BY <1>1, PairSignedRange
<1>4. SLW(high, low) = IF P >= Most THEN Most
                       ELSE PairLow(IF P <= PairLow(Least) THEN Least ELSE Signed(low))
    BY DEF SLW
<1> HIDE DEF P, x, Half
<1>5. CASE P < Most
    <2>1. SLW(high, low) = Square - SignBit
        BY <1>1, <1>2, <1>4, <1>5, Extremes
    <2>2. x = P /\ Clamp(Least, x, Most) = P /\ PairLow(P) = P
        BY <1>1, <1>2, <1>3, <1>5, PairLowNear DEF Clamp
    <2> QED
        BY <1>1, <1>2, <1>5, <2>1, <2>2 DEF P, x
<1>6. CASE P >= Most /\ P < Half
    <2>1. x = P /\ Clamp(Least, x, Most) = Most
        BY <1>1, <1>2, <1>3, <1>6 DEF Clamp
    <2> QED
        BY <1>1, <1>2, <1>4, <1>6, <2>1, Extremes DEF P, x
<1>7. CASE P >= Half
    <2>1. x = P - Square /\ x < 0 /\ x \in Int
        BY <1>1, <1>2, <1>3, <1>7
    <2>2. SLW(high, low) = Most
        BY <1>1, <1>2, <1>4, <1>7
    <2>3. PairLow(Clamp(Least, x, Most)) > Most
        <3>1. x >= Least => PairLow(x) = P
            BY <1>1, <1>2, <2>1, PairLowNear
        <3> QED
            BY <1>1, <1>2, <1>7, <2>1, <3>1, Extremes DEF Clamp
    <2>4. PairLow(Clamp(Least, x, Most)) # Most
        <3> DEFINE q == PairLow(Clamp(Least, x, Most))
        <3>1. q \in Int
            <4>1. x >= Least => PairLow(x) = P
                BY <1>1, <1>2, <2>1, PairLowNear
            <4> QED
                BY <1>1, <1>2, <2>1, <4>1, Extremes DEF Clamp
        <3> QED
            BY <1>2, <2>3, <3>1
    <2> QED
        BY <1>2, <2>1, <2>2, <2>4 DEF P, x
<1> QED
    BY <1>1, <1>2, <1>5, <1>6, <1>7

LEMMA HalfMoveSaturates ==
    ASSUME NEW high \in LaneValues, NEW low \in LaneValues
    PROVE  LET x == PairSigned(Pair(high, low))
           IN  SH(Pair(high, low)) = Low(Clamp(Least, x, Most)) <=> x > Most
<1> DEFINE P == Pair(high, low)
           x == PairSigned(P)
           Half == SignBit * Modulus
<1>1. P \in 0 .. Square - 1
    BY PairRange
<1>2. /\ SignBit \in Nat /\ SignBit >= 2 /\ Modulus = 2 * SignBit
      /\ Most = SignBit - 1 /\ Least = -SignBit
      /\ Half \in Nat /\ Square = 2 * Half /\ Half >= 2 * Modulus
    BY Sizes DEF Modulus, Most, Least
<1>3. /\ P < Half => x = P
      /\ P >= Half => x = P - Square
    BY <1>1, PairSignedRange
<1>4. SH(P) = IF P > Most THEN Most
              ELSE IF P < PairLow(Least) THEN Low(Least) ELSE Low(P)
    BY DEF SH
<1> HIDE DEF P, x, Half
<1>5. CASE P <= Most
    <2>1. SH(P) = SignBit
        BY <1>1, <1>2, <1>4, <1>5, Extremes
    <2>2. x = P /\ Clamp(Least, x, Most) = P /\ Low(P) = P
        BY <1>1, <1>2, <1>3, <1>5, LowNear DEF Clamp
    <2> QED
        BY <1>1, <1>2, <1>5, <2>1, <2>2 DEF P, x
<1>6. CASE P > Most /\ P < Half
    <2>1. x = P /\ Clamp(Least, x, Most) = Most
        BY <1>1, <1>2, <1>3, <1>6 DEF Clamp
    <2> QED
        BY <1>1, <1>2, <1>4, <1>6, <2>1, Extremes DEF P, x
<1>7. CASE P >= Half
    <2>1. x = P - Square /\ x < 0 /\ x \in Int
        BY <1>1, <1>2, <1>3, <1>7
    <2>2. SH(P) = Most
        BY <1>1, <1>2, <1>4, <1>7
    <2>3. /\ x < Least => Low(Clamp(Least, x, Most)) = SignBit
          /\ x >= Least => Low(Clamp(Least, x, Most)) = x + Modulus
        BY <1>2, <2>1, Extremes, LowNear DEF Clamp
    <2> QED
        BY <1>2, <2>1, <2>2, <2>3 DEF P, x
<1> QED
    BY <1>1, <1>2, <1>5, <1>6, <1>7

(* PMFHL.SLW and PMFHL.SH are right exactly above the range, for every     *)
(* pair of lanes of every width.                                           *)
THEOREM MovesAlwaysSaturateUpOnly == Spec => []MovesSaturateUpOnly
<1>1. MovesSaturateUpOnly
    BY WordMoveSaturates, HalfMoveSaturates DEF MovesSaturateUpOnly
<1> QED
    BY <1>1, PTL

-----------------------------------------------------------------------------
(* The accumulations.                                                      *)

(* What the sign of LO takes from the pair: the lanes of HI and one more.  *)
LEMMA WithSignLoses ==
    ASSUME NEW high \in LaneValues, NEW low \in LaneValues
    PROVE  /\ WithSign(high, low) \in Int
           /\ Pair(high, low) - WithSign(high, low) \in 0 .. Square
           /\ Pair(high, low) = WithSign(high, low) <=> low <= Most
           /\ Pair(high, low) = WithSign(high, low) + Square
                  <=> low > Most /\ high = Modulus - 1
<1> DEFINE m == Modulus
           P == Pair(high, low)
           S == WithSign(high, low)
<1>1. /\ m \in Nat \ {0} /\ high \in 0 .. m - 1 /\ low \in 0 .. m - 1
      /\ high * m \in 0 .. Square - m /\ P = high * m + low
      /\ Square \in Nat \ {0} /\ Square = m * m /\ Most \in Int
    BY Sizes, PairRange DEF LaneValues, Square, Most
<1>2. S = IF low > Most THEN low - m ELSE P
    BY SignedRange DEF WithSign
<1>3. high * m = Square - m <=> high = m - 1
    <2>1. (m - 1 - high) * m = Square - m - high * m
        BY <1>1
    <2>2. (m - 1 - high) * m = 0 <=> m - 1 - high = 0
        BY <1>1
    <2> QED
        BY <1>1, <2>1, <2>2
<1> HIDE DEF m, P, S
<1> QED
    BY <1>1, <1>2, <1>3 DEF P, S, m

LEMMA SignedProducts ==
    ASSUME NEW s \in LaneValues, NEW t \in LaneValues
    PROVE  Signed(s) * Signed(t) \in Int /\ s * t \in Int
<1>1. Signed(s) \in Int /\ Signed(t) \in Int /\ s \in Int /\ t \in Int
    BY SignedRange, Sizes DEF Least, Most, LaneValues
<1> QED
    BY <1>1

LEMMA AddsToPair ==
    ASSUME NEW high \in LaneValues, NEW low \in LaneValues, NEW p \in Int
    PROVE  PairLow(WithSign(high, low) + p) = PairLow(Pair(high, low) + p)
             <=> low <= Most \/ high = Modulus - 1
<1> DEFINE P == Pair(high, low)
           S == WithSign(high, low)
<1>1. /\ Square \in Nat \ {0} /\ P \in Int /\ S \in Int
      /\ P - S \in 0 .. Square
      /\ P = S <=> low <= Most
      /\ P = S + Square <=> low > Most /\ high = Modulus - 1
      /\ Most \in Int /\ low \in Int
    BY WithSignLoses, PairRange, Sizes DEF LaneValues, Most
<1> HIDE DEF P, S
<1>2. (S + p) % Square = (P + p) % Square <=> P + p = S + p \/ P + p = S + p + Square
    <2>1. S + p \in Int /\ P + p \in Int /\ 0 <= (P + p) - (S + p) /\ (P + p) - (S + p) <= Square
        BY <1>1
    <2> QED
        BY <1>1, <2>1, ModEqual
<1>3. (S + p) % Square = (P + p) % Square <=> low <= Most \/ high = Modulus - 1
    BY <1>1, <1>2
<1> QED
    BY <1>3 DEF P, S, PairLow, Square

(* PMADDW and PMSUBW lose HI exactly when LO looks negative and HI is not  *)
(* all ones; the other accumulations add the whole pair.  For every pair   *)
(* of lanes of every width.                                                *)
THEOREM AccumulatorsAlwaysAddUp == Spec => []AccumulatorsAddUp
<1>1. ASSUME NEW high \in LaneValues, NEW low \in LaneValues,
             NEW s \in LaneValues, NEW t \in LaneValues
      PROVE  LET pair == Pair(high, low)
                 product == Signed(s) * Signed(t)
                 kept == low <= Most \/ high = Modulus - 1
             IN  /\ PMADDWValue(high, low, s, t) = PairLow(pair + product) <=> kept
                 /\ PMSUBWValue(high, low, s, t) = PairLow(pair - product) <=> kept
                 /\ MADD(high, low, s, t) = PairLow(pair + product)
                 /\ MADDU(high, low, s, t) = PairLow(pair + s * t)
    <2> DEFINE product == Signed(s) * Signed(t)
    <2>1. product \in Int /\ -product \in Int
        BY SignedProducts
    <2>2. Pair(high, low) \in Int /\ WithSign(high, low) \in Int
        BY PairRange, WithSignLoses
    <2> HIDE DEF product
    <2>3. PairLow(WithSign(high, low) + product) = PairLow(Pair(high, low) + product)
            <=> low <= Most \/ high = Modulus - 1
        BY <2>1, AddsToPair
    <2>4. PairLow(WithSign(high, low) - product) = PairLow(Pair(high, low) - product)
            <=> low <= Most \/ high = Modulus - 1
        <3>1. PairLow(WithSign(high, low) + (-product)) = PairLow(Pair(high, low) + (-product))
                <=> low <= Most \/ high = Modulus - 1
            BY <2>1, AddsToPair
        <3>2. /\ WithSign(high, low) + (-product) = WithSign(high, low) - product
              /\ Pair(high, low) + (-product) = Pair(high, low) - product
            BY <2>1, <2>2
        <3> QED
            BY <3>1, <3>2
    <2> QED
        BY <2>3, <2>4 DEF product, PMADDWValue, PMSUBWValue, MADD, MADDU
<1>2. AccumulatorsAddUp
    BY <1>1 DEF AccumulatorsAddUp
<1> QED
    BY <1>2, PTL

-----------------------------------------------------------------------------
(* The round trips: first their handlers, found in the merged tables.      *)

(* The handlers of the round trips, all made of moves.                     *)
Moves ==
    [PEXTLW |-> Interleave(4, 0), PEXTUW |-> Interleave(4, 2), PPACW |-> Pack(4),
     PEXTLH |-> Interleave(2, 0), PEXTUH |-> Interleave(2, 4), PPACH |-> Pack(2),
     PEXTLB |-> Interleave(1, 0), PEXTUB |-> Interleave(1, 8), PPACB |-> Pack(1),
     PEXEH |-> Take(2, FromRt(<<2, 1, 0, 3, 6, 5, 4, 7>>)),
     PREVH |-> Take(2, FromRt(<<3, 2, 1, 0, 7, 6, 5, 4>>)),
     PEXCH |-> Take(2, FromRt(<<0, 2, 1, 3, 4, 6, 5, 7>>)),
     PEXEW |-> Take(4, FromRt(<<2, 1, 0, 3>>)),
     PEXCW |-> Take(4, FromRt(<<0, 2, 1, 3>>)),
     PROT3W |-> Take(4, FromRt(<<1, 2, 0, 3>>)),
     PCPYLD |-> <<Move("rd", 8, 1, "rs", 0), Move("rd", 8, 0, "rt", 0)>>,
     PCPYUD |-> <<Move("rd", 8, 0, "rs", 1), Move("rd", 8, 1, "rt", 1)>>,
     PMTHL |-> <<Move("LO", 4, 0, "rs", 0), Move("HI", 4, 0, "rs", 1),
                 Move("LO", 4, 2, "rs", 2), Move("HI", 4, 2, "rs", 3)>>,
     PMFHL_LW |-> Take(4, <<<<"LO", 0>>, <<"HI", 0>>, <<"LO", 2>>, <<"HI", 2>>>>)]

MoveOps ==
    {"PEXTLW", "PEXTUW", "PPACW", "PEXTLH", "PEXTUH", "PPACH", "PEXTLB", "PEXTUB", "PPACB",
     "PEXEH", "PREVH", "PEXCH", "PEXEW", "PEXCW", "PROT3W", "PCPYLD", "PCPYUD", "PMTHL",
     "PMFHL_LW"}

Agrees(t) == \A op \in DOMAIN t : op \in MoveOps => t[op] = Moves[op]

LEMMA AgreeMerge ==
    ASSUME NEW tables, \A n \in DOMAIN tables : Agrees(tables[n])
    PROVE  Agrees(Merge(tables))
BY MergedEntry DEF Agrees

LEMMA ApartAgrees == ASSUME NEW t, DOMAIN t \cap MoveOps = {} PROVE Agrees(t)
BY DEF Agrees

LEMMA MMIAgrees == Agrees(MMI)
<1>1. /\ DOMAIN MultiplyAdd \cap MoveOps = {} /\ DOMAIN PLZCW \cap MoveOps = {}
      /\ DOMAIN MultiplyAdd1 \cap MoveOps = {} /\ DOMAIN MoveHiLo1 \cap MoveOps = {}
      /\ DOMAIN Multiply1 \cap MoveOps = {} /\ DOMAIN Divide1 \cap MoveOps = {}
      /\ DOMAIN ShiftH \cap MoveOps = {} /\ DOMAIN ShiftW \cap MoveOps = {}
    BY DEF MultiplyAdd, PLZCW, MultiplyAdd1, MoveHiLo1, Multiply1, Divide1, ShiftH, ShiftW, MoveOps
<1>2. Agrees(PMFHL)
    BY DEF PMFHL, Agrees, Moves, MoveOps
<1>3. Agrees(PMTHL)
    BY DEF PMTHL, Agrees, Moves, MoveOps
<1> QED
    BY <1>1, <1>2, <1>3, ApartAgrees, AgreeMerge DEF MMI

LEMMA MMI0Agrees == Agrees(MMI0)
<1>1. /\ DOMAIN ArithW \cap MoveOps = {} /\ DOMAIN ArithH \cap MoveOps = {}
      /\ DOMAIN ArithB \cap MoveOps = {} /\ DOMAIN SignedW \cap MoveOps = {}
      /\ DOMAIN SignedH \cap MoveOps = {} /\ DOMAIN SignedB \cap MoveOps = {}
      /\ DOMAIN Color5 \cap MoveOps = {}
    BY DEF ArithW, ArithH, ArithB, SignedW, SignedH, SignedB, Color5, MoveOps
<1>2. Agrees(PEXTLW) /\ Agrees(PEXTLH) /\ Agrees(PEXTLB)
    BY DEF PEXTLW, PEXTLH, PEXTLB, Agrees, Moves
<1>3. Agrees(PPACW) /\ Agrees(PPACH) /\ Agrees(PPACB)
    BY DEF PPACW, PPACH, PPACB, Agrees, Moves
<1> QED
    BY <1>1, <1>2, <1>3, ApartAgrees, AgreeMerge DEF MMI0

LEMMA MMI1Agrees == Agrees(MMI1)
<1>1. /\ DOMAIN CompareW \cap MoveOps = {} /\ DOMAIN CompareH \cap MoveOps = {}
      /\ DOMAIN PCEQB \cap MoveOps = {} /\ DOMAIN UnsignedW \cap MoveOps = {}
      /\ DOMAIN UnsignedH \cap MoveOps = {} /\ DOMAIN UnsignedB \cap MoveOps = {}
      /\ DOMAIN QFSRV \cap MoveOps = {}
    BY DEF CompareW, CompareH, PCEQB, UnsignedW, UnsignedH, UnsignedB, QFSRV, MoveOps
<1>2. Agrees(PEXTUW) /\ Agrees(PEXTUH) /\ Agrees(PEXTUB)
    BY DEF PEXTUW, PEXTUH, PEXTUB, Agrees, Moves
<1> QED
    BY <1>1, <1>2, ApartAgrees, AgreeMerge DEF MMI1

LEMMA MMI2Agrees == Agrees(MMI2)
<1>1. /\ DOMAIN PMADDW \cap MoveOps = {} /\ DOMAIN VariableShift \cap MoveOps = {}
      /\ DOMAIN PMSUBW \cap MoveOps = {} /\ DOMAIN MoveFromHiLo \cap MoveOps = {}
      /\ DOMAIN PINTH \cap MoveOps = {} /\ DOMAIN PMULTW \cap MoveOps = {}
      /\ DOMAIN PDIVW \cap MoveOps = {} /\ DOMAIN Logic2 \cap MoveOps = {}
    BY DEF PMADDW, VariableShift, PMSUBW, MoveFromHiLo, PINTH, PMULTW, PDIVW, Logic2, MoveOps
<1>2. /\ DOMAIN PMADDH \cap MoveOps = {} /\ DOMAIN PHMADH \cap MoveOps = {}
      /\ DOMAIN PMSUBH \cap MoveOps = {} /\ DOMAIN PHMSBH \cap MoveOps = {}
      /\ DOMAIN PMULTH \cap MoveOps = {} /\ DOMAIN PDIVBW \cap MoveOps = {}
    BY DEF PMADDH, PHMADH, PMSUBH, PHMSBH, PMULTH, PDIVBW, MoveOps
<1>3. Agrees(PCPYLD) /\ Agrees(PEXEH) /\ Agrees(PREVH) /\ Agrees(PEXEW) /\ Agrees(PROT3W)
    BY DEF PCPYLD, PEXEH, PREVH, PEXEW, PROT3W, Agrees, Moves
<1> QED
    BY <1>1, <1>2, <1>3, ApartAgrees, AgreeMerge DEF MMI2

LEMMA MMI3Agrees == Agrees(MMI3)
<1>1. /\ DOMAIN PMADDUW \cap MoveOps = {} /\ DOMAIN PSRAVW \cap MoveOps = {}
      /\ DOMAIN MoveToHiLo \cap MoveOps = {} /\ DOMAIN PINTEH \cap MoveOps = {}
      /\ DOMAIN PMULTUW \cap MoveOps = {} /\ DOMAIN PDIVUW \cap MoveOps = {}
      /\ DOMAIN Logic3 \cap MoveOps = {} /\ DOMAIN PCPYH \cap MoveOps = {}
    BY DEF PMADDUW, PSRAVW, MoveToHiLo, PINTEH, PMULTUW, PDIVUW, Logic3, PCPYH, MoveOps
<1>2. Agrees(PCPYUD) /\ Agrees(PEXCH) /\ Agrees(PEXCW)
    BY DEF PCPYUD, PEXCH, PEXCW, Agrees, Moves
<1> QED
    BY <1>1, <1>2, ApartAgrees, AgreeMerge DEF MMI3

LEMMA MoveEntries == \A op \in DOMAIN Handler : op \in MoveOps => Handler[op] = Moves[op]
<1>1. Agrees(Handler)
    BY MMIAgrees, MMI0Agrees, MMI1Agrees, MMI2Agrees, MMI3Agrees, AgreeMerge DEF Handler
<1> QED
    BY <1>1 DEF Agrees

-----------------------------------------------------------------------------
(* Handlers made of moves: each byte is copied from one byte, and no byte  *)
(* is written twice.                                                       *)

LineCopies(a) == \A x \in DOMAIN a : \E y : a[x] = {y}

Copying(h) ==
    /\ \A k \in DOMAIN h : LineCopies(h[k])
    /\ \A k, l \in DOMAIN h : k # l => DOMAIN h[k] \cap DOMAIN h[l] = {}

LEMMA MoveCopies ==
    ASSUME NEW dest, NEW source, NEW size, NEW n, NEW k
    PROVE  /\ LineCopies(Move(dest, size, n, source, k))
           /\ DOMAIN Move(dest, size, n, source, k) = Lane(dest, size, n)
BY DEF LineCopies, Move

LEMMA LanesDisjoint ==
    ASSUME NEW size \in {1, 2, 4, 8}, NEW k \in Int, NEW l \in Int, NEW o, NEW p,
           k # l \/ o # p
    PROVE  Lane(o, size, k) \cap Lane(p, size, l) = {}
<1> SUFFICES ASSUME NEW x \in Lane(o, size, k), x \in Lane(p, size, l) PROVE FALSE
    OBVIOUS
<1>1. x[1] = o /\ x[1] = p
    BY LaneBytes
<1>2. k # l
    BY <1>1
<1>3. k < l \/ l < k
    BY <1>2
<1> QED
    BY <1>3, LanesApart

LEMMA TakeCopies ==
    ASSUME NEW size \in {1, 2, 4, 8}, NEW lanes PROVE Copying(Take(size, lanes))
<1> DEFINE n == 16 \div size
           h == Take(size, lanes)
<1>1. n \in Nat /\ DOMAIN h = 1 .. n
    BY DEF Take
<1>2. ASSUME NEW k \in 1 .. n PROVE LineCopies(h[k]) /\ DOMAIN h[k] = Lane("rd", size, k - 1)
    <2>1. h[k] = Move("rd", size, k - 1, lanes[k][1], lanes[k][2])
        BY DEF Take
    <2> QED
        BY <2>1, MoveCopies
<1>3. ASSUME NEW k \in 1 .. n, NEW l \in 1 .. n, k # l
      PROVE  Lane("rd", size, k - 1) \cap Lane("rd", size, l - 1) = {}
    <2>1. k - 1 \in Int /\ l - 1 \in Int /\ k - 1 # l - 1
        BY <1>1, <1>3
    <2> QED
        BY <2>1, LanesDisjoint
<1> HIDE DEF n, h
<1> QED
    BY <1>1, <1>2, <1>3 DEF Copying, h

LEMMA MovesCopy == \A op \in MoveOps : Copying(Moves[op])
<1>1. Copying(Moves.PCPYLD) /\ Copying(Moves.PCPYUD)
    <2>1. ASSUME NEW a, NEW b, LineCopies(a), LineCopies(b), DOMAIN a \cap DOMAIN b = {}
          PROVE  Copying(<<a, b>>)
        BY <2>1 DEF Copying
    <2>2. Lane("rd", 8, 0) \cap Lane("rd", 8, 1) = {} /\ Lane("rd", 8, 1) \cap Lane("rd", 8, 0) = {}
        BY LanesDisjoint
    <2> QED
        BY <2>1, <2>2, MoveCopies DEF Moves
<1>2. Copying(Moves.PMTHL)
    <2> DEFINE a == Move("LO", 4, 0, "rs", 0)
               b == Move("HI", 4, 0, "rs", 1)
               c == Move("LO", 4, 2, "rs", 2)
               d == Move("HI", 4, 2, "rs", 3)
    <2>1. /\ LineCopies(a) /\ LineCopies(b) /\ LineCopies(c) /\ LineCopies(d)
          /\ DOMAIN a = Lane("LO", 4, 0) /\ DOMAIN b = Lane("HI", 4, 0)
          /\ DOMAIN c = Lane("LO", 4, 2) /\ DOMAIN d = Lane("HI", 4, 2)
        BY MoveCopies
    <2>2. /\ DOMAIN a \cap DOMAIN b = {} /\ DOMAIN a \cap DOMAIN c = {} /\ DOMAIN a \cap DOMAIN d = {}
          /\ DOMAIN b \cap DOMAIN c = {} /\ DOMAIN b \cap DOMAIN d = {} /\ DOMAIN c \cap DOMAIN d = {}
        BY <2>1, LanesDisjoint
    <2>3. Moves.PMTHL = <<a, b, c, d>>
        BY DEF Moves
    <2> HIDE DEF a, b, c, d
    <2> QED
        BY <2>1, <2>2, <2>3 DEF Copying
<1>3. /\ \A size \in {1, 2, 4} : \A first : Copying(Interleave(size, first))
      /\ \A size \in {1, 2, 4} : Copying(Pack(size))
    BY TakeCopies DEF Interleave, Pack
<1>4. /\ Copying(Moves.PEXTLW) /\ Copying(Moves.PEXTUW) /\ Copying(Moves.PPACW)
      /\ Copying(Moves.PEXTLH) /\ Copying(Moves.PEXTUH) /\ Copying(Moves.PPACH)
      /\ Copying(Moves.PEXTLB) /\ Copying(Moves.PEXTUB) /\ Copying(Moves.PPACB)
    BY <1>3 DEF Moves
<1>5. /\ Copying(Moves.PEXEH) /\ Copying(Moves.PREVH) /\ Copying(Moves.PEXCH)
      /\ Copying(Moves.PEXEW) /\ Copying(Moves.PEXCW) /\ Copying(Moves.PROT3W)
      /\ Copying(Moves.PMFHL_LW)
    BY TakeCopies DEF Moves
<1> QED
    BY <1>1, <1>2, <1>4, <1>5 DEF MoveOps
-----------------------------------------------------------------------------
(* What a call of such a handler does: from contents R it makes S.         *)

Of(call, operand) ==
    CASE operand = "rd" -> call.rd
      [] operand \in {"rs", "Rs"} -> call.rs
      [] operand \in {"rt", "Rt"} -> call.rt
      [] OTHER -> operand

CopiedBy(h, n, call, R, S) ==
    \A k \in 1 .. n : \A x \in DOMAIN h[k] : \A y \in h[k][x] :
        S[Of(call, x[1])][x[2]] = R[Of(call, y[1])][y[2]]

KeptBy(h, n, call, R, S) ==
    \A r \in Register, b \in Bytes :
        (\A k \in 1 .. n : \A x \in DOMAIN h[k] : ~(Of(call, x[1]) = r /\ x[2] = b)) =>
            S[r][b] = R[r][b]

Moved(call, R, S) ==
    LET h == Moves[call.op]
    IN  CopiedBy(h, Len(h), call, R, S) /\ KeptBy(h, Len(h), call, R, S)

MoveCall(call) == call.op \in MoveOps /\ call.rd # Zero

LEMMA NamedOf == \A o : Named(o) = Of(Current, o)
BY DEF Named, Of

(* The lines that have run have copied their bytes from the registers as   *)
(* they were at the call.                                                  *)
CopiedInv ==
    todo # <<>> /\ MoveCall(Current) => CopiedBy(Assignments, line - 1, Current, saved, regs)

LEMMA MovingCall ==
    ASSUME MInv, todo # <<>>, MoveCall(Current)
    PROVE  /\ Copying(Assignments) /\ Assignments = Moves[Current.op]
           /\ Current.op \notin ReadsBack
           /\ Current.op \notin {"DIV1", "DIVU1", "PDIVW", "PDIVUW", "PDIVBW"}
<1>1. Current.op \in DOMAIN Handler
    BY CurrentCall DEF MInv
<1>2. Current.op \in MoveOps
    BY DEF MoveCall
<1>3. Assignments = Moves[Current.op]
    BY <1>1, <1>2, MoveEntries DEF Assignments
<1>4. Current.op \notin ReadsBack /\ Current.op \notin {"DIV1", "DIVU1", "PDIVW", "PDIVUW", "PDIVBW"}
    BY <1>2 DEF MoveOps, ReadsBack
<1> QED
    BY <1>2, <1>3, <1>4, MovesCopy

(* Two targets are the same byte of the same register only if they are the *)
(* same.                                                                   *)
LEMMA TargetsApart ==
    ASSUME ProgramInv, todo # <<>>, NEW x \in Target, NEW z \in Target,
           Named(x[1]) = Named(z[1]), x[2] = z[2]
    PROVE  x = z
<1>1. Current.rd \in GPR
    BY CurrentCall
<1>2. "HI" \notin GPR /\ "LO" \notin GPR
    BY MultimediaAssumption
<1>3. x = <<x[1], x[2]>> /\ z = <<z[1], z[2]>> /\ x[1] \in {"rd", "HI", "LO"} /\ z[1] \in {"rd", "HI", "LO"}
    BY DEF Target
<1>4. Named("rd") = Current.rd /\ Named("HI") = "HI" /\ Named("LO") = "LO"
    BY DEF Named
<1>5. x[1] = z[1]
    BY <1>1, <1>2, <1>3, <1>4
<1> QED
    BY <1>3, <1>5

(* The line that runs copies its bytes, and no other changes.              *)
LEMMA LineCopied ==
    ASSUME MInv, todo # <<>>, MoveCall(Current), Assign(Assignments[line]),
           NEW x \in DOMAIN Assignments[line], NEW y \in Assignments[line][x]
    PROVE  regs'[Named(x[1])][x[2]] = saved[Named(y[1])][y[2]]
<1> DEFINE a == Assignments[line]
           r == Named(x[1])
           b == x[2]
           here == { z \in Written(a) : Named(z[1]) = r /\ z[2] = b }
<1>1. ProgramInv /\ line \in DOMAIN Assignments
    BY DEF MInv, ProgramInv
<1>2. Typed(Assignments) /\ Copying(Assignments) /\ Current.op \notin ReadsBack
    BY <1>1, CurrentCall, MovingCall
<1>3. LineTyped(a) /\ LineCopies(a)
    BY <1>1, <1>2 DEF Typed, Copying
<1>4. x \in Target /\ DOMAIN a \subseteq Target
    BY <1>3 DEF LineTyped
<1>5. r \in Register /\ b \in Bytes
    BY <1>1, <1>4, CurrentCall DEF Target, Named, Register
<1>6. here = {x}
    <2>1. x \in here
        BY DEF Written, MoveCall
    <2>2. ASSUME NEW z \in here PROVE z = x
        BY <1>1, <1>4, TargetsApart DEF Written
    <2> QED
        BY <2>1, <2>2
<1>7. a[x] = {y}
    BY <1>3 DEF LineCopies
<1>8. Value(a[x]) = Read(y)
    <2>1. Cardinality({y}) = 1
        BY FS_Singleton
    <2>2. (CHOOSE z \in {y} : TRUE) = y
        OBVIOUS
    <2> QED
        BY <1>7, <2>1, <2>2 DEF Value
<1>9. regs'[r][b] = Value(a[x])
    <2>1. (CHOOSE z \in {x} : TRUE) = x
        OBVIOUS
    <2>2. regs'[r][b] = IF here = {} THEN regs[r][b] ELSE Value(a[CHOOSE z \in here : TRUE])
        BY <1>5 DEF Assign
    <2> HIDE DEF here
    <2> QED
        BY <1>6, <2>1, <2>2
<1>10. Read(y) = saved[Named(y[1])][y[2]]
    BY <1>2, OutOfOrderReadsBack
<1> QED
    BY <1>8, <1>9, <1>10

LEMMA OthersKept ==
    ASSUME Assign(Assignments[line]), NEW r \in Register, NEW b \in Bytes,
           \A x \in DOMAIN Assignments[line] : ~(Named(x[1]) = r /\ x[2] = b)
    PROVE  regs'[r][b] = regs[r][b]
BY DEF Assign, Written

LEMMA LinesCopied ==
    ASSUME MInv, CopiedInv, todo # <<>>, MoveCall(Current), Assign(Assignments[line])
    PROVE  CopiedBy(Assignments, line, Current, saved, regs')
<1> DEFINE h == Assignments
<1>1. ProgramInv /\ line \in DOMAIN h /\ line \in Nat \ {0}
    BY DEF MInv, ProgramInv
<1>2. Typed(h) /\ Copying(h)
    BY <1>1, CurrentCall, MovingCall
<1>3. CopiedBy(h, line - 1, Current, saved, regs)
    BY DEF CopiedInv
<1> SUFFICES ASSUME NEW k \in 1 .. line, NEW x \in DOMAIN h[k], NEW y \in h[k][x]
             PROVE  regs'[Of(Current, x[1])][x[2]] = saved[Of(Current, y[1])][y[2]]
    BY DEF CopiedBy
<1>4. CASE k = line
    BY <1>4, LineCopied, NamedOf
<1>5. CASE k # line
    <2>1. k \in 1 .. line - 1 /\ k \in DOMAIN h
        BY <1>1, <1>2, <1>5 DEF Typed
    <2>2. x \in Target /\ DOMAIN h[line] \subseteq Target
        BY <1>1, <1>2, <2>1 DEF Typed, LineTyped
    <2>3. Named(x[1]) \in Register /\ x[2] \in Bytes
        BY <1>1, <2>2, CurrentCall DEF Target, Named, Register
    <2>4. x \notin DOMAIN h[line]
        BY <1>1, <1>2, <1>5, <2>1 DEF Copying
    <2>5. \A z \in DOMAIN h[line] : ~(Named(z[1]) = Named(x[1]) /\ z[2] = x[2])
        BY <1>1, <2>2, <2>4, TargetsApart
    <2>6. regs'[Named(x[1])][x[2]] = regs[Named(x[1])][x[2]]
        BY <2>3, <2>5, OthersKept
    <2> QED
        BY <1>3, <2>1, <2>6, NamedOf DEF CopiedBy
<1> QED
    BY <1>4, <1>5

LEMMA OthersKeptByLines ==
    ASSUME MInv, todo # <<>>, Assign(Assignments[line])
    PROVE  KeptBy(Assignments, line, Current, saved, regs')
<1>1. line \in Nat \ {0}
    BY DEF MInv, ProgramInv
<1> SUFFICES ASSUME NEW r \in Register, NEW b \in Bytes,
                    \A k \in 1 .. line : \A x \in DOMAIN Assignments[k] :
                        ~(Of(Current, x[1]) = r /\ x[2] = b)
             PROVE  regs'[r][b] = saved[r][b]
    BY DEF KeptBy
<1>2. \A k \in 1 .. line : \A x \in DOMAIN Assignments[k] : ~(Named(x[1]) = r /\ x[2] = b)
    BY NamedOf
<1>3. regs'[r][b] = regs[r][b]
    BY <1>1, <1>2, OthersKept
<1>4. regs[r][b] = saved[r][b]
    BY <1>1, <1>2 DEF MInv, OverwrittenInv
<1> QED
    BY <1>3, <1>4
-----------------------------------------------------------------------------
(* The history of a run: which calls have returned, and what the registers *)
(* hold after the first three.                                             *)

Initial == [r \in Register |-> [b \in Bytes |-> <<r, b>>]]

After1(p, S) == Moved(p[1], Initial, S)
After2(p, S) == \E R : After1(p, R) /\ Moved(p[2], R, S)
After3(p, S) == \E R : After2(p, R) /\ Moved(p[3], R, S)

Returned == Len(program) - Len(todo)

SuffixInv ==
    /\ program \in Seq(Calls)
    /\ Len(todo) <= Len(program)
    /\ \A i \in 1 .. Len(todo) : todo[i] = program[Returned + i]

Moving(p) == \A i \in 1 .. Len(p) : MoveCall(p[i])

HistoryInv ==
    /\ todo = <<>> => regs = saved
    /\ Moving(program) =>
          /\ Returned = 0 => saved = Initial
          /\ Returned = 1 => After1(program, saved)
          /\ Returned = 2 => After2(program, saved)
          /\ Returned = 3 => After3(program, saved)

RInv == MInv /\ SuffixInv /\ CopiedInv /\ HistoryInv

LEMMA RInvInit == Init => RInv
<1> SUFFICES ASSUME Init PROVE RInv
    OBVIOUS
<1>1. MInv
    BY MInvInit
<1>2. todo \in Seq(Calls) /\ program = todo /\ saved = regs /\ regs = Initial /\ line = 1
    BY ProgramsAssumption DEF Init, Initial
<1>3. Returned = 0 /\ Len(todo) \in Nat
    BY <1>2 DEF Returned
<1>4. SuffixInv
    BY <1>2, <1>3 DEF SuffixInv
<1>5. CopiedInv
    BY <1>2 DEF CopiedInv, CopiedBy
<1>6. HistoryInv
    BY <1>2, <1>3 DEF HistoryInv
<1> QED
    BY <1>1, <1>4, <1>5, <1>6 DEF RInv

(* The current call is the one after those that have returned.             *)
LEMMA CurrentOfProgram ==
    ASSUME MInv, SuffixInv, todo # <<>>
    PROVE  /\ Returned \in Nat /\ Returned + 1 \in 1 .. Len(program)
           /\ Current = program[Returned + 1]
<1>1. todo \in Seq(Calls) /\ program \in Seq(Calls) /\ Len(todo) \in Nat \ {0} /\ Len(program) \in Nat
    BY DEF MInv, ProgramInv, SuffixInv
<1>2. Head(todo) = todo[1]
    BY <1>1
<1> QED
    BY <1>1, <1>2 DEF SuffixInv, Returned, Current

(* When a call returns, one more has.                                      *)
LEMMA ReturnKeepsSuffix ==
    ASSUME MInv, SuffixInv, todo # <<>>, todo' = Tail(todo), program' = program
    PROVE  SuffixInv' /\ Returned' = Returned + 1
<1>1. todo \in Seq(Calls) /\ program \in Seq(Calls) /\ Len(todo) \in Nat \ {0} /\ Len(program) \in Nat
    BY DEF MInv, ProgramInv, SuffixInv
<1>2. Len(todo') = Len(todo) - 1 /\ \A i \in 1 .. Len(todo) - 1 : todo'[i] = todo[i + 1]
    BY <1>1
<1>3. Returned' = Returned + 1 /\ Returned \in Int
    BY <1>1, <1>2 DEF Returned
<1>4. ASSUME NEW i \in 1 .. Len(todo') PROVE todo'[i] = program[Returned' + i]
    <2>1. i \in 1 .. Len(todo) - 1 /\ i + 1 \in 1 .. Len(todo)
        BY <1>1, <1>2
    <2>2. todo'[i] = program[Returned + (i + 1)]
        BY <1>2, <2>1 DEF SuffixInv
    <2>3. Returned + (i + 1) = Returned' + i
        BY <1>3, <2>1
    <2> QED
        BY <2>2, <2>3
<1> QED
    BY <1>1, <1>2, <1>3, <1>4 DEF SuffixInv

LEMMA ExecuteKeepsHistory == RInv /\ Execute => RInv'
<1> SUFFICES ASSUME RInv, Execute PROVE RInv'
    OBVIOUS
<1>1. /\ MInv /\ SuffixInv /\ CopiedInv /\ HistoryInv /\ todo # <<>> /\ NextLine(line + 1)
      /\ Assign(Assignments[line]) /\ program' = program
      /\ line \in Nat \ {0} /\ line \in DOMAIN Assignments
    BY DEF RInv, Execute, MInv, ProgramInv
<1>2. MInv'
    BY <1>1, ExecuteKeeps
<1>3. MoveCall(Current) => CopiedBy(Assignments, line, Current, saved, regs')
    BY <1>1, LinesCopied
<1>4. CASE line + 1 <= Len(Assignments)
    <2>1. line' = line + 1 /\ todo' = todo /\ saved' = saved
        BY <1>1, <1>4 DEF NextLine
    <2>2. Assignments' = Assignments /\ Current' = Current /\ Returned' = Returned
        BY <1>1, <2>1 DEF Assignments, Current, Returned
    <2>3. SuffixInv'
        BY <1>1, <2>1, <2>2 DEF SuffixInv
    <2>4. line' - 1 = line
        BY <1>1, <2>1
    <2>5. CopiedInv'
        BY <1>3, <2>1, <2>2, <2>4 DEF CopiedInv
    <2>6. HistoryInv'
        BY <1>1, <2>1, <2>2 DEF HistoryInv
    <2> QED
        BY <1>2, <2>3, <2>5, <2>6 DEF RInv
<1>5. CASE ~(line + 1 <= Len(Assignments))
    <2>1. line' = 1 /\ todo' = Tail(todo) /\ saved' = regs'
        BY <1>1, <1>5 DEF NextLine
    <2>2. SuffixInv' /\ Returned' = Returned + 1
        BY <1>1, <2>1, ReturnKeepsSuffix
    <2>3. CopiedInv'
        BY <2>1 DEF CopiedInv, CopiedBy
    <2>4. Returned \in Nat /\ Returned + 1 \in 1 .. Len(program) /\ Current = program[Returned + 1]
        BY <1>1, CurrentOfProgram
    <2>5. ASSUME Moving(program) PROVE Moved(program[Returned + 1], saved, saved')
        <3>1. MoveCall(Current)
            BY <2>4, <2>5 DEF Moving
        <3>2. Assignments = Moves[Current.op] /\ Typed(Assignments)
            BY <1>1, <3>1, MovingCall, CurrentCall DEF MInv
        <3>3. Len(Assignments) = line
            BY <1>1, <1>5, <3>2 DEF Typed
        <3>4. KeptBy(Assignments, line, Current, saved, regs')
            BY <1>1, OthersKeptByLines
        <3> QED
            BY <1>3, <2>1, <2>4, <3>1, <3>2, <3>3, <3>4 DEF Moved
    <2>6. HistoryInv'
        <3>1. Moving(program') <=> Moving(program)
            BY <1>1
        <3>2. ASSUME Moving(program), Returned = 0 PROVE After1(program', saved')
            BY <1>1, <2>5, <3>2 DEF HistoryInv, After1
        <3>3. ASSUME Moving(program), Returned = 1 PROVE After2(program', saved')
            BY <1>1, <2>5, <3>3 DEF HistoryInv, After2
        <3>4. ASSUME Moving(program), Returned = 2 PROVE After3(program', saved')
            BY <1>1, <2>5, <3>4 DEF HistoryInv, After3
        <3> QED
            BY <2>1, <2>2, <2>4, <3>1, <3>2, <3>3, <3>4 DEF HistoryInv
    <2> QED
        BY <1>2, <2>2, <2>3, <2>6 DEF RInv
<1> QED
    BY <1>4, <1>5

(* A division is not one of the moves.                                     *)
LEMMA DivideByZeroKeepsHistory == RInv /\ DivideByZero => RInv'
<1> SUFFICES ASSUME RInv, DivideByZero PROVE RInv'
    OBVIOUS
<1> DEFINE l == IF Current.op = "PDIVBW" THEN 5 ELSE line + 1
<1>1. MInv /\ SuffixInv /\ todo # <<>> /\ NextLine(l) /\ program' = program /\ regs' = regs
    BY DEF RInv, DivideByZero
<1>2. MInv'
    BY <1>1, DivideByZeroKeeps
<1>3. ~MoveCall(Current)
    BY <1>1, MovingCall DEF DivideByZero
<1>4. ~Moving(program)
    BY <1>1, <1>3, CurrentOfProgram DEF Moving
<1> HIDE DEF l
<1>5. CASE l <= Len(Assignments)
    <2>1. todo' = todo /\ saved' = saved
        BY <1>1, <1>5 DEF NextLine
    <2>2. Current' = Current /\ Returned' = Returned
        BY <1>1, <2>1 DEF Current, Returned
    <2>3. SuffixInv'
        BY <1>1, <2>1, <2>2 DEF SuffixInv
    <2>4. CopiedInv' /\ HistoryInv'
        BY <1>1, <1>3, <1>4, <2>1, <2>2 DEF CopiedInv, HistoryInv
    <2> QED
        BY <1>2, <2>3, <2>4 DEF RInv
<1>6. CASE ~(l <= Len(Assignments))
    <2>1. line' = 1 /\ todo' = Tail(todo) /\ saved' = regs'
        BY <1>1, <1>6 DEF NextLine
    <2>2. SuffixInv'
        BY <1>1, <2>1, ReturnKeepsSuffix
    <2>3. CopiedInv' /\ HistoryInv'
        BY <1>1, <1>4, <2>1 DEF CopiedInv, CopiedBy, HistoryInv
    <2> QED
        BY <1>2, <2>2, <2>3 DEF RInv
<1> QED
    BY <1>5, <1>6

LEMMA RInvAlways == Spec => []RInv
<1>1. RInv /\ [Next]_vars => RInv'
    <2> SUFFICES ASSUME RInv, [Next]_vars PROVE RInv'
        OBVIOUS
    <2>1. CASE UNCHANGED vars
        BY <2>1 DEF vars, RInv, MInv, ProgramInv, OverwrittenInv, OperandsReadFirst, SuffixInv,
                    CopiedInv, HistoryInv, Returned, Assignments, Current, Named
    <2> QED
        BY <2>1, ExecuteKeepsHistory, DivideByZeroKeepsHistory DEF Next, Finished
<1> QED
    BY RInvInit, <1>1, PTL DEF Spec
-----------------------------------------------------------------------------
(* The round trips, byte by byte.                                          *)

At(size, lane, j) == size * lane + j

LEMMA AtBytes ==
    ASSUME NEW size \in {1, 2, 4}, NEW n \in Bytes
    PROVE  /\ n = At(size, n \div size, n % size)
           /\ n \div size \in 0 .. 16 \div size - 1 /\ n % size \in 0 .. size - 1
           /\ n < 8 <=> n \div size < 8 \div size
BY DEF At, Bytes

LEMMA LaneAt ==
    ASSUME NEW size \in {1, 2, 4}, NEW l \in 0 .. 16 \div size - 1, NEW j \in 0 .. size - 1
    PROVE  At(size, l, j) \in Bytes /\ At(size, l, j) \div size = l /\ At(size, l, j) % size = j
<1>1. CASE size = 1
    BY <1>1 DEF At, Bytes
<1>2. CASE size = 2
    BY <1>2 DEF At, Bytes
<1>3. CASE size = 4
    BY <1>3 DEF At, Bytes
<1> QED
    BY <1>1, <1>2, <1>3

LEMMA MoveFlow ==
    ASSUME NEW h, NEW call, NEW R, NEW S, NEW n \in Nat, CopiedBy(h, n, call, R, S),
           NEW k \in 1 .. n, NEW dest, NEW source, NEW size \in {1, 2, 4, 8},
           NEW to \in Int, NEW from \in Int, h[k] = Move(dest, size, to, source, from),
           NEW j \in 0 .. size - 1
    PROVE  S[Of(call, dest)][At(size, to, j)] = R[Of(call, source)][At(size, from, j)]
<1> DEFINE x == <<dest, size * to + j>>
           y == <<source, (size * to + j) + size * (from - to)>>
<1>1. x \in Lane(dest, size, to)
    BY DEF Lane
<1>2. x \in DOMAIN h[k] /\ h[k][x] = {y}
    BY <1>1 DEF Move
<1>3. S[Of(call, x[1])][x[2]] = R[Of(call, y[1])][y[2]]
    BY <1>2 DEF CopiedBy
<1>4. (size * to + j) + size * (from - to) = size * from + j
    OBVIOUS
<1> QED
    BY <1>3, <1>4 DEF At

(* Byte n of rd comes from the lane that its own lane takes.               *)
LEMMA TakeFlow ==
    ASSUME NEW call, NEW R, NEW S, Moved(call, R, S), NEW size \in {1, 2, 4}, NEW lanes,
           Moves[call.op] = Take(size, lanes), NEW n \in Bytes,
           NEW o, NEW l \in Int, lanes[n \div size + 1][1] = o, lanes[n \div size + 1][2] = l
    PROVE  S[call.rd][n] = R[Of(call, o)][At(size, l, n % size)]
<1> DEFINE h == Take(size, lanes)
           m == 16 \div size
           q == n \div size
           j == n % size
<1>1. m \in Nat /\ DOMAIN h = 1 .. m /\ Len(h) = m
    BY DEF Take
<1>2. CopiedBy(h, m, call, R, S)
    BY <1>1 DEF Moved
<1>3. q + 1 \in 1 .. m /\ q \in Int /\ (q + 1) - 1 = q /\ j \in 0 .. size - 1 /\ At(size, q, j) = n
    BY AtBytes
<1>4. h[q + 1] = Move("rd", size, q, o, l)
    <2>1. h[q + 1] = Move("rd", size, (q + 1) - 1, lanes[q + 1][1], lanes[q + 1][2])
        BY <1>3 DEF Take
    <2> QED
        BY <1>3, <2>1
<1>5. Of(call, "rd") = call.rd
    BY DEF Of
<1>6. size \in {1, 2, 4, 8}
    OBVIOUS
<1> HIDE DEF h, m, q, j
<1>7. S[Of(call, "rd")][At(size, q, j)] = R[Of(call, o)][At(size, l, j)]
    BY <1>1, <1>2, <1>3, <1>4, <1>6, MoveFlow
<1> QED
    BY <1>3, <1>5, <1>7 DEF j

LEMMA TakeKeeps ==
    ASSUME NEW call, NEW R, NEW S, Moved(call, R, S), NEW size \in {1, 2, 4}, NEW lanes,
           Moves[call.op] = Take(size, lanes), NEW r \in Register, r # call.rd, NEW b \in Bytes
    PROVE  S[r][b] = R[r][b]
<1> DEFINE h == Take(size, lanes)
           m == 16 \div size
<1>1. m \in Nat /\ Len(h) = m
    BY DEF Take
<1>2. KeptBy(h, m, call, R, S)
    BY <1>1 DEF Moved
<1>3. ASSUME NEW k \in 1 .. m, NEW x \in DOMAIN h[k] PROVE Of(call, x[1]) # r
    <2>1. h[k] = Move("rd", size, k - 1, lanes[k][1], lanes[k][2])
        BY DEF Take
    <2>2. x \in Lane("rd", size, k - 1) /\ k - 1 \in Int /\ size \in Int
        BY <1>1, <2>1 DEF Move
    <2>3. x[1] = "rd"
        BY <2>2, LaneBytes
    <2> QED
        BY <2>3 DEF Of
<1> HIDE DEF h, m
<1> QED
    BY <1>2, <1>3 DEF KeptBy

(* The even lanes of what an interleaving leaves are those of rt.          *)
LEMMA InterleaveFlow ==
    ASSUME NEW call, NEW R, NEW S, Moved(call, R, S), NEW size \in {1, 2, 4},
           NEW first \in {0, 8 \div size}, Moves[call.op] = Interleave(size, first),
           NEW q \in 0 .. 8 \div size - 1, NEW j \in 0 .. size - 1
    PROVE  S[call.rd][At(size, 2 * q, j)] = R[call.rt][At(size, first + q, j)]
<1> DEFINE lanes == [k \in 1 .. 16 \div size |->
                       <<IF k % 2 = 1 THEN "Rt" ELSE "Rs", first + (k - 1) \div 2>>]
           n == At(size, 2 * q, j)
<1>1. Moves[call.op] = Take(size, lanes)
    BY DEF Interleave
<1>2. n \in Bytes /\ n \div size = 2 * q /\ n % size = j /\ first + q \in Int
    BY LaneAt
<1>3. 2 * q + 1 \in 1 .. 16 \div size /\ (2 * q + 1) % 2 = 1 /\ (2 * q + 1 - 1) \div 2 = q
    OBVIOUS
<1>4. lanes[2 * q + 1][1] = "Rt" /\ lanes[2 * q + 1][2] = first + q
    BY <1>3
<1>5. Of(call, "Rt") = call.rt
    BY DEF Of
<1> HIDE DEF lanes, n
<1>6. S[call.rd][n] = R[Of(call, "Rt")][At(size, first + q, n % size)]
    BY <1>1, <1>2, <1>4, TakeFlow
<1> QED
    BY <1>2, <1>5, <1>6 DEF n

(* Packing takes the even lanes of rt and then those of rs.                *)
LEMMA PackFlow ==
    ASSUME NEW call, NEW R, NEW S, Moved(call, R, S), NEW size \in {1, 2, 4},
           Moves[call.op] = Pack(size), NEW n \in Bytes
    PROVE  S[call.rd][n] =
               IF n < 8 THEN R[call.rt][At(size, 2 * (n \div size), n % size)]
                        ELSE R[call.rs][At(size, 2 * (n \div size - 8 \div size), n % size)]
<1> DEFINE half == 8 \div size
           lanes == [k \in 1 .. 2 * half |-> IF k <= half THEN <<"Rt", 2 * (k - 1)>>
                                              ELSE <<"Rs", 2 * (k - 1 - half)>>]
           q == n \div size
<1>1. Moves[call.op] = Take(size, lanes)
    BY DEF Pack
<1>2. half \in Nat /\ q \in Int /\ q + 1 \in 1 .. 2 * half /\ (n < 8 <=> q + 1 <= half)
    BY DEF Bytes
<1>3. n < 8 => lanes[q + 1][1] = "Rt" /\ lanes[q + 1][2] = 2 * q
    BY <1>2
<1>4. ~(n < 8) => lanes[q + 1][1] = "Rs" /\ lanes[q + 1][2] = 2 * (q - half)
    BY <1>2
<1>5. Of(call, "Rt") = call.rt /\ Of(call, "Rs") = call.rs
    BY DEF Of
<1>6. 2 * q \in Int /\ 2 * (q - half) \in Int
    BY <1>2
<1> HIDE DEF lanes
<1>7. CASE n < 8
    BY <1>1, <1>3, <1>5, <1>6, <1>7, TakeFlow
<1>8. CASE ~(n < 8)
    BY <1>1, <1>4, <1>5, <1>6, <1>8, TakeFlow
<1> QED
    BY <1>7, <1>8

(* Packing undoes extending.                                               *)
LEMMA ExtendTrip ==
    ASSUME NEW p, After3(p, saved), NEW size \in {1, 2, 4},
           NEW a \in Register, NEW b \in Register, NEW c \in Register, a # b, a # c, b # c,
           Moves[p[1].op] = Interleave(size, 8 \div size),
           Moves[p[2].op] = Interleave(size, 0),
           Moves[p[3].op] = Pack(size),
           p[1].rd = c, p[1].rt = b, p[2].rd = a, p[2].rt = b, p[3].rd = a, p[3].rs = c, p[3].rt = a,
           NEW n \in Bytes
    PROVE  saved[a][n] = <<b, n>>
<1>1. PICK S1, S2 : Moved(p[1], Initial, S1) /\ Moved(p[2], S1, S2) /\ Moved(p[3], S2, saved)
    BY DEF After1, After2, After3
<1> DEFINE half == 8 \div size
           q == n \div size
           j == n % size
<1>2. /\ n = At(size, q, j) /\ half \in Nat /\ 2 * half = 16 \div size
      /\ q \in 0 .. 2 * half - 1 /\ j \in 0 .. size - 1 /\ (n < 8 <=> q < half)
    BY AtBytes
<1>3. ASSUME NEW S, NEW T, NEW call, Moved(call, S, T), NEW first, Moves[call.op] = Interleave(size, first),
             NEW r \in Register, r # call.rd, NEW m \in Bytes
      PROVE  T[r][m] = S[r][m]
    BY <1>3, TakeKeeps DEF Interleave
<1> HIDE DEF half, q, j
<1>4. CASE n < 8
    <2>1. saved[a][n] = S2[a][At(size, 2 * q, j)]
        BY <1>1, <1>4, PackFlow DEF q, j
    <2>2. q \in 0 .. half - 1
        BY <1>2, <1>4
    <2>3. S2[a][At(size, 2 * q, j)] = S1[b][At(size, 0 + q, j)]
        BY <1>1, <1>2, <2>2, InterleaveFlow DEF half
    <2>4. 0 + q = q
        BY <1>2
    <2>5. S1[b][n] = Initial[b][n]
        BY <1>1, <1>3
    <2> QED
        BY <1>2, <2>1, <2>3, <2>4, <2>5 DEF Initial
<1>5. CASE ~(n < 8)
    <2>1. saved[a][n] = S2[c][At(size, 2 * (q - half), j)]
        BY <1>1, <1>5, PackFlow DEF q, j, half
    <2>2. q - half \in 0 .. half - 1
        BY <1>2, <1>5
    <2>3. At(size, 2 * (q - half), j) \in Bytes
        BY <1>2, <2>2, LaneAt
    <2>4. S2[c][At(size, 2 * (q - half), j)] = S1[c][At(size, 2 * (q - half), j)]
        BY <1>1, <1>3, <2>3
    <2>5. S1[c][At(size, 2 * (q - half), j)] = Initial[b][At(size, half + (q - half), j)]
        BY <1>1, <1>2, <2>2, InterleaveFlow DEF half
    <2>6. half + (q - half) = q
        BY <1>2
    <2> QED
        BY <1>2, <2>1, <2>4, <2>5, <2>6 DEF Initial
<1> QED
    BY <1>4, <1>5

LanesOf(lanes, size) == DOMAIN lanes = 1 .. 16 \div size

(* A permutation of the lanes of rt.                                       *)
Permutes(lanes, size, a, b, R, S) ==
    \A q \in 0 .. 16 \div size - 1, j \in 0 .. size - 1 :
        lanes[q + 1] \in Int => S[a][At(size, q, j)] = R[b][At(size, lanes[q + 1], j)]

LEMMA PermuteFlow ==
    ASSUME NEW call, NEW R, NEW S, Moved(call, R, S), NEW size \in {1, 2, 4}, NEW lanes,
           LanesOf(lanes, size), Moves[call.op] = Take(size, FromRt(lanes))
    PROVE  Permutes(lanes, size, call.rd, call.rt, R, S)
<1> SUFFICES ASSUME NEW q \in 0 .. 16 \div size - 1, NEW j \in 0 .. size - 1, lanes[q + 1] \in Int
             PROVE  S[call.rd][At(size, q, j)] = R[call.rt][At(size, lanes[q + 1], j)]
    BY DEF Permutes
<1> DEFINE n == At(size, q, j)
<1>1. n \in Bytes /\ n \div size = q /\ n % size = j
    BY LaneAt
<1>2. q + 1 \in 1 .. 16 \div size
    OBVIOUS
<1>3. FromRt(lanes)[q + 1][1] = "Rt" /\ FromRt(lanes)[q + 1][2] = lanes[q + 1]
    BY <1>2 DEF FromRt, LanesOf
<1>4. Of(call, "Rt") = call.rt
    BY DEF Of
<1> HIDE DEF n
<1>5. S[call.rd][n] = R[Of(call, "Rt")][At(size, lanes[q + 1], n % size)]
    BY <1>1, <1>3, TakeFlow
<1> QED
    BY <1>1, <1>4, <1>5 DEF n

Swaps(lanes, n) ==
    \A q \in 0 .. n - 1 : lanes[q + 1] \in 0 .. n - 1 /\ lanes[lanes[q + 1] + 1] = q

Rotates(lanes, n) ==
    \A q \in 0 .. n - 1 :
        /\ lanes[q + 1] \in 0 .. n - 1
        /\ lanes[lanes[lanes[q + 1] + 1] + 1] = q

(* The exchanges undo themselves.                                          *)
LEMMA ExchangeTrip ==
    ASSUME NEW p, After2(p, saved), NEW size \in {1, 2, 4}, NEW a \in Register, NEW lanes,
           LanesOf(lanes, size),
           Swaps(lanes, 16 \div size),
           Moves[p[1].op] = Take(size, FromRt(lanes)),
           Moves[p[2].op] = Take(size, FromRt(lanes)),
           p[1].rd = a, p[1].rt = a, p[2].rd = a, p[2].rt = a,
           NEW n \in Bytes
    PROVE  saved[a][n] = <<a, n>>
<1>1. PICK S : Moved(p[1], Initial, S) /\ Moved(p[2], S, saved)
    BY DEF After1, After2
<1> DEFINE q == n \div size
           j == n % size
           l == lanes[q + 1]
<1>2. n = At(size, q, j) /\ q \in 0 .. 16 \div size - 1 /\ j \in 0 .. size - 1
    BY AtBytes
<1> HIDE DEF q, j
<1>3. l \in 0 .. 16 \div size - 1 /\ lanes[l + 1] = q /\ l \in Int /\ q \in Int
    BY <1>2 DEF Swaps
<1> HIDE DEF l
<1>4. saved[a][At(size, q, j)] = S[a][At(size, l, j)]
    <2>1. Permutes(lanes, size, a, a, S, saved)
        BY <1>1, PermuteFlow
    <2> QED
        BY <1>2, <1>3, <2>1 DEF l, Permutes
<1>5. S[a][At(size, l, j)] = Initial[a][At(size, q, j)]
    <2>1. Permutes(lanes, size, a, a, Initial, S)
        BY <1>1, PermuteFlow
    <2> QED
        BY <1>2, <1>3, <2>1 DEF Permutes
<1> QED
    BY <1>2, <1>4, <1>5 DEF Initial

(* Three rotations make a whole turn.                                      *)
LEMMA RotateTrip ==
    ASSUME NEW p, After3(p, saved), NEW size \in {1, 2, 4}, NEW a \in Register, NEW lanes,
           LanesOf(lanes, size),
           Rotates(lanes, 16 \div size),
           \A i \in 1 .. 3 : /\ Moves[p[i].op] = Take(size, FromRt(lanes))
                             /\ p[i].rd = a /\ p[i].rt = a,
           NEW n \in Bytes
    PROVE  saved[a][n] = <<a, n>>
<1>1. PICK S1, S2 : Moved(p[1], Initial, S1) /\ Moved(p[2], S1, S2) /\ Moved(p[3], S2, saved)
    BY DEF After1, After2, After3
<1> DEFINE q == n \div size
           j == n % size
           l == lanes[q + 1]
           m == lanes[l + 1]
<1>2. n = At(size, q, j) /\ q \in 0 .. 16 \div size - 1 /\ j \in 0 .. size - 1
    BY AtBytes
<1> HIDE DEF q, j
<1>3. l \in 0 .. 16 \div size - 1 /\ lanes[m + 1] = q /\ l \in Int /\ q \in Int
    BY <1>2 DEF Rotates
<1> HIDE DEF l
<1>4. m \in 0 .. 16 \div size - 1 /\ m \in Int
    <2>1. \A k \in 0 .. 16 \div size - 1 : lanes[k + 1] \in 0 .. 16 \div size - 1
        BY DEF Rotates
    <2>2. m \in 0 .. 16 \div size - 1
        BY <1>3, <2>1, Zenon
    <2> QED
        BY <2>2
<1> HIDE DEF m
<1>5. saved[a][At(size, q, j)] = S2[a][At(size, l, j)]
    <2>1. Permutes(lanes, size, a, a, S2, saved)
        BY <1>1, PermuteFlow
    <2> QED
        BY <1>2, <1>3, <2>1 DEF l, Permutes
<1>6. S2[a][At(size, l, j)] = S1[a][At(size, m, j)]
    <2>1. Permutes(lanes, size, a, a, S1, S2)
        BY <1>1, PermuteFlow
    <2> QED
        BY <1>2, <1>3, <1>4, <2>1 DEF m, Permutes
<1>7. S1[a][At(size, m, j)] = Initial[a][At(size, q, j)]
    <2>1. Permutes(lanes, size, a, a, Initial, S1)
        BY <1>1, PermuteFlow
    <2> QED
        BY <1>2, <1>3, <1>4, <2>1 DEF Permutes
<1> QED
    BY <1>2, <1>5, <1>6, <1>7 DEF Initial

-----------------------------------------------------------------------------
(* The trips of single moves.                                              *)

(* The handler that copies two halves.                                     *)
LEMMA HalvesFlow ==
    ASSUME NEW call, NEW R, NEW S, Moved(call, R, S), NEW j \in 0 .. 7,
           NEW l \in {0, 1}, NEW m \in {0, 1}, NEW d \in {0, 1}, NEW s, NEW t,
           Moves[call.op] = <<Move("rd", 8, d, s, l), Move("rd", 8, 1 - d, t, m)>>
    PROVE  /\ S[call.rd][At(8, d, j)] = R[Of(call, s)][At(8, l, j)]
           /\ S[call.rd][At(8, 1 - d, j)] = R[Of(call, t)][At(8, m, j)]
<1> DEFINE h == <<Move("rd", 8, d, s, l), Move("rd", 8, 1 - d, t, m)>>
<1>1. Len(h) = 2 /\ h[1] = Move("rd", 8, d, s, l) /\ h[2] = Move("rd", 8, 1 - d, t, m)
    OBVIOUS
<1>2. CopiedBy(h, 2, call, R, S)
    BY <1>1 DEF Moved
<1>3. Of(call, "rd") = call.rd
    BY DEF Of
<1>4. 2 \in Nat /\ 1 \in 1 .. 2 /\ 2 \in 1 .. 2 /\ 8 \in {1, 2, 4, 8} /\ j \in 0 .. 8 - 1
    OBVIOUS
<1>5. d \in Int /\ l \in Int /\ m \in Int /\ 1 - d \in Int
    OBVIOUS
<1> HIDE DEF h
<1>6. S[Of(call, "rd")][At(8, d, j)] = R[Of(call, s)][At(8, l, j)]
    BY <1>1, <1>2, <1>4, <1>5, MoveFlow
<1>7. S[Of(call, "rd")][At(8, 1 - d, j)] = R[Of(call, t)][At(8, m, j)]
    BY <1>1, <1>2, <1>4, <1>5, MoveFlow
<1> QED
    BY <1>3, <1>6, <1>7

LEMMA HalvesKeep ==
    ASSUME NEW call, NEW R, NEW S, Moved(call, R, S),
           NEW l \in {0, 1}, NEW m \in {0, 1}, NEW d \in {0, 1}, NEW s, NEW t,
           Moves[call.op] = <<Move("rd", 8, d, s, l), Move("rd", 8, 1 - d, t, m)>>,
           NEW r \in Register, r # call.rd, NEW b \in Bytes
    PROVE  S[r][b] = R[r][b]
<1> DEFINE h == <<Move("rd", 8, d, s, l), Move("rd", 8, 1 - d, t, m)>>
<1>1. Len(h) = 2 /\ h[1] = Move("rd", 8, d, s, l) /\ h[2] = Move("rd", 8, 1 - d, t, m)
    OBVIOUS
<1>2. KeptBy(h, 2, call, R, S)
    BY <1>1 DEF Moved
<1>3. DOMAIN h[1] = Lane("rd", 8, d) /\ DOMAIN h[2] = Lane("rd", 8, 1 - d)
    BY <1>1, MoveCopies
<1> HIDE DEF h
<1>4. ASSUME NEW k \in 1 .. 2, NEW x \in DOMAIN h[k] PROVE Of(call, x[1]) # r
    <2>1. x \in Lane("rd", 8, d) \/ x \in Lane("rd", 8, 1 - d)
        BY <1>3
    <2>2. x[1] = "rd"
        BY <2>1 DEF Lane
    <2> QED
        BY <2>2 DEF Of
<1> QED
    BY <1>2, <1>4 DEF KeptBy

(* The half copies put a register together again.                          *)
LEMMA CopyTrip ==
    ASSUME NEW p, After3(p, saved),
           NEW a \in Register, NEW b \in Register, NEW c \in Register, a # b, a # c, b # c,
           p[1].op = "PCPYUD", p[2].op = "PCPYLD", p[3].op = "PCPYLD",
           p[1].rd = c, p[1].rs = b, p[2].rd = a, p[2].rt = b, p[3].rd = a, p[3].rs = c, p[3].rt = a,
           NEW n \in Bytes
    PROVE  saved[a][n] = <<b, n>>
<1>1. PICK S1, S2 : Moved(p[1], Initial, S1) /\ Moved(p[2], S1, S2) /\ Moved(p[3], S2, saved)
    BY DEF After1, After2, After3
<1>2. /\ Moves[p[1].op] = <<Move("rd", 8, 0, "rs", 1), Move("rd", 8, 1 - 0, "rt", 1)>>
      /\ Moves[p[2].op] = <<Move("rd", 8, 1, "rs", 0), Move("rd", 8, 1 - 1, "rt", 0)>>
      /\ Moves[p[3].op] = <<Move("rd", 8, 1, "rs", 0), Move("rd", 8, 1 - 1, "rt", 0)>>
    BY DEF Moves
<1>3. \A i \in 1 .. 3 : Of(p[i], "rs") = p[i].rs /\ Of(p[i], "rt") = p[i].rt
    BY DEF Of
<1>4. CASE n < 8
    <2>1. n \in 0 .. 7 /\ At(8, 0, n) = n /\ At(8, 1 - 1, n) = n
        BY <1>4 DEF Bytes, At
    <2>2. saved[a][n] = S2[a][n]
        BY <1>1, <1>2, <1>3, <2>1, HalvesFlow
    <2>3. S2[a][n] = S1[b][n]
        BY <1>1, <1>2, <1>3, <2>1, HalvesFlow
    <2>4. S1[b][n] = Initial[b][n]
        BY <1>1, <1>2, HalvesKeep
    <2> QED
        BY <2>2, <2>3, <2>4 DEF Initial
<1>5. CASE ~(n < 8)
    <2> DEFINE j == n - 8
    <2>1. j \in 0 .. 7 /\ j \in Bytes /\ At(8, 1, j) = n /\ At(8, 0, j) = j
        BY <1>5 DEF Bytes, At
    <2> HIDE DEF j
    <2>2. saved[a][n] = S2[c][j]
        BY <1>1, <1>2, <1>3, <2>1, HalvesFlow
    <2>3. S2[c][j] = S1[c][j]
        BY <1>1, <1>2, <2>1, HalvesKeep
    <2>4. S1[c][j] = Initial[b][n]
        BY <1>1, <1>2, <1>3, <2>1, HalvesFlow
    <2> QED
        BY <2>2, <2>3, <2>4 DEF Initial
<1> QED
    BY <1>4, <1>5

(* PMFHL reads what PMTHL wrote.                                           *)
LEMMA HiLoTrip ==
    ASSUME NEW p, After2(p, saved), NEW a \in Register, NEW b \in Register,
           p[1].op = "PMTHL", p[1].rs = a, p[2].op = "PMFHL_LW", p[2].rd = b,
           NEW n \in Bytes
    PROVE  saved[b][n] = <<a, n>>
<1>1. PICK S : Moved(p[1], Initial, S) /\ Moved(p[2], S, saved)
    BY DEF After1, After2
<1> DEFINE lanes == <<<<"LO", 0>>, <<"HI", 0>>, <<"LO", 2>>, <<"HI", 2>>>>
           h == <<Move("LO", 4, 0, "rs", 0), Move("HI", 4, 0, "rs", 1),
                  Move("LO", 4, 2, "rs", 2), Move("HI", 4, 2, "rs", 3)>>
           q == n \div 4
           j == n % 4
           o == lanes[q + 1][1]
           l == lanes[q + 1][2]
<1>2. Moves[p[1].op] = h /\ Moves[p[2].op] = Take(4, lanes)
    BY DEF Moves
<1>3. n = At(4, q, j) /\ q \in 0 .. 3 /\ j \in 0 .. 4 - 1 /\ q \in Int
    BY AtBytes
<1>4. o \in {"LO", "HI"} /\ l \in Int /\ Len(h) = 4 /\ h[q + 1] = Move(o, 4, l, "rs", q)
    BY <1>3
<1>5. CopiedBy(h, 4, p[1], Initial, S)
    BY <1>1, <1>2, <1>4 DEF Moved
<1>6. Of(p[1], "rs") = a /\ Of(p[1], o) = o /\ Of(p[2], o) = o
    BY <1>4 DEF Of
<1>7. lanes[n \div 4 + 1][1] = o /\ lanes[n \div 4 + 1][2] = l
    OBVIOUS
<1> HIDE DEF h, lanes, o, l, q
<1>8. saved[b][n] = S[o][At(4, l, j)]
    BY <1>1, <1>2, <1>4, <1>6, <1>7, TakeFlow
<1>9. S[o][At(4, l, j)] = Initial[a][At(4, q, j)]
    <2>1. 4 \in Nat /\ q + 1 \in 1 .. 4 /\ 4 \in {1, 2, 4, 8}
        BY <1>3
    <2> HIDE DEF j
    <2> QED
        BY <1>3, <1>4, <1>5, <1>6, <2>1, MoveFlow
<1> QED
    BY <1>3, <1>8, <1>9 DEF Initial
-----------------------------------------------------------------------------
(* All of them.                                                            *)

ThreeRegisters(a, b, c) ==
    a \in GPR \ {Zero} /\ b \in GPR \ {Zero} /\ c \in GPR \ {Zero} /\ a # b /\ a # c /\ b # c

LEMMA ThreeApart ==
    ASSUME NEW a, NEW b, NEW c, Cardinality({a, b, c}) = 3
    PROVE  a # b /\ a # c /\ b # c
<1>1. ASSUME NEW x, NEW y PROVE Cardinality({x, y}) # 3
    <2>1. IsFiniteSet({x}) /\ Cardinality({x}) = 1
        BY FS_Singleton
    <2>2. Cardinality({x} \cup {y}) \in {1, 2}
        BY <2>1, FS_AddElement
    <2>3. {x, y} = {x} \cup {y}
        OBVIOUS
    <2> QED
        BY <2>2, <2>3
<1>2. ASSUME a = b PROVE {a, b, c} = {a, c}
    BY <1>2
<1>3. ASSUME a = c PROVE {a, b, c} = {a, b}
    BY <1>3
<1>4. ASSUME b = c PROVE {a, b, c} = {a, b}
    BY <1>4
<1> QED
    BY <1>1, <1>2, <1>3, <1>4

(* A run of moves that has ended has been through all of them.             *)
LEMMA EndOfRun ==
    ASSUME RInv, todo = <<>>, Moving(program)
    PROVE  /\ regs = saved
           /\ Len(program) = 2 => After2(program, saved)
           /\ Len(program) = 3 => After3(program, saved)
<1>1. Returned = Len(program)
    BY DEF Returned, RInv, SuffixInv
<1> QED
    BY <1>1 DEF RInv, HistoryInv

Extends == {<<"PEXTLW", "PEXTUW", "PPACW">>, <<"PEXTLH", "PEXTUH", "PPACH">>,
            <<"PEXTLB", "PEXTUB", "PPACB">>}

LEMMA ExtendReturns ==
    ASSUME RInv, todo = <<>>, NEW a, NEW b, NEW c, ThreeRegisters(a, b, c), NEW e \in Extends,
           program = <<Instruction(e[2], c, a, b), Instruction(e[1], a, a, b),
                       Instruction(e[3], a, c, a)>>,
           NEW n \in Bytes
    PROVE  regs[a][n] = <<b, n>>
<1>1. /\ program[1] = Instruction(e[2], c, a, b) /\ program[2] = Instruction(e[1], a, a, b)
      /\ program[3] = Instruction(e[3], a, c, a) /\ Len(program) = 3
    OBVIOUS
<1>2. e[1] \in MoveOps /\ e[2] \in MoveOps /\ e[3] \in MoveOps
    BY DEF Extends, MoveOps
<1>3. Moving(program)
    BY <1>1, <1>2 DEF Moving, MoveCall, Instruction, ThreeRegisters
<1>4. regs = saved /\ After3(program, saved)
    BY <1>1, <1>3, EndOfRun
<1>5. PICK size \in {1, 2, 4} : /\ Moves[e[2]] = Interleave(size, 8 \div size)
                                /\ Moves[e[1]] = Interleave(size, 0)
                                /\ Moves[e[3]] = Pack(size)
    <2>1. CASE e = <<"PEXTLW", "PEXTUW", "PPACW">>
        <3>1. 8 \div 4 = 2 /\ 4 \in {1, 2, 4}
            OBVIOUS
        <3> QED
            BY <2>1, <3>1 DEF Moves
    <2>2. CASE e = <<"PEXTLH", "PEXTUH", "PPACH">>
        <3>1. 8 \div 2 = 4 /\ 2 \in {1, 2, 4}
            OBVIOUS
        <3> QED
            BY <2>2, <3>1 DEF Moves
    <2>3. CASE e = <<"PEXTLB", "PEXTUB", "PPACB">>
        <3>1. 8 \div 1 = 8 /\ 1 \in {1, 2, 4}
            OBVIOUS
        <3> QED
            BY <2>3, <3>1 DEF Moves
    <2> QED
        BY <2>1, <2>2, <2>3 DEF Extends
<1>6. a \in Register /\ b \in Register /\ c \in Register /\ a # b /\ a # c /\ b # c
    BY DEF ThreeRegisters, Register
<1>7. /\ program[1].op = e[2] /\ program[1].rd = c /\ program[1].rt = b
      /\ program[2].op = e[1] /\ program[2].rd = a /\ program[2].rt = b
      /\ program[3].op = e[3] /\ program[3].rd = a /\ program[3].rs = c /\ program[3].rt = a
    BY <1>1 DEF Instruction
<1>8. /\ Moves[program[1].op] = Interleave(size, 8 \div size)
      /\ Moves[program[2].op] = Interleave(size, 0)
      /\ Moves[program[3].op] = Pack(size)
    BY <1>5, <1>7
<1>9. saved[a][n] = <<b, n>>
    BY <1>4, <1>6, <1>7, <1>8, ExtendTrip
<1> QED
    BY <1>4, <1>9

Exchanges == {"PEXEH", "PREVH", "PEXEW", "PEXCH", "PEXCW"}

LEMMA ExchangeReturns ==
    ASSUME RInv, todo = <<>>, NEW a, NEW b, a \in GPR \ {Zero}, NEW op \in Exchanges,
           program = <<Instruction(op, a, b, a), Instruction(op, a, b, a)>>,
           NEW n \in Bytes
    PROVE  regs[a][n] = <<a, n>>
<1>1. Len(program) = 2 /\ \A i \in 1 .. 2 : program[i] = Instruction(op, a, b, a)
    OBVIOUS
<1>2. op \in MoveOps
    BY DEF Exchanges, MoveOps
<1>3. Moving(program)
    BY <1>1, <1>2 DEF Moving, MoveCall, Instruction
<1>4. regs = saved /\ After2(program, saved)
    BY <1>1, <1>3, EndOfRun
<1>5. PICK size, lanes : /\ size \in {1, 2, 4} /\ Moves[op] = Take(size, FromRt(lanes))
                         /\ LanesOf(lanes, size) /\ Swaps(lanes, 16 \div size)
    <2>1. CASE op = "PEXEH"
        <3> DEFINE lanes == <<2, 1, 0, 3, 6, 5, 4, 7>>
        <3>1. LanesOf(lanes, 2) /\ Swaps(lanes, 16 \div 2)
            BY DEF LanesOf, Swaps
        <3>2. Moves[op] = Take(2, FromRt(lanes)) /\ 2 \in {1, 2, 4}
            BY <2>1 DEF Moves
        <3> HIDE DEF lanes
        <3> QED
            BY <3>1, <3>2
    <2>2. CASE op = "PREVH"
        <3> DEFINE lanes == <<3, 2, 1, 0, 7, 6, 5, 4>>
        <3>1. LanesOf(lanes, 2) /\ Swaps(lanes, 16 \div 2)
            BY DEF LanesOf, Swaps
        <3>2. Moves[op] = Take(2, FromRt(lanes)) /\ 2 \in {1, 2, 4}
            BY <2>2 DEF Moves
        <3> HIDE DEF lanes
        <3> QED
            BY <3>1, <3>2
    <2>3. CASE op = "PEXCH"
        <3> DEFINE lanes == <<0, 2, 1, 3, 4, 6, 5, 7>>
        <3>1. LanesOf(lanes, 2) /\ Swaps(lanes, 16 \div 2)
            BY DEF LanesOf, Swaps
        <3>2. Moves[op] = Take(2, FromRt(lanes)) /\ 2 \in {1, 2, 4}
            BY <2>3 DEF Moves
        <3> HIDE DEF lanes
        <3> QED
            BY <3>1, <3>2
    <2>4. CASE op = "PEXEW"
        <3> DEFINE lanes == <<2, 1, 0, 3>>
        <3>1. LanesOf(lanes, 4) /\ Swaps(lanes, 16 \div 4)
            BY DEF LanesOf, Swaps
        <3>2. Moves[op] = Take(4, FromRt(lanes)) /\ 4 \in {1, 2, 4}
            BY <2>4 DEF Moves
        <3> HIDE DEF lanes
        <3> QED
            BY <3>1, <3>2
    <2>5. CASE op = "PEXCW"
        <3> DEFINE lanes == <<0, 2, 1, 3>>
        <3>1. LanesOf(lanes, 4) /\ Swaps(lanes, 16 \div 4)
            BY DEF LanesOf, Swaps
        <3>2. Moves[op] = Take(4, FromRt(lanes)) /\ 4 \in {1, 2, 4}
            BY <2>5 DEF Moves
        <3> HIDE DEF lanes
        <3> QED
            BY <3>1, <3>2
    <2> QED
        BY <2>1, <2>2, <2>3, <2>4, <2>5 DEF Exchanges
<1>6. \A i \in 1 .. 2 : program[i].op = op /\ program[i].rd = a /\ program[i].rt = a
    BY <1>1 DEF Instruction
<1>7. a \in Register
    BY DEF Register
<1>8. saved[a][n] = <<a, n>>
    BY <1>4, <1>5, <1>6, <1>7, ExchangeTrip
<1> QED
    BY <1>4, <1>8

LEMMA RotateReturns ==
    ASSUME RInv, todo = <<>>, NEW a, NEW b, a \in GPR \ {Zero},
           program = <<Instruction("PROT3W", a, b, a), Instruction("PROT3W", a, b, a),
                       Instruction("PROT3W", a, b, a)>>,
           NEW n \in Bytes
    PROVE  regs[a][n] = <<a, n>>
<1> DEFINE lanes == <<1, 2, 0, 3>>
<1>1. Len(program) = 3 /\ \A i \in 1 .. 3 : program[i] = Instruction("PROT3W", a, b, a)
    OBVIOUS
<1>2. "PROT3W" \in MoveOps
    BY DEF MoveOps
<1>3. Moving(program)
    BY <1>1, <1>2 DEF Moving, MoveCall, Instruction
<1>4. regs = saved /\ After3(program, saved)
    BY <1>1, <1>3, EndOfRun
<1>5. LanesOf(lanes, 4) /\ Rotates(lanes, 16 \div 4) /\ Moves["PROT3W"] = Take(4, FromRt(lanes))
    BY DEF LanesOf, Rotates, Moves
<1>6. \A i \in 1 .. 3 : program[i].op = "PROT3W" /\ program[i].rd = a /\ program[i].rt = a
    BY <1>1 DEF Instruction
<1>7. a \in Register /\ 4 \in {1, 2, 4}
    BY DEF Register
<1> HIDE DEF lanes
<1>8. \A i \in 1 .. 3 : /\ Moves[program[i].op] = Take(4, FromRt(lanes))
                        /\ program[i].rd = a /\ program[i].rt = a
    BY <1>5, <1>6
<1>9. saved[a][n] = <<a, n>>
    BY <1>4, <1>5, <1>7, <1>8, RotateTrip
<1> QED
    BY <1>4, <1>9

LEMMA CopyReturns ==
    ASSUME RInv, todo = <<>>, NEW a, NEW b, NEW c, ThreeRegisters(a, b, c),
           program = <<Instruction("PCPYUD", c, b, a), Instruction("PCPYLD", a, a, b),
                       Instruction("PCPYLD", a, c, a)>>,
           NEW n \in Bytes
    PROVE  regs[a][n] = <<b, n>>
<1>1. /\ program[1] = Instruction("PCPYUD", c, b, a) /\ program[2] = Instruction("PCPYLD", a, a, b)
      /\ program[3] = Instruction("PCPYLD", a, c, a) /\ Len(program) = 3
    OBVIOUS
<1>2. "PCPYUD" \in MoveOps /\ "PCPYLD" \in MoveOps
    BY DEF MoveOps
<1>3. Moving(program)
    BY <1>1, <1>2 DEF Moving, MoveCall, Instruction, ThreeRegisters
<1>4. regs = saved /\ After3(program, saved)
    BY <1>1, <1>3, EndOfRun
<1>5. a \in Register /\ b \in Register /\ c \in Register /\ a # b /\ a # c /\ b # c
    BY DEF ThreeRegisters, Register
<1>6. /\ program[1].op = "PCPYUD" /\ program[1].rd = c /\ program[1].rs = b
      /\ program[2].op = "PCPYLD" /\ program[2].rd = a /\ program[2].rt = b
      /\ program[3].op = "PCPYLD" /\ program[3].rd = a /\ program[3].rs = c /\ program[3].rt = a
    BY <1>1 DEF Instruction
<1>7. saved[a][n] = <<b, n>>
    BY <1>4, <1>5, <1>6, CopyTrip
<1> QED
    BY <1>4, <1>7

LEMMA HiLoReturns ==
    ASSUME RInv, todo = <<>>, NEW a, NEW b, NEW c, ThreeRegisters(a, b, c),
           program = <<Instruction("PMTHL", c, a, b), Instruction("PMFHL_LW", b, a, c)>>,
           NEW n \in Bytes
    PROVE  regs[b][n] = <<a, n>>
<1>1. /\ program[1] = Instruction("PMTHL", c, a, b) /\ program[2] = Instruction("PMFHL_LW", b, a, c)
      /\ Len(program) = 2
    OBVIOUS
<1>2. "PMTHL" \in MoveOps /\ "PMFHL_LW" \in MoveOps
    BY DEF MoveOps
<1>3. Moving(program)
    BY <1>1, <1>2 DEF Moving, MoveCall, Instruction, ThreeRegisters
<1>4. regs = saved /\ After2(program, saved)
    BY <1>1, <1>3, EndOfRun
<1>5. a \in Register /\ b \in Register
    BY DEF ThreeRegisters, Register
<1>6. /\ program[1].op = "PMTHL" /\ program[1].rs = a
      /\ program[2].op = "PMFHL_LW" /\ program[2].rd = b
    BY <1>1 DEF Instruction
<1>7. saved[b][n] = <<a, n>>
    BY <1>4, <1>5, <1>6, HiLoTrip
<1> QED
    BY <1>4, <1>7

(* Whatever the registers: packing undoes extending, the exchanges undo    *)
(* themselves, three rotations make a whole turn, the half copies put a    *)
(* register together again, and PMFHL reads what PMTHL wrote.              *)
THEOREM RoundTripsAlwaysRestore == Spec => []RoundTripsRestore
<1>1. RInv => RoundTripsRestore
    <2> SUFFICES ASSUME RInv, todo = <<>>,
                        NEW a \in GPR \ {Zero}, NEW b \in GPR \ {Zero}, NEW c \in GPR \ {Zero},
                        NEW trip \in RoundTrips(a, b, c),
                        Cardinality({a, b, c}) = 3, program = trip.run, NEW n \in Bytes
                 PROVE  regs[trip.to][n] = <<trip.from, n>>
        BY DEF RoundTripsRestore
    <2>1. ThreeRegisters(a, b, c)
        BY ThreeApart DEF ThreeRegisters
    <2>2. CASE \E e \in Extends :
                  trip = [run |-> <<Instruction(e[2], c, a, b), Instruction(e[1], a, a, b),
                                    Instruction(e[3], a, c, a)>>, to |-> a, from |-> b]
        BY <2>1, <2>2, ExtendReturns
    <2>3. CASE \E op \in Exchanges :
                  trip = [run |-> <<Instruction(op, a, b, a), Instruction(op, a, b, a)>>,
                          to |-> a, from |-> a]
        BY <2>3, ExchangeReturns
    <2>4. CASE trip = [run |-> <<Instruction("PROT3W", a, b, a), Instruction("PROT3W", a, b, a),
                                 Instruction("PROT3W", a, b, a)>>, to |-> a, from |-> a]
        BY <2>4, RotateReturns
    <2>5. CASE trip = [run |-> <<Instruction("PCPYUD", c, b, a), Instruction("PCPYLD", a, a, b),
                                 Instruction("PCPYLD", a, c, a)>>, to |-> a, from |-> b]
        BY <2>1, <2>5, CopyReturns
    <2>6. CASE trip = [run |-> <<Instruction("PMTHL", c, a, b), Instruction("PMFHL_LW", b, a, c)>>,
                       to |-> b, from |-> a]
        BY <2>1, <2>6, HiLoReturns
    <2> QED
        BY <2>2, <2>3, <2>4, <2>5, <2>6, Zenon DEF RoundTrips, Extends, Exchanges
<1> QED
    BY <1>1, RInvAlways, PTL
=============================================================================
