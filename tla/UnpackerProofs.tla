--------------------------- MODULE UnpackerProofs ---------------------------
(***************************************************************************)
(* What main promises, for every input, every option and every layout of   *)
(* memory.  The invariant follows main's phases: before the scans the      *)
(* bounds are the options', during and after them the invariant of         *)
(* DumpBoundsProofs holds, and each write leaves its part of the image as  *)
(* memory and the bounds have it, which no later step changes.             *)
(***************************************************************************)
EXTENDS Unpacker, TLAPS

Scanning == INSTANCE DumpBoundsProofs

Before  == {"read", "load", "setpc", "norun", "run"}
Writing == {"open", "headers", "data", "close"}
Image   == [entry : Address, vaddr : Address, bytes : Seq(Byte)]

(* What main writes is known, and how.                                     *)
Final ==
    /\ norun \/ (alive /\ bounce_pc # 0)
    /\ ~norun => scan = "done" /\ Scanning!IInv
    /\ norun => /\ bounce_pc = ep
                /\ lo_base = IF opt_lo = 0 THEN raw ELSE opt_lo
                /\ hi_base = IF opt_hi = 0 THEN Shift(raw, size) ELSE opt_hi

Headed == image.entry = bounce_pc /\ image.vaddr = lo_base
Whole  == Headed /\ Fits(lo_base, DumpSize) /\ image.bytes = Dumped

Phases ==
    /\ phase \in Before => /\ scan = "lo_start" /\ stray = FALSE
                           /\ lo_base = opt_lo /\ hi_base = opt_hi
    /\ phase \in Before \union {"scan", "open"} => file = "untouched"
    /\ phase # "end" => exit = "none"
    /\ phase = "run" => ~norun
    /\ phase = "norun" => norun
    /\ phase = "scan" => ~norun /\ alive /\ bounce_pc # 0 /\ Scanning!IInv
    /\ phase \in Writing => Final
    /\ phase \in {"data", "close"} => Headed
    /\ phase = "close" => Whole

Forced == (opt_lo # 0 => lo_base = opt_lo) /\ (opt_hi # 0 => hi_base = opt_hi)

UInv ==
    /\ TypeOK
    /\ image \in Image
    /\ Phases
    /\ Forced
    /\ OutputOnlyAfterEntry
    /\ Delivered => Final /\ Whole

-----------------------------------------------------------------------------
(* Addresses, and the invariant of the scans.                              *)

LEMMA ShiftType ==
    ASSUME NEW a \in Address, NEW k \in Int, -AddrSpace <= k, k <= AddrSpace
    PROVE  Shift(a, k) \in Address
BY MemoryAssumption DEF MemoryAssumption, Address, Shift

LEMMA ZeroIsAddress == 0 \in Address /\ Address \subseteq Nat /\ Cell \subseteq Address
BY MemoryAssumption DEF MemoryAssumption, Address, Cell

LEMMA DumpSizeType ==
    ASSUME lo_base \in Address, hi_base \in Address
    PROVE  DumpSize \in Address
BY ShiftType, MemoryAssumption DEF MemoryAssumption, Address, DumpSize

LEMMA ScanningKept ==
    ASSUME Scanning!IInv, UNCHANGED <<memory, written, bounce_pc, opt_lo, opt_hi, bounds>>
    PROVE  Scanning!IInv'
<1>1. UNCHANGED Scanning!vars
    BY DEF Scanning!vars, Scanning!given, bounds
<1>2. [Scanning!Next]_(Scanning!vars)
    BY <1>1
<1> QED
    BY <1>2, Scanning!NextKeepsIInv, UnpackerAssumption, MemoryAssumption

LEMMA ScanningStep ==
    ASSUME Scanning!IInv, Bounds!Step
    PROVE  /\ Scanning!IInv'
           /\ UNCHANGED <<memory, written, bounce_pc, opt_lo, opt_hi>>
<1>1. Scanning!given = Bounds!given /\ Scanning!given' = Bounds!given'
    BY DEF Scanning!given, Bounds!given
<1>2. Bounds!LowStart => Scanning!LowStart
    BY <1>1 DEF Bounds!LowStart, Scanning!LowStart
<1>3. Bounds!LowDown => Scanning!LowDown
    BY <1>1 DEF Bounds!LowDown, Scanning!LowDown, Bounds!Shift, Scanning!Shift,
                Bounds!HasWrite, Scanning!HasWrite, Bounds!Noted, Scanning!Noted,
                Bounds!Cell, Scanning!Cell
<1>4. Bounds!LowSkip => Scanning!LowSkip
    BY <1>1 DEF Bounds!LowSkip, Scanning!LowSkip, Bounds!Shift, Scanning!Shift,
                Bounds!IsZero, Scanning!IsZero, Bounds!Noted, Scanning!Noted,
                Bounds!Cell, Scanning!Cell
<1>5. Bounds!LowAlign => Scanning!LowAlign
    BY <1>1 DEF Bounds!LowAlign, Scanning!LowAlign, Bounds!AlignDown, Scanning!AlignDown
<1>6. Bounds!HighStart => Scanning!HighStart
    BY <1>1 DEF Bounds!HighStart, Scanning!HighStart
<1>7. Bounds!HighUp => Scanning!HighUp
    BY <1>1 DEF Bounds!HighUp, Scanning!HighUp, Bounds!Shift, Scanning!Shift,
                Bounds!HasWrite, Scanning!HasWrite, Bounds!Noted, Scanning!Noted,
                Bounds!Cell, Scanning!Cell
<1>8. Bounds!HighTrim => Scanning!HighTrim
    BY <1>1 DEF Bounds!HighTrim, Scanning!HighTrim, Bounds!Shift, Scanning!Shift,
                Bounds!IsZero, Scanning!IsZero, Bounds!Noted, Scanning!Noted,
                Bounds!Cell, Scanning!Cell
<1>9. Bounds!ProbeFault => Scanning!ProbeFault
    BY <1>1 DEF Bounds!ProbeFault, Scanning!ProbeFault, Bounds!Probed, Scanning!Probed,
                Bounds!Shift, Scanning!Shift, Bounds!Cell, Scanning!Cell
<1>10. [Scanning!Next]_(Scanning!vars)
    BY <1>2, <1>3, <1>4, <1>5, <1>6, <1>7, <1>8, <1>9
       DEF Scanning!Next, Scanning!Step, Bounds!Step
<1>11. UNCHANGED <<memory, written, bounce_pc, opt_lo, opt_hi>>
    BY DEF Bounds!Step, Bounds!LowStart, Bounds!LowDown, Bounds!LowSkip, Bounds!LowAlign,
           Bounds!HighStart, Bounds!HighUp, Bounds!HighTrim, Bounds!ProbeFault, Bounds!given
<1> QED
    BY <1>10, <1>11, Scanning!NextKeepsIInv, UnpackerAssumption, MemoryAssumption

LEMMA FinalKept ==
    ASSUME Final, UNCHANGED <<options, size, memory, core, bounds>>
    PROVE  Final'
BY ScanningKept DEF Final, options, core, bounds

LEMMA WholeKept ==
    ASSUME UNCHANGED <<memory, core, bounds, image>>
    PROVE  (Headed' <=> Headed) /\ (Whole' <=> Whole)
BY DEF Headed, Whole, Dumped, DumpSize, core, bounds

(* A step that leaves the bounds, the core and the image alone.            *)
LEMMA SameTypes ==
    ASSUME UInv, UNCHANGED <<options, input, memory, core, bounds, image>>
    PROVE  /\ TypeOK /\ image' \in Image /\ Forced'
           /\ (Final => Final') /\ (Headed' <=> Headed) /\ (Whole' <=> Whole)
           /\ UNCHANGED <<raw, ep, norun, opt_lo, opt_hi, size, segments, memory,
                          pc, written, bounce_pc, alive, lo_base, hi_base, scan, stray, image>>
<1>1. UNCHANGED <<raw, ep, norun, opt_lo, opt_hi, size, segments, memory,
                  pc, written, bounce_pc, alive, lo_base, hi_base, scan, stray, image>>
    BY DEF options, input, core, bounds
<1>2. (Final => Final') /\ (Headed' <=> Headed) /\ (Whole' <=> Whole)
    BY <1>1, FinalKept, WholeKept DEF options, core, bounds
<1> QED
    BY <1>1, <1>2 DEF UInv, Forced

(* However the program gives up, nothing has been delivered.               *)
LEMMA GivingUp ==
    ASSUME UInv, UNCHANGED <<options, input, memory, core, bounds, image>>,
           phase' = "end", exit' \in {"-1", "signal"},
           file' = file \/ (phase \in Writing /\ file' = "partial")
    PROVE  UInv'
<1> USE SameTypes
<1>1. TypeOK'
    BY DEF TypeOK
<1>2. Phases' /\ Forced' /\ image' \in Image /\ ~Delivered'
    BY DEF Phases, Before, Writing, Delivered
<1>3. OutputOnlyAfterEntry'
    BY DEF UInv, OutputOnlyAfterEntry, Phases, Final
<1> QED
    BY <1>1, <1>2, <1>3 DEF UInv

LEMMA StutterKeepsUInv ==
    ASSUME UInv, UNCHANGED vars
    PROVE  UInv'
<1>1. UNCHANGED <<options, input, memory, core, bounds, image>>
      /\ UNCHANGED <<phase, file, exit>>
    BY DEF vars, output
<1>2. TypeOK' /\ image' \in Image /\ Forced'
    BY <1>1, SameTypes DEF TypeOK
<1>3. Phases' /\ (Delivered' => Final' /\ Whole')
    <2>1. Scanning!IInv => Scanning!IInv'
        BY <1>1, ScanningKept DEF options, core, bounds
    <2>2. Phases /\ (Delivered => Final /\ Whole)
        BY DEF UInv
    <2>3. UNCHANGED <<Before, Writing>>
        BY DEF Before, Writing
    <2>4. /\ (Final => Final') /\ (Headed' <=> Headed) /\ (Whole' <=> Whole)
          /\ UNCHANGED <<norun, opt_lo, opt_hi, bounce_pc, alive, lo_base, hi_base, scan, stray>>
        BY <1>1, SameTypes
    <2>5. Phases'
        BY <1>1, <2>1, <2>2, <2>3, <2>4 DEF Phases
    <2> QED
        BY <1>1, <2>2, <2>4, <2>5 DEF Delivered
<1>4. OutputOnlyAfterEntry'
    BY <1>1, SameTypes DEF UInv, OutputOnlyAfterEntry
<1> QED
    BY <1>2, <1>3, <1>4 DEF UInv

-----------------------------------------------------------------------------
(* Loading and running.                                                    *)

LEMMA InitUInv == Init => UInv
<1> SUFFICES ASSUME Init PROVE UInv
    OBVIOUS
<1>1. image \in Image /\ image.entry \in Address /\ image.vaddr \in Address
                     /\ image.bytes \in Seq(Byte)
    BY ZeroIsAddress DEF Init, NoImage, Image
<1>2. memory \in [Cell -> Byte] /\ size \in 0 .. MaxFile /\ segments \in 0 .. MaxSegments
    BY UnpackerAssumption DEF Init
<1>3. {alive, stray, norun} \subseteq BOOLEAN
    BY DEF Init
<1>4. TypeOK
    BY <1>1, <1>2, <1>3, ZeroIsAddress DEF Init, TypeOK, Bounds!Scans
<1>5. Phases /\ Forced /\ OutputOnlyAfterEntry /\ ~Delivered
    BY DEF Init, Phases, Before, Writing, Forced, OutputOnlyAfterEntry, Delivered
<1> QED
    BY <1>1, <1>4, <1>5 DEF UInv

(* Before the scans, with the output not yet touched: what is left to show *)
(* of a step.                                                              *)
LEMMA StillBefore ==
    ASSUME UInv, TypeOK', phase \in Before, phase' \in Before, UNCHANGED <<options, bounds, output>>,
           phase' = "run" => ~norun, phase' = "norun" => norun
    PROVE  UInv'
<1>1. /\ UNCHANGED <<norun, opt_lo, opt_hi, lo_base, hi_base, scan, stray, file, image, exit>>
      /\ file = "untouched" /\ exit = "none"
    BY DEF options, bounds, output, UInv, Phases, Before
<1>2. Phases'
    BY <1>1 DEF UInv, Phases, Before, Writing
<1>3. Forced' /\ image' \in Image /\ OutputOnlyAfterEntry' /\ ~Delivered'
    BY <1>1 DEF UInv, Forced, OutputOnlyAfterEntry, Delivered
<1> QED
    BY <1>2, <1>3 DEF UInv

LEMMA LoadingTypes ==
    ASSUME TypeOK, NEW mem, NEW n, load_section(mem, n)
    PROVE  /\ memory' \in [Cell -> Byte] /\ written' \subseteq Cell
           /\ UNCHANGED <<pc, bounce_pc, alive>>
BY DEF TypeOK, load_section

LEMMA LoadingKeepsUInv ==
    ASSUME UInv, Loading
    PROVE  UInv'
<1> USE DEF options, input, core, bounds, output
<1>1. TypeOK
    BY DEF UInv
<1>2. CASE ReadInput
    <2>1. TypeOK'
        BY <1>1, <1>2 DEF ReadInput, TypeOK
    <2> QED
        BY <1>2, <2>1, StillBefore DEF ReadInput, Before
<1>3. CASE InputError
    BY <1>3, GivingUp DEF InputError, End
<1>4. CASE LoadRaw
    <2>1. TypeOK'
        BY <1>1, <1>4, LoadingTypes DEF LoadRaw, TypeOK
    <2> QED
        BY <1>4, <2>1, StillBefore DEF LoadRaw, Before
<1>5. CASE LoadFault
    BY <1>5, GivingUp DEF LoadFault, End
<1>6. CASE LoadEnd
    <2>1. TypeOK'
        BY <1>1, <1>6 DEF LoadEnd, TypeOK
    <2> QED
        BY <1>6, <2>1, StillBefore DEF LoadEnd, Before
<1>7. CASE SetPc
    <2>1. TypeOK'
        BY <1>1, <1>7 DEF SetPc, TypeOK
    <2> QED
        BY <1>1, <1>7, <2>1, StillBefore DEF SetPc, Before, TypeOK
<1>8. CASE SetPcFault
    BY <1>8, GivingUp DEF SetPcFault, End
<1>9. ASSUME NEW vaddr \in Address, NEW n \in 0 .. MaxFile, LoadSegment(vaddr, n)
      PROVE  UInv'
    <2>1. segments' \in 0 .. MaxSegments
        BY <1>1, <1>9, UnpackerAssumption DEF LoadSegment, TypeOK
    <2>2. TypeOK'
        BY <1>1, <1>9, <2>1, LoadingTypes DEF LoadSegment, TypeOK
    <2> QED
        BY <1>9, <2>2, StillBefore DEF LoadSegment, Before
<1> QED
    BY <1>2, <1>3, <1>4, <1>5, <1>6, <1>7, <1>8, <1>9 DEF Loading

LEMMA EmulateKeepsUInv ==
    ASSUME UInv, Emulate
    PROVE  UInv'
<1>1. TypeOK /\ pc \in Address /\ written \subseteq Cell /\ alive \in BOOLEAN
    BY DEF UInv, TypeOK
<1>2. pc' \in Address
    <2>1. \A a \in Address : Search!Shift(a, InsnBytes) \in Address
        BY MemoryAssumption, UnpackerAssumption
           DEF MemoryAssumption, UnpackerAssumption, Address, Search!Shift
    <2>2. Search!Address = Address
        BY DEF Search!Address, Address
    <2> QED
        BY <1>1, <2>1, <2>2 DEF Emulate, Search!Next, Search!Advance, Search!Announce,
                                Search!Arrive, Search!Pass, Search!Die
<1>3. bounce_pc' \in Address /\ written' \subseteq Cell /\ alive' \in BOOLEAN
    <2>1. Search!Address = Address /\ Search!Cell = Cell /\ bounce_pc \in Address
        BY DEF Search!Address, Address, Search!Cell, Cell, UInv, TypeOK
    <2> QED
        BY <1>1, <2>1 DEF Emulate, Search!Next, Search!Advance, Search!Announce,
                          Search!Arrive, Search!Pass, Search!Die
<1>4. phase = "run" /\ UNCHANGED <<phase, options, input, memory, bounds, output>>
    BY DEF Emulate
<1>5. TypeOK'
    BY <1>1, <1>2, <1>3, <1>4 DEF TypeOK, options, input, bounds, output
<1> QED
    BY <1>4, <1>5, StillBefore DEF Before, UInv, Phases, options

LEMMA NoRunKeepsUInv ==
    ASSUME UInv, NoRun
    PROVE  UInv'
<1> USE DEF options, input, output, NoRun
<1>1. TypeOK /\ raw \in Address /\ size \in 0 .. MaxFile
    BY DEF UInv, TypeOK
<1>2. Shift(raw, size) \in Address
    <2>1. size \in Int /\ -AddrSpace <= size /\ size <= AddrSpace
        BY <1>1, UnpackerAssumption, MemoryAssumption DEF MemoryAssumption, UnpackerAssumption
    <2> QED
        BY <1>1, <2>1, ShiftType
<1>3. TypeOK'
    BY <1>1, <1>2 DEF TypeOK
<1>4. lo_base = opt_lo /\ hi_base = opt_hi /\ norun /\ file = "untouched" /\ exit = "none"
    BY DEF UInv, Phases, Before
<1>5. Final' /\ Forced'
    BY <1>4 DEF Final, Forced
<1>6. Phases'
    BY <1>4, <1>5 DEF Phases, Before, Writing
<1>7. OutputOnlyAfterEntry' /\ ~Delivered' /\ image' \in Image
    BY <1>4 DEF UInv, OutputOnlyAfterEntry, Delivered
<1> QED
    BY <1>3, <1>5, <1>6, <1>7 DEF UInv

-----------------------------------------------------------------------------
(* Finding the bounds.                                                     *)

LEMMA EmulationEndsKeepsUInv ==
    ASSUME UInv, EmulationEnds
    PROVE  UInv'
<1> USE DEF options, input, core, bounds, output
<1>1. /\ UNCHANGED <<raw, ep, norun, opt_lo, opt_hi, size, segments, pc, written, bounce_pc, alive,
                     lo_base, hi_base, scan, stray, file, image, exit>>
      /\ phase = "run" /\ phase' = "scan" /\ alive /\ bounce_pc # 0
      /\ memory' \in [Cell -> Byte]
    BY DEF EmulationEnds
<1>2. TypeOK /\ image \in Image /\ Forced
    BY DEF UInv
<1>3. /\ scan = "lo_start" /\ stray = FALSE /\ lo_base = opt_lo /\ hi_base = opt_hi
      /\ file = "untouched" /\ exit = "none" /\ ~norun
    BY <1>1 DEF UInv, Phases, Before
<1>4. TypeOK'
    BY <1>1, <1>2 DEF TypeOK
<1>5. Scanning!TypeOK'
    <2>1. Scanning!Cell = Cell /\ Scanning!Address = Address
        BY DEF Scanning!Cell, Cell, Scanning!Address, Address
    <2>2. scan' \in Scanning!Scans /\ stray' \in BOOLEAN
        BY <1>1, <1>3 DEF Scanning!Scans
    <2> QED
        BY <1>1, <1>2, <2>1, <2>2 DEF Scanning!TypeOK, TypeOK
<1>6. Scanning!IInv'
    BY <1>1, <1>3, <1>5
       DEF Scanning!IInv, Scanning!Options, Scanning!LowInBlock, Scanning!LowKeeps,
           Scanning!HighInBlock, Scanning!HighKeeps
<1>7. Phases'
    BY <1>1, <1>3, <1>6 DEF Phases, Before, Writing
<1>8. OutputOnlyAfterEntry' /\ ~Delivered' /\ image' \in Image /\ Forced'
    BY <1>1, <1>2, <1>3 DEF OutputOnlyAfterEntry, Delivered, Forced
<1> QED
    BY <1>4, <1>7, <1>8 DEF UInv

(* A bound the options force is never scanned for.                         *)
LEMMA ScansLeaveForced ==
    ASSUME Forced, Scanning!IInv, Bounds!Step
    PROVE  Forced'
<1>1. UNCHANGED <<opt_lo, opt_hi>>
    BY ScanningStep
<1>2. /\ scan \in {"lo_down", "lo_skip", "lo_align"} => opt_lo = 0
      /\ scan \in {"hi_up", "hi_trim"} => opt_hi = 0
    BY DEF Scanning!IInv, Scanning!Options
<1>3. /\ lo_base' = lo_base \/ opt_lo = 0
      /\ hi_base' = hi_base \/ opt_hi = 0
    <2>1. /\ lo_base' = lo_base \/ scan \in {"lo_down", "lo_skip", "lo_align"}
                                \/ (scan = "lo_start" /\ lo_base = 0)
          /\ hi_base' = hi_base \/ scan \in {"hi_up", "hi_trim"}
                                \/ (scan = "hi_start" /\ hi_base = 0)
        BY DEF Bounds!Step, Bounds!LowStart, Bounds!LowDown, Bounds!LowSkip, Bounds!LowAlign,
               Bounds!HighStart, Bounds!HighUp, Bounds!HighTrim, Bounds!ProbeFault
    <2> QED
        BY <1>2, <2>1 DEF Forced
<1> QED
    BY <1>1, <1>3 DEF Forced

LEMMA FindBoundsKeepsUInv ==
    ASSUME UInv, FindBounds
    PROVE  UInv'
<1>1. /\ phase = "scan" /\ Bounds!Step
      /\ UNCHANGED <<phase, raw, ep, norun, size, segments, pc, alive, file, image, exit>>
    BY DEF FindBounds, input, output
<1>2. TypeOK /\ image \in Image /\ Forced
    BY DEF UInv
<1>3. /\ Scanning!IInv /\ ~norun /\ alive /\ bounce_pc # 0
      /\ file = "untouched" /\ exit = "none"
    BY <1>1 DEF UInv, Phases, Before
<1>4. Scanning!IInv' /\ UNCHANGED <<memory, written, bounce_pc, opt_lo, opt_hi>>
    BY <1>1, <1>3, ScanningStep
<1>5. TypeOK'
    <2>1. Scanning!TypeOK' /\ Scanning!Address = Address /\ Scanning!Scans = Bounds!Scans
        BY <1>4 DEF Scanning!IInv, Scanning!Address, Address, Scanning!Scans, Bounds!Scans
    <2>2. lo_base' \in Address /\ hi_base' \in Address /\ scan' \in Bounds!Scans
          /\ stray' \in BOOLEAN
        BY <2>1 DEF Scanning!TypeOK
    <2> QED
        BY <1>1, <1>2, <1>4, <2>2 DEF TypeOK
<1>6. Phases'
    BY <1>1, <1>3, <1>4 DEF Phases, Before, Writing
<1>7. Forced'
    BY <1>1, <1>2, <1>3, ScansLeaveForced
<1>8. OutputOnlyAfterEntry' /\ ~Delivered' /\ image' \in Image
    BY <1>1, <1>2, <1>3 DEF OutputOnlyAfterEntry, Delivered
<1> QED
    BY <1>5, <1>6, <1>7, <1>8 DEF UInv

LEMMA FindBoundsEndsKeepsUInv ==
    ASSUME UInv, FindBoundsEnds
    PROVE  UInv'
<1>1. phase = "scan" /\ UNCHANGED <<options, input, memory, core, bounds, file, image>>
    BY DEF FindBoundsEnds
<1>2. CASE phase' = "end" /\ exit' = "signal"
    BY <1>1, <1>2, GivingUp
<1>3. CASE scan = "done" /\ phase' = "open" /\ exit' = exit
    <2>1. TypeOK'
        BY <1>1, <1>3, SameTypes DEF TypeOK
    <2>2. Final' /\ file' = "untouched" /\ exit' = "none"
        <3>1. Final
            BY <1>1, <1>3 DEF UInv, Phases, Final
        <3> QED
            BY <1>1, <1>3, <3>1, SameTypes DEF UInv, Phases, Before
    <2>3. Phases' /\ ~Delivered' /\ OutputOnlyAfterEntry'
        BY <1>3, <2>2 DEF Phases, Before, Writing, Delivered, OutputOnlyAfterEntry
    <2> QED
        BY <1>1, <2>1, <2>3, SameTypes DEF UInv
<1> QED
    BY <1>2, <1>3 DEF FindBoundsEnds, End

-----------------------------------------------------------------------------
(* Writing the output.                                                     *)

(* The data is a sequence of bytes.                                        *)
LEMMA DumpedType ==
    ASSUME TypeOK, Fits(lo_base, DumpSize)
    PROVE  /\ Dumped \in Seq(Byte)
           /\ Len(Dumped) = DumpSize
           /\ DumpSize \in Nat
<1>1. lo_base \in Nat /\ DumpSize \in Nat
    BY DumpSizeType, ZeroIsAddress DEF TypeOK
<1>2. \A k \in 1 .. DumpSize : memory[lo_base + k - 1] \in Byte
    <2> SUFFICES ASSUME NEW k \in 1 .. DumpSize
                 PROVE  lo_base + k - 1 \in Cell
        BY DEF TypeOK
    <2> QED
        BY <1>1, MemoryAssumption DEF Fits, Cell, MemoryAssumption
<1>3. Dumped \in [1 .. DumpSize -> Byte]
    BY <1>2 DEF Dumped
<1> HIDE DEF DumpSize
<1> QED
    BY <1>1, <1>3 DEF Dumped

LEMMA WriteHeadersKeepsUInv ==
    ASSUME UInv, WriteHeaders
    PROVE  UInv'
<1>1. /\ phase = "headers" /\ phase' = "data"
      /\ UNCHANGED <<options, input, memory, core, bounds, file, exit>>
      /\ image' = [image EXCEPT !.entry = bounce_pc, !.vaddr = lo_base]
    BY DEF WriteHeaders
<1>2. TypeOK /\ image \in Image /\ Forced /\ Final /\ exit = "none"
    BY <1>1 DEF UInv, Phases, Writing
<1>3. UNCHANGED <<raw, ep, norun, opt_lo, opt_hi, size, segments, memory,
                  pc, written, bounce_pc, alive, lo_base, hi_base, scan, stray>>
    BY <1>1 DEF options, input, core, bounds
<1>4. bounce_pc \in Address /\ lo_base \in Address
    BY <1>2 DEF TypeOK
<1>5. /\ image' \in Image /\ image'.entry = bounce_pc /\ image'.vaddr = lo_base
      /\ image'.entry \in Address /\ image'.vaddr \in Address /\ image'.bytes \in Seq(Byte)
    BY <1>1, <1>2, <1>4 DEF Image
<1>6. TypeOK'
    BY <1>1, <1>2, <1>3, <1>5 DEF TypeOK
<1>7. Final' /\ Headed' /\ Forced'
    BY <1>1, <1>2, <1>3, <1>5, FinalKept DEF Headed, Forced
<1>8. Phases' /\ ~Delivered' /\ OutputOnlyAfterEntry'
    BY <1>1, <1>2, <1>3, <1>7 DEF Phases, Before, Writing, Delivered, OutputOnlyAfterEntry, Final
<1> QED
    BY <1>5, <1>6, <1>7, <1>8 DEF UInv

LEMMA WriteDataKeepsUInv ==
    ASSUME UInv, WriteData
    PROVE  UInv'
<1>1. /\ phase = "data" /\ phase' = "close" /\ Fits(lo_base, DumpSize)
      /\ UNCHANGED <<options, input, memory, core, bounds, file, exit>>
      /\ image' = [image EXCEPT !.bytes = Dumped]
    BY DEF WriteData
<1>2. TypeOK /\ image \in Image /\ Forced /\ Final /\ Headed /\ exit = "none"
    BY <1>1 DEF UInv, Phases, Writing
<1>3. UNCHANGED <<raw, ep, norun, opt_lo, opt_hi, size, segments, memory,
                  pc, written, bounce_pc, alive, lo_base, hi_base, scan, stray>>
    BY <1>1 DEF options, input, core, bounds
<1>4. Dumped \in Seq(Byte)
    BY <1>1, <1>2, DumpedType
<1>5. /\ image' \in Image /\ image'.bytes = Dumped
      /\ image'.entry = image.entry /\ image'.vaddr = image.vaddr
      /\ image'.entry \in Address /\ image'.vaddr \in Address /\ image'.bytes \in Seq(Byte)
    BY <1>1, <1>2, <1>4 DEF Image
<1>6. TypeOK'
    BY <1>1, <1>2, <1>3, <1>5 DEF TypeOK
<1>7. Final' /\ Headed' /\ Forced'
    BY <1>1, <1>2, <1>3, <1>5, FinalKept DEF Headed, Forced
<1>8. DumpSize' = DumpSize /\ Dumped' = Dumped
    BY <1>3 DEF DumpSize, Dumped
<1>9. Whole'
    BY <1>1, <1>3, <1>5, <1>7, <1>8 DEF Whole
<1>10. Phases' /\ ~Delivered' /\ OutputOnlyAfterEntry'
    BY <1>1, <1>2, <1>3, <1>7, <1>9
       DEF Phases, Before, Writing, Delivered, OutputOnlyAfterEntry, Final
<1> QED
    BY <1>5, <1>6, <1>7, <1>10 DEF UInv

LEMMA WriteKeepsUInv ==
    ASSUME UInv, Write
    PROVE  UInv'
<1>1. CASE OpenOutput
    <2>1. /\ phase = "open" /\ phase' = "headers" /\ file' = "empty" /\ exit' = exit
          /\ UNCHANGED <<options, input, memory, core, bounds, image>>
        BY <1>1 DEF OpenOutput
    <2>2. Final /\ exit = "none"
        BY <2>1 DEF UInv, Phases, Writing
    <2>3. TypeOK' /\ image' \in Image /\ Forced' /\ Final'
        BY <2>1, <2>2, SameTypes DEF TypeOK
    <2>4. Phases' /\ ~Delivered' /\ OutputOnlyAfterEntry'
        BY <2>1, <2>2, <2>3
           DEF Phases, Before, Writing, Delivered, OutputOnlyAfterEntry, Final
    <2> QED
        BY <2>3, <2>4 DEF UInv
<1>2. CASE OpenOutputFails
    BY <1>2, GivingUp DEF OpenOutputFails, End
<1>3. CASE DumpFault
    BY <1>3, GivingUp DEF DumpFault, End
<1>4. CASE WriteFails
    BY <1>4, GivingUp DEF WriteFails, End, Writing
<1>5. ASSUME phase \in {"data", "close"}, phase' = "end", exit' = "0",
             file' \in {"garbage", "partial", "complete"}, file' = "complete" => phase = "close",
             UNCHANGED <<options, input, memory, core, bounds, image>>
      PROVE  UInv'
    <2>1. Final /\ (phase = "close" => Whole)
        BY <1>5 DEF UInv, Phases, Writing
    <2>2. TypeOK' /\ image' \in Image /\ Forced' /\ Final' /\ (Whole => Whole')
        BY <1>5, <2>1, SameTypes DEF TypeOK
    <2>3. Phases' /\ OutputOnlyAfterEntry' /\ (Delivered' => Final' /\ Whole')
        BY <1>5, <2>1, <2>2
           DEF Phases, Before, Writing, Delivered, OutputOnlyAfterEntry, Final
    <2> QED
        BY <2>2, <2>3 DEF UInv
<1> QED
    BY <1>1, <1>2, <1>3, <1>4, <1>5, WriteHeadersKeepsUInv, WriteDataKeepsUInv
       DEF Write, DumpOverrun, CloseOutput, End

(* The invariant holds throughout every run of main.                       *)
THEOREM UnpackerInvariance == Spec => []UInv
<1>1. UInv /\ [Next]_vars => UInv'
    <2> SUFFICES ASSUME UInv, [Next]_vars PROVE UInv'
        OBVIOUS
    <2>1. CASE EmulationAborts
        BY <2>1, GivingUp DEF EmulationAborts, End
    <2> QED
        BY <2>1, LoadingKeepsUInv, EmulateKeepsUInv, NoRunKeepsUInv, EmulationEndsKeepsUInv,
           FindBoundsKeepsUInv, FindBoundsEndsKeepsUInv, WriteKeepsUInv, StutterKeepsUInv
           DEF Next, Dumping, Finished
<1> QED
    BY <1>1, InitUInv, PTL DEF Spec

-----------------------------------------------------------------------------
(* The properties.                                                         *)

(* Every variable of main stays in its type.                               *)
THEOREM UnpackerTypeCorrect == Spec => []TypeOK
<1>1. UInv => TypeOK
    BY DEF UInv
<1> QED
    BY <1>1, UnpackerInvariance, PTL

(* fopen(outname) is reached only with an entry point, or with -n: a run   *)
(* that aborts leaves the file at the output path alone.                   *)
THEOREM AbortedRunsLeaveTheOutput == Spec => []OutputOnlyAfterEntry
<1>1. UInv => OutputOnlyAfterEntry
    BY DEF UInv
<1> QED
    BY <1>1, UnpackerInvariance, PTL

(* What a delivered image is: the bytes from lo_base to hi_base, inside    *)
(* memory, so that the size has not wrapped.                               *)
LEMMA DeliveredImage ==
    ASSUME UInv, Delivered
    PROVE  /\ lo_base \in Nat /\ hi_base \in Nat /\ lo_base <= hi_base
           /\ image.entry = bounce_pc /\ image.vaddr = lo_base
           /\ DOMAIN image.bytes = 1 .. hi_base - lo_base
           /\ Len(image.bytes) = hi_base - lo_base
           /\ \A k \in 1 .. hi_base - lo_base : image.bytes[k] = memory[lo_base + k - 1]
<1>1. TypeOK /\ Whole
    BY DEF UInv
<1>2. lo_base \in Address /\ hi_base \in Address
    BY <1>1 DEF TypeOK
<1>3. lo_base <= hi_base /\ DumpSize = hi_base - lo_base
    BY <1>1, <1>2, MemoryAssumption DEF Whole, Fits, DumpSize, Shift, Address, MemoryAssumption
<1>4. image.bytes = Dumped /\ Len(Dumped) = DumpSize
    BY <1>1, DumpedType DEF Whole
<1>5. Dumped = [k \in 1 .. hi_base - lo_base |-> memory[lo_base + k - 1]]
    BY <1>3 DEF Dumped
<1> QED
    BY <1>1, <1>2, <1>3, <1>4, <1>5, ZeroIsAddress DEF Whole, Headed

(* The options -l and -i decide the range that is written.                 *)
THEOREM ForcedBoundsAlwaysHold == Spec => []ForcedBoundsHold
<1>1. UInv => ForcedBoundsHold
    <2> SUFFICES ASSUME UInv, Delivered
                 PROVE  /\ opt_lo # 0 => image.vaddr = opt_lo
                        /\ opt_hi # 0 => image.vaddr + Len(image.bytes) = opt_hi
        BY DEF ForcedBoundsHold
    <2>1. Forced
        BY DEF UInv
    <2> QED
        BY <2>1, DeliveredImage DEF Forced
<1> QED
    BY <1>1, UnpackerInvariance, PTL

(* With -r and -n the output is the input file, at its address; with an    *)
(* ELF file and -n, the first bytes of memory.                             *)
THEOREM NoRunAlwaysWraps == Spec => []NoRunWrapsInput
<1>1. UInv => NoRunWrapsInput
    <2> SUFFICES ASSUME UInv, Delivered, norun, opt_lo = 0, opt_hi = 0
                 PROVE  /\ image.vaddr = raw /\ Len(image.bytes) = size /\ image.entry = ep
                        /\ \A k \in DOMAIN image.bytes : image.bytes[k] = memory[raw + k - 1]
        BY DEF NoRunWrapsInput
    <2>1. bounce_pc = ep /\ lo_base = raw /\ hi_base = Shift(raw, size)
        BY DEF UInv, Final
    <2>2. raw \in Address /\ size \in 0 .. MaxFile
        BY DEF UInv, TypeOK
    <2>3. hi_base - lo_base = size
        BY <2>1, <2>2, DeliveredImage, MemoryAssumption, UnpackerAssumption
           DEF Shift, Address, MemoryAssumption, UnpackerAssumption
    <2> QED
        BY <2>1, <2>3, DeliveredImage
<1> QED
    BY <1>1, UnpackerInvariance, PTL

(* Loading the output gives the block around the entry point back, but for *)
(* the block's last byte: what the scans passed over was zero.             *)
THEOREM ReloadAlwaysGivesBlock == Spec => []ReloadGivesBlock
<1>1. UInv => ReloadGivesBlock
    <2> SUFFICES ASSUME UInv, Delivered, ~norun, ~stray, bounce_pc \in Cell, opt_lo = 0, opt_hi = 0,
                        NEW c \in Cell, Bounds!InBlock(c), Bounds!InBlock(c + 1)
                 PROVE  Reloaded(c) = memory[c]
        BY DeliveredImage DEF ReloadGivesBlock
    <2>1. Scanning!IInv /\ Scanning!Settled
        BY DEF UInv, Final, Scanning!Settled, Scanning!Cell, Cell
    <2>2. Scanning!LowKeeps /\ Scanning!HighKeeps /\ scan = "done"
        BY <2>1, Scanning!SettledFacts, MemoryAssumption, UnpackerAssumption
    <2>3. Scanning!InBlock(c) /\ Scanning!InBlock(c + 1) /\ c \in Scanning!Cell
        BY DEF Bounds!InBlock, Scanning!InBlock, Bounds!Cell, Scanning!Cell, Cell
    <2>4. c < lo_base \/ hi_base <= c => memory[c] = 0
        BY <2>2, <2>3 DEF Scanning!LowKeeps, Scanning!HighKeeps
    <2>5. c \in Nat
        BY MemoryAssumption DEF Cell, MemoryAssumption
    <2>6. Reloaded(c) = IF c - lo_base + 1 \in 1 .. hi_base - lo_base
                        THEN memory[lo_base + (c - lo_base + 1) - 1] ELSE 0
        BY DeliveredImage DEF Reloaded
    <2>7. lo_base \in Nat /\ hi_base \in Nat
        BY DeliveredImage
    <2>8. CASE c < lo_base \/ hi_base <= c
        BY <2>4, <2>5, <2>6, <2>7, <2>8
    <2>9. CASE lo_base <= c /\ c < hi_base
        <3>1. c - lo_base + 1 \in 1 .. hi_base - lo_base /\ lo_base + (c - lo_base + 1) - 1 = c
            BY <2>5, <2>7, <2>9
        <3> QED
            BY <2>6, <3>1
    <2> QED
        BY <2>5, <2>7, <2>8, <2>9
<1> QED
    BY <1>1, UnpackerInvariance, PTL

=============================================================================
