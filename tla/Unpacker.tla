------------------------------ MODULE Unpacker ------------------------------
(***************************************************************************)
(* ps2-unpacker's main: it loads a packed program, runs it until the core  *)
(* finds an entry point, finds the memory around it and writes an ELF file *)
(* with that memory as its only segment (ps2-unpacker.c 79-284).           *)
(*                                                                         *)
(* The module composes EntrySearch, the abstraction Interpreter implements,*)
(* and DumpBounds.  Contents of memory do not decide what EntrySearch      *)
(* does, so they are chosen when the run ends: any byte the program wrote  *)
(* may then hold anything, and no other byte has changed.                  *)
(***************************************************************************)
EXTENDS Memory, Sequences

CONSTANTS
    Byte,        \* values of a byte, 0 among them
    Align,       \* the -a option, a power of two
    InsnBytes,   \* size of an instruction
    MaxFile,     \* bound: size of the input file (a u32), and of a segment of it
    MaxSegments  \* bound: PT_LOAD headers of an input ELF file

ASSUME UnpackerAssumption ==
    /\ 0 \in Byte
    /\ Align \in Nat \ {0}
    /\ AddrSpace % Align = 0
    /\ InsnBytes \in Nat \ {0}
    /\ InsnBytes < RegionSize
    /\ MaxFile \in Nat
    /\ MaxFile < AddrSpace
    /\ MaxSegments \in Nat

VARIABLES
    phase,               \* where main is
    raw, ep, norun,      \* options -r, -e and -n; 0 if absent
    opt_lo, opt_hi,      \* options -l and -i; 0 if absent
    size,                \* size of the input file
    segments,            \* program headers read so far
    memory,              \* memory[]
    pc, written, bounce_pc, alive,     \* the emulation core
    lo_base, hi_base, scan, stray,     \* the search for the dump's bounds
    file,                \* what is at the output path
    image,               \* the segment written: its address, bytes and entry
    exit                 \* how the process ended

options == <<raw, ep, norun, opt_lo, opt_hi>>
input   == <<size, segments>>
core    == <<pc, written, bounce_pc, alive>>
bounds  == <<lo_base, hi_base, scan, stray>>
output  == <<file, image, exit>>
vars == <<phase, options, input, memory, core, bounds, output>>

Search == INSTANCE EntrySearch WITH entry <- bounce_pc
Bounds == INSTANCE DumpBounds

NoImage == [entry |-> 0, vaddr |-> 0, bytes |-> <<>>]

(* mem_init and the statics: memory and tags are zero, bounce_pc is 0.     *)
Init ==
    /\ phase = "read"
    /\ raw \in Address /\ ep \in Address /\ norun \in BOOLEAN
    /\ opt_lo \in Address /\ opt_hi \in Address
    /\ size = 0 /\ segments = 0
    /\ memory = [c \in Cell |-> 0]
    /\ pc = 0 /\ written = {} /\ bounce_pc = 0 /\ alive = TRUE
    /\ lo_base = opt_lo /\ hi_base = opt_hi /\ scan = "lo_start" /\ stray = FALSE
    /\ file = "untouched" /\ image = NoImage /\ exit = "none"

End(how) == phase' = "end" /\ exit' = how

-----------------------------------------------------------------------------
(* Loading.                                                                *)

(* fopen, malloc, fread: the size read is the whole file.  An empty one is *)
(* accepted with -r; without, main looks for a magic in what malloc(0)     *)
(* gave, where it may be.                                                  *)
ReadInput ==
    /\ phase = "read"
    /\ size' \in 0 .. MaxFile
    /\ phase' = "load"
    /\ UNCHANGED <<options, segments, memory, core, bounds, output>>

(* fopen or fread fails, or there is neither -r nor an ELF magic.          *)
InputError ==
    /\ phase \in {"read", "load"}
    /\ phase = "load" => raw = 0 /\ segments = 0
    /\ End("-1")
    /\ UNCHANGED <<options, input, memory, core, bounds, file, image>>

(* What memcpy does not look at: that all n bytes from mem on are memory's. *)
Fits(mem, n) == n = 0 \/ mem + n <= MemSize

(* memcpy(memory + mem, bytes, n) with no check.  What does not fit goes   *)
(* past memory[], into tags[] if it lies there, or faults.                 *)
load_section(mem, n) ==
    /\ memory' \in { m \in [Cell -> Byte] :
                        \A c \in Cell \ (mem .. mem + n - 1) : m[c] = memory[c] }
    /\ IF Fits(mem, n) THEN UNCHANGED written ELSE written' \in SUBSET Cell
    /\ UNCHANGED <<pc, bounce_pc, alive>>

LoadRaw ==
    /\ phase = "load" /\ raw # 0
    /\ load_section(raw, size)
    /\ phase' = "setpc"
    /\ UNCHANGED <<options, size, segments, bounds, output>>

(* A PT_LOAD header; the others are skipped.                               *)
LoadSegment(vaddr, n) ==
    /\ phase = "load" /\ raw = 0 /\ segments < MaxSegments
    /\ load_section(vaddr, n)
    /\ segments' = segments + 1
    /\ UNCHANGED <<phase, options, size, bounds, output>>

LoadFault ==
    /\ phase = "load"
    /\ raw # 0 => ~Fits(raw, size)
    /\ End("signal")
    /\ UNCHANGED <<options, input, memory, core, bounds, file, image>>

LoadEnd ==
    /\ phase = "load" /\ raw = 0
    /\ phase' = "setpc"
    /\ UNCHANGED <<options, input, memory, core, bounds, output>>

(* -e, or the ELF header's entry.  With -r and no -e the header pointer    *)
(* was never set: main reads through it.                                   *)
SetPc ==
    /\ phase = "setpc"
    /\ pc' \in IF ep # 0 THEN {ep} ELSE Address
    /\ phase' = IF norun THEN "norun" ELSE "run"
    /\ UNCHANGED <<options, input, memory, written, bounce_pc, alive, bounds, output>>

SetPcFault ==
    /\ phase = "setpc" /\ raw # 0 /\ ep = 0
    /\ End("signal")
    /\ UNCHANGED <<options, input, memory, core, bounds, file, image>>

-----------------------------------------------------------------------------
(* Running, or not.                                                        *)

(* Mutant: the high address of a dump without a run is the file's size.    *)
NoRunFromZero ==
    /\ phase = "norun"
    /\ bounce_pc' = ep
    /\ lo_base' = IF lo_base = 0 THEN raw ELSE lo_base
    /\ hi_base' = IF hi_base = 0 THEN size ELSE hi_base
    /\ phase' = "open"
    /\ UNCHANGED <<options, input, memory, pc, written, alive, scan, stray, output>>

(* -n: the input is dumped as it was loaded.                               *)
NoRun ==
    /\ phase = "norun"
    /\ bounce_pc' = ep
    /\ lo_base' = IF lo_base = 0 THEN raw ELSE lo_base
    /\ hi_base' = IF hi_base = 0 THEN Shift(raw, size) ELSE hi_base
    /\ phase' = "open"
    /\ UNCHANGED <<options, input, memory, pc, written, alive, scan, stray, output>>

(* while (!bounce_pc) execI()                                              *)
Emulate ==
    /\ phase = "run"
    /\ Search!Next
    /\ UNCHANGED <<phase, options, input, memory, bounds, output>>

(* Mutant: the error path of the emulation returns to main's loop's end.   *)
EmulationAbortsIntoDump ==
    /\ phase = "run" /\ ~alive
    /\ phase' = "open"
    /\ UNCHANGED <<options, input, memory, core, bounds, file, image, exit>>

EmulationAborts ==
    /\ phase = "run" /\ ~alive
    /\ \E how \in {"-1", "signal"} : End(how)
    /\ UNCHANGED <<options, input, memory, core, bounds, file, image>>

EmulationEnds ==
    /\ phase = "run" /\ alive /\ bounce_pc # 0
    /\ memory' \in { m \in [Cell -> Byte] : \A c \in Cell \ written : m[c] = memory[c] }
    /\ phase' = "scan"
    /\ UNCHANGED <<options, input, core, bounds, output>>

FindBounds ==
    /\ phase = "scan"
    /\ Bounds!Step
    /\ UNCHANGED <<phase, raw, ep, norun, input, pc, alive, output>>

FindBoundsEnds ==
    /\ phase = "scan"
    /\ \/ scan = "done" /\ phase' = "open" /\ UNCHANGED exit
       \/ scan = "crashed" /\ End("signal")
    /\ UNCHANGED <<options, input, memory, core, bounds, file, image>>

-----------------------------------------------------------------------------
(* Writing the output.                                                     *)

(* fopen(outname, "wb") empties the file.                                  *)
OpenOutput ==
    /\ phase = "open"
    /\ file' = "empty"
    /\ phase' = "headers"
    /\ UNCHANGED <<options, input, memory, core, bounds, image, exit>>

OpenOutputFails ==
    /\ phase = "open"
    /\ End("-1")
    /\ UNCHANGED <<options, input, memory, core, bounds, file, image>>

(* The ELF header with the entry point, then the only program header.      *)
WriteHeaders ==
    /\ phase = "headers"
    /\ image' = [image EXCEPT !.entry = bounce_pc, !.vaddr = lo_base]
    /\ phase' = "data"
    /\ UNCHANGED <<options, input, memory, core, bounds, file, exit>>

(* hi_base - lo_base, in u32. *)
DumpSize == Shift(hi_base, -lo_base)

(* Mutant: dump_section maps its address to the byte after it.             *)
DumpedOneOff == [k \in 1 .. DumpSize |-> memory[(lo_base + k) % MemSize]]

Dumped == [k \in 1 .. DumpSize |-> memory[lo_base + k - 1]]

(* malloc, dump_section, fwrite; all of it inside memory[].                *)
WriteData ==
    /\ phase = "data"
    /\ Fits(lo_base, DumpSize)
    /\ image' = [image EXCEPT !.bytes = Dumped]
    /\ phase' = "close"
    /\ UNCHANGED <<options, input, memory, core, bounds, file, exit>>

(* The size has wrapped, or the range leaves memory[]: malloc fails and is *)
(* not checked, or memcpy runs past memory[].                              *)
DumpFault ==
    /\ phase = "data"
    /\ ~Fits(lo_base, DumpSize)
    /\ End("signal")
    /\ UNCHANGED <<options, input, memory, core, bounds, file, image>>

(* The same, when what follows memory[] can be read: the file gets it.     *)
DumpOverrun ==
    /\ phase = "data"
    /\ ~Fits(lo_base, DumpSize)
    /\ file' = "garbage"
    /\ End("0")
    /\ UNCHANGED <<options, input, memory, core, bounds, image>>

(* One of the three fwrites reports an error.                              *)
WriteFails ==
    /\ phase \in {"headers", "data", "close"}
    /\ file' = "partial"
    /\ End("-1")
    /\ UNCHANGED <<options, input, memory, core, bounds, image>>

(* fclose writes what stdio still holds; its result is not looked at.      *)
CloseOutput ==
    /\ phase = "close"
    /\ file' \in {"complete", "partial"}
    /\ End("0")
    /\ UNCHANGED <<options, input, memory, core, bounds, image>>

Write == OpenOutput \/ OpenOutputFails \/ WriteHeaders \/ WriteData
             \/ DumpFault \/ DumpOverrun \/ WriteFails \/ CloseOutput

Loading ==
    \/ ReadInput \/ InputError \/ LoadRaw \/ LoadFault \/ LoadEnd \/ SetPc \/ SetPcFault
    \/ \E vaddr \in Address, n \in 0 .. MaxFile : LoadSegment(vaddr, n)

(* What main does once it has stopped calling execI. *)
Dumping == NoRun \/ EmulationAborts \/ EmulationEnds \/ FindBounds \/ FindBoundsEnds \/ Write

Finished == phase = "end" /\ UNCHANGED vars

Next == Loading \/ Emulate \/ Dumping \/ Finished

Spec == Init /\ [][Next]_vars

-----------------------------------------------------------------------------
(* Properties.                                                             *)

(* Every variable stays in its type. *)
TypeOK ==
    /\ phase \in {"read", "load", "setpc", "norun", "run", "scan",
                  "open", "headers", "data", "close", "end"}
    /\ size \in 0 .. MaxFile /\ segments \in 0 .. MaxSegments
    /\ memory \in [Cell -> Byte]
    /\ written \subseteq Cell
    /\ {pc, bounce_pc, lo_base, hi_base, opt_lo, opt_hi, raw, ep} \subseteq Address
    /\ {alive, stray, norun} \subseteq BOOLEAN
    /\ scan \in Bounds!Scans
    /\ file \in {"untouched", "empty", "partial", "garbage", "complete"}
    /\ image.entry \in Address /\ image.vaddr \in Address
    /\ image.bytes \in Seq(Byte)
    /\ exit \in {"none", "0", "-1", "signal"}

(* The output path is not touched before the work is done: a run that      *)
(* aborts, however it does, leaves the file that was there alone.          *)
OutputOnlyAfterEntry == file # "untouched" => norun \/ (alive /\ bounce_pc # 0)

Delivered == exit = "0" /\ file = "complete"

(* What the machine's memory holds once the output has been loaded into    *)
(* zeroed memory: the bytes of its one segment at the segment's address.   *)
Reloaded(c) ==
    LET k == c - image.vaddr + 1
    IN  IF k \in DOMAIN image.bytes THEN image.bytes[k] ELSE 0

(* The unpacked program survives the trip: with automatic bounds, loading  *)
(* the output gives every byte of the block around the entry point that    *)
(* memory held, but the block's last one, and the same entry point.        *)
ReloadGivesBlock ==
    Delivered /\ ~norun /\ ~stray /\ bounce_pc \in Cell /\ opt_lo = 0 /\ opt_hi = 0 =>
        /\ image.entry = bounce_pc
        /\ \A c \in Cell :
              Bounds!InBlock(c) /\ Bounds!InBlock(c + 1) => Reloaded(c) = memory[c]

(* The options -l and -i decide the range, whatever the scans would find,  *)
(* also when the entry point lies outside it.                              *)
ForcedBoundsHold ==
    Delivered =>
        /\ opt_lo # 0 => image.vaddr = opt_lo
        /\ opt_hi # 0 => image.vaddr + Len(image.bytes) = opt_hi

(* With -r and -n the program wraps a raw file into an ELF file: the       *)
(* segment is the file, at the address it was given.  With an ELF file and *)
(* -n, raw is 0: as many bytes as the file is long come from address 0,    *)
(* wherever its segments were loaded, and the entry is -e's or 0.          *)
NoRunWrapsInput ==
    Delivered /\ norun /\ opt_lo = 0 /\ opt_hi = 0 =>
        /\ image.vaddr = raw /\ Len(image.bytes) = size /\ image.entry = ep
        /\ \A k \in DOMAIN image.bytes : image.bytes[k] = memory[raw + k - 1]
=============================================================================
