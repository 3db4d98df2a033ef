# A verification of ps2-unpacker

ps2-unpacker takes a packed PlayStation 2 executable, runs it in a small emulator of the
console's processor until the packed program has unpacked itself and jumps into what it has
written, and saves the memory around that place as a new ELF file. This directory holds TLA+
models of the unpacker, the TLC configurations that check them, and proofs checked by TLAPS.

The reference is the code. A comment such as "Interpreter.c 73" is a line of the repository,
and `PROJECT.json` ("map") gives the lines of every definition.

## 1. The system

One thread, no persistent state but the output file. The parts, and what each keeps:

| part | code | state | operations | used by |
|---|---|---|---|---|
| guest memory and write tags | memory.c | `memory[]`, `tags[]` (32 MiB each) | `memRead8..64`, `memWrite8..64`, `has_write`, `load_section` | all the others |
| emulation core | Interpreter.c | `cpuRegs`, the static `branchPC`, `bounce_pc`, the host call stack | `execI`, `doBranch`, one handler per opcode, system calls | main's loop; itself, for delay slots |
| multimedia instructions | MMI.c | HI, LO and the 128-bit registers of `cpuRegs` | one handler per opcode | `execI` through the tables |
| dispatch tables | InterTables.c | none | opcode to handler | `execI` |
| error listing | `dumpasm` in Interpreter.c, the error path of memory.c | `cpuRegs.pc`, the host call stack | list the code around an error, then `exit(-1)` | every error path; itself, through `memRead8` |
| main | ps2-unpacker.c | options, `lo_base`, `hi_base`, files | load, set pc, run, find the bounds, write the ELF file | the user |
| disassemblers | DisR5900.c, DisR5900asm.c | a text buffer | instruction to text | `-t`, `dumpasm` |

How they interact: main calls `execI` while `bounce_pc` is 0. A handler of a taken branch calls
`doBranch`, which calls `execI` for the delay slot; if there is a branch in it, `doBranch` is
entered again. The entry point is announced in two places, the `ExecPS2` system call and the end
of `doBranch`, by writing `bounce_pc`. main then reads `tags[]` and `memory[]` directly.

What is hard here is sequence and sharing, not concurrency: the recursion `execI` - `doBranch` -
`execI` over one static `branchPC`; a loop test (`bounce_pc`) that delay slots do not make; error
paths that call themselves; scans without bounds; arithmetic that wraps; instructions that
overwrite their operands, forget a sign or saturate one way only; three decoders of the same
words, written separately. `PROJECT.json` ("hazards") lists them at their lines.

What makes each part correct:

- *core*: the run stops at the first jump to a byte the program stored, and at no other place
  than an announced one; nothing runs afterwards; the recursion is bounded;
- *memory*: an access that faults half-way has done exactly its first bytes; a tag is set for
  every byte stored;
- *partial loads and stores*: a pair of them reaches the word at any address and no other byte;
- *registers*: a program of 32-bit instructions sees a machine of 32-bit words, although the
  registers have 64 bits and the branches compare all of them;
- *multimedia*: a result does not depend on which of its registers coincide; sums saturate and
  accumulate;
- *decoding*: the listing and the trace name the instruction that runs and show what it changes;
- *listing*: `exit(-1)` is reached or the process crashes, and which of them is known;
- *bounds*: what is dumped is the written block around the entry point, and the scans end;
- *main*: the output exists only if the entry point was found, and loading it gives back the block.

## 2. The modules

| module | models | state and actions |
|---|---|---|
| `Memory` | memory.c | address wrap (`Shift`), the mirror at 0x08000000 (`Resolve`), faults (`Accessible`), what a multi-byte access reaches before it faults (`Reached`), `has_write` past the array (`HasWrite`) |
| `Interpreter` | Interpreter.c's control | one action per class of instruction; `depth` and `at` are the host call stack of `doBranch`, `Return` is its tail |
| `EntrySearch` | nothing: the abstract specification | what main may rely on: the program moves and writes, then an entry point is announced, then nothing more is written |
| `Unaligned` | LWL, LWR, SWL, SWR, LDL, LDR, SDL, SDR | bytes of memory and of one register; the mask and shift tables as functions of the address |
| `Multimedia` | MMI.c | every handler as a sequence of assignments, each a map from the bytes it writes to the bytes it is computed from; `Execute` runs one assignment |
| `Lanes` | MMI.c's saturating sums and moves and its accumulations | `EXTENDS Multimedia`; what the assignment that runs makes of any values of its lanes, at any width |
| `Decode` | InterTables.c, the functions that index its tables, COP0 | `Handler(w)`: the handler a word reaches |
| `Registers` | the scalar handlers of Interpreter.c | `regs` (general registers, HI, LO); one action per group of handlers |
| `WordMachine` | nothing: the abstract specification | a machine of 32-bit words in integer arithmetic, what a 32-bit program may assume |
| `Listing`, `Trace` | DisR5900asm.c, DisR5900.c | the instruction each names for a word, and the registers it shows |
| `Execution` | `execI`'s dispatch, the handlers that end the run | `Execute` is Decode and Registers together; `Refuse`, `DivideTrap` end the process |
| `WordRefinement` | | the mapping under which `Execution` implements `WordMachine` |
| `Dumpasm` | `dumpasm` and `memRead8`'s error path | the recursion, byte by byte |
| `DumpBounds` | ps2-unpacker.c 203-220 | one action per test of a loop |
| `DumpAlign` | ps2-unpacker.c 208-212 | the alignment statements for any `-a`; C's `&` is the parameter `BitAnd`, the community modules' in the runs |
| `Unpacker` | ps2-unpacker.c 79-284 | main from the parsed options to the exit status, with each call that can fail |
| `InterpreterProofs`, `DumpBoundsProofs`, `DumpAlignProofs`, `DumpasmProofs`, `UnalignedProofs`, `UnpackerProofs`, `MultimediaProofs`, `ExecutionProofs` | | theorems and proofs; `MultimediaProofs` is about `Multimedia` and `Lanes`, `ExecutionProofs` about `Registers`, `Decode`, `Listing`, `Trace` and `Execution` |
| `MC...` | | bounds for TLC |

They fit together as follows.

- `Interpreter` implements `EntrySearch` (`entry <- bounce_pc`, `alive <- status = "running"`,
  checked as `SearchSpec` and proved as `ImplementsSearch`). `Unpacker` composes `EntrySearch`
  and `DumpBounds` by INSTANCE, so main is checked against what the core is proved to do.
- `Interpreter` uses two summaries that other modules justify: `AfterListing` (an error path ends
  with `exit(-1)` exactly if the whole listing is readable), which is `OutcomeIsListable` of
  `Dumpasm`; and the bytes `MergeStore` counts as stored by the program, which is
  `StoresOnlyAddressed` of `Unaligned`.
- `Registers` implements `WordMachine` (`word` is the low word of every register, `known` the
  registers that are not `wide`), as `WordRefinement` states. `Execution` composes `Decode`, `Registers`, `Listing` and `Trace`
  on the same word; where a branch leads is `Interpreter`'s business, so a run of `Execution` is a
  sequence of words, not a program with a pc.
- `DumpBounds` takes the alignment as rounding down to a multiple; `RoundsDown` of `DumpAlign`
  (proved in `DumpAlignProofs`) shows that this is what the masks do when `-a` is a power of two.

Modelling choices a reader should know:

- Instructions and register values are not part of `Interpreter`. Which instruction comes next,
  the address of an access, the outcome of a branch and the target of a jump through a register
  are chosen freely: a packed program can do any of it. What remains is what decides where
  execution goes, what is tagged, and how the run ends.
- Undefined behaviour is a choice: a read past `memory[]` or `tags[]` gives either value or a
  crash, the uninitialized ELF header of `-r` without `-e` gives any pc or a crash, a segment that
  does not fit may set any tags. Division of the least integer by -1 (`DivideTrap`) may trap.
- Variables that only record history for a property say so where they are declared: `stored`,
  `hit` (the message printed), `stray`, `lo_found`, `last`, `stale`, `wide`, `code`, and `program`
  and `step` (which sequence of instructions a run executes).
- A register value is the set of its one bits, so that the width is a parameter: 2W for 64, W for
  32. What a load finds in memory, what a multimedia instruction leaves in a general register, and
  which system call v1 selects are free. An immediate is a field beside rd, sa and funct, although
  they share bits, because no table looks at both.
- A sum of two `int` that overflows is undefined behaviour: `AddImmediate` and `AddWords` allow the
  32-bit sum, extended, and the exact one.
- Left out because nothing depends on them: the read tags (`has_read` is never called), `branch`
  and `branch2`, the cycle counter, messages, the values RFU060 and RFU061 record.
  `QFSRV` has its first branch only, since no handler writes `sa`.

## 3. The runs

| run | bounds | shows |
|---|---|---|
| `core` | 5 bytes of memory, a mirror, 14 addresses, 2-byte instructions | type, recursion bound, that nothing runs after a hit, that a hit is where the machine stands, that a jump to a stored byte is never missed (0 among them), and refinement of `EntrySearch` |
| `core_live` | 3 bytes, 1-byte instructions | every `doBranch` returns or the process ends; with 1-byte instructions delay slots nest three deep |
| `core_mirror` | as `core` | *violated*: see Findings |
| `bounds` | every content and tagging of 5 bytes, every entry point, `-l`, `-i` | every non-zero byte of the block but its last is dumped, only the block and its padding are, whether the entry point is in it; from a block inside memory the scans read inside the arrays only, the size does not wrap, and they end |
| `bounds_last_byte` | as `bounds` | *violated*: see Findings |
| `align` | all values of a 6-bit word | powers of two round down, and the added padding is less than `-a` |
| `align_any` | as `align` | *violated*: see Findings |
| `listing` | 12 bytes, a listing of 10 bytes, 4 host frames | the process exits exactly if the listing is readable; only the first listing can end; it does end |
| `partial` | two 64-bit words, all bytes different, pairs of instructions | pairs load and store whole words at every address, in either order; no other byte changes |
| `multimedia` | each of the 100-odd instructions with every coincidence of registers, and round trips | assignments read their operands before they are overwritten (but for four handlers), and permutations are undone by their inverses; what the saturating sums and moves and the accumulations compute, right and wrong |
| `execution` | 4-bit words in 8-bit registers; every table entry, every scalar instruction on any two values, five-step programs | registers keep their type, 32-bit results stay sign-extended, `Registers` implements `WordMachine`, and the three decoders agree on the instruction and on the register it changes |
| `unpacker` | 4 bytes, a file of at most one byte, one segment, five kinds of input and start under three choices of `-l` and `-i` | the output is untouched until the entry point is known, reloading it gives the block, `-l`/`-i` are obeyed, `-r -n` wraps its input (and what `-n` makes of an ELF file) |

Why these bounds suffice for the cases that matter:

- `core`: `MemSize` is odd and instructions are two bytes, so an instruction can straddle the end
  of memory; there is a gap between memory and its mirror and unmapped space after it, so every
  class of fault happens; two nested `doBranch` fit, so `branchPC` is overwritten by an inner
  one. `core_live` nests three deep.
- `bounds`: five cells hold two blocks with a gap, zeros at either end of a block, and an
  alignment of 2 that moves the low address or not. A block at either end of memory makes the
  scans leave the arrays.
- `unpacker` needs four cells: with fewer, no block can be found without a read past the arrays
  and `ReloadGivesBlock` would hold for want of a case. The file may be empty, which `-r` accepts.
  `MCNext` keeps one value of `pc` after a run, the entry point: `main` does not look at `pc` again,
  and every `bounce_pc` and set of tags is still reached.
- `partial` gives every byte of memory and of the register its own value, so that one run of a
  pair at an address distinguishes every pair of tables; steps are bounded by `MaxSteps = 2`, a
  pair. `multimedia` does the same with byte identities, so data values do not matter.
- `execution` runs three programs. The first is one instruction out of all of them: every index of
  every table, the fields that no table looks at fixed. The second loads any two of 20 values (the 16
  sign-extended words and four that are not) and runs any scalar instruction with every immediate
  and shift amount that four bits distinguish. The third computes a word in each of the ways the
  code has, moves it (through HI, LO or OR), and looks at it with a 64-bit comparison. With W = 4
  and half-words of two bits every carry, sign and overflow of the real widths has a counterpart:
  an immediate is still shorter than a word and longer than a byte.
- `SignBit = 4`: each lane has three bits and takes all its 8 values, hence every sum below, in and above the range,
  and every pair of lanes in HI and LO. The C code of words, half-words and bytes differs in its
  constants only, which `Lanes` writes as functions of the width.

Each passing property also has a mutant in `PROJECT.json`: a plausible slip in the code, defined
next to the definition it would replace, under which TLC finds the property violated.

### Fairness

`WF_vars(Step)` in `Interpreter`, `DumpBounds` and `Dumpasm`: one thread runs the code and no call
in these parts waits for anything, so a step that can be taken is taken. That does not say that a
packed program ends. `Unpacker` assumes no fairness: main's loop runs for ever if the program
does, and no liveness of main is claimed. `BranchesReturn` is about one instruction of main's loop
only: the call of `execI` it makes comes back.

## 4. The proofs

From the constants' assumptions only (`MemoryAssumption`, `InterpreterAssumption`,
`DumpBoundsAssumption`, `DumpAlignAssumption`, `UnpackerAssumption`, `DumpasmAssumption`,
`UnalignedAssumption`, `RegistersAssumption`, `ExecutionAssumption`, `MultimediaAssumption`,
`ProgramsAssumption`, `LanesAssumption`; TLC evaluates them in the runs), for every size of memory,
instruction, access, register and lane. They hold for the real values: 32 MiB, 2^27, 2^32, 4-byte
instructions, 64-bit registers, lanes of 8, 16 and 32 bits. Some of the assumptions say a little
about the program's surroundings:

- the listing reaches a whole number of instructions (64 bytes of 4), the input file is smaller than
  the address space (`size` is a `u32`), and a return address is a sign-extended word (code runs below
  2^31);
- a program of `Execution` is a sequence of sets of words, each field of which has its width, and a
  program of `Multimedia` a sequence of calls of the handlers that the dispatch tables reach; both
  are otherwise arbitrary;
- C's `&` on `u32`, which no installed prover knows, is a parameter of `DumpAlign` of which three
  facts are assumed: `a & m` is at most `m`; a mask and its complement share a word out between them;
  and `a & (p - 1)` is `a % p` for a power of two. TLC checks them of the `&` that the runs use, for
  every pair of six-bit words.

`InterpreterProofs`: `TypeCorrect`, `RecursionBounded`, `StopsAtOnceAlways`,
`HitExplainedAlways`, `ExitedInsideMemoryAlways`, `StoredTargetStopsAlways`, `ImplementsSearch`.
None of the properties is inductive. The invariant `IInv` adds

- `StackOnMemory`: the `doBranch` activations on the host stack stand for branches fetched from
  consecutive words that end at `pc`, all in one copy of memory. A delay slot is the word after
  its branch, and the gap above memory (`FetchInRegion`) cannot be crossed by fetching; hence
  the bound on the recursion, 8 Mi activations on the real machine. It is a bound, not a promise
  that the host stack is large enough;
- `SlotsBeforeEntry`: while a delay slot is about to run no entry point is known, because an
  activation that finds one has no instruction left to run, and neither do those around it;
- `EntryIsTarget`: after a "hit written memory", `pc`, `branchPC` and `bounce_pc` agree, although
  inner activations share `branchPC`; and every stored byte is tagged.

The refinement maps each step to the step of `EntrySearch` it is, or to a stutter (a branch that
enters `doBranch`, an inner return that changes nothing main can see).

`DumpBoundsProofs`: `TypeCorrect`, `NoNonZeroLostAlways`, `NothingForeignAlways`,
`SizeDoesNotWrapAlways`, `EntryInsideDumpExactly`. The invariant says, for runs that read inside the arrays only, that the
cells between the low address and the entry point are written (`LowInBlock`, up to the padding),
that the zero scan left only zeros of the block below it (`LowKeeps`), and the same above
(`HighInBlock`, `HighKeeps`, up to the block's last byte); `Options` ties each loop to the option
that switches it on. `Align` is any divisor of the address space here. Two more invariants rest on
this one: from a block inside memory (`Contained`) every loop's next read is inside the arrays, because
it stops before the block's end or at its non-zero byte (`ContainedProbes`); and what the zero scans
stop at is the first non-zero byte of the block or after it (`LowFinds`), and the last before its end
(`HighFinds`), which decides whether the entry point is in the dump.

`DumpAlignProofs`: `AlwaysRoundsDown`, `PaddingAlwaysBelowAlign`. The invariant `AInv` says what each
statement has left in `lo_base`. The last step rests on two lemmas: masking with `-align` takes off
what masking with `align - 1` keeps (`TakesLowBits`), and a power of two divides the modulus
(`PowersDivide`, which follows from what is assumed of `&`), so that the sum wraps harmlessly.

`UnpackerProofs`: `UnpackerTypeCorrect`, `AbortedRunsLeaveTheOutput`, `ForcedBoundsAlwaysHold`,
`NoRunAlwaysWraps`, `ReloadAlwaysGivesBlock`. The invariant `UInv` follows main's phases. Before
the scans the bounds are the options'. While they run, main's steps are `DumpBounds`' steps
(`NextKeepsIInv`, one lemma for both modules), so `DumpBoundsProofs`' invariant holds of the memory
the core has left, whatever it is. Afterwards each part written (`Headed`, `Whole`) is as memory
and the bounds have it, and no later step changes it. `ReloadAlwaysGivesBlock` then combines what
the scans keep with what load_section does to zeros.

`ExecutionProofs` has three parts.

- `RegistersTypeCorrect`, `WordsStaySignExtended`, of `Registers` with any instruction at any time, and
  `ExecutionTypeCorrect`, `ExecutionStaysSignExtended`, of the words a program holds. The two
  properties together are inductive. The proof goes handler by handler over lemmas on sign
  extension: of an extended immediate, of a shifted word, of bitwise combinations of extended
  words, of the low bits of a sum.
- `ListingAlwaysNamesWhatRuns`, `TraceAlwaysNamesWhatRuns`, `AlwaysRefusedAlike`. The only fact about
  the state is `WordInv`: `code` is a word with the handler it decodes to. What is left is a
  statement about every word, which a lemma for each table settles: the entries are compared one by
  one, and the lemmas for the tables that lead to further tables join them. The result is about every
  word, where the run fixes the fields that no table should look at.
- `ChangesAlwaysListedFirst`, `ChangesAlwaysTraced`. Each group of handlers changes rd, rt or r31 only
  (`EffectChanges`), and the disassemblers' choice of fields, table by table (`WhichTable`), begins
  with the same one.

`MultimediaProofs`: `OperandsAlwaysReadFirst`, `RoundTripsAlwaysRestore`, `SumsAlwaysSaturate`,
`MovesAlwaysSaturateUpOnly`, `AccumulatorsAlwaysAddUp`. For the first, every handler but the four of
`ReadsBack` is shown to be `Ordered`: no assignment reads a byte that an earlier one may have
overwritten, even where rd is rs or rt (`HandlerGood`, one lemma per shape of handler). The
invariant adds `OverwrittenInv`: a byte that differs from what it was at the call was assigned by an
earlier line. For the second, which needs the first, a handler made of moves is shown to be a map of
registers to registers (`Moved`): `CopiedInv` says what the lines that have run have copied,
`HistoryInv` that the registers are what the calls that have returned make of them, one after the
other. Each trip is then followed byte by byte, for every choice of its three registers. The others
are about numbers: what a remainder is one modulus below, in and one above its range, and when two
numbers at most a modulus apart have the same one.

`UnalignedProofs`: `LoadPairFetchesWord`, `StorePairWritesWord`, `StoresChangeAddressed`. Each
table entry is read as the set of byte positions it keeps; the two halves of a pair keep
complementary ones at every offset, in either order. The invariant says that the
register agrees with memory (or memory with the register) in the bytes that the last access moved
(`LeftAgrees`, `RightAgrees`); the access that follows completes the word.

`DumpasmProofs`: `ListingOutcome`, `OnlyTheFirstEnds`. The nested listings all list around the same
`pc`. The invariant says that what the innermost one has read so far is readable, and that while one
is nested in another some byte of the listing is not: the nested ones stop there again, until the
host's stack is used up.

Only model-checked:

- the liveness properties (`BranchesReturn`, `ScansEnd`, `ListingEnds`), which the prover does not
  reach;
- `ImplementsWords`: `WordMachine` is written with bitwise operators and with the number that a set
  of bits stands for, a sum over the set, about which only induction over the set could prove
  anything.

## 5. Findings

1. README.md 80 says that a jump to a written part of memory ends the search. `doBranch` asks
   `has_write` for the unmapped address, so a jump through the mirror at 0x08000000, which reads
   and writes reach, indexes past `tags[]` (run `core_mirror`).
2. README.md 81 says that the block of non-zero written memory is dumped. Its last byte is not,
   even if it is not zero (run `bounds_last_byte`). `NoNonZeroLost` is the promise the code keeps.
3. README.md 69 and 82 say that any value of `-a` is accepted and that the low address is aligned
   to it. Only powers of two are (run `align_any`).

More that the models show, and about which the repository promises nothing:

- `PMADDH`, `PMSUBH`, `PMULTH` and `PHMADH` read half-words of an operand after the assignment that
  overwrites them, if rd is rs or rt; `OperandsReadFirst` excepts these four by name, and the
  comments at PCPYLD and PCPYUD (MMI.c 1462, 1811) show that the author knew the problem elsewhere.
- `memWrite128` stores the bytes of its pointer parameter and of the host's stack behind it
  (`&value`, memory.c 178-196), so `SQ` writes none of its register's. What `SQ` reaches and tags is
  modelled; the bytes are free, as all data is, and no property depends on them.
- An unpacked program that begins with zero words (nops) at the start of what was written has its entry
  point below the dump: `EntryInsideDump` says exactly when. An entry point of 0 is announced and
  forgotten.
- An error near the edge of memory crashes the unpacker in `dumpasm` instead of reaching `exit(-1)`.
- The signed saturating sums saturate upwards only, and `PSUBSW` subtracts lanes without their signs
  (`SumsSaturate` says where it is right). `PMFHL.SLW` and `PMFHL.SH` are right above the range only
  (`MovesSaturateUpOnly`). `PMADDW` and `PMSUBW` lose HI if LO looks negative (`AccumulatorsAddUp`).
- `DIVU`, `LWL`, `LWR`, `MFC0` and the EndOfHeap call leave words that are not sign-extended, and so
  does an overflowing sum if the build adds in 64 bits. These, the 64-bit results and the multimedia
  results are what `wide` records; all other results are proved sign-extended.
- The listing prints MADDU as "madd" and PMSUBW as "msubw", and lists the reserved BC0 and BC1 words
  as branches. The trace prints DSUBU as "DSDBU", PEXT5 and PPAC5 as "PEXTS" and "PPACS", has no name
  for nineteen MMI instructions, and shows most others without registers. The properties of
  `Execution` except these by name and hold of everything else.

## 6. What is not modelled, and why

- The values of the multimedia comparisons, absolute values, shifts, products and divisions: one C
  operator each, which a model could only repeat. Their data flow is modelled.
- What memory holds when a register is loaded, and so the path a given packed program takes: the
  properties are about every program. The upper 64 bits of the general registers appear in
  `Multimedia` only.
- The operands' text in the disassemblers (immediates, targets, symbols, coprocessor registers), and
  COP2, which the interpreter refuses; messages; `getopt`; the constant fields of the ELF headers. The build
  files have no behaviour.
- Failing calls of `fwrite` and `fclose` are in the model (`WriteFails`, `CloseOutput`) and may leave a
  partial file; nothing is promised about it. The same holds of a start without an entry point (`-r`
  without `-e`), of a segment that does not fit, and of blocks at the edges of memory: the model has
  every outcome, the properties hold of what main does afterwards, and `PROJECT.json` says for each
  hazard what its properties leave open.

## 7. Plan

Done, in this order, the most important behaviour first: `Memory`, `EntrySearch`, `Interpreter`
with its proofs; `DumpBounds` with its proofs; `DumpAlign`; `Dumpasm`; `Unpacker`; `Unaligned`;
`Multimedia`; then `Decode`, `Listing`, `Trace`, `Registers`, `WordMachine` and `Execution`;
`Lanes`; the proofs about `Registers`, `Dumpasm`, `Unaligned` and `Unpacker`; the proofs about
`Multimedia`, `Lanes`, `Execution` and `DumpAlign`.

Next:

1. A statement of `Registers` implementing `WordMachine` without the bitwise operators, so that it
   can be proved.
2. The ELF reader beside the ELF writer: what `Unpacker` writes, loaded by `Unpacker`.
