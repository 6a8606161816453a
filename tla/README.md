# Verification of the RV64I simulators

This directory holds TLA+ models of the two instruction-set simulators in
`src/src` (a functional one and a five-stage pipelined one), of the memory they
run on and of the cache they are to be combined with, the TLC runs that check
them, and proofs checked by TLAPS. References such as `cycle.cpp:85` are to
`src/src`, `project2.txt` and `test/` to `src/`.

## 1. The system

| Component | State | Operations | Properties that make it correct |
|---|---|---|---|
| `simulator.cpp`: instruction semantics | `regData`, `memory`, `din` | `simFetch`, `simDecode`, `simOperandCollection`, `simNextPCResolution`, `simArithLogic`, `simAddrGen`, `simMemAccess`, `simCommit`; the stages `simIF` .. `simWB`; `simInstruction` | each word has the effect of its RV64I instruction; x0 reads 0 |
| `funct.cpp`: functional simulator | `PC` | `runInstructions`, `runTillHalt`, `finalizeSimulator` | instructions take effect one at a time, in order; it stops at the halt word or an illegal word |
| `cycle.cpp`: pipelined simulator | `pipelineInfo` (five latches), `doneInst`, `PC`, `cycleCount` | `runCycles`, `runTillHalt`, `finalizeSimulator` | same results as the functional simulator; the documented stalls; nothing after the halt word takes effect; it halts |
| `cache.cpp`, `cache.h` | lines per set, `lruClock`, `hits`, `misses` | `access`, `dump` | true LRU, write-allocate, a block at most once in a set, exact counts |
| `MemoryStore.cpp` | the bytes | the constructor with `prepareMemory` and `loadFromFile`, `getMemValue`, `setMemValue`, `printMemArray` | the simulator starts on binary over image over zeros; an access has exactly the effect of its bytes, also when it fails half-way; the dump shows its range |
| `cycle.cpp` with `Utilities.cpp`: pipe state | a status per stage, the last state dumped | `runCycles` with any argument, `dumpPipeState` | bubbles are labelled as such and instructions not, the last cycle is the one shown, whatever the sizes of the calls |
| `Utilities.cpp`: bits and names | none | `extractBits`, `sext64`, `getOpString`, `printInstr` | fields and immediates are the encoded ones; the operation printed is the one executed |
| `RegisterInfo.h` | none | printing of registers | output |
| `sim_cycle.cpp`, `sim_funct.cpp` | none | parse arguments, run till halt, dump | - |

How they interact: both drivers load a binary into a `MemoryStore`, give it to a
`Simulator` and call `runTillHalt`. `funct.cpp` calls `simInstruction` once per
instruction. `cycle.cpp` calls the five stage functions once per cycle and
passes `struct Instruction` values between them through the latches; it adds the
hazard tests, the forwarding and the flushes. `initSimulator` of `cycle.cpp`
creates two caches, but no code calls `Cache::access`: the miss latency has no
effect and `finalizeSimulator` always reports no hits and no misses (and the
literal 0 for load stalls).

What is hard: there are no threads, but the pipeline is five instructions in
flight sharing latches. Within a cycle the stages run in the order WB, MEM, EX,
ID, IF and each reads what the ones before have just overwritten, while the stall
test reads what the last cycle left. A value reaches an instruction through the
register file or through one of three bypasses, and which one depends on how
many bubbles lie between producer and consumer. Holding, squashing and bubbling
must neither lose nor double an instruction. The tests in the repository compare
two programs. The hazards are listed line by line in `PROJECT.json`.

## 2. The modules

| Module | What it is |
|---|---|
| `Machine` | the decode flags, the latch and the stage functions of `simulator.cpp`, over a data path given by constant operators |
| `Datapath` | that data path at any width: `simArithLogic`, `simNextPCResolution`, `simAddrGen`, `simMemAccess`, `getOrSetValue`; the three bitwise operators are constants known by their bits |
| `DatapathBits` | the bitwise operators for the runs |
| `DatapathLaws` | what the pipeline needs of the data path beyond types |
| `Isa` | abstract: what both simulators promise, one instruction per step |
| `Functional` | `funct.cpp` and `simInstruction`; refines `Isa` |
| `Pipeline` | the cycles of `cycle.cpp`; refines `Isa` |
| `PipeState` | `runCycles` as its caller sees it: calls of any number of cycles, stage labels, dumps; extends `Pipeline` |
| `PipelineInv` | the inductive invariant of `Pipeline` |
| `PipelineTiming` | `Pipeline` with three history variables, for the timing properties |
| `Decoder` | `simDecode`, the immediates and the switches on the bits of a word; what `printInstr` shows of one |
| `Words` | one word through decode, execution and printing, against what its assembler meant and against the decoded words of `Machine` |
| `Lru`, `Cache` | true LRU, and `cache.cpp` refining it |
| `CacheLaws` | the configurations that refinement needs |
| `MemoryStore` | the constructor and the accesses of `MemoryStore.cpp`, byte by byte |
| `MemoryDump` | `dumpMemoryState` and `printMemArray`, on top of it |
| `MemoryLoop` | the byte loop of `MemoryStore` next to the memory functions of `Datapath` |
| `Binaries`, `MC*` | the programs and values the runs use |
| `MachineProofs`, `FunctionalProofs`, `PipelineProofs`, `TimingProofs`, `CallProofs`, `CacheProofs`, `MemoryProofs`, `WordsProofs` | theorems |

`PipeState` and `PipelineTiming` add to `Pipeline`; `Pipeline` and `Functional`
are both built on `Machine` and both implement `Isa`. Two modules join models made
at different levels: `Words` relates the flags and results `Machine` and
`Datapath` give a decoded word to the bits it stands for, and `MemoryLoop`
the memory functions of `Datapath` to what the byte loop of `MemoryStore`
computes. Both are checked and proved, so what is proved of the simulators over
decoded words and whole accesses is about the bits and the bytes. The immediate
`asMachine` gives a word is the whole value the code computes with: that of `lui` and
`auipc` is the 20 bits times 2^12 (`simulator.cpp:371-382`), and `ComputedAsMeant`
compares what comes out with the RISC-V meaning.

### Correspondence

*Instructions.* A word is a record: `op` for the opcode, `fn` for `funct3` and
`funct7`, the register fields, and the immediate already extracted and
sign-extended. Every word has `rd`, `rs1` and `rs2` fields even if it does not
use them as registers, because `cycle.cpp` compares them regardless. The encodings
`simDecode` rejects are `ILLEGAL`, except those under `OP_BRANCH`, which are
`ILLEGAL_BRANCH`: `cycle.cpp` tests the opcode and not the legality. The loaded
program is a function from addresses to words and never changes (self-modifying
code is excluded by `project2.txt:286-287`).

*Latches.* A latch is the `struct Instruction`, less `instructionID`, `status`
and the two fields nothing uses (`memException`, `valToWrite`). The flags are
functions of the word. `fetched` is added: it marks what `simIF` brought in, as
opposed to the bubbles of `nop()`; no modelled computation reads it.

*Pipeline.* One step is one iteration of the loop of `runCycles`. The operators
`stall`, `newRegs`, `newMem`, `newEX`, `branchStall`, `resolved`, `flush` are the
values the iteration computes, in the code's order, from the latches of the last
cycle and from each other. `wbInst` of a state is `doneInst` for the next
iteration. The four actions are the ways an iteration can end:

| Action | Code | Effect |
|---|---|---|
| `LoadUseStall` | `stall` | a bubble in EX; ID, IF and PC held |
| `BranchStall` | `branchStall` | a bubble in ID; IF and PC held |
| `Flush` | `nextPC != ifInst.PC + 4` | a bubble in IF; PC to the target |
| `Advance` | otherwise | the next word in IF |

All four share `BackEnd`: write-back, memory, EX, the cycle counter, and the
halt status.

*Calls.* `runCycles(n)` begins a call, `Cycle` is an iteration of its loop with
the assignments to the stage statuses, `Return` is what follows the loop.
`Pipeline`'s own bound `Cycles` is only a bound of the model; what a call counts
is `call.count`. All other state is static in the code and so carries over from
call to call. A stage status is what the code sets: `wbStatus` is always
`NORMAL`, and a `HALT` is labelled a bubble. `Return` is the copy of latches and
statuses into `pipeState` after the loop (`cycle.cpp:280-293`).

*Words.* A word is the record of its fields, which loses nothing; what the code
cuts across them (the immediates) is arithmetic on the numbers they make up.
`assemble` is the encoding of the RISC-V formats, and `isInstruction` the
instructions those formats have room for; both are external to the code.

*Memory.* The parameters of a call and its progress are `call`; `GetByte` and
`SetByte` are passes of the loop, `Throw` is `memArr.at` throwing and the handler. The
constructor is the phase: `prepareMemory` and `loadFromFile` make calls of their own.
`aborted` is the failed assertion, which the build keeps (`Makefile` does not
define `NDEBUG`). A pair of `init_mem_image` may lack its second word. `printRow` is
a pass of the loop of `printMemArray`; a row is the entries printed and the
address before them.

*Functional.* `Simulate` is `simInstruction` of a legal word, `Stop` its early
return with the exit from the loop of `runInstructions`.

*Cache.* `Hit` and `Miss` are the two paths through `access`. The actions index
`sets` only where the index is in range; `IndexInRange` says whether it always
is.

*Data path.* `DMemGet` and `DMemSet` go through the bytes of an access from the
lowest up and leave at the first one out of range, keeping what was read or
written, as `getOrSetValue` does; `simMemAccess` ignores the error.

## 3. The runs

The pipeline runs are over every program of `Length` words from an alphabet of
fourteen: producers and consumers on two registers, loads whose address is
itself loaded, stores (one running off the memory), a taken and an untaken
branch, forward and backward, `jal`, `jalr`, the halt word and the illegal zero
word, with register fields set where the word does not read them. Two registers
beside x0 suffice for every relation a hazard test can tell apart (same as rs1,
as rs2, as both, x0). Four words put a dependent pair or triple in the pipeline
together with the word behind it, which is as far as a bypass or a stall reaches
(EX, MEM, WB and `doneInst` are four instructions). Loops and `jalr` targets past
the end make longer executions. Addresses and registers have `W` = 5 bits, so
that target arithmetic wraps; memory is three cells of two bits.

| Run | Bounds | Shows |
|---|---|---|
| `pipe_core` | Length 4, Cycles 11 | `ImplementsIsa`, `ProgramOrder`, `BoundedStalls`, `DeadHazardLogic`, `TypeOK`; `PreciseHalt`: the run ends in the cycle the halt word is in WB, and nothing behind it changes registers or memory; `OnTime`: the cycle in which each instruction enters EX (below); `CycleAccounting`: no cycle is lost or counted twice (425,369 states) |
| `pipe_calls` | Length 4, Cycles 14, calls of 0, 1 and 3 cycles, programs that halt within MaxSteps 8 instructions | `Halts`; `NopsLabelled`: no bubble up to MEM is labelled as an instruction or the reverse; `CallKept`, `CallTypeOK`; `IInv`, the invariant proved inductive |
| `functional` | Length 3, Instructions 8 | `ImplementsIsa`, `TypeOK`; evaluates `DatapathLaws` |
| `cache_lru` | 2 sets, 3 ways, 7 accesses to 7 addresses | `ImplementsLru` call for call, `LinesDistinct`, `TypeOK`: seven accesses fill a set and evict twice with hits between |
| `memory` | 10 bytes of one bit, 8-bit addresses, 5 images, 4 binaries, 2 calls, 6 dump ranges | `MemoryPrepared`: every byte after construction, for every combination of image and binary; `CallEffect`, `LoopIsDatapath`, `DumpIsRange`, `TypeOK` |
| `words` | W 8, WordBits 4; each operation with immediates at the edges of its format and of its pieces; 2,017 words with any funct3 under any opcode | `DecodedAsAssembled`, `FlagsAreMachine`, `PrintedAsDecoded`; `ComputedAsMeant`: integer results, upper immediates and the links of jumps |

Four words in a row take eight cycles and a bubble for each stall or redirect;
eleven cycles leave room for three bubbles. In `pipe_calls` the last word is the
halt word and the alphabet is ten words, one of a kind for arithmetic and stores;
the programs that halt need at most 14 cycles, so the bound stops none of them
(with a lower one `Halts` would fail). Calls of 3 cycles end within stalls,
at the halt and before it; two
neighbouring calls of different sizes occur in every order. The memory's calls
begin at its first byte, across its end, and four bytes below the top of the
addresses so that the relative address wraps in the middle; the binaries are
shorter than a word, longer than one, longer than the memory, and missing; the
images fit, overlap, end in the middle of a pair, and leave the memory.
`CHECK_DEADLOCK` is off because every run ends: `runCycles` returns, no call
follows the halt, and accesses are bounded by `MaxAccesses` and `MaxCalls`.

*Timing.* `OnTime` knows instructions and not latches. `documented` are the cycles
`project2.txt:48-131` makes an instruction wait for: its predecessor, one more if that
redirects the fetch, two after a load whose result it uses before MEM, and for a branch
two after any result it uses and three after a load; a store does not wait for its data.
The code waits for more, and `undocumented` says exactly for what: the
comparisons of `cycle.cpp:86` and `cycle.cpp:193-196` are on register fields, so an
instruction that merely names a register (the data of a store, or a field it does not
read) waits as if it used it. `OnTime` is that each instruction enters EX in the last of
these cycles; on an instruction without such a field it is the documented rule and
nothing else. That `undocumented` is not empty is a disagreement, with a run of
its own (`load_use_stall`).

*Fairness.* `LiveCalls` adds weak fairness of the next step of a caller of
`runCycles`: `runTillHalt` is a sequential loop that calls `runCycles(1)` until
it returns `HALT`. `Halts` is checked on the programs for which the
functional steps alone reach the halt word (`MCHaltingPrograms` computes
which); the others loop forever, rightly. The run has any mixture of call sizes and
includes `runTillHalt`'s.

### Where code and documentation disagree

These runs end in a violation, one property each.

| Run | Disagreement |
|---|---|
| `illegal_handler` | after an illegal word the fetch goes to 0, not to 0x8000 (`project2.txt:322-323`, `341-342`) |
| `load_use_stall` | ID is stalled on a load by an instruction that does not use what is loaded before MEM: a store of the loaded value (`project2.txt:48-61` asks for no stall), or a word with the register's number in a field it does not read, such as bits of its immediate (`project2.txt:82-88` has load-use stalls only) |
| `illegal_branch` | an illegal `funct3` under `OP_BRANCH` is executed as a no-op by the pipeline; the functional simulator stops (`project2.txt:39-41`, `323-325`) |
| `memory_exception` | a load that leaves the memory is committed with the bytes it got, and a store keeps those it wrote; `memException` is never set (`project2.txt:335-342`) |
| `din_counts` | the instruction count includes bubbles, repeated decodes and what is fetched behind the halt (`project2.txt:344-345`) |
| `cache_sets` | three sets, allowed by `project2.txt:262-264`, are indexed with two bits |

Disagreements that the models show but that have no run of their own:

- The halt word flushes like a jump to 0: the word behind it is squashed and the fetch
  goes on at address 0 while it drains. In the reference dumps the fetch goes on at
  PC + 4 until the next illegal word
  (`test/fib_cycle_pipe_state_ideal_cache.ref:108-111`: 0x3c, 0x40;
  `test/illegal_cycle_pipe_state.ref:16-19`: 0x8004, 0x8008). Nothing of what is fetched
  takes effect in either, and `PreciseHalt` says that and leaves open what is fetched.
- `jalr` waits on an unread register field too (`cycle.cpp:192-196` looks at its `rs2`,
  which is part of its immediate): the same disagreement as `load_use_stall`, at the
  other test, and part of `undocumented`.
- `project2.txt:172-173` and `470-473` have every inserted NOP shown with its reason and
  speculative fetches marked. In the reference
  `test/fib_cycle_pipe_state_ideal_cache.ref` the later stages are idle through cycle 3
  (lines 1-4); the code's first cycle overwrites every `IDLE`, so no dump shows one.
  Line 16 marks the fetch behind a branch `(spcu)` and lines 18 and 110 have squashed NOPs;
  the code shows a squashed instruction as a bubble and marks no fetch. The halt word,
  shown as `HALT` on line 108, is labelled a bubble, and `wbStatus` is always
  `NORMAL`, so a bubble in WB is shown without a reason. `NopsLabelled` claims none of
  this: only that, up to MEM, a NOP has some reason and an instruction other than the
  halt word and the program's own nop has none.
- On an image of whole pairs `prepareMemory` makes one pass too many, which clears the
  word at address 0 after the pairs; with a binary shorter than a word, or none,
  that word of the image is lost. `MemoryPrepared` has the exact outcome (`emptyPass`).
- `getOpString` takes `addiw` for a register instruction and shows it as
  `subiw` or `ILLEGAL` when its immediate has such upper bits; `handleSpecial` extends
  the sign of `lui` and `auipc` from bit 19 of the value instead of bit 31
  (`Utilities.cpp:75`, `316`). `PrintedAsDecoded` excludes exactly these.
- `finalizeSimulator` reports literal zeros for load-use stalls and cache hits
  and misses (`project2.txt:344-352`).

## 4. What is proved

The theorems hold for every data path, register file, program and memory that
satisfies the assumptions: `MachineTypes`, `DatapathTypes`, `PipelineTypes`,
`FunctionalTypes` (types), and for the pipeline those of `DatapathLaws`:

- `UnusedOperands`: the arithmetic and the next PC of an instruction do not depend on
  an operand it does not read. The bypasses overwrite such operands.
- `StraightLine`: only branches and jumps have a next PC other than PC + 4.
- `HaltBelowTop`: no halt word sits where PC + 4 wraps to 0. The code recognises
  a flush by `nextPC != PC + 4`, and the halt word has `nextPC` 0; the memory of
  64 KB is far below the top.

TLC evaluates all of them on the runs. Those on the data path are also theorems
about `Datapath`: `DatapathIsTyped` proves the types and `DatapathObeysLaws` the
first two laws, at every width and for every instruction word of `Machine`;
`WordsAreMachine` that every word of 32 bits that `simDecode` accepts stands for such a
word and so has the types and obeys the laws. The
constants of `Datapath` and `Words` are assumed to be what the program's are:

- `DatapathWidth`, `LoopConfig`: the widths fit each other (in the program 64, 32
  and 8); a register is the eight bytes of an access, and memory starts at 0.
- `PowersOfTwo`, `CellPowers`: the recurrence of powers of two, for the exponents
  in use. The provers know nothing of exponentiation.
- `BitwiseOperators`: `^`, `|` and `&` of the language, bit by bit.
- `ShiftAmounts`: the widths divide 2^10 and the range of a register, which is
  why a shift amount can be the low bits of the immediate (true of 64 and 32).
- `WordsConfig`: what is assembled is an instruction of the base formats.

The cache theorems assume `CacheConfig` (types), and the refinement of `Lru` also
`CacheLaws`: block size and number of sets are powers of two (for others it is
false, see `cache_sets`), and a tag is a quotient of the block number. The memory
theorems assume `MemoryConfig` (types; addresses have at least eight values, and
no binary has more bytes than there are addresses) and `DumpConfig` (types).

*The invariant.* That the pipeline produces the right values is not inductive
alone: an operand latched in ID may be stale as long as a bypass will replace it.
`IInv` says exactly when. `OperandsInID`: a latched operand is current unless the
instruction in MEM writes its register, or, after a stall has put a bubble in
EX, `doneInst` does. `BranchReady` and `LoadGap` say which pairs of instructions
the stalls keep apart; `DoneWritten` ties `doneInst` to the register file;
`Origin`, `FreshIF` and `ProgramOrder` say what the latches hold and in what
order; `HaltDrains` that the latch behind the halt word holds a bubble; `ResolvedInID` and `ExecutedInEX` relate computed values to the
program state. `Invariance` proves `IInv` by one lemma per part.

| Theorem | Module | Argument |
|---|---|---|
| `TypeCorrect` | `PipelineProofs` | stage functions return latches |
| `Invariance`, `Ordered`, `HaltsPrecisely` | `PipelineProofs` | `IInv` is inductive; `HaltDrains` keeps a bubble directly behind the halt word |
| `HazardLogicDead`, `StallsBounded` | `PipelineProofs` | from `BranchReady`, `LoadGap` and the bubbles a stall makes |
| `Refinement` | `PipelineProofs` | programs without `ILLEGAL_BRANCH`: a cycle with an instruction in EX is a step of `Isa`, one with a bubble there a stutter |
| `FunctionalTypeCorrect`, `FunctionalRefinement` | `FunctionalProofs` | `simInstruction` is `Isa!Execute`; needs types only |
| `TimedImplements`, `CyclesAccounted` | `TimingProofs` | a timed step is a cycle of the pipeline; each action moves the bubbles it says |
| `IssuesOnTime` | `TimingProofs` | `OnTime` from the invariant `TInv` below |
| `CallsImplement` | `CallProofs` | a step of a call is a cycle or changes nothing of the pipeline, so every invariant above holds across calls |
| `CallTypeCorrect`, `NopsAreLabelled`, `CallsKept` | `CallProofs` | by action; the labels need `IInv` for what a stall holds |
| `CacheTypeCorrect`, `BlocksHeldOnce` | `CacheProofs` | no valid line is stamped later than the clock, and an access stamps its line with the next tick |
| `CacheRefinement` | `CacheProofs` | for any number of ways: restamping one line is `Lru!Use` of its block |
| `MemoryTypeCorrect`, `CallsExact` | `MemoryProofs` | the bytes of a call are at different entries, by arithmetic modulo the address space; then one byte at a time |
| `MemoryIsPrepared` | `MemoryProofs` | from the invariant `Construction` below |
| `DumpKeepsMemory`, `DumpShowsRange` | `MemoryProofs` | the dump is a stutter of the memory; from `DumpInv` below |
| `LoopImplementsDatapath` | `MemoryProofs` | a call that has ended has reached what `Datapath` reaches (`SameReach`), and byte k of a number of eight bytes is digit k (`NumberOf`) |
| `WordsFlags`, `WordsDecoded`, `WordsPrinted` | `WordsProofs` | from `WordsInv` below; the fields of a word as digits of its immediates |
| `WordsComputed` | `WordsProofs` | bit by bit, one lemma per operation, at every width |
| `DatapathIsTyped`, `DatapathObeysLaws`, `WordsAreMachine` | `WordsProofs` | one case per opcode |

The refinement mapping of `Pipeline`: an instruction takes effect as it passes MEM.
The abstract registers are the register file with the instruction in `memInst`
written back and x0 masked; the abstract PC is that of the oldest instruction not
yet in MEM. Since `Functional` and `Pipeline` refine the same deterministic `Isa`,
they compute the same results on every program without an illegal branch
encoding, up to the first illegal word, where the functional simulator stops.

*Timing proofs.* `OnTime` relates the history of issues to the latches. `TInv` makes it
inductive: `LastIssue` says where the last instruction issued is, `FetchGap` when
IF is empty, `DueInID` and `DueInIF` that the instruction waiting there, after the
stalls it is still to have, is due exactly when it will enter EX. `MeetsLatest` turns a
cycle that is one of those waited for and none of which is later into the maximum.

*Cache.* The refinement maps a set to the blocks of its valid lines and its order to
the comparison of their timestamps. `OldestIsLeastRecent` and `RoomIsInvalidWay`
connect the victim to the abstract choice; `LinesDistinct` and the bound of the
timestamps by the clock are what makes both true.

*Memory.* `Construction` says how far the constructor has come. What is left of the
two files is a suffix of them (`Left`), and the latest call is that of the last pair
begun (`PairStored`), of the extra pass of `prepareMemory` (`LastPass`) or of the
last byte of the binary (`ByteStored`), and began on exactly what was there before
it; `CallEffect` gives the memory when it ends. From the extra pass on
(`emptyPass`) the word at address 0 is zero until the binary covers it; without
one, the image's word is still there. `MemoryPrepared`
alone is not inductive because it says nothing before the simulator starts. `DumpInv` has
the rows so far as a prefix of the range, the position a whole number of words
from its start, and the printed address congruent to the position as long as
the loop goes on.

*Words.* `WordsInv` is that each stage holds what its function computes from the word
and that the word is the one the assembler made. The rest is arithmetic without
induction on the program's data: an immediate is a sum of digits times powers of two,
so the decoder's pieces are its digits. For the results, `PowerSum` gives 2^(m+n) from
the recurrence, by a least counterexample; bits of sums go through their carry, bits of
shifts through quotients, and a signed number is its residue less 2^n when its top bit is
set. `UpperBits` and `PowerTwelve` put the 20 bits of an upper immediate at their
places.

*Only model-checked:* `Halts`, which is liveness under fairness; and that the
memory of a binary leaves the halt word below the top (`HaltBelowTop` is about the
program loaded, not about the code).

## 5. What is not modelled

- The drivers `sim_cycle.cpp` and `sim_funct.cpp`: parsing of arguments and of the
  cache configuration, then the constructor of the memory and one call of
  `runTillHalt`. Neither keeps state.
- `RegisterInfo.h` and the text layout of all dumps: formatting.
- `dumpSimStats` beyond cycles and instructions: its other numbers are literals.
- Calls of `runCycles` after it has returned `HALT`: no caller makes them.
- Miss stalls and memory exceptions: the code has none. The caches `initSimulator`
  makes are never accessed, so `Cache` and `Pipeline` have nothing to compose.
- Invalid sizes passed to `getOrSetValue` and `printMemArray`: all callers pass
  the enumerators.

## 6. Plan

1. Done: `Machine`, `Isa`, `Functional`, `Pipeline` with its invariant, timing and
   refinement, `Cache`; their runs and proofs.
2. Done: `PipeState`, `MemoryStore`, `MemoryDump`, `Decoder`, `Words`, their runs;
   `CallProofs`, `CacheProofs`, `MemoryProofs`, and `OnTime` proved.
3. Done: `MemoryPrepared` (every byte, for every image and binary) and `DumpIsRange`
   proved; the data path and the words proved, upper immediates and jumps
   included, at every width (`WordsProofs`); the byte loop proved to be the memory of the
   simulators (`MemoryLoop`).
4. Open: the equality of the two simulators as one theorem about a product of
   both, where now each is proved to refine `Isa`.
