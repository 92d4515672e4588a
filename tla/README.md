# R10K-CPU in TLA+

A verification project for the out-of-order RV32IM processor in this repository
(`main.py`, `r10k_cpu/`, `dataclass/`, `algorithms/`): TLA+ modules translated from the
Python/assassyn source, TLC runs on small instances, and TLAPS proofs for every instance.

## 1. How the source becomes a state machine

The source describes hardware in assassyn. The rules the modules rest on:

* One step is one **clock cycle**. A `RegArray` is read as it was at the start of the cycle
  and written at its end, so an action is a simultaneous assignment of all registers.
* A `Module` with ports runs in the cycle **after** an `async_called`; each call is one item
  in its ports. `wait_until` makes a module do nothing in a cycle.
* A `Downstream` runs in the same cycle as the modules that feed it; `x.optional(d)` is `d`
  when its producer did not run. The models therefore give a cycle in which the decoder
  does nothing the instruction `Bubble`, and one in which commit does nothing the guards
  `Retires`.
* `assume(c)` is an obligation of the caller, so it is checked as a property.

Two things the source leaves to the framework are constants. Two writes of one
register-array slot in one cycle matter at a single place (finding 3): `SetReadyWins` of
`Renaming`. The framework's `Value.sext`, which `writeback.py:55` calls, is `Sext` of
`ByteMemory`.

The processor is too large for one state machine, so it is cut along what its parts tell
apart. `Renaming` knows registers and no values; `OutOfOrder` composes it with the queues,
the units, registers with values and memory of whole words; `MulDiv` follows work through
the multiplier and the divider by slot; `Frontend` runs programs; `Datapath` takes one
instruction at a time, bit by bit, through every unit. What one module leaves open (any
outcome, any latency, any instruction) is what another one decides.

## 2. Inventory

| Component | State | Operations | Talks to |
|---|---|---|---|
| `CircularQueue` | storage, head, tail, count | `operate` (push/pop/clear), `__setitem__`, `choose` | base of the four queues |
| `FreeList` | ring of physical registers, `snapshot_head` | allocate, free, snapshot, recover | decoder, commit |
| `MapTable` | speculative and committed table | rename, commit, copy on flush | decoder, commit |
| `RegisterReady` | one bit per physical register | mark ready / not ready, set all on flush | decoder, ALUs, write-back, scheduler |
| `ActiveList` | ring of entries in program order | push, pop, clear, `set_ready` | decoder, commit, all units |
| `SpeculationState` | one bit | enter on a decoded branch, leave when it retires | decoder, commit |
| `ALUQueue`, `LSQ` | rings of waiting instructions | push, pop, clear, `mark_issued`, select | decoder, scheduler, commit |
| `StoreBuffer` | one entry | take a committed store, hand it on | LSQ, scheduler |
| `Scheduler(Down)` | none | issue one ALU-queue entry and one load or store | queues, units |
| `ALU`, `Multiply_ALU`, reduce and sum levels, `Divider` | ports, `div_busy`, PA/B/i | execute, deliver | register file, ready bits, active list |
| `LSU`, `WriteBack`, `ByteAddressableMemory` | ports, memory | load, store, deliver | register file, ready bits, active list |
| `Commit` | `flush`, `retire_count` | retire, free, redirect, recover, train, finish | everything |
| `Decoder` | port | accept or refuse one instruction | free list, map table, queues |
| `Fetcher(Impl)` | PC, `stalled` | next PC, stall, redirect | decoder, commit, predictor |
| `Predictor` | two-bit states | predict, train | decoder, commit |
| `algorithms/`, `utils.py` | none | adder, Booth products, Wallace tree, leading zeros, division step | ALUs |
| `instruction.py` | none | opcode table, immediates | decoder |
| `scripts/merge_hex.py`, `prepare_byte_files` | none | a program dump becomes the contents of four SRAMs | memory |

What makes the processor hard to get right, and what the properties aim at (PROJECT.json
lists every hazard with its line):

* **recovery**: a mispredicted branch undoes renames while older instructions kept retiring;
  one snapshot, one committed table and a reset of the ready bits must restore a consistent
  state, in the same cycle in which the decoder and the units are still writing;
* **slots and flushes**: units know an instruction by its slot only, a flush refills the
  slots from 0, and the units hold work from before the flush;
* **same-cycle writes**: push, pop, clear, `set_ready`, `mark_issued`, rename, commit;
* **ring arithmetic**: wrapping pointers and a count that is kept, and once recomputed,
  next to them;
* **resources nobody asks for**: the decoder checks neither the free list nor the issue
  queues for room;
* **stalls and flags** that must be taken back: `stalled`, `speculating`, `div_busy`;
* **memory order**: loads overtake each other, and a committed store reads its registers and
  reaches memory two cycles after it retired;
* **bits**: Booth digits, the non-restoring steps of the divider, immediates scattered over a
  word, bytes of four SRAMs.

## 3. Modules

| Module | Models | State |
|---|---|---|
| `RingQueue` | the operators of `CircularQueue`: one cycle of `operate`, the reduction tree of `choose` | - |
| `CircularQueue` | the class as a state machine under every permitted use | `queue` |
| `BoundedFifo` | abstract: a sequence of at most `Depth` entries | `contents` |
| `CircularQueue_proofs` | its theorems | |
| `Renaming` | decoder, free list, map tables, ready bits, active list, speculation state, commit | one variable per register array |
| `Renaming_proofs` | theorems on registers and tables, on ready bits and operands | |
| `OutOfOrder` | `Renaming` with ALU queue, LSQ, scheduler, store buffer, ALU, LSU, write-back, register file, memory | `Renaming`'s, and one per queue, port and array |
| `InOrder` | abstract: instructions one at a time on registers and memory | `regs`, `memory` |
| `OutOfOrder_proofs` | its theorems: it implements `Renaming`, and retires what `InOrder` executes | |
| `MulDiv` | ALU queue, scheduler, multiplier, divider, busy flag, commit's flush | one variable per unit |
| `MulDiv_proofs` | its theorems | |
| `Frontend` | fetcher, decoder's guard, predictor, speculation state, commit's redirection | PC, port, stall, entries |
| `Frontend_proofs` | its theorems | |
| `ByteMemory` | the four SRAMs with write enables and lane steering, shift and extension in write-back | `lanes`, `dout`, `access` |
| `ByteArray` | abstract: an array of bytes | `bytes`, `loaded` |
| `BitVectors` | numbers as sequences of bits, lowest first; slices, shifts, extension | - |
| `DecodeTable` | the patterns of `instruction.py`, `matches`, `select_args`, immediates | - |
| `Circuits` | adder, Booth products, Wallace tree, leading-zero count, negation | - |
| `MemoryImage` | `merge_hex_bytes`, `prepare_byte_files`, the initial SRAMs | - |
| `Datapath` | one instruction through decode, ALU, multiplier, divider, LSU, write-back and commit, with its bits | `stage`, `entry`, the units' registers, memory |
| `Encoding` | the instruction formats of RV32IM but for FENCE and ECALL, from the architecture and not from the table | - |
| `Isa` | abstract: what each instruction of `Encoding` does, on integers | value, next PC, bytes |
| `Recursion` | induction, recursive functions and powers of two, for the proofs | |
| `Circuits_proofs` | what the circuits compute, at every width | |
| `Datapath_proofs` | theorems on `ByteMemory` and on `Datapath` | |
| `MCRenaming`, `MCOutOfOrder`, `MCMulDiv`, `MCFrontend`, `MCDatapath` | instructions, programs, operands and bounds of the runs | |

`Renaming` is the core. Its actions are `Idle`, `Retire` and `Recover`, by what commit does
in the cycle; each is the conjunction of the downstream stages `FreeListBuild`,
`MapTableBuild`, `RegisterReadyBuild`, `SpeculationStateBuild` and `ActiveListBuild`, named
after the `build` methods they translate. What executes in a cycle is any set of entries
whose operand is ready: every latency and every issue order of the real units is among
those, and so are some the units cannot produce. Both source operands are one `source`.
The active list is a sequence, which is what its ring implements (`ImplementsFifo`); the
free list is the ring itself, since recovery rewrites its registers from outside.

`OutOfOrder` reuses those stages through `INSTANCE` and decides what `Renaming` leaves open:
the scheduler takes the first ready entry of each queue, a load waits for the stores before
it, a committed store goes through its one-entry buffer to the LSU and has precedence there,
the ALU answers after one cycle and a load after two. The queues are sequences again. An
ALU instruction reads one register and an immediate; both operands of a store are there,
because they are read late. Memory is an array of words. Control flow is left out: which
branch was mispredicted is open, and the instructions after a flush are any.
`ImplementsRenaming` states that each cycle of these units is one of `Renaming`'s, and
`RetiresInOrder` that the committed registers and the memory (with the committed stores
still under way carried out) change as in `InOrder`.

`MulDiv` drops register numbers and keeps what the busy flag and the units depend on. Each
operation in flight carries the slot it will be delivered to, as in the code, and the
history variable `epoch`, which the code does not have, to tell whether it is still the
entry it was issued for. A dependent entry waits for the one before it.

`Frontend` runs a program. A back end that finishes entries in any order with any branch
outcome and any JALR target stands for the rest of the processor. Addresses are words; the
predictor's index is the word address modulo its size (the code uses the low bits of the
byte address, of which two are always zero, so that 16 entries act as 4).

`Datapath` has no second instruction: what an instruction computes does not depend on when it
does so. Every operation is translated as the circuit that computes it, so that a wrong carry
would show (the recursions of the source are recursive functions on lengths and positions,
which the prover can treat), except the SLT/SLTU comparisons and plain `+` of the source, which
are the framework's own. A store retires first and writes memory afterwards, as in
`OutOfOrder`. Registers of a unit whose result was taken return to their first values; nothing
reads them before they are written again, and the number of states would multiply otherwise.
`Isa` and `Encoding` were written from the architecture, on integers with `\div` and `%`. The
framework's `Value.sext` is outside the repository; `utils.py:9` calls it incorrect and
replaces it everywhere but in write-back. What it puts above the last byte is the constant
`Sext`, and the run takes `RepeatsSign` for it.

Definitions named `Mutant` in comments (`FreesNew`, `StallsThroughFlush`, ...) are plausible
bugs. They are not part of any specification: each is exchanged for the definition after
it to see that a property notices.

## 4. Runs

| Run | Instance | Shows |
|---|---|---|
| `circular_queue` | depth 5, two data, initial count 3 | registers agree, `choose` is the oldest match, the ring is a bounded FIFO |
| `renaming` | 4 physical, 2 logical registers, 2 entries, all instructions | all invariants of `Renaming` but `SnapshotCoversWrongPath` |
| `late_load` | as `renaming`, `SetReadyWins = TRUE` | violated, see 6 |
| `out_of_order` | 8 physical, 2 logical registers, 3 entries, two words; addition, load, store, branch, operands from registers | memory and retirement follow the in-order machine; the queues mirror the active list; the wrong path can be given back |
| `out_of_order_progress` | 4 physical registers, 2 entries, no data, with an unmatched word | the units implement `Renaming`; everything retires except behind an unmatched word |
| `zero_register` | a load to x0 | violated, see 6 |
| `muldiv` | 3 entries; ALU, multiply, divide, branch, a division never together with a branch or a multiplication | results find their entries across flushes, own operands, exact busy flag; everything retires |
| `divide_flush`, `divide_multiply` | divisions with branches, with multiplications | violated, see 6 |
| `frontend` | all 729 programs of three words, three entries, binary predictor | retirement follows the program; fetching never stops |
| `training` | a loop | violated, see 6 |
| `datapath` | every instruction of `Encoding`, 8-bit registers, 2-bit bytes, two words, a `Sext` that repeats the sign | value, next PC and memory are the architecture's |

**Bounds.** The `Renaming` instance has exactly as many registers as `EnoughRegisters`
requires, so the free list runs empty, wraps its eight slots and is recovered in every
position; two entries allow one instruction behind a branch, or an older one before it.
`out_of_order` has room for both, and for a store, its load and a branch at once.
`SnapshotCoversWrongPath` is checked there, as `WrongPathCanBeGivenBack`, because it needs two
instructions behind a branch to be about their order. `MaxTail` ends that run when the free
list's tail reaches it, after the first retirements of instructions with a destination and
before a freed register is handed out again. So it says nothing of a committed store whose
registers are freed and rewritten before it reads them (`lsu.py:28`); that is in
`RetirementInOrder`, which proves the same property for every size and without such an end, and
the runs and proofs of `Renaming` have none either. `out_of_order_progress` needs a whole state
space, for a cycle to be found, and so has two entries and one word. Its `Progress` excuses a
processor that waits behind an unmatched word (section 6): it shows that nothing else stops it.
A ring of five slots wraps at a depth that is not a power of two and pads the tree of `choose`.
`MulDiv` has three entries, enough for a branch, a wrong-path instruction and a refilled slot
while the three-stage multiplier is full; `MaxSteps` bounds the divider's iterations (up to 32
in the code), of which only the order against other events matters. Its two streams that go
wrong (a flush, or a multiplication, during a division) are kept out of `muldiv` by `Apart`, so
its properties say nothing of them: they are the runs `divide_flush` and `divide_multiply`.
Three words allow every pair of jumps, loops and a terminator.

`Datapath` at eight bits has the structure of 32: a power of two, four bytes to a word, a
Booth digit beyond the width, several levels of the Wallace tree and all steps of the divider.
Instructions keep their 32 bits, and immediates are drawn from every field, at both ends of
their ranges; operands are zero, one, the ends of the signed and the unsigned range and
values between. A behaviour repeats one instruction (after a store it loads), which avoids
their product.

`ImplementsIsa` is about the instructions of `Encoding` and these tasks, not about all of
RV32IM. Left out, because the code differs there from the architecture or leaves it open:

* FENCE: no pattern has its opcode, and the processor stops behind it (section 6);
* ECALL: the pattern of EBREAK compares opcode and funct3 only, so it stops the simulation;
* `jalr` to an odd sum: the code does not clear bit 0;
* loads, multiplications and divisions with `rd` 0 (finding 5);
* accesses that are not aligned: a load may return anything and a store may do anything to its
  own word, since the code does not raise the exception the architecture allows;
* `lb` and `lh` if the framework's `sext` does not repeat the sign: `Sext` is `RepeatsSign`.

**Fairness.** `MulDiv`, `Frontend` and `OutOfOrder` assume `WF_vars(Next)`: the clock ticks.
`MulDiv` and `OutOfOrder` need no other, since their units have fixed latencies; `MCMulDiv`
states it for the streams of its run. `Frontend` also assumes that the oldest instruction is
eventually finished; it waits for no operand (`OldestNeverWaits` of `Renaming`, proved) and the
units deliver (`Progress` of `MulDiv` and `OutOfOrder`), except as in findings 1 and 2 and
behind an unmatched word. The others have no liveness property and assume nothing.
`CHECK_DEADLOCK FALSE` is said only for `Frontend`, where the simulation ends at the
terminator.

## 5. Proofs

TLAPS checks, for every value of the constants that satisfies the named assumptions:

* `CircularQueue_proofs`: `TypeCorrect` and `RegistersAgree` (together inductive: the tail
  is `count` places behind the head, which with the types bounds the count), and
  `ImplementsFifo`, which maps each cycle of the ring to one cycle of `BoundedFifo`. The
  lemmas are about `Advance` and `Contents`: what a push, a pop and a store do to the
  sequence of queued entries. `ChooseOldest` is about the reduction tree of `choose`: at
  level h a node holds the first match of its 2^h places, seen from the head, or none
  (`FirstOf`); the padding beyond the depth matches nothing.
* `Renaming_proofs`: `TypeCorrect`, `SnapshotCovers`, `OneOwner`, `NeverUnderflows`,
  `CountIsDistance`, `OneBranch`, `SpecTableFollows` and `FreesReplaced`, for every number
  of physical and logical registers and every depth with `EnoughRegisters`, under
  `~SetReadyWins` (the decoder's push prevails over a late `set_ready`; otherwise a flushed
  entry comes back and its register has two owners). None of these invariants is inductive
  alone. A recovery gives back the slots between the snapshot and the head without looking
  at them, so `RegistersPartitioned` needs to know that they hold the registers of the
  writers behind the branch (`WrongPathOf`); that survives retirements only because pushes
  stay clear of those slots, which needs the bound on free plus taken registers
  (`FreeBound`, an injection into the registers) and the ring of twice their number; the
  recomputed count is right only when the ring is not empty afterwards (`SomeGivenBack`); a
  retirement keeps the partition only if the register it frees is the one it replaces
  (`MappingOf`); and the snapshot is the right one only while there is one branch
  (`BranchesOK`). `IInv` joins these to `TypeOK`. It is stated over data (`DataOK`), so that
  a cycle is a retirement followed by a decoding (`CycleData`) or a recovery
  (`RecoverData`), with one lemma per part; `CycleStep` and `RecoverStep` carry it over to
  the variables. `NoneFree` counts the other way: without a free register the committed
  table and the active list must hold them all, which `EnoughRegisters` excludes while the
  active list has room.

  The second part, on top of `IInv` and under the same assumption, is `ReadyBitsTrack`,
  `ProducersFirst`, `OperandsSurvive` and `OldestExecutes`. An entry does not say which
  logical register it reads, so `SourcesMapped` remembers that its operand was the mapping
  of some logical register before it (`Maps`): the register belongs to the committed table
  or to an older writer, and a retirement only moves it from the second to the first.
  `NoDestNoRegister` and `LateLoadAlone` (a load still under way after a flush meets an
  empty list, so its register has no owner that could be woken early) complete the inductive
  `RInv`. `OldestNeverWaits` follows: nothing before the oldest entry could own its operand,
  so the operand is ready.
* `OutOfOrder_proofs`: `TypeCorrect`, `RefinesRenaming`, `WrongPathGivenBack` and
  `QueuesMirror`, for every program, memory and depth, when the ALU queue and the LSQ hold
  as many entries as the active list. The refinement is not a matter of shape: `Renaming`
  lets the environment finish any entry in flight whose operand is ready, or the one late
  load, and the units must be shown to finish nothing else. The inductive `LInv` joins
  `Renaming`'s `RInv` to `QueuesLinked` (each queue holds the active list's entries of its
  kind, at increasing positions), `UnitsInFlight` (each unit works for an unfinished entry
  in flight whose operand is ready, or for the late load), `LoadsApart` and `OnePort` (no
  two of them for the same entry) and `Waiting` (an entry not yet issued is unfinished and
  in no unit). A cycle keeps it (`CycleKeeps`), or a flush does (`FlushKeeps`).
  `QueuesMirror` counts along the increasing positions, which is why the decoder need ask
  only the active list for room. `WrongPathGivenBack` follows from the refinement and
  `SnapshotCovers`.

  The second part is `RetirementInOrder`, for every program that loads nothing into x0
  (`NoLoadToZero`; otherwise finding 5), memory and depth. The refinement mapping is the one
  of the run: the logical registers read through the committed table, and the memory with
  the stores of the port and of the buffer applied. An entry retires with the value computed
  when it executed, perhaps long before, and `InOrder` computes it now; the invariant `VInv`
  says that this makes no difference. Every entry is its fetched instruction with the
  operand it was renamed to (`Traced`), and what queues and units hold does their entry's
  work (`WorkTraced`). The register of a finished entry holds the sum of its operand as it
  stands (`ResultsWritten`), for a load in write-back that word is on its way
  (`ResultsUnderWay`): the operand was ready at the read and a ready register is not written
  again (`RegistersKeep`). From its issue to its retirement a load has no store before it,
  neither in flight nor on its way to the memory (`LoadsAfterStores`), so the word it read
  is still there. A store reads its operands after it retired, which is right because they
  are then committed registers (`StoresCommitted`) that the next retirement cannot have
  given out and rewritten, nor a late load touch (`LateLoadsDropped`).
* `Frontend_proofs`: `TypeCorrect`, `StallIsExact`, `OneBranch` and, as an action property,
  `ProgramOrder`, for every program, depth and predictor. The inductive `IInv` adds
  `PathPredicted` (each entry is where the one before it was predicted to lead, and the PC,
  unless stalled, where the last one leads) and `PortIsPC`. A retirement either confirms the
  path, so that the next entry is the program's next instruction, or flushes all of it and
  sends the fetcher where the program goes. `OneBranch` is an equivalence: there is never a
  second branch, and `speculating` is set if and only if there is one. The order holds although
  a predictor may answer anything, because nothing of the argument mentions its table.
* `MulDiv_proofs`: `TypeCorrect`, `ResultsArrive`, `OneUnit`, `OwnOperands` and
  `BusyIsExact`, for every depth and length of divisions, under `Apart` as in the run
  (findings 1 and 2 are what happens without it). The invariant is an equation between sets,
  `LiveIsExecuting`: what the units hold, but for what a flush makes void, is what the
  window says is executing. A cycle takes the results from both sides and adds the issued
  entry to both (`UnitsAfter`, `ExecutedAfter`); that a result clears only its own entry is
  the injectivity of slots in a ring (`AddressSlots`). `BusyExact` says where the division
  is when the flag is set, and with `Apart` that a flush meets neither.
* `Circuits_proofs`: what the circuits compute, for operands of every width. `AddIs`: the
  carry look-ahead over ripple-carry blocks adds modulo 2^N; a block of n bits from any
  position, with its P and G, is the sum of those bits (`Adds`), and the halves of a block
  join. `LeadingZeroCountIs`: the count never exceeds the zeros at the top, also where zero
  wraps. `ProductsSum`: the digits of Booth's recoding, three bits overlapping by one, add
  up to the signed number, so the products, cut to the width, add up to the product modulo
  2^(2n + 2). `WallaceTreeSums`: an adder keeps the sum of three addends modulo that, with
  the carry dropped at the top; a level does so for every group and gets shorter while three
  are left. The vectors are functions from 1 .. n and `Number` is defined by recursion on
  the length; most lemmas say how it behaves under concatenation, shifts and extension.
* `Datapath_proofs`: `TypeCorrect`, `ImmediatesDecode`, `KeepsProduct` and `DividesSoFar`, for
  every set of tasks and program that `TasksAssumption` and `DumpAssumption` admit, memory of
  any depth, and registers of 8 to 32 bits in steps of four (`BitsAssumption`; wider registers
  would need longer immediates than the formats have). None is inductive by itself. The
  inductive `IInv` is `TypeInv /\ DecodedInv /\ ProductInv /\ DivisionInv`. `DecodedInv` keeps
  that the entry is what the table gives for the instruction's word; that the pattern found is
  the one the word was encoded from is a case analysis over the classes of instructions
  (`WordDecodes`). It is needed after decoding, because the multiplier's sums are sums of the
  product of the operands the entry names, and the sum says nothing of the instruction unless
  the entry does. `ProductInv` carries the congruence of `Circuits_proofs` from one stage to
  the next. `DivisionInv` says, besides quotient and remainder, that the divisor in the
  registers is not zero, from the load of the divider on, and that what is left is below it.
  The divider does not restore: a P below zero stands for P plus the divisor (`Rest`), the next
  step adds instead of subtracting, and the one extra bit of P is enough for its sign. The
  start skips the leading zeros, which is right because those are zeros (`LeadingZeroCountIs`);
  signs are taken off before the divider and put back after it. `TypeCorrect` includes the
  memory, and for it that the image of the program written by `merge_hex` and split by
  `prepare_byte_files` is a memory of bytes.
* Also in `Datapath_proofs`: `MemoryTypeCorrect` and `MemoryImplementsByteArray`, for every
  depth, byte and number of addresses of `ByteMemory`: aligned accesses read and write the
  bytes at their address, in order and extended as the access says, and others stay in their
  word. The types need nothing of `Sext`; the implementation assumes `Sext = RepeatsSign`.
* `Recursion` has what these two and `ChooseOldest` need: the prover cannot instantiate a
  theorem about an operator, so an induction here is over a set of numbers (the set of those
  the claim holds for), from the well-foundedness of the order on the naturals, and a
  recursive function is known by the values it has on an interval.

Only model-checked: liveness (`Progress`), which the prover cannot treat, and
`ImplementsIsa`, the refinement of `Isa` by `Datapath`. Adder, products, tree, division
steps, immediates and memory are proved, but not yet what joins them: the arguments of each
of the 46 instructions (the proofs know its format and whether it multiplies), the results
of the ALU's other operations, the signs put back after a division, and the last step from a
sum to the half of it that is written.

## 6. Findings

1. **Busy for ever** (`divide_flush`, `alu.py:347`). A flush drops a running division, but
   `div_busy` is cleared only if `Multiply_ALU` happens to run in that cycle. After it no
   division is ever issued and the processor stops.
2. **Lost quotient** (`divide_multiply`, `scheduler_down.py:47`). A multiplication issued during
   a division clears `div_busy`; the next division overwrites the divider's registers.
3. **Late load** (`late_load`, `active_list.py:90`). A load in the LSU at a flush still reaches
   `set_ready`, one cycle later, perhaps in the slot the decoder fills in that cycle. If its
   write is kept, a flushed entry is back in the active list. With the other order
   (`SetReadyWins = FALSE`, as in all other runs) nothing is lost.
4. **Untrained predictor** (`training`, `commit.py:115`). `PredictFeedback` is built with two
   fields swapped and the predictor learns its own predictions.
5. **x0 is written** (`zero_register`, `writeback.py:33`). A load to x0 is given physical
   register 0 and writes it, as a multiplication or division does; the ALU asks first.
   From then on every logical register that was never written reads the loaded value.

Known from reading and not findings of a run:

* A word no pattern matches is accepted with default arguments (`instruction.py:535`), is never
  marked ready, and the processor stops behind it. FENCE is such a word, and `README.md:3`
  calls the processor an RV32I CPU. `Progress` of `OutOfOrder` names it as the exception.
* `writeback.py:55` and `:56` extend `lb` and `lh` with the framework's `sext`, which
  `utils.py:9` calls incorrectly implemented. If it is, these loads are wrong where
  `docs/architectural_report.md:62` says that write-back sign-extends. The models do not decide
  this; what they show of signed loads holds under `Sext = RepeatsSign`.
* `docs/architectural_report.md:13` denies `sb`/`sh`, which `byte_memory.py` implements (and
  `datapath` checks), and line 19 names the always-taken predictor where `main.py:39` wires the
  binary one.

## 7. Plan and limits

The order was: the queue and renaming, because everything rests on them; the parts with flags
that must be taken back; the memory path and the composition with the units; the bits. What
would come next is the proof of `ImplementsIsa` from the theorems about the circuits, and a
machine with two instructions of `Datapath` in flight, which its circuits make too large for
TLC.

Not modelled, and why:

* `dataclass/multiport_regarray.py` and `aggregate_value.py` are not used by the processor; the
  packing of records into words (`utils.py`) has no behaviour of its own.
* `Datapath` and `OutOfOrder` are not composed: values in one are numbers and in the other bits.
* `tests/test_asms.py`, `scripts/extract.py` and `scripts/ipc_sweep.py` run the simulator and
  tabulate its output; elaboration, logging and the command line of `main.py` are the
  framework's.
