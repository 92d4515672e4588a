------------------------------ MODULE Renaming ------------------------------
(***************************************************************************)
(* Register renaming, in-order retirement and recovery: the decoder, the   *)
(* active list, the free list, the two map tables, the register-ready bits,*)
(* the speculation state and the commit stage.  One step is one clock      *)
(* cycle: every stage reads the registers as they were at the start of the *)
(* cycle and all writes appear at its end.                                 *)
(*                                                                         *)
(* The instruction stream, the order in which executions finish and the    *)
(* outcome of each branch are left open.  The active list is the bounded   *)
(* FIFO its ring implements (CircularQueue_proofs), with the slot of its   *)
(* head kept because results are delivered by slot; the free list is the   *)
(* ring itself, because recovery rewrites its head and count from outside. *)
(***************************************************************************)
EXTENDS Naturals, Sequences, FiniteSets

CONSTANTS
  RegisterNumber,   \* physical registers; register 0 is reserved
  LogicalNumber,    \* logical registers; register 0 is hard-wired to zero
  ActiveListDepth,
  Instructions,     \* the instructions the stream may contain
  SetReadyWins      \* which write prevails when set_ready and a push hit one slot

Physical == 0 .. RegisterNumber - 1
Logical  == 0 .. LogicalNumber - 1
FreeListDepth == 2 * RegisterNumber

\* What the decoder sees of an instruction.  A store and a branch have no destination;
\* destination 0 is the zero register.  `source' stands for either source operand.
Instruction ==
  [op : {"alu", "load"}, dest : Logical, source : Logical]
    \cup [op : {"branch", "store"}, dest : {0}, source : Logical]

\* main.py: 64, 32 and 32.  The pointers of the free list have log2(2 * RegisterNumber) bits,
\* so their subtractions are modular in its depth only for a power of two.
ASSUME RegisterNumberAssumption ==
  RegisterNumber \in Nat /\ \E k \in 1 .. RegisterNumber : RegisterNumber = 2^k
ASSUME LogicalNumberAssumption == LogicalNumber \in Nat \ {0}
ASSUME ActiveListDepthAssumption == ActiveListDepth \in Nat \ {0}
ASSUME InstructionsAssumption == Instructions \subseteq Instruction
ASSUME SetReadyWinsAssumption == SetReadyWins \in BOOLEAN

\* A register for every logical register and every entry of the active list: decoder.py
\* never asks free_list.valid(), so nothing else keeps the free list from underflowing.
ASSUME EnoughRegisters == (LogicalNumber - 1) + ActiveListDepth <= RegisterNumber - 1

VARIABLES
  freeList,         \* FreeList.queue
  snapshotHead,     \* FreeList.snapshot_head
  specTable,        \* MapTable._spec_table
  commitTable,      \* MapTable._commit_table
  registerReady,    \* RegisterReady._ready_bits
  activeList,       \* ActiveList.queue, oldest entry first
  activeHead,       \* the slot of its head
  speculating,      \* SpeculationState.speculating
  lateLoad          \* at most one load, whose WriteBack runs in the cycle after a flush

vars == <<freeList, snapshotHead, specTable, commitTable, registerReady,
          activeList, activeHead, speculating, lateLoad>>

FreeRing == INSTANCE RingQueue WITH Depth <- FreeListDepth
ActiveRing == INSTANCE RingQueue WITH Depth <- ActiveListDepth

-----------------------------------------------------------------------------
(* Instructions, and the part of an active-list entry that matters here. *)

Bubble == [op |-> "bubble", dest |-> 0, source |-> 0]

Entry == [op : {"alu", "load", "branch", "store"}, dest : Logical, new : Physical,
          old : Physical, source : Physical, ready : BOOLEAN, mispredicted : BOOLEAN]

HasDest(e) == e.dest # 0

\* The slot of the active list that holds position i.
SlotOf(i) == ActiveRing!Advance(activeHead, i - 1)


-----------------------------------------------------------------------------
(* Commit: what the head of the active list asks of this cycle. *)

Oldest == Head(activeList)
Retires == activeList # <<>> /\ Oldest.ready
FlushRecover == Retires /\ Oldest.op = "branch" /\ Oldest.mispredicted
WritesCommit == Retires /\ HasDest(Oldest)
PushesFree == WritesCommit /\ Oldest.old # 0

\* Mutant: the retiring instruction's own register is freed.
FreesNew == Oldest.new

\* The register pushed to the free list.
Freed == Oldest.old

-----------------------------------------------------------------------------
(* Decode. *)

\* Mutants: the full active list, or the branch in flight, does not hold the decoder back.
DecodesWhenFull(ins) == ins.op = "branch" => ~speculating
DecodesSecondBranch(ins) == Len(activeList) < ActiveListDepth

Decodable(ins) ==
  /\ Len(activeList) < ActiveListDepth
  /\ ins.op = "branch" => ~speculating

Decodes == {Bubble} \cup {ins \in Instructions : Decodable(ins)}

Allocated(ins) == IF HasDest(ins) THEN FreeRing!Front(freeList) ELSE 0

\* Mutants: the replaced register, or the operand, is looked up in the committed table.
ReplacedCommitted(ins) == IF HasDest(ins) THEN commitTable[ins.dest] ELSE 0
OperandCommitted(ins) == commitTable[ins.source]

Replaced(ins) == IF HasDest(ins) THEN specTable[ins.dest] ELSE 0
Operand(ins) == specTable[ins.source]

NewEntry(ins) ==
  [op |-> ins.op, dest |-> ins.dest, new |-> Allocated(ins), old |-> Replaced(ins),
   source |-> Operand(ins), ready |-> ins.op = "store", mispredicted |-> FALSE]

-----------------------------------------------------------------------------
(* Execution: any set of entries whose operands are ready delivers its results. *)

Unfinished == {i \in DOMAIN activeList : ~activeList[i].ready}

\* Mutant: entries execute without waiting for their operands.
ExecutableAtOnce == Unfinished

Executable == {i \in Unfinished : registerReady[activeList[i].source]}

\* set_ready on every finished entry; `wrong' is the outcome of a branch among them.
Finished(done, wrong) ==
  [i \in DOMAIN activeList |->
     IF i \in done
       THEN [activeList[i] EXCEPT !.ready = TRUE,
                                  !.mispredicted = wrong /\ activeList[i].op = "branch"]
       ELSE activeList[i]]

-----------------------------------------------------------------------------
(* The downstream stages, each a function of the values on its inputs. *)

\* Mutants: recovery leaves the count alone, or gets the count of a wrapped ring wrong.
RecoveredStaleCount(q, snapshot) == [q EXCEPT !.head = snapshot]
RecoveredUnwrapped(q, snapshot) ==
  [q EXCEPT !.head = snapshot,
            !.count = IF q.tail > q.head THEN FreeRing!Distance(snapshot, q.tail)
                      ELSE FreeRing!Distance(q.tail, snapshot)]

\* FreeList.build when flush_recover is set: head returns to the snapshot, count is
\* recomputed by one of two subtractions.
Recovered(q, snapshot) ==
  [q EXCEPT !.head = snapshot,
            !.count = IF q.tail > q.head
                        THEN FreeRing!Distance(snapshot, q.tail)
                        ELSE FreeListDepth - FreeRing!Distance(q.tail, snapshot)]

\* Mutant: every decoded instruction takes a snapshot, not only a branch.
SnapshotsAlways(ins) == IF ins = Bubble THEN snapshotHead ELSE freeList.head

NextSnapshot(ins) == IF ins.op = "branch" THEN freeList.head ELSE snapshotHead

FreeListBuild(ins) ==
  /\ snapshotHead' = NextSnapshot(ins)
  /\ freeList' = IF FlushRecover
                   THEN Recovered(freeList, snapshotHead)
                   ELSE FreeRing!Operate(freeList, PushesFree, Freed, HasDest(ins), FALSE)

\* Mutant: a flush does not suppress the rename write of the same cycle.
RenamesInFlush(ins) == HasDest(ins)

Renames(ins) == HasDest(ins) /\ ~FlushRecover

MapTableBuild(ins) ==
  LET committed == IF WritesCommit
                     THEN [commitTable EXCEPT ![Oldest.dest] = Oldest.new]
                     ELSE commitTable
      spec      == IF FlushRecover THEN committed ELSE specTable
  IN  /\ commitTable' = committed
      /\ specTable' = IF Renames(ins) THEN [spec EXCEPT ![ins.dest] = Allocated(ins)] ELSE spec

Results(done) == {activeList[i].new : i \in done} \cup {l.entry.new : l \in lateLoad}

\* Mutants: the decoder's write is applied first, or is the only one of its cycle.
ReadyDecoderFirst(p, ins, done) ==
  p \in Results(done) \/ (registerReady[p] /\ ~(HasDest(ins) /\ p = Allocated(ins)))
ReadyOneWrite(p, ins, done) ==
  IF HasDest(ins) THEN registerReady[p] /\ p # Allocated(ins)
  ELSE p \in Results(done) \/ registerReady[p]

\* The writes are applied in the order the modules are built, the decoder's last.
NextReady(p, ins, done) ==
  IF HasDest(ins) /\ p = Allocated(ins) THEN FALSE ELSE p \in Results(done) \/ registerReady[p]

RegisterReadyBuild(ins, done) ==
  registerReady' = [p \in Physical |-> FlushRecover \/ NextReady(p, ins, done)]

SpeculationStateBuild(ins) ==
  speculating' = ((speculating \/ ins.op = "branch") /\ ~(Retires /\ Oldest.op = "branch"))

\* Late set_ready writes to the slot the decoder is about to fill.
Overlapping == {l \in lateLoad : l.slot = SlotOf(Len(activeList) + 1)}
Revived(l) == [l.entry EXCEPT !.ready = TRUE]

\* What the pushed slot holds afterwards.  set_ready writes back a whole bundle that it read
\* before the flush, so if its write prevailed the flushed load would be there.
Pushed(ins) ==
  IF SetReadyWins /\ Overlapping # {}
    THEN Revived(CHOOSE l \in Overlapping : TRUE)
    ELSE NewEntry(ins)

ActiveListBuild(ins, done, wrong) ==
  LET finished == Finished(done, wrong)
      kept     == IF Retires THEN Tail(finished) ELSE finished
  IN  /\ activeList' = IF FlushRecover THEN <<>>
                       ELSE IF ins = Bubble THEN kept
                       ELSE Append(kept, Pushed(ins))
      /\ activeHead' = IF FlushRecover THEN 0
                       ELSE IF Retires THEN ActiveRing!Increment(activeHead)
                       ELSE activeHead

-----------------------------------------------------------------------------
Cycle(ins, done, wrong) ==
  /\ FreeListBuild(ins)
  /\ MapTableBuild(ins)
  /\ RegisterReadyBuild(ins, done)
  /\ SpeculationStateBuild(ins)
  /\ ActiveListBuild(ins, done, wrong)

\* The oldest instruction is still executing, or there is none.
Idle(ins, done, wrong) ==
  /\ ~Retires
  /\ Cycle(ins, done, wrong)
  /\ lateLoad' = {}

Retire(ins, done, wrong) ==
  /\ Retires /\ ~FlushRecover
  /\ Cycle(ins, done, wrong)
  /\ lateLoad' = {}

\* Loads that may be in the LSU, past the scheduler's flush gate.
LoadsInFlight ==
  {[slot |-> SlotOf(i), entry |-> activeList[i]] :
     i \in {j \in Executable : activeList[j].op = "load"}}

\* A mispredicted branch retires.  What executes or is decoded in this cycle is dropped,
\* except that a load already in the LSU still reaches WriteBack in the next one.
Recover(ins) ==
  /\ FlushRecover
  /\ Cycle(ins, {}, FALSE)
  /\ \/ lateLoad' = {}
     \/ \E l \in LoadsInFlight : lateLoad' = {l}

Init ==
  /\ freeList = [slots |-> [i \in 0 .. FreeListDepth - 1 |-> IF i < RegisterNumber - 1 THEN i + 1 ELSE 0],
                 head |-> 0, tail |-> RegisterNumber - 1, count |-> RegisterNumber - 1]
  /\ snapshotHead = 0
  /\ specTable = [l \in Logical |-> 0]
  /\ commitTable = [l \in Logical |-> 0]
  /\ registerReady = [p \in Physical |-> TRUE]
  /\ activeList = <<>>
  /\ activeHead = 0
  /\ speculating = FALSE
  /\ lateLoad = {}

Next ==
  \E ins \in Decodes :
    \/ \E done \in SUBSET Executable, wrong \in BOOLEAN :
         Idle(ins, done, wrong) \/ Retire(ins, done, wrong)
    \/ Recover(ins)

Spec == Init /\ [][Next]_vars

-----------------------------------------------------------------------------
(* Properties. *)

TypeOK ==
  /\ freeList \in FreeRing!Queues(Physical)
  /\ snapshotHead \in 0 .. FreeListDepth - 1
  /\ specTable \in [Logical -> Physical]
  /\ commitTable \in [Logical -> Physical]
  /\ registerReady \in [Physical -> BOOLEAN]
  /\ activeList \in Seq(Entry) /\ Len(activeList) <= ActiveListDepth
  /\ activeHead \in 0 .. ActiveListDepth - 1
  /\ speculating \in BOOLEAN
  /\ lateLoad \subseteq [slot : 0 .. ActiveListDepth - 1, entry : Entry]

FreeRegisters == FreeRing!Contents(freeList)
Writers == {i \in DOMAIN activeList : HasDest(activeList[i])}
Branches == {i \in DOMAIN activeList : activeList[i].op = "branch"}
MappedRegisters == {commitTable[l] : l \in Logical} \ {0}

\* Every physical register but 0 is in exactly one place: free, mapped by the committed
\* table, or the destination of one instruction in flight.  Nothing is lost and nothing has
\* two owners, however renames, retirements and recoveries interleave.
RegistersPartitioned ==
  LET free     == {FreeRegisters[i] : i \in DOMAIN FreeRegisters}
      inFlight == {activeList[i].new : i \in Writers}
  IN  /\ free \cup inFlight \cup MappedRegisters = Physical \ {0}
      /\ \A i, j \in DOMAIN FreeRegisters : FreeRegisters[i] = FreeRegisters[j] => i = j
      /\ \A i, j \in Writers : activeList[i].new = activeList[j].new => i = j
      /\ \A k, l \in Logical : commitTable[k] = commitTable[l] /\ commitTable[k] # 0 => k = l
      /\ free \cap inFlight = {} /\ free \cap MappedRegisters = {}
      /\ inFlight \cap MappedRegisters = {}

\* Whenever the decoder may rename, a register is free: CircularQueue's
\* assume(~(pop_enable & empty)) holds although decoder.py never asks free_list.valid().
FreeListNeverUnderflows == Len(activeList) < ActiveListDepth => freeList.count > 0

\* The count the free list recomputes in recovery is the distance between its pointers.
FreeCountIsDistance ==
  freeList.tail = FreeRing!Advance(freeList.head, freeList.count)

\* The mapping of a logical register that the entry at position i was decoded under.
MappingBefore(l, i) ==
  LET writers == {j \in Writers : j < i /\ activeList[j].dest = l}
  IN  IF writers = {} THEN commitTable[l]
      ELSE activeList[CHOOSE j \in writers : \A k \in writers : k <= j].new

\* The speculative table is what committing everything in flight would make of the
\* committed one, also right after a recovery (map_table.py copies the committed table).
SpecTableIsYoungest ==
  \A l \in Logical : specTable[l] = MappingBefore(l, Len(activeList) + 1)

\* An instruction frees exactly the register its own result replaces in the committed table.
FreesWhatItReplaces ==
  \A i \in Writers : activeList[i].old = MappingBefore(activeList[i].dest, i)

\* speculating is set exactly while a branch is in flight, and there is never a second one:
\* the single snapshot suffices.
SpeculatingTracksBranch ==
  /\ Cardinality(Branches) <= 1
  /\ speculating <=> Branches # {}

\* While a branch is in flight, the slots from the snapshot to the head still hold, in order,
\* the registers handed out behind it: retirements, which push at the other end, never
\* overwrite what a recovery would give back (free_list.py doubles the ring for this).
SnapshotCoversWrongPath ==
  \A b \in Branches :
    LET behind(n) == {i \in Writers : b < i /\ i < n}
    IN  /\ FreeRing!Distance(snapshotHead, freeList.head) = Cardinality(behind(Len(activeList) + 1))
        /\ \A i \in Writers : b < i =>
             freeList.slots[FreeRing!Advance(snapshotHead, Cardinality(behind(i)))] = activeList[i].new

\* A physical register is marked not ready exactly while the instruction that will write it
\* is in flight and unfinished: a stale bit would either wake a consumer early or never.
ReadyTracksProducer ==
  \A p \in Physical :
    ~registerReady[p] <=> \E i \in Writers : activeList[i].new = p /\ ~activeList[i].ready

\* No instruction finishes before the older one that produces its operand.
ProducersFinishFirst ==
  \A i \in DOMAIN activeList, j \in Writers :
    j < i /\ activeList[i].source = activeList[j].new /\ activeList[i].op # "store"
          /\ activeList[i].ready => activeList[j].ready

\* The register an instruction in flight reads is not given away before it retires: it is
\* neither free nor the destination of the instruction itself or of a younger one.
SourcesSurvive ==
  \A i \in DOMAIN activeList :
    LET source == activeList[i].source
    IN  source # 0 =>
          /\ \A k \in DOMAIN FreeRegisters : FreeRegisters[k] # source
          /\ \A j \in Writers : j >= i => activeList[j].new # source

\* The oldest instruction never waits for an operand: no wake-up is lost, so no set of
\* renames, results and recoveries can leave the active list waiting for itself.
OldestNeverWaits == activeList # <<>> /\ ~Oldest.ready => 1 \in Executable

\* No flushed entry comes back (architectural_report.md: all queues clear on flush): a load
\* that reaches WriteBack after the flush does not take the place of the instruction that the
\* decoder pushes into its slot in the same cycle.  set_ready rewrites the whole entry from a
\* read made before the flush, so this rests on which of the two writes is kept.
FlushedEntriesStayOut ==
  [][\A l \in lateLoad : activeList' # <<>> => activeList'[1] # Revived(l)]_vars
=============================================================================
