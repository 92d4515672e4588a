------------------------------ MODULE OutOfOrder ------------------------------
(***************************************************************************)
(* The back end with its data: Renaming composed with the two issue        *)
(* queues, the scheduler, the ALU, the store buffer, the LSU, write-back,  *)
(* the physical register file and the memory.  One step is one clock cycle;*)
(* a unit runs in the cycle after it is called.                            *)
(*                                                                         *)
(* In Renaming any set of entries whose operand is ready may finish; here  *)
(* the units decide, and every cycle is one of Renaming's (ImplementsRenaming).  *)
(* Retirement makes the committed registers and the memory those of the    *)
(* in-order machine (RetiresInOrder).                                      *)
(***************************************************************************)
EXTENDS Naturals, Sequences, FiniteSets

CONSTANTS
  RegisterNumber, LogicalNumber, ActiveListDepth,
  Word,             \* the number of words, 2^32 in the code; also the number of addresses
  Instructions

VARIABLES
  freeList, snapshotHead, specTable, commitTable, registerReady,
  activeList, activeHead, speculating, lateLoad,
  fetched,          \* the instruction at each entry's ROBEntryType.pc
  aluQueue,         \* ALUQueue.queue, oldest entry first
  lsq,              \* LSQ.queue, oldest entry first
  storeBuffer,      \* StoreBuffer.reg: at most one entry
  alu, lsu,         \* the entries ALU and LSU were called with in the previous cycle
  writeBack,        \* the load WriteBack was called with, and the memory's dout
  registerFile,     \* physical_register_file
  memory

renamingVars == <<freeList, snapshotHead, specTable, commitTable, registerReady,
                  activeList, activeHead, speculating, lateLoad>>
vars == <<renamingVars, fetched, aluQueue, lsq, storeBuffer, alu, lsu, writeBack,
          registerFile, memory>>

Words == 0 .. Word - 1
Physical == 0 .. RegisterNumber - 1
Logical == 0 .. LogicalNumber - 1

Instruction ==
  [op : {"alu", "load", "branch", "store", "unmatched"}, dest : Logical,
   source : Logical, data : Logical, imm : Words]

Bubble == [op |-> "bubble", dest |-> 0, source |-> 0, data |-> 0, imm |-> 0]

\* What renaming sees of an instruction.  A word no pattern of instruction.py matches has no
\* destination and goes to the LSQ, as a load to x0 would.
Renamed(ins) == [op |-> IF ins.op = "unmatched" THEN "load" ELSE ins.op,
                 dest |-> ins.dest, source |-> ins.source]

R == INSTANCE Renaming WITH
       Instructions <- {Renamed(ins) : ins \in Instructions}, SetReadyWins <- FALSE

\* As in Renaming.
ASSUME RegisterNumberAssumption ==
  RegisterNumber \in Nat /\ \E k \in 1 .. RegisterNumber : RegisterNumber = 2^k
ASSUME LogicalNumberAssumption == LogicalNumber \in Nat \ {0}
ASSUME ActiveListDepthAssumption == ActiveListDepth \in Nat \ {0}
ASSUME EnoughRegisters == (LogicalNumber - 1) + ActiveListDepth <= RegisterNumber - 1
ASSUME WordAssumption == Word \in Nat \ {0}
ASSUME InstructionsAssumption ==
  /\ Instructions \subseteq Instruction
  /\ \A ins \in Instructions : ins.op \notin {"alu", "load"} => ins.dest = 0

-----------------------------------------------------------------------------
(* Commit: which queue the retiring instruction leaves. *)

IsAlu(op) == op \in {"alu", "branch"}
AluPop == R!Retires /\ IsAlu(R!Oldest.op)

\* Mutant: only a store leaves the LSQ.
MemPopStores == R!Retires /\ R!Oldest.op = "store"

MemPop == R!Retires /\ ~IsAlu(R!Oldest.op)

-----------------------------------------------------------------------------
(* Decode: one entry for the active list and one for a queue. *)

Decodes == {Bubble} \cup {ins \in Instructions : R!Decodable(Renamed(ins))}

\* active_list.build returns the slot it pushes to.
ActiveListIdx == R!SlotOf(Len(activeList) + 1)

QueueEntry(ins) ==
  [op |-> ins.op, slot |-> ActiveListIdx, rd |-> R!Allocated(ins), imm |-> ins.imm,
   rs1 |-> specTable[ins.source], rs2 |-> specTable[ins.data], issued |-> FALSE]

\* One cycle of a queue: mark_issued, pop, push; clear prevails.
QueueBuild(queue, issued, pop, push, ins) ==
  LET marked == [i \in DOMAIN queue |->
                   IF i \in issued THEN [queue[i] EXCEPT !.issued = TRUE] ELSE queue[i]]
      kept   == IF pop THEN Tail(marked) ELSE marked
  IN  IF R!FlushRecover THEN <<>> ELSE IF push THEN Append(kept, QueueEntry(ins)) ELSE kept

-----------------------------------------------------------------------------
(* The scheduler: per queue the first entry whose operands are ready. *)

First(candidates) == {i \in candidates : \A j \in candidates : i <= j}

\* Mutant: operands are not waited for.
AluCandidatesUnready == {i \in DOMAIN aluQueue : ~aluQueue[i].issued}

AluCandidates == {i \in DOMAIN aluQueue : ~aluQueue[i].issued /\ registerReady[aluQueue[i].rs1]}

\* Mutant: the store right before a load is overlooked.
AnyStoreWellBefore(i) == \E j \in 1 .. i - 2 : lsq[j].op = "store"

\* A load waits for the older stores in the queue; stores are never selected.
AnyStoreBefore(i) == \E j \in 1 .. i - 1 : lsq[j].op = "store"
LsqCandidates ==
  {i \in DOMAIN lsq : /\ ~lsq[i].issued /\ registerReady[lsq[i].rs1]
                      /\ lsq[i].op # "store" /\ ~AnyStoreBefore(i)}

IssuesAlu == IF R!FlushRecover THEN {} ELSE First(AluCandidates)

\* Mutant: a committed store does not go first.
IssuesLsqBesideStore == IF R!FlushRecover THEN {} ELSE First(LsqCandidates)

\* The LSU has one port, and a committed store goes first.
IssuesLsq == IF R!FlushRecover \/ storeBuffer # {} THEN {} ELSE First(LsqCandidates)

LsuCall == storeBuffer \cup {lsq[i] : i \in IssuesLsq}

-----------------------------------------------------------------------------
(* The units. *)

\* Mutant: the scheduler does not take the store out.
StoreBufferKept ==
  storeBuffer' = IF MemPop /\ Head(lsq).op = "store" THEN {Head(lsq)} ELSE storeBuffer

\* A retiring store is put into the buffer; an entry the scheduler sees there is taken out.
StoreBufferBuild ==
  storeBuffer' = IF MemPop /\ Head(lsq).op = "store" THEN {Head(lsq)} ELSE {}

Address(w) == (registerFile[w.rs1] + w.imm) % Word

MemoryBuild ==
  memory' = [a \in Words |->
               IF \E w \in lsu : w.op = "store" /\ Address(w) = a
                 THEN registerFile[(CHOOSE w \in lsu : TRUE).rs2] ELSE memory[a]]

\* Only a load gives write-back something to do.
LsuBuild ==
  writeBack' = {[rd |-> w.rd, slot |-> w.slot, value |-> memory[Address(w)]] :
                  w \in {v \in lsu : v.op = "load"}}

\* The ALU does not write register 0; write-back does not ask.
AluResults ==
  {[rd |-> w.rd, value |-> (registerFile[w.rs1] + w.imm) % Word] : w \in {v \in alu : v.rd # 0}}
LoadResults == {[rd |-> w.rd, value |-> w.value] : w \in writeBack}

RegisterFileBuild ==
  registerFile' = [p \in Physical |->
                     LET results == {r \in AluResults \cup LoadResults : r.rd = p}
                     IN  IF results = {} THEN registerFile[p]
                         ELSE (CHOOSE r \in results : TRUE).value]

RegisterReadyBuild(ins) ==
  registerReady' = [p \in Physical |->
                      \/ R!FlushRecover
                      \/ /\ ~(R!HasDest(ins) /\ p = R!Allocated(ins))
                         /\ registerReady[p] \/ \E r \in AluResults \cup LoadResults : r.rd = p]

\* Entries on which set_ready is called.
Delivered == {i \in DOMAIN activeList : R!SlotOf(i) \in {w.slot : w \in alu \cup writeBack}}

\* A load in the LSU when a branch mispredicts is not cancelled.
LateLoadBuild ==
  lateLoad' = IF ~R!FlushRecover THEN {}
              ELSE {[slot |-> R!SlotOf(i), entry |-> activeList[i]] :
                      i \in {j \in DOMAIN activeList :
                               \E w \in lsu : w.op = "load" /\ w.slot = R!SlotOf(j)}}

FetchedBuild(ins) ==
  LET kept == IF R!Retires THEN Tail(fetched) ELSE fetched
  IN  fetched' = IF R!FlushRecover THEN <<>>
                 ELSE IF ins = Bubble THEN kept ELSE Append(kept, ins)

-----------------------------------------------------------------------------
Cycle(ins, wrong) ==
  /\ R!FreeListBuild(Renamed(ins))
  /\ R!MapTableBuild(Renamed(ins))
  /\ R!SpeculationStateBuild(Renamed(ins))
  /\ R!ActiveListBuild(Renamed(ins), Delivered, wrong)
  /\ RegisterReadyBuild(ins)
  /\ LateLoadBuild
  /\ FetchedBuild(ins)
  /\ aluQueue' = QueueBuild(aluQueue, IssuesAlu, AluPop, IsAlu(ins.op), ins)
  /\ lsq' = QueueBuild(lsq, IssuesLsq, MemPop, ins # Bubble /\ ~IsAlu(ins.op), ins)
  /\ alu' = {aluQueue[i] : i \in IssuesAlu}
  /\ lsu' = LsuCall
  /\ StoreBufferBuild
  /\ MemoryBuild
  /\ LsuBuild
  /\ RegisterFileBuild

Init ==
  /\ R!Init
  /\ fetched = <<>> /\ aluQueue = <<>> /\ lsq = <<>>
  /\ storeBuffer = {} /\ alu = {} /\ lsu = {} /\ writeBack = {}
  /\ registerFile = [p \in Physical |-> 0]
  /\ memory = [a \in Words |-> 0]

Next == \E ins \in Decodes, wrong \in BOOLEAN : Cycle(ins, wrong)

\* The clock never stops.
Spec == Init /\ [][Next]_vars /\ WF_vars(Next)

-----------------------------------------------------------------------------
(* Properties. *)

Entry == [op : {"alu", "load", "branch", "store", "unmatched"}, slot : 0 .. ActiveListDepth - 1,
          rd : Physical, imm : Words, rs1 : Physical, rs2 : Physical, issued : BOOLEAN]

TypeOK ==
  /\ fetched \in Seq(Instruction) /\ Len(fetched) = Len(activeList)
  /\ aluQueue \in Seq(Entry) /\ lsq \in Seq(Entry)
  /\ \A port \in {storeBuffer, alu, lsu} : port \subseteq Entry /\ Cardinality(port) <= 1
  /\ Cardinality(writeBack) <= 1
  /\ writeBack \subseteq [rd : Physical, slot : 0 .. ActiveListDepth - 1, value : Words]
  /\ registerFile \in [Physical -> Words]
  /\ memory \in [Words -> Words]

SlotsOf(queue) == [i \in DOMAIN queue |-> queue[i].slot]
Positions(isAlu) == {i \in DOMAIN activeList : IsAlu(activeList[i].op) = isAlu}

\* Slot i of `queue' holds the i-th instruction of its kind in the active list, issued or not.
Mirrors(queue, isAlu) ==
  /\ Len(queue) = Cardinality(Positions(isAlu))
  /\ \A p \in Positions(isAlu) :
       queue[Cardinality({q \in Positions(isAlu) : q <= p})].slot = R!SlotOf(p)

\* Both queues together hold the active list, in its order: neither can be full when it is
\* not, although decoder.py only asks the active list, and the entry commit pops from the
\* head of a queue is the retiring instruction.
QueuesMirrorActiveList == Mirrors(aluQueue, TRUE) /\ Mirrors(lsq, FALSE)

\* The in-order machine's view: the committed registers, and the memory once the committed
\* stores on their way to it have been carried out, the one in the LSU first.
Stored(m, port) ==
  [a \in Words |-> IF \E w \in port : w.op = "store" /\ Address(w) = a
                     THEN registerFile[(CHOOSE w \in port : TRUE).rs2] ELSE m[a]]
ArchRegs == [l \in Logical |-> registerFile[commitTable[l]]]
ArchMemory == Stored(Stored(memory, lsu), storeBuffer)

I == INSTANCE InOrder WITH regs <- ArchRegs, memory <- ArchMemory

\* Each retirement changes the committed registers and the memory exactly as executing that
\* instruction in program order does, and nothing else changes them: whatever was executed
\* out of order, on a wrong path, or reached the memory cycles after its retirement.
RetiresInOrder ==
  I!Init /\ [][IF R!Retires THEN I!Execute(fetched[1])
               ELSE UNCHANGED <<ArchRegs, ArchMemory>>]_vars

\* With the units' own latencies, while older instructions retire and push to the same ring,
\* the slots behind the snapshot still hold the registers handed out on the wrong path.
WrongPathCanBeGivenBack == R!SnapshotCoversWrongPath

\* Every cycle of the units is one of Renaming: they finish only instructions whose operand
\* is ready, and at most one flushed load comes late.
ImplementsRenaming == R!Spec

\* Physical register 0, which stands for every logical register never written, stays zero
\* (commit.py: "physical register 0 is reserved").
RegisterZeroIsZero == registerFile[0] = 0

\* The processor retires again and again until nothing is in flight, unless the oldest
\* instruction is a word no pattern of instruction.py matches, as FENCE is one: the code waits
\* for it for ever.  Nothing else stops it, not the queues, the units or the store buffer.
Progress == []<>(activeList = <<>> \/ R!Retires \/ fetched[1].op = "unmatched")
=============================================================================
