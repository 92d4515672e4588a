-------------------------- MODULE OutOfOrder_proofs --------------------------
(*************************************************************************)
(* The units of OutOfOrder implement Renaming; and its retirements are,  *)
(* in order, what InOrder does.                                          *)
(*************************************************************************)
EXTENDS OutOfOrder, FiniteSetTheorems, SequenceTheorems, TLAPS

\* The theorems about Renaming, for what OutOfOrder instantiates.
P == INSTANCE Renaming_proofs WITH
       Instructions <- {Renamed(ins) : ins \in Instructions}, SetReadyWins <- FALSE

-----------------------------------------------------------------------------
(* What is taken over from there. *)

LEMMA RenamedIs ==
  ASSUME NEW ins \in Instructions
  PROVE  /\ Renamed(ins) \in P!Instruction
         /\ ins \in Instruction /\ ins # Bubble
         /\ Renamed(ins).dest = ins.dest /\ Renamed(ins).source = ins.source
         /\ Renamed(ins).op = IF ins.op = "unmatched" THEN "load" ELSE ins.op
         /\ Renamed(ins) # P!Bubble
<1>1. ins \in Instruction /\ (ins.op \notin {"alu", "load"} => ins.dest = 0)
  BY InstructionsAssumption
<1> QED BY <1>1 DEF Instruction, Renamed, P!Instruction, Bubble, P!Bubble, Logical, P!Logical

LEMMA Assumptions ==
  /\ P!RegisterNumberAssumption /\ P!LogicalNumberAssumption /\ P!ActiveListDepthAssumption
  /\ P!InstructionsAssumption /\ P!SetReadyWinsAssumption /\ P!EnoughRegisters
<1>1. P!InstructionsAssumption
  BY RenamedIs DEF P!InstructionsAssumption
<1> QED
  BY <1>1, RegisterNumberAssumption, LogicalNumberAssumption, ActiveListDepthAssumption,
     EnoughRegisters
     DEF P!RegisterNumberAssumption, P!LogicalNumberAssumption, P!ActiveListDepthAssumption,
         P!SetReadyWinsAssumption, P!EnoughRegisters

\* The two instances of Renaming say the same.
LEMMA SameOutputs ==
  /\ R!Retires <=> P!Retires
  /\ R!FlushRecover <=> P!FlushRecover
  /\ R!WritesCommit <=> P!WritesCommit
  /\ R!Executable = P!Executable
  /\ R!LoadsInFlight = P!LoadsInFlight
  /\ \A i : R!SlotOf(i) = P!SlotOf(i)
  /\ \A ins : R!HasDest(ins) <=> P!HasDest(ins)
  /\ \A ins : R!Allocated(ins) = P!Allocated(ins)
  /\ \A ins : R!NewEntry(ins) = P!NewEntry(ins)
<1>1. R!Retires <=> P!Retires
  BY DEF R!Retires, P!Retires, R!Oldest, P!Oldest
<1>2. R!FlushRecover <=> P!FlushRecover
  BY <1>1 DEF R!FlushRecover, P!FlushRecover, R!Oldest, P!Oldest
<1>3. \A ins : R!HasDest(ins) <=> P!HasDest(ins)
  BY DEF R!HasDest, P!HasDest
<1>4. R!WritesCommit <=> P!WritesCommit
  BY <1>1 DEF R!WritesCommit, P!WritesCommit, R!Oldest, P!Oldest, R!HasDest, P!HasDest
<1>5. R!Executable = P!Executable
  BY DEF R!Executable, P!Executable, R!Unfinished, P!Unfinished
<1>6. \A i : R!SlotOf(i) = P!SlotOf(i)
  BY DEF R!SlotOf, P!SlotOf, R!ActiveRing!Advance, P!ActiveRing!Advance
<1>7. R!LoadsInFlight = P!LoadsInFlight
  BY <1>5, <1>6 DEF R!LoadsInFlight, P!LoadsInFlight
<1>8. \A ins : R!Allocated(ins) = P!Allocated(ins)
  BY <1>3 DEF R!Allocated, P!Allocated, R!FreeRing!Front, P!FreeRing!Front
<1>9. \A ins : R!NewEntry(ins) = P!NewEntry(ins)
  BY <1>3, <1>8 DEF R!NewEntry, P!NewEntry, R!Replaced, P!Replaced, R!Operand, P!Operand
<1> QED BY <1>1, <1>2, <1>3, <1>4, <1>5, <1>6, <1>7, <1>8, <1>9

LEMMA SameStages ==
  ASSUME NEW ins, NEW done, NEW wrong
  PROVE  /\ R!FreeListBuild(ins) <=> P!FreeListBuild(ins)
         /\ R!MapTableBuild(ins) <=> P!MapTableBuild(ins)
         /\ R!RegisterReadyBuild(ins, done) <=> P!RegisterReadyBuild(ins, done)
         /\ R!SpeculationStateBuild(ins) <=> P!SpeculationStateBuild(ins)
         /\ R!ActiveListBuild(ins, done, wrong) <=> P!ActiveListBuild(ins, done, wrong)
<1>1. R!FreeListBuild(ins) <=> P!FreeListBuild(ins)
  BY SameOutputs
     DEF R!FreeListBuild, P!FreeListBuild, R!Recovered, P!Recovered, R!FreeRing!Distance,
         P!FreeRing!Distance, R!FreeListDepth, P!FreeListDepth, R!NextSnapshot, P!NextSnapshot,
         R!PushesFree, P!PushesFree, R!Oldest, P!Oldest, R!Freed, P!Freed,
         R!FreeRing!Operate, P!FreeRing!Operate, R!FreeRing!Increment, P!FreeRing!Increment
<1>2. R!MapTableBuild(ins) <=> P!MapTableBuild(ins)
  BY SameOutputs DEF R!MapTableBuild, P!MapTableBuild, R!Oldest, P!Oldest, R!Renames, P!Renames
<1>3. R!RegisterReadyBuild(ins, done) <=> P!RegisterReadyBuild(ins, done)
  BY SameOutputs DEF R!RegisterReadyBuild, P!RegisterReadyBuild, R!NextReady, P!NextReady,
                     R!Results, P!Results, R!Physical, P!Physical
<1>4. R!SpeculationStateBuild(ins) <=> P!SpeculationStateBuild(ins)
  BY SameOutputs DEF R!SpeculationStateBuild, P!SpeculationStateBuild, R!Oldest, P!Oldest
<1>5. R!Finished(done, wrong) = P!Finished(done, wrong)
  BY DEF R!Finished, P!Finished
<1>6. R!Pushed(ins) = P!Pushed(ins)
  BY SameOutputs DEF R!Pushed, P!Pushed
<1>7. R!ActiveRing!Increment(activeHead) = P!ActiveRing!Increment(activeHead)
  BY DEF R!ActiveRing!Increment, P!ActiveRing!Increment
<1>8. R!ActiveListBuild(ins, done, wrong) <=> P!ActiveListBuild(ins, done, wrong)
  BY <1>5, <1>6, <1>7, SameOutputs
     DEF R!ActiveListBuild, P!ActiveListBuild, R!Bubble, P!Bubble
<1> QED BY <1>1, <1>2, <1>3, <1>4, <1>8

LEMMA SameCycle ==
  ASSUME NEW ins, NEW done, NEW wrong
  PROVE  R!Cycle(ins, done, wrong) <=> P!Cycle(ins, done, wrong)
BY SameStages DEF R!Cycle, P!Cycle

LEMMA SameDecodes == R!Decodes = P!Decodes
BY DEF R!Decodes, P!Decodes, R!Decodable, P!Decodable, R!Bubble, P!Bubble

LEMMA SameNext ==
  /\ R!Next <=> P!Next
  /\ R!vars = P!vars
<1>1. ASSUME NEW ins, NEW done, NEW wrong
      PROVE  /\ R!Idle(ins, done, wrong) <=> P!Idle(ins, done, wrong)
             /\ R!Retire(ins, done, wrong) <=> P!Retire(ins, done, wrong)
  BY SameCycle, SameOutputs DEF R!Idle, P!Idle, R!Retire, P!Retire
<1>2. ASSUME NEW ins
      PROVE  R!Recover(ins) <=> P!Recover(ins)
  BY SameCycle, SameOutputs DEF R!Recover, P!Recover
<1> QED BY <1>1, <1>2, SameDecodes, SameOutputs DEF R!Next, P!Next, R!vars, P!vars

LEMMA SameInit == R!Init <=> P!Init
BY DEF R!Init, P!Init, R!FreeListDepth, P!FreeListDepth, R!Logical, P!Logical, R!Physical, P!Physical

\* The invariant of Renaming is one of Renaming's steps inside OutOfOrder.
LEMMA ReadyInit == R!Init => P!RInv
BY SameInit, Assumptions, P!ReadyInit

LEMMA ReadyNext ==
  ASSUME P!RInv, R!Next
  PROVE  P!RInv'
<1>1. P!Next
  BY SameNext
<1> QED BY <1>1, Assumptions, P!ReadyNext

\* What that invariant says of the active list and of the registers.
LEMMA ListIs ==
  ASSUME P!RInv
  PROVE  /\ R!TypeOK
         /\ Len(activeList) \in Nat /\ Len(activeList) <= ActiveListDepth
         /\ DOMAIN activeList = 1 .. Len(activeList)
         /\ \A i \in DOMAIN activeList :
              /\ activeList[i] \in R!Entry
              /\ activeList[i].new = 0 <=> activeList[i].dest = 0
         /\ \A i, j \in DOMAIN activeList :
              activeList[i].dest # 0 /\ activeList[i].new = activeList[j].new => i = j
         /\ lateLoad # {} => activeList = <<>>
<1>1. R!TypeOK <=> P!TypeOK
  BY DEF R!TypeOK, P!TypeOK, R!FreeRing!Queues, P!FreeRing!Queues, R!FreeRing!Slots,
         P!FreeRing!Slots, R!FreeListDepth, P!FreeListDepth, R!Logical, P!Logical,
         R!Physical, P!Physical, R!Entry, P!Entry
<1>2. P!IInv /\ P!TypeOK /\ P!NoDestNoRegister /\ P!LateLoadAlone
  BY DEF P!RInv, P!IInv
<1>3. R!TypeOK /\ activeList \in Seq(R!Entry) /\ Len(activeList) <= ActiveListDepth
  BY <1>1, <1>2 DEF R!TypeOK
<1>4. /\ \A i \in P!Writers : activeList[i].new # 0
      /\ \A i, j \in P!Writers : activeList[i].new = activeList[j].new => i = j
  BY <1>2, Assumptions, P!WritersDiffer
<1>5. P!Writers = {i \in DOMAIN activeList : activeList[i].dest # 0}
  BY DEF P!Writers, P!HasDest
<1>6. \A i \in DOMAIN activeList : activeList[i].new = 0 <=> activeList[i].dest = 0
  BY <1>2, <1>4, <1>5 DEF P!NoDestNoRegister, P!HasDest
<1>7. \A i, j \in DOMAIN activeList :
        activeList[i].dest # 0 /\ activeList[i].new = activeList[j].new => i = j
  BY <1>4, <1>5, <1>6
<1> QED BY <1>2, <1>3, <1>6, <1>7 DEF P!LateLoadAlone

LEMMA RegistersAre ==
  ASSUME P!RInv
  PROVE  /\ \A p \in Physical : ~registerReady[p] <=>
              \E i \in DOMAIN activeList :
                activeList[i].dest # 0 /\ activeList[i].new = p /\ ~activeList[i].ready
         /\ \A i, j \in DOMAIN activeList :
              activeList[i].source # 0 /\ activeList[j].dest # 0 /\ j >= i =>
                activeList[j].new # activeList[i].source
<1>1. P!ReadyTracksProducer /\ P!SourcesSurvive
  BY Assumptions, P!SourcesOwned DEF P!RInv
<1> QED BY <1>1 DEF P!ReadyTracksProducer, P!SourcesSurvive, P!Writers, P!HasDest, P!Physical,
                    Physical

\* The same after a step.
ListFacts ==
  /\ activeHead \in 0 .. ActiveListDepth - 1
  /\ Len(activeList) \in Nat /\ Len(activeList) <= ActiveListDepth
  /\ DOMAIN activeList = 1 .. Len(activeList)
  /\ \A i \in DOMAIN activeList :
       /\ activeList[i].op \in {"alu", "load", "branch", "store"}
       /\ activeList[i].new \in Physical /\ activeList[i].source \in Physical
       /\ activeList[i].new = 0 <=> activeList[i].dest = 0

RegisterFacts ==
  /\ \A p \in Physical : ~registerReady[p] <=>
       \E i \in DOMAIN activeList :
         activeList[i].dest # 0 /\ activeList[i].new = p /\ ~activeList[i].ready
  /\ \A i, j \in DOMAIN activeList :
       activeList[i].source # 0 /\ activeList[j].dest # 0 /\ j >= i =>
         activeList[j].new # activeList[i].source

LEMMA FactsHold == P!RInv => ListFacts /\ RegisterFacts
<1> SUFFICES ASSUME P!RInv PROVE ListFacts /\ RegisterFacts
  OBVIOUS
<1>1. RegisterFacts
  BY RegistersAre DEF RegisterFacts
<1>2. ListFacts
  BY ListIs DEF ListFacts, R!TypeOK, R!Entry, R!Physical, Physical
<1> QED BY <1>1, <1>2

LEMMA FactsNext == P!RInv' => ListFacts' /\ RegisterFacts'
BY FactsHold, PTL

-----------------------------------------------------------------------------
(* Slots. *)

\* The slot of position i when the head is at `head'.
SlotAt(head, i) == R!ActiveRing!Advance(head, i - 1)

LEMMA SlotsDiffer ==
  ASSUME NEW head \in 0 .. ActiveListDepth - 1
  PROVE  /\ \A i \in 1 .. ActiveListDepth : SlotAt(head, i) \in 0 .. ActiveListDepth - 1
         /\ \A i, j \in 1 .. ActiveListDepth : SlotAt(head, i) = SlotAt(head, j) => i = j
         /\ R!ActiveRing!Increment(head) \in 0 .. ActiveListDepth - 1
         /\ \A i \in 1 .. ActiveListDepth - 1 :
              SlotAt(R!ActiveRing!Increment(head), i) = SlotAt(head, i + 1)
BY ActiveListDepthAssumption DEF SlotAt, R!ActiveRing!Advance, R!ActiveRing!Increment

-----------------------------------------------------------------------------
(* What a cycle makes of the active list. *)

\* What the decoder does in the cycle.
Decoding(ins) == ins \in Decodes /\ \E wrong \in BOOLEAN : Cycle(ins, wrong)

LEMMA DecodesAre ==
  ASSUME NEW ins \in Decodes
  PROVE  /\ Renamed(ins) \in P!Decodes
         /\ Renamed(ins).dest = ins.dest /\ Renamed(ins).source = ins.source
         /\ Renamed(ins).op = IF ins.op = "unmatched" THEN "load" ELSE ins.op
         /\ Renamed(ins) = P!Bubble <=> ins = Bubble
         /\ Renamed(ins) = R!Bubble <=> ins = Bubble
         /\ ins # Bubble => ins \in Instructions
<1>1. CASE ins = Bubble
  BY <1>1 DEF P!Decodes, Renamed, Bubble, P!Bubble, R!Bubble
<1>2. CASE ins # Bubble
  <2>1. ins \in Instructions /\ R!Decodable(Renamed(ins))
    BY <1>2 DEF Decodes
  <2>2. R!Bubble = P!Bubble
    BY DEF R!Bubble, P!Bubble
  <2> QED BY <1>2, <2>1, <2>2, RenamedIs DEF P!Decodes, P!Decodable, R!Decodable
<1> QED BY <1>1, <1>2

\* How many entries retire.
Shift == IF R!Retires THEN 1 ELSE 0

LEMMA ListAfter ==
  ASSUME P!RInv, ~R!FlushRecover, NEW ins, Decoding(ins)
  PROVE  /\ Shift \in {0, 1} /\ Shift <= Len(activeList)
         /\ Shift = 1 => activeList[1].ready
         /\ Len(activeList') = IF ins = Bubble THEN Len(activeList) - Shift
                               ELSE Len(activeList) - Shift + 1
         /\ DOMAIN activeList' = 1 .. Len(activeList')
         /\ \A i \in 1 .. Len(activeList) - Shift :
              /\ i + Shift \in DOMAIN activeList
              /\ activeList'[i].op = activeList[i + Shift].op
              /\ activeList'[i].dest = activeList[i + Shift].dest
              /\ activeList'[i].new = activeList[i + Shift].new
              /\ activeList'[i].source = activeList[i + Shift].source
              /\ activeList'[i].ready <=> activeList[i + Shift].ready \/ i + Shift \in Delivered
              /\ SlotAt(activeHead', i) = SlotAt(activeHead, i + Shift)
         /\ ins # Bubble =>
              /\ Len(activeList) < ActiveListDepth
              /\ SlotAt(activeHead', Len(activeList) - Shift + 1) = ActiveListIdx
              /\ activeList'[Len(activeList) - Shift + 1] = R!NewEntry(Renamed(ins))
<1>1. PICK wrong \in BOOLEAN : Cycle(ins, wrong)
  BY DEF Decoding
<1>2. P!TypeOK /\ ~P!FlushRecover /\ P!ActiveListBuild(Renamed(ins), Delivered, wrong)
  BY <1>1, SameStages, SameOutputs DEF Cycle, P!RInv, P!IInv
<1>3. Renamed(ins) \in P!Decodes /\ (Renamed(ins) = P!Bubble <=> ins = Bubble)
  BY DecodesAre DEF Decoding
<1>4. PICK r : r = IF P!Retires THEN 1 ELSE 0
  OBVIOUS
<1>5. /\ r \in Nat /\ r <= Len(activeList) /\ Len(activeList) \in Nat
      /\ activeList' \in Seq(P!Entry) /\ DOMAIN activeList' = 1 .. Len(activeList')
      /\ Len(activeList') = IF Renamed(ins) = P!Bubble THEN Len(activeList) - r
                            ELSE Len(activeList) - r + 1
      /\ \A i \in 1 .. Len(activeList) - r :
           /\ i + r \in DOMAIN activeList
           /\ P!Decoded(activeList'[i]) = P!Decoded(activeList[i + r])
           /\ activeList'[i].ready <=> activeList[i + r].ready \/ i + r \in Delivered
      /\ Renamed(ins) # P!Bubble =>
           activeList'[Len(activeList) - r + 1] = P!NewEntry(Renamed(ins))
  BY <1>2, <1>3, <1>4, Assumptions, P!EntriesAfter
<1>6. r = Shift /\ Shift \in {0, 1}
  BY <1>4, SameOutputs DEF Shift
<1>7. Shift = 1 => activeList[1].ready
  <2>1. activeList \in Seq(R!Entry)
    BY ListIs DEF R!TypeOK
  <2> QED BY <2>1 DEF Shift, R!Retires, R!Oldest
<1>8. Len(activeList) <= ActiveListDepth /\ activeHead \in 0 .. ActiveListDepth - 1
  BY ListIs DEF R!TypeOK
<1>9. activeHead' = IF R!Retires THEN R!ActiveRing!Increment(activeHead) ELSE activeHead
  BY <1>1 DEF Cycle, R!ActiveListBuild
<1>10. \A i \in 1 .. ActiveListDepth :
         i + Shift <= ActiveListDepth => SlotAt(activeHead', i) = SlotAt(activeHead, i + Shift)
  <2>1. CASE R!Retires
    <3>1. Shift = 1 /\ activeHead' = R!ActiveRing!Increment(activeHead)
      BY <1>9, <2>1 DEF Shift
    <3>2. \A i \in 1 .. ActiveListDepth - 1 :
            SlotAt(R!ActiveRing!Increment(activeHead), i) = SlotAt(activeHead, i + 1)
      BY <1>8, SlotsDiffer
    <3>3. \A i \in 1 .. ActiveListDepth : i + 1 <= ActiveListDepth => i \in 1 .. ActiveListDepth - 1
      BY ActiveListDepthAssumption
    <3> QED BY <3>1, <3>2, <3>3
  <2>2. CASE ~R!Retires
    <3>1. Shift = 0 /\ activeHead' = activeHead
      BY <1>9, <2>2 DEF Shift
    <3> QED BY <3>1, ActiveListDepthAssumption
  <2> QED BY <2>1, <2>2
<1>11. ins # Bubble =>
         /\ Len(activeList) < ActiveListDepth
         /\ SlotAt(activeHead', Len(activeList) - Shift + 1) = ActiveListIdx
  <2> SUFFICES ASSUME ins # Bubble
               PROVE  /\ Len(activeList) < ActiveListDepth
                      /\ SlotAt(activeHead', Len(activeList) - Shift + 1) = ActiveListIdx
    OBVIOUS
  <2>1. Len(activeList) < ActiveListDepth
    BY DEF Decoding, Decodes, R!Decodable
  <2>2. ActiveListIdx = SlotAt(activeHead, Len(activeList) + 1)
    BY DEF ActiveListIdx, R!SlotOf, SlotAt
  <2>3. /\ Len(activeList) - Shift + 1 \in 1 .. ActiveListDepth
        /\ (Len(activeList) - Shift + 1) + Shift = Len(activeList) + 1
        /\ Len(activeList) + 1 <= ActiveListDepth
    BY <1>5, <1>6, <1>8, <2>1, ActiveListDepthAssumption
  <2> QED BY <1>10, <2>1, <2>2, <2>3
<1>12. \A i \in 1 .. Len(activeList) - Shift :
         SlotAt(activeHead', i) = SlotAt(activeHead, i + Shift)
  BY <1>5, <1>6, <1>8, <1>10, ActiveListDepthAssumption
<1>13. ins # Bubble => activeList'[Len(activeList) - Shift + 1] = R!NewEntry(Renamed(ins))
  BY <1>3, <1>5, <1>6, SameOutputs
<1>14. Len(activeList') = IF ins = Bubble THEN Len(activeList) - Shift
                          ELSE Len(activeList) - Shift + 1
  BY <1>3, <1>5, <1>6
<1>15. \A i \in 1 .. Len(activeList) - Shift :
         /\ i + Shift \in DOMAIN activeList
         /\ activeList'[i].op = activeList[i + Shift].op
         /\ activeList'[i].dest = activeList[i + Shift].dest
         /\ activeList'[i].new = activeList[i + Shift].new
         /\ activeList'[i].source = activeList[i + Shift].source
         /\ activeList'[i].ready <=> activeList[i + Shift].ready \/ i + Shift \in Delivered
  BY <1>5, <1>6 DEF P!Decoded
<1> QED BY <1>5, <1>6, <1>7, <1>11, <1>12, <1>13, <1>14, <1>15

-----------------------------------------------------------------------------
(* A queue holds the entries of the active list with certain operations, in their order. *)

AluOps == {"alu", "branch"}
MemOps == {"load", "store"}

\* w is the queue's entry for position i of `list'.
Matches(w, list, head, i) ==
  /\ w.slot = SlotAt(head, i)
  /\ w.rd = list[i].new /\ w.rs1 = list[i].source
  /\ list[i].op = IF w.op = "unmatched" THEN "load" ELSE w.op

\* pos says where in `list' each entry of `queue' is.
Places(pos, queue, list, head, ops) ==
  /\ pos \in [DOMAIN queue -> DOMAIN list]
  /\ \A j, k \in DOMAIN queue : j < k => pos[j] < pos[k]
  /\ \A k \in DOMAIN queue : Matches(queue[k], list, head, pos[k])
  /\ \A k \in DOMAIN queue : list[pos[k]].op \in ops
  /\ \A i \in DOMAIN list : list[i].op \in ops => \E k \in DOMAIN queue : pos[k] = i

Linked(queue, list, head, ops) ==
  \E pos \in [DOMAIN queue -> DOMAIN list] : Places(pos, queue, list, head, ops)

\* The head of the queue is the oldest entry, if that has one of the operations.
LEMMA LinkedHead ==
  ASSUME NEW list, NEW n \in Nat \ {0}, DOMAIN list = 1 .. n,
         NEW queue, NEW m \in Nat, DOMAIN queue = 1 .. m, NEW head, NEW ops,
         NEW pos, Places(pos, queue, list, head, ops), list[1].op \in ops
  PROVE  m >= 1 /\ pos[1] = 1
<1>1. PICK k \in 1 .. m : pos[k] = 1
  BY SMTT(30) DEF Places
<1>2. m >= 1 /\ 1 \in 1 .. m
  BY <1>1
<1>3. pos[1] \in 1 .. n
  BY <1>2 DEF Places
<1>4. k # 1 => pos[1] < 1
  BY SMTT(30), <1>1, <1>2 DEF Places
<1> QED BY <1>1, <1>2, <1>3, <1>4

\* The first r entries of the list, the first pop of the queue, leave.
ListMoves(list, head, n, r, list1, head1) ==
  \A i \in 1 .. n - r :
    /\ list1[i].op = list[i + r].op /\ list1[i].new = list[i + r].new
    /\ list1[i].source = list[i + r].source
    /\ SlotAt(head1, i) = SlotAt(head, i + r)
QueueMoves(queue, m, pop, queue1) ==
  \A k \in 1 .. m - pop :
    /\ queue1[k].slot = queue[k + pop].slot /\ queue1[k].rd = queue[k + pop].rd
    /\ queue1[k].rs1 = queue[k + pop].rs1 /\ queue1[k].op = queue[k + pop].op

\* One cycle: the oldest entry leaves list and queue, a new one enters both, each only the
\* queue that has its operation.
OneCycle(list, n, head, r, more, list1, n1, head1, ops, queue, m, pop, push, queue1, m1) ==
  /\ n \in Nat /\ DOMAIN list = 1 .. n /\ n1 \in Nat /\ DOMAIN list1 = 1 .. n1
  /\ r \in {0, 1} /\ r <= n /\ more \in {0, 1} /\ n1 = n - r + more
  /\ ListMoves(list, head, n, r, list1, head1)
  /\ m \in Nat /\ DOMAIN queue = 1 .. m /\ m1 \in Nat /\ DOMAIN queue1 = 1 .. m1
  /\ pop \in {0, 1} /\ pop = IF r = 1 /\ list[1].op \in ops THEN 1 ELSE 0
  /\ push \in {0, 1} /\ push = IF more = 1 /\ list1[n1].op \in ops THEN 1 ELSE 0
  /\ m1 = m - pop + push
  /\ QueueMoves(queue, m, pop, queue1)
  /\ push = 1 => Matches(queue1[m1], list1, head1, n1)

LEMMA LinkedStep ==
  ASSUME NEW list, NEW n, NEW head, NEW r, NEW more, NEW list1, NEW n1, NEW head1,
         NEW ops, NEW queue, NEW m, NEW pop, NEW push, NEW queue1, NEW m1,
         OneCycle(list, n, head, r, more, list1, n1, head1, ops, queue, m, pop, push, queue1, m1),
         Linked(queue, list, head, ops)
  PROVE  Linked(queue1, list1, head1, ops)
<1> USE DEF OneCycle
<1>0. PICK pos : Places(pos, queue, list, head, ops)
  BY DEF Linked
<1>1. /\ \A k \in 1 .. m : pos[k] \in 1 .. n
      /\ \A j, k \in 1 .. m : j < k => pos[j] < pos[k]
      /\ \A k \in 1 .. m : Matches(queue[k], list, head, pos[k]) /\ list[pos[k]].op \in ops
      /\ \A i \in 1 .. n : list[i].op \in ops => \E k \in 1 .. m : pos[k] = i
  BY <1>0 DEF Places
<1>14. /\ \A i \in 1 .. n - r :
            /\ list1[i].op = list[i + r].op /\ list1[i].new = list[i + r].new
            /\ list1[i].source = list[i + r].source
            /\ SlotAt(head1, i) = SlotAt(head, i + r)
       /\ \A k \in 1 .. m - pop :
            /\ queue1[k].slot = queue[k + pop].slot /\ queue1[k].rd = queue[k + pop].rd
            /\ queue1[k].rs1 = queue[k + pop].rs1 /\ queue1[k].op = queue[k + pop].op
  BY DEF ListMoves, QueueMoves
<1>2. pop = 1 => m >= 1 /\ pos[1] = 1
  <2>1. pop = 1 => n \in Nat \ {0} /\ list[1].op \in ops
    OBVIOUS
  <2> QED BY <1>0, <2>1, LinkedHead
<1>3. \A k \in 1 .. m - pop :
        /\ k + pop \in 1 .. m /\ pos[k + pop] \in 1 .. n /\ r < pos[k + pop]
        /\ pos[k + pop] - r \in 1 .. n - r /\ (pos[k + pop] - r) + r = pos[k + pop]
  <2> SUFFICES ASSUME NEW k \in 1 .. m - pop
               PROVE  /\ k + pop \in 1 .. m /\ pos[k + pop] \in 1 .. n /\ r < pos[k + pop]
                      /\ pos[k + pop] - r \in 1 .. n - r
                      /\ (pos[k + pop] - r) + r = pos[k + pop]
    OBVIOUS
  <2>1. k + pop \in 1 .. m
    OBVIOUS
  <2>2. pos[k + pop] \in 1 .. n
    BY <1>1, <2>1
  <2>3. r < pos[k + pop]
    <3>1. CASE pop = 1
      <4>1. 1 \in 1 .. m /\ 1 < k + pop
        BY <2>1, <3>1
      <4>2. pos[1] < pos[k + pop]
        BY <1>1, <2>1, <4>1
      <4> QED BY <1>2, <2>2, <3>1, <4>2
    <3>2. CASE pop = 0 /\ r = 1
      <4>1. list[1].op \notin ops
        BY <3>2
      <4>2. list[pos[k + pop]].op \in ops
        BY <1>1, <2>1
      <4> QED BY <2>2, <3>2, <4>1, <4>2
    <3>3. CASE pop = 0 /\ r = 0
      BY <2>2, <3>3
    <3> QED BY <3>1, <3>2, <3>3
  <2> QED BY SMTT(30), <2>1, <2>2, <2>3
<1> DEFINE new == [k \in 1 .. m1 |-> IF k <= m - pop THEN pos[k + pop] - r ELSE n1]
<1>4. ASSUME NEW k \in 1 .. m1
      PROVE  \/ k \in 1 .. m - pop /\ new[k] = pos[k + pop] - r
             \/ k = m1 /\ push = 1 /\ k = m - pop + 1 /\ new[k] = n1
  OBVIOUS
<1>5. push = 1 => more = 1 /\ n1 = n - r + 1 /\ n1 \in 1 .. n1 /\ list1[n1].op \in ops
  OBVIOUS
<1>6. \A i \in 1 .. n - r : i \in 1 .. n1 /\ i < n - r + 1
  OBVIOUS
<1> HIDE DEF new
<1>7. ASSUME NEW k \in 1 .. m1
      PROVE  new[k] \in 1 .. n1
  <2>1. CASE k \in 1 .. m - pop /\ new[k] = pos[k + pop] - r
    BY <1>3, <1>6, <2>1
  <2>2. CASE k = m1 /\ push = 1 /\ new[k] = n1
    BY <1>5, <2>2
  <2> QED BY <1>4, <2>1, <2>2
<1>8. ASSUME NEW j \in 1 .. m1, NEW k \in 1 .. m1, j < k
      PROVE  new[j] < new[k]
  <2>1. j \in 1 .. m - pop /\ new[j] = pos[j + pop] - r
    BY <1>4, <1>8
  <2>2. CASE k \in 1 .. m - pop /\ new[k] = pos[k + pop] - r
    <3>1. pos[j + pop] < pos[k + pop]
      <4>1. j + pop \in 1 .. m /\ k + pop \in 1 .. m /\ j + pop < k + pop
        BY SMTT(30), <1>3, <1>8, <2>1, <2>2
      <4> QED BY <1>1, <4>1
    <3>2. PICK x \in Nat : x = pos[j + pop]
      BY SMTT(30), <1>3, <2>1
    <3>3. PICK y \in Nat : y = pos[k + pop]
      BY SMTT(20), <1>3, <2>2
    <3> QED BY SMTT(20), <2>1, <2>2, <3>1, <3>2, <3>3
  <2>3. CASE k = m1 /\ push = 1 /\ new[k] = n1
    <3>1. new[j] \in 1 .. n - r
      BY <1>3, <2>1
    <3> QED BY SMTT(30), <1>5, <2>3, <3>1
  <2> QED BY <1>4, <2>2, <2>3
<1>9. ASSUME NEW k \in 1 .. m1
      PROVE  Matches(queue1[k], list1, head1, new[k]) /\ list1[new[k]].op \in ops
  <2>1. CASE k \in 1 .. m - pop /\ new[k] = pos[k + pop] - r
    <3>1. /\ k + pop \in 1 .. m /\ new[k] \in 1 .. n - r /\ new[k] + r = pos[k + pop]
      BY <1>3, <2>1
    <3>2. Matches(queue[k + pop], list, head, new[k] + r) /\ list[new[k] + r].op \in ops
      BY <1>1, <3>1
    <3>3. PICK i \in 1 .. n - r : i = new[k]
      BY <3>1
    <3>4. /\ list1[i].op = list[i + r].op /\ list1[i].new = list[i + r].new
          /\ list1[i].source = list[i + r].source /\ SlotAt(head1, i) = SlotAt(head, i + r)
      BY <1>14
    <3>5. /\ queue1[k].slot = queue[k + pop].slot /\ queue1[k].rd = queue[k + pop].rd
          /\ queue1[k].rs1 = queue[k + pop].rs1 /\ queue1[k].op = queue[k + pop].op
      BY <1>14, <2>1
    <3> QED BY ZenonT(60), <3>2, <3>3, <3>4, <3>5 DEF Matches
  <2>2. CASE k = m1 /\ push = 1 /\ new[k] = n1
    BY <1>5, <2>2
  <2> QED BY <1>4, <2>1, <2>2
<1>10. ASSUME NEW i \in 1 .. n1, list1[i].op \in ops
       PROVE  \E k \in 1 .. m1 : new[k] = i
  <2>1. CASE i \in 1 .. n - r
    <3>1. i + r \in 1 .. n /\ list[i + r].op \in ops
      BY SMTT(30), <1>10, <1>14, <2>1
    <3>2. PICK k \in 1 .. m : pos[k] = i + r
      BY <1>1, <3>1
    <3>3. pop = 1 => k # 1
      BY SMTT(30), <1>2, <2>1, <3>2
    <3>4. k - pop \in 1 .. m - pop /\ k - pop \in 1 .. m1 /\ (k - pop) + pop = k
      BY <3>3
    <3>5. k - pop <= m - pop
      BY <3>4
    <3>6. new[k - pop] = pos[k] - r
      BY <3>4, <3>5 DEF new
    <3> QED BY <2>1, <3>2, <3>4, <3>6
  <2>2. CASE i = n - r + 1 /\ more = 1
    <3>1. push = 1 /\ m1 = m - pop + 1 /\ i = n1
      BY <1>10, <2>2
    <3>2. m1 \in 1 .. m1 /\ ~(m1 <= m - pop)
      BY <1>2, <3>1
    <3> QED BY <3>1, <3>2 DEF new
  <2>3. i \in 1 .. n - r \/ (i = n - r + 1 /\ more = 1)
    OBVIOUS
  <2> QED BY <2>1, <2>2, <2>3
<1>11. new \in [1 .. m1 -> 1 .. n1]
  BY <1>7 DEF new
<1>12. Places(new, queue1, list1, head1, ops)
  BY <1>8, <1>9, <1>10, <1>11 DEF Places
<1>13. new \in [DOMAIN queue1 -> DOMAIN list1]
  BY <1>11
<1> QED BY <1>12, <1>13 DEF Linked

-----------------------------------------------------------------------------
(* What a cycle makes of a queue. *)

\* An entry but for its issued flag.
Fixed(w) == <<w.op, w.slot, w.rd, w.imm, w.rs1, w.rs2>>

LEMMA QueueAfter ==
  ASSUME NEW queue \in Seq(Entry), NEW issued, NEW ins, ~R!FlushRecover,
         NEW pop \in {0, 1}, pop <= Len(queue),
         NEW push \in {0, 1}, push = 1 => QueueEntry(ins) \in Entry,
         NEW queue1, queue1 = QueueBuild(queue, issued, pop = 1, push = 1, ins)
  PROVE  /\ queue1 \in Seq(Entry) /\ Len(queue1) \in Nat /\ DOMAIN queue1 = 1 .. Len(queue1)
         /\ Len(queue) \in Nat /\ DOMAIN queue = 1 .. Len(queue)
         /\ Len(queue1) = Len(queue) - pop + push
         /\ \A k \in 1 .. Len(queue) - pop :
              /\ k + pop \in 1 .. Len(queue)
              /\ Fixed(queue1[k]) = Fixed(queue[k + pop])
              /\ queue1[k].issued <=> queue[k + pop].issued \/ k + pop \in issued
         /\ push = 1 => queue1[Len(queue1)] = QueueEntry(ins)
<1> DEFINE n == Len(queue)
           marked == [i \in 1 .. n |->
                        IF i \in issued THEN [queue[i] EXCEPT !.issued = TRUE] ELSE queue[i]]
           kept == IF pop = 1 THEN Tail(marked) ELSE marked
<1>1. n \in Nat /\ DOMAIN queue = 1 .. n /\ \A i \in 1 .. n : queue[i] \in Entry
  OBVIOUS
<1>2. queue1 = IF push = 1 THEN Append(kept, QueueEntry(ins)) ELSE kept
  BY <1>1 DEF QueueBuild
<1>3. ASSUME NEW i \in 1 .. n
      PROVE  /\ marked[i] \in Entry /\ Fixed(marked[i]) = Fixed(queue[i])
             /\ marked[i].issued <=> queue[i].issued \/ i \in issued
  <2>1. queue[i] \in Entry
    BY <1>1
  <2>2. CASE i \in issued
    <3>1. marked[i] = [queue[i] EXCEPT !.issued = TRUE]
      BY <2>2
    <3> QED BY <2>1, <2>2, <3>1 DEF Entry, Fixed
  <2>3. CASE i \notin issued
    <3>1. marked[i] = queue[i]
      BY <2>3
    <3> QED BY <2>1, <2>3, <3>1
  <2> QED BY <2>2, <2>3
<1>4. marked \in Seq(Entry) /\ Len(marked) = n
  <2>1. marked \in [1 .. n -> Entry]
    BY <1>3
  <2> QED BY <1>1, <2>1, SeqDef, LenProperties
<1> HIDE DEF marked
<1>5. pop = 1 => marked # <<>>
  BY <1>1, <1>4
<1>6. /\ kept \in Seq(Entry) /\ Len(kept) = n - pop /\ n - pop \in Nat
      /\ \A k \in 1 .. n - pop : k + pop \in 1 .. n /\ kept[k] = marked[k + pop]
  <2>1. CASE pop = 1
    BY <1>1, <1>4, <1>5, <2>1
  <2>2. CASE pop = 0
    BY <1>1, <1>4, <2>2
  <2> QED BY <2>1, <2>2
<1>7. \A k \in 1 .. n - pop :
        /\ Fixed(kept[k]) = Fixed(queue[k + pop])
        /\ kept[k].issued <=> queue[k + pop].issued \/ k + pop \in issued
  BY <1>3, <1>6
<1>0. n = Len(queue)
  OBVIOUS
<1> HIDE DEF kept, n
<1>8. CASE push = 1
  <2>1. PICK m \in Nat : m = n - pop
    BY <1>6
  <2>2. /\ queue1 \in Seq(Entry) /\ Len(queue1) = m + 1 /\ DOMAIN queue1 = 1 .. m + 1
        /\ \A k \in 1 .. m : queue1[k] = kept[k]
        /\ queue1[m + 1] = QueueEntry(ins)
    <3>1. PICK w \in Entry : w = QueueEntry(ins)
      BY <1>8
    <3>2. kept \in Seq(Entry) /\ Len(kept) = m /\ queue1 = Append(kept, w)
      BY <1>2, <1>6, <1>8, <2>1, <3>1
    <3> QED BY SMTT(20), <3>1, <3>2
  <2>3. Len(queue1) = n - pop + push /\ m + 1 \in Nat
    BY <1>8, <2>1, <2>2
  <2>4. \A k \in 1 .. n - pop : queue1[k] = kept[k]
    BY <2>1, <2>2
  <2>5. queue1[Len(queue1)] = QueueEntry(ins) /\ DOMAIN queue1 = 1 .. Len(queue1)
    BY <2>2
  <2> QED BY SMTT(30), <1>0, <1>1, <1>6, <1>7, <2>2, <2>3, <2>4, <2>5
<1>9. CASE push = 0
  <2>1. queue1 = kept
    BY <1>2, <1>9
  <2>2. n - pop + push = n - pop /\ DOMAIN kept = 1 .. n - pop
    BY <1>1, <1>6, <1>9
  <2> QED BY <1>0, <1>1, <1>6, <1>7, <1>9, <2>1, <2>2
<1> QED BY <1>8, <1>9

-----------------------------------------------------------------------------
(* The invariant. *)

\* w is the work of an entry of the active list that waits for it, and its operand is ready.
InFlight(w, ops) ==
  \E i \in DOMAIN activeList :
    /\ w.slot = SlotAt(activeHead, i) /\ w.rd = activeList[i].new
    /\ activeList[i].op \in ops /\ ~activeList[i].ready
    /\ registerReady[activeList[i].source]

\* The LSU works on something that is not a committed store.
Loading == {w \in lsu : w.op # "store"}

\* The units work for the active list, but for a load on its way when a branch mispredicted.
UnitsInFlight ==
  /\ \A w \in alu : InFlight(w, AluOps)
  /\ \A w \in Loading : InFlight(w, {"load"})
  /\ \A w \in writeBack : InFlight(w, {"load"}) \/ \E l \in lateLoad : l.entry.new = w.rd
  /\ \A l \in lateLoad : \E w \in writeBack : l.entry.new = w.rd

\* The LSU and write-back never work for one entry.
LoadsApart == \A v \in Loading, w \in writeBack : v.slot # w.slot

\* Every unit has one port.
Single(port) == \A v, w \in port : v = w
OnePort == Single(storeBuffer) /\ Single(alu) /\ Single(lsu) /\ Single(writeBack)

Busy == {w.slot : w \in alu \cup Loading \cup writeBack}

\* What was not issued yet is not finished, and no unit works on it.
Waiting(queue) ==
  \A k \in DOMAIN queue : ~queue[k].issued /\ queue[k].op # "store" =>
    /\ queue[k].slot \notin Busy
    /\ \A i \in DOMAIN activeList :
         queue[k].slot = SlotAt(activeHead, i) => ~activeList[i].ready

QueuesLinked ==
  /\ Linked(aluQueue, activeList, activeHead, AluOps)
  /\ Linked(lsq, activeList, activeHead, MemOps)

LInv ==
  /\ TypeOK
  /\ P!RInv
  /\ QueuesLinked
  /\ UnitsInFlight
  /\ LoadsApart
  /\ OnePort
  /\ Waiting(aluQueue) /\ Waiting(lsq)
  /\ \A w \in storeBuffer : w.op = "store"

LEMMA InFlightAt ==
  ASSUME P!RInv, NEW w, NEW ops, InFlight(w, ops),
         NEW i \in DOMAIN activeList, w.slot = SlotAt(activeHead, i)
  PROVE  /\ w.rd = activeList[i].new
         /\ activeList[i].op \in ops /\ ~activeList[i].ready
         /\ registerReady[activeList[i].source]
<1>1. PICK j \in DOMAIN activeList :
        /\ w.slot = SlotAt(activeHead, j) /\ w.rd = activeList[j].new
        /\ activeList[j].op \in ops /\ ~activeList[j].ready
        /\ registerReady[activeList[j].source]
  BY DEF InFlight
<1>2. activeHead \in 0 .. ActiveListDepth - 1 /\ i \in 1 .. ActiveListDepth /\ j \in 1 .. ActiveListDepth
  BY ListIs, ActiveListDepthAssumption DEF R!TypeOK
<1>3. \A a, b \in 1 .. ActiveListDepth : SlotAt(activeHead, a) = SlotAt(activeHead, b) => a = b
  BY <1>2, SlotsDiffer
<1>4. SlotAt(activeHead, i) = SlotAt(activeHead, j)
  BY <1>1
<1>5. i = j
  BY <1>2, <1>3, <1>4
<1> QED BY <1>1, <1>5

LEMMA SlotOfIs == \A i : R!SlotOf(i) = SlotAt(activeHead, i)
BY DEF R!SlotOf, SlotAt

\* The entries that receive a result are those the ALU and write-back work for.
LEMMA DeliveredAre ==
  ASSUME LInv
  PROVE  /\ Delivered \subseteq DOMAIN activeList
         /\ \A i \in DOMAIN activeList : i \in Delivered <=>
              \E w \in alu \cup writeBack : w.slot = SlotAt(activeHead, i)
         /\ \A i \in Delivered : \A w \in alu \cup writeBack :
              w.slot = SlotAt(activeHead, i) =>
                /\ w.rd = activeList[i].new /\ ~activeList[i].ready
                /\ registerReady[activeList[i].source]
                /\ activeList[i].op \in (IF w \in alu THEN AluOps ELSE {"load"})
         /\ \A w \in alu : \E i \in Delivered :
              w.slot = SlotAt(activeHead, i) /\ w.rd = activeList[i].new
         /\ \A w \in writeBack :
              \/ \E i \in Delivered : w.slot = SlotAt(activeHead, i) /\ w.rd = activeList[i].new
              \/ \E l \in lateLoad : l.entry.new = w.rd
<1>1. P!RInv /\ UnitsInFlight
  BY DEF LInv
<1>2. \A i \in DOMAIN activeList : i \in Delivered <=>
        \E w \in alu \cup writeBack : w.slot = SlotAt(activeHead, i)
  BY SlotOfIs DEF Delivered
<1>3. Delivered \subseteq DOMAIN activeList
  BY DEF Delivered
<1>4. ASSUME NEW i \in Delivered, NEW w \in alu \cup writeBack, w.slot = SlotAt(activeHead, i)
      PROVE  /\ w.rd = activeList[i].new /\ ~activeList[i].ready
             /\ registerReady[activeList[i].source]
             /\ activeList[i].op \in (IF w \in alu THEN AluOps ELSE {"load"})
  <2>1. CASE w \in alu
    <3>1. InFlight(w, AluOps)
      BY <1>1, <2>1 DEF UnitsInFlight
    <3> QED BY <1>1, <1>3, <1>4, <2>1, <3>1, InFlightAt
  <2>2. CASE w \notin alu
    <3>1. InFlight(w, {"load"}) \/ lateLoad # {}
      BY <1>1, <1>4, <2>2 DEF UnitsInFlight
    <3>2. activeList # <<>>
      BY <1>1, <1>3, <1>4, ListIs
    <3>3. InFlight(w, {"load"})
      BY <1>1, <3>1, <3>2, ListIs
    <3> QED BY <1>1, <1>3, <1>4, <2>2, <3>3, InFlightAt
  <2> QED BY <2>1, <2>2
<1>5. ASSUME NEW w \in alu \cup writeBack, NEW ops, InFlight(w, ops)
      PROVE  \E i \in Delivered : w.slot = SlotAt(activeHead, i) /\ w.rd = activeList[i].new
  BY <1>2, <1>5 DEF InFlight
<1>6. /\ \A w \in alu : \E i \in Delivered :
           w.slot = SlotAt(activeHead, i) /\ w.rd = activeList[i].new
      /\ \A w \in writeBack :
           \/ \E i \in Delivered : w.slot = SlotAt(activeHead, i) /\ w.rd = activeList[i].new
           \/ \E l \in lateLoad : l.entry.new = w.rd
  BY <1>1, <1>5 DEF UnitsInFlight
<1> QED BY <1>2, <1>3, <1>4, <1>6

\* The registers they write are those of the entries, but for register 0, which is ready.
LEMMA SameReadyBits ==
  ASSUME LInv, NEW p \in Physical
  PROVE  registerReady[p] \/ (\E r \in AluResults \cup LoadResults : r.rd = p)
           <=> registerReady[p] \/ p \in R!Results(Delivered)
<1>1. P!RInv /\ UnitsInFlight
  BY DEF LInv
<1>2. R!Results(Delivered) = {activeList[i].new : i \in Delivered} \cup {l.entry.new : l \in lateLoad}
  BY DEF R!Results
<1>3. (\E r \in AluResults : r.rd = p) <=> p # 0 /\ \E w \in alu : w.rd = p
  <2>1. ASSUME NEW r \in AluResults, r.rd = p
        PROVE  p # 0 /\ \E w \in alu : w.rd = p
    <3>1. PICK w \in {v \in alu : v.rd # 0} :
            r = [rd |-> w.rd, value |-> (registerFile[w.rs1] + w.imm) % Word]
      BY DEF AluResults
    <3>2. w \in alu /\ w.rd # 0 /\ r.rd = w.rd
      BY <3>1
    <3> QED BY <2>1, <3>2
  <2>2. ASSUME NEW w \in alu, p # 0, w.rd = p
        PROVE  \E r \in AluResults : r.rd = p
    <3>1. w \in {v \in alu : v.rd # 0}
      BY <2>2
    <3> DEFINE r == [rd |-> w.rd, value |-> (registerFile[w.rs1] + w.imm) % Word]
    <3>2. r \in AluResults
      BY <3>1 DEF AluResults
    <3>3. r.rd = p
      BY <2>2
    <3> QED BY <3>2, <3>3
  <2> QED BY <2>1, <2>2
<1>4. (\E r \in LoadResults : r.rd = p) <=> \E w \in writeBack : w.rd = p
  <2>1. ASSUME NEW r \in LoadResults, r.rd = p
        PROVE  \E w \in writeBack : w.rd = p
    <3>1. PICK w \in writeBack : r = [rd |-> w.rd, value |-> w.value]
      BY DEF LoadResults
    <3>2. r.rd = w.rd
      BY <3>1
    <3> QED BY <2>1, <3>2
  <2>2. ASSUME NEW w \in writeBack, w.rd = p
        PROVE  \E r \in LoadResults : r.rd = p
    <3> DEFINE r == [rd |-> w.rd, value |-> w.value]
    <3>1. r \in LoadResults
      BY DEF LoadResults
    <3>2. r.rd = p
      BY <2>2
    <3> QED BY <3>1, <3>2
  <2> QED BY <2>1, <2>2
<1>5. ASSUME NEW r \in AluResults \cup LoadResults, r.rd = p
      PROVE  p \in R!Results(Delivered)
  BY <1>2, <1>3, <1>4, <1>5, DeliveredAre
<1>6. ASSUME p \in R!Results(Delivered), ~registerReady[p]
      PROVE  \E r \in AluResults \cup LoadResults : r.rd = p
  <2>1. p # 0
    BY <1>1, <1>6, ListIs, RegistersAre
  <2>2. CASE \E i \in Delivered : p = activeList[i].new
    <3>1. PICK i \in Delivered : p = activeList[i].new
      BY <2>2
    <3>2. PICK w \in alu \cup writeBack : w.slot = SlotAt(activeHead, i)
      BY DeliveredAre
    <3>3. w.rd = p
      BY <3>1, <3>2, DeliveredAre
    <3> QED BY <1>3, <1>4, <2>1, <3>3
  <2>3. CASE \E l \in lateLoad : p = l.entry.new
    BY <1>1, <1>4, <2>3 DEF UnitsInFlight
  <2> QED BY <1>2, <1>6, <2>2, <2>3
<1> QED BY <1>5, <1>6

-----------------------------------------------------------------------------
(* Every cycle is one of Renaming. *)

LEMMA IsRenaming ==
  ASSUME LInv, Next
  PROVE  R!Next
<1>1. P!RInv
  BY DEF LInv
<1>2. PICK ins \in Decodes, wrong \in BOOLEAN : Cycle(ins, wrong)
  BY DEF Next
<1>3. /\ Renamed(ins) \in R!Decodes
      /\ R!FreeListBuild(Renamed(ins)) /\ R!MapTableBuild(Renamed(ins))
      /\ R!SpeculationStateBuild(Renamed(ins))
      /\ R!ActiveListBuild(Renamed(ins), Delivered, wrong)
  BY <1>2, DecodesAre, SameDecodes DEF Cycle
<1>4. R!HasDest(ins) <=> R!HasDest(Renamed(ins))
  BY DecodesAre DEF R!HasDest
<1>5. R!Allocated(ins) = R!Allocated(Renamed(ins))
  BY <1>4 DEF R!Allocated
<1>6. CASE ~R!FlushRecover
  <2>1. R!RegisterReadyBuild(Renamed(ins), Delivered)
    <3>1. registerReady' =
            [p \in Physical |->
               \/ R!FlushRecover
               \/ /\ ~(R!HasDest(ins) /\ p = R!Allocated(ins))
                  /\ registerReady[p] \/ \E r \in AluResults \cup LoadResults : r.rd = p]
      BY <1>2 DEF Cycle, RegisterReadyBuild
    <3>2. \A p \in Physical :
            R!NextReady(p, Renamed(ins), Delivered) <=>
              /\ ~(R!HasDest(ins) /\ p = R!Allocated(ins))
              /\ registerReady[p] \/ \E r \in AluResults \cup LoadResults : r.rd = p
      <4> SUFFICES ASSUME NEW p \in Physical
                   PROVE  R!NextReady(p, Renamed(ins), Delivered) <=>
                            /\ ~(R!HasDest(ins) /\ p = R!Allocated(ins))
                            /\ registerReady[p] \/ \E r \in AluResults \cup LoadResults : r.rd = p
        OBVIOUS
      <4>1. R!NextReady(p, Renamed(ins), Delivered) <=>
              /\ ~(R!HasDest(ins) /\ p = R!Allocated(ins))
              /\ p \in R!Results(Delivered) \/ registerReady[p]
        BY <1>4, <1>5 DEF R!NextReady
      <4> QED BY <4>1, SameReadyBits
    <3> QED BY <1>6, <3>1, <3>2 DEF R!RegisterReadyBuild, R!Physical, Physical
  <2>2. R!Cycle(Renamed(ins), Delivered, wrong)
    BY <1>3, <2>1 DEF R!Cycle
  <2>3. lateLoad' = {}
    BY <1>2, <1>6 DEF Cycle, LateLoadBuild
  <2>4. Delivered \in SUBSET R!Executable
    <3> SUFFICES ASSUME NEW i \in Delivered PROVE i \in R!Executable
      OBVIOUS
    <3>1. i \in DOMAIN activeList /\ ~activeList[i].ready /\ registerReady[activeList[i].source]
      BY DeliveredAre
    <3> QED BY <3>1 DEF R!Executable, R!Unfinished
  <2>5. R!Idle(Renamed(ins), Delivered, wrong) \/ R!Retire(Renamed(ins), Delivered, wrong)
    BY <1>6, <2>2, <2>3 DEF R!Idle, R!Retire
  <2> QED BY <1>3, <2>4, <2>5 DEF R!Next
<1>7. CASE R!FlushRecover
  <2>1. R!RegisterReadyBuild(Renamed(ins), {})
    BY <1>2, <1>7 DEF Cycle, RegisterReadyBuild, R!RegisterReadyBuild, R!Physical, Physical
  <2>2. R!ActiveListBuild(Renamed(ins), {}, FALSE)
    BY <1>3, <1>7 DEF R!ActiveListBuild
  <2>3. R!Cycle(Renamed(ins), {}, FALSE)
    BY <1>3, <2>1, <2>2 DEF R!Cycle
  <2>4. lateLoad' = {} \/ \E l \in R!LoadsInFlight : lateLoad' = {l}
    <3>1. lateLoad' = {[slot |-> R!SlotOf(i), entry |-> activeList[i]] :
                         i \in {j \in DOMAIN activeList :
                                  \E w \in lsu : w.op = "load" /\ w.slot = R!SlotOf(j)}}
      BY <1>2, <1>7 DEF Cycle, LateLoadBuild
    <3>2. CASE \A i \in DOMAIN activeList : \A w \in lsu : ~(w.op = "load" /\ w.slot = R!SlotOf(i))
      BY <3>1, <3>2
    <3>3. ASSUME NEW i \in DOMAIN activeList, NEW w \in lsu, w.op = "load", w.slot = R!SlotOf(i)
          PROVE  \E l \in R!LoadsInFlight : lateLoad' = {l}
      <4>1. w \in Loading /\ InFlight(w, {"load"})
        BY <3>3 DEF Loading, LInv, UnitsInFlight
      <4>2. activeList[i].op = "load" /\ ~activeList[i].ready /\ registerReady[activeList[i].source]
        BY <1>1, <3>3, <4>1, InFlightAt, SlotOfIs
      <4>3. i \in R!Executable
        BY <4>2 DEF R!Executable, R!Unfinished
      <4>4. ASSUME NEW j \in DOMAIN activeList, NEW v \in lsu, v.op = "load", v.slot = R!SlotOf(j)
            PROVE  j = i
        <5>1. v = w
          BY <4>1, <4>4 DEF LInv, OnePort, Single
        <5>2. /\ activeHead \in 0 .. ActiveListDepth - 1
              /\ i \in 1 .. ActiveListDepth /\ j \in 1 .. ActiveListDepth
          BY <1>1, ListIs, ActiveListDepthAssumption DEF R!TypeOK
        <5> QED BY <3>3, <4>4, <5>1, <5>2, SlotsDiffer, SlotOfIs
      <4>5. lateLoad' = {[slot |-> R!SlotOf(i), entry |-> activeList[i]]}
        BY <3>1, <3>3, <4>4
      <4>6. [slot |-> R!SlotOf(i), entry |-> activeList[i]] \in R!LoadsInFlight
        BY <4>2, <4>3 DEF R!LoadsInFlight
      <4> QED BY <4>5, <4>6
    <3> QED BY <3>2, <3>3
  <2>5. R!Recover(Renamed(ins))
    BY <1>7, <2>3, <2>4 DEF R!Recover
  <2> QED BY <1>3, <2>5 DEF R!Next
<1> QED BY <1>6, <1>7

-----------------------------------------------------------------------------
(* What a cycle leaves in flight. *)

\* An unfinished entry that gets no result moves on by `Shift', and its operand stays ready.
LEMMA Kept ==
  ASSUME P!RInv, P!RInv', ~R!FlushRecover, NEW ins, Decoding(ins),
         NEW i \in DOMAIN activeList, ~activeList[i].ready, i \notin Delivered
  PROVE  /\ i - Shift \in DOMAIN activeList' /\ i - Shift \in 1 .. Len(activeList) - Shift
         /\ SlotAt(activeHead', i - Shift) = SlotAt(activeHead, i)
         /\ activeList'[i - Shift].op = activeList[i].op
         /\ activeList'[i - Shift].new = activeList[i].new
         /\ activeList'[i - Shift].source = activeList[i].source
         /\ ~activeList'[i - Shift].ready
         /\ registerReady[activeList[i].source] => registerReady'[activeList[i].source]
<1> DEFINE n == Len(activeList)
<1>1. /\ Shift \in {0, 1} /\ Shift <= n /\ (Shift = 1 => activeList[1].ready)
      /\ \/ Len(activeList') = n - Shift \/ Len(activeList') = n - Shift + 1
      /\ DOMAIN activeList' = 1 .. Len(activeList')
      /\ \A k \in 1 .. n - Shift :
              /\ k + Shift \in DOMAIN activeList
              /\ activeList'[k].op = activeList[k + Shift].op
              /\ activeList'[k].dest = activeList[k + Shift].dest
              /\ activeList'[k].new = activeList[k + Shift].new
              /\ activeList'[k].source = activeList[k + Shift].source
              /\ activeList'[k].ready <=> activeList[k + Shift].ready \/ k + Shift \in Delivered
              /\ SlotAt(activeHead', k) = SlotAt(activeHead, k + Shift)
  BY ListAfter
<1>2. ListFacts /\ RegisterFacts /\ ListFacts' /\ RegisterFacts'
  BY FactsHold, FactsNext
<1>3. n \in Nat /\ DOMAIN activeList = 1 .. n /\ i \in 1 .. n
  BY <1>2 DEF ListFacts
<1>4. PICK r \in {0, 1} : r = Shift
  BY <1>1
<1>5. r = 1 => i # 1
  BY <1>1, <1>4
<1>11. n = Len(activeList)
  OBVIOUS
<1> HIDE DEF n
<1>10. /\ r <= n /\ DOMAIN activeList' = 1 .. Len(activeList')
       /\ \/ Len(activeList') = n - r \/ Len(activeList') = n - r + 1
  BY <1>1, <1>4
<1>6. i - r \in 1 .. n - r /\ (i - r) + r = i /\ i - r \in 1 .. Len(activeList') /\ i - r >= 1
  BY <1>3, <1>5, <1>10
<1>7. PICK k \in 1 .. n - r : k = i - r /\ k + r = i
  BY <1>6
<1>8. /\ SlotAt(activeHead', k) = SlotAt(activeHead, i)
      /\ activeList'[k].op = activeList[i].op /\ activeList'[k].new = activeList[i].new
      /\ activeList'[k].source = activeList[i].source /\ ~activeList'[k].ready
      /\ k \in DOMAIN activeList'
  BY <1>1, <1>4, <1>6, <1>7
<1>9. ASSUME registerReady[activeList[i].source], ~registerReady'[activeList[i].source]
      PROVE  FALSE
  <2>1. PICK p \in Physical : p = activeList[i].source
    BY <1>2 DEF ListFacts
  <2>2. PICK j \in DOMAIN activeList' :
          activeList'[j].dest # 0 /\ activeList'[j].new = p /\ ~activeList'[j].ready
    BY <1>2, <1>9, <2>1 DEF RegisterFacts
  <2>3. p # 0
    BY <1>2, <2>2 DEF ListFacts
  <2>4. ~(j >= k)
    BY <1>2, <1>8, <2>1, <2>2, <2>3 DEF RegisterFacts
  <2>5. j \in 1 .. n - r
    <3>1. j \in 1 .. Len(activeList')
      BY <1>10
    <3> QED BY <1>3, <1>10, <2>4, <3>1
  <2>6. /\ j + r \in DOMAIN activeList /\ activeList[j + r].dest # 0
        /\ activeList[j + r].new = p /\ ~activeList[j + r].ready
    BY <1>1, <1>4, <2>2, <2>5
  <2>7. ~registerReady[p]
    BY <1>2, <2>6 DEF RegisterFacts
  <2> QED BY <1>9, <2>1, <2>7
<1> QED BY <1>4, <1>7, <1>8, <1>9, <1>11

\* Work in flight that is not delivered in this cycle.
Staying(w, ops) ==
  \E i \in DOMAIN activeList \ Delivered :
    /\ w.slot = SlotAt(activeHead, i) /\ w.rd = activeList[i].new
    /\ activeList[i].op \in ops /\ ~activeList[i].ready
    /\ registerReady[activeList[i].source]

LEMMA StaysInFlight ==
  ASSUME P!RInv, P!RInv', ~R!FlushRecover, NEW ins, Decoding(ins),
         NEW w, NEW ops, Staying(w, ops)
  PROVE  /\ InFlight(w, ops)'
         /\ \E k \in 1 .. Len(activeList) - Shift : w.slot = SlotAt(activeHead', k)
<1>1. PICK i \in DOMAIN activeList \ Delivered :
        /\ w.slot = SlotAt(activeHead, i) /\ w.rd = activeList[i].new
        /\ activeList[i].op \in ops /\ ~activeList[i].ready
        /\ registerReady[activeList[i].source]
  BY DEF Staying
<1>2. /\ i - Shift \in DOMAIN activeList' /\ i - Shift \in 1 .. Len(activeList) - Shift
      /\ SlotAt(activeHead', i - Shift) = SlotAt(activeHead, i)
      /\ activeList'[i - Shift].op = activeList[i].op
      /\ activeList'[i - Shift].new = activeList[i].new
      /\ activeList'[i - Shift].source = activeList[i].source
      /\ ~activeList'[i - Shift].ready
      /\ registerReady'[activeList[i].source]
  BY <1>1, Kept
<1>3. PICK k : k = i - Shift
  OBVIOUS
<1> QED BY <1>1, <1>2, <1>3 DEF InFlight

-----------------------------------------------------------------------------
(* Entries of the queues. *)

LEMMA EntryAt ==
  ASSUME NEW queue, NEW list, NEW head, NEW ops, Linked(queue, list, head, ops),
         NEW k \in DOMAIN queue
  PROVE  \E i \in DOMAIN list : Matches(queue[k], list, head, i) /\ list[i].op \in ops
<1>1. PICK pos \in [DOMAIN queue -> DOMAIN list] : Places(pos, queue, list, head, ops)
  BY DEF Linked
<1>2. pos[k] \in DOMAIN list
  BY <1>1
<1>3. Matches(queue[k], list, head, pos[k]) /\ list[pos[k]].op \in ops
  BY <1>1 DEF Places
<1> QED BY <1>2, <1>3

LEMMA SlotsInQueue ==
  ASSUME NEW head \in 0 .. ActiveListDepth - 1,
         NEW list, NEW n \in Nat, DOMAIN list = 1 .. n, n <= ActiveListDepth,
         NEW queue, NEW m \in Nat, DOMAIN queue = 1 .. m,
         NEW ops, Linked(queue, list, head, ops),
         NEW j \in DOMAIN queue, NEW k \in DOMAIN queue, queue[j].slot = queue[k].slot
  PROVE  j = k
<1>1. PICK pos \in [DOMAIN queue -> DOMAIN list] : Places(pos, queue, list, head, ops)
  BY DEF Linked
<1>2. pos[j] \in 1 .. n /\ pos[k] \in 1 .. n
  BY <1>1
<1>3. queue[j].slot = SlotAt(head, pos[j]) /\ queue[k].slot = SlotAt(head, pos[k])
  BY <1>1 DEF Places, Matches
<1>4. pos[j] = pos[k]
  <2>1. PICK a \in 1 .. ActiveListDepth : a = pos[j]
    BY <1>2, ActiveListDepthAssumption
  <2>2. PICK b \in 1 .. ActiveListDepth : b = pos[k]
    BY <1>2, ActiveListDepthAssumption
  <2>3. SlotAt(head, a) = SlotAt(head, b)
    BY <1>3, <2>1, <2>2
  <2> QED BY <2>1, <2>2, <2>3, SlotsDiffer
<1>5. (j < k => pos[j] < pos[k]) /\ (k < j => pos[k] < pos[j])
  BY <1>1 DEF Places
<1> QED BY <1>2, <1>4, <1>5

\* An entry not issued yet waits for no result.
LEMMA WaitingEntry ==
  ASSUME LInv, NEW queue, NEW ops, Linked(queue, activeList, activeHead, ops), Waiting(queue),
         NEW k \in DOMAIN queue, ~queue[k].issued, queue[k].op # "store"
  PROVE  /\ \E i \in DOMAIN activeList \ Delivered :
              /\ Matches(queue[k], activeList, activeHead, i)
              /\ activeList[i].op \in ops /\ ~activeList[i].ready
         /\ queue[k].slot \notin Busy
<1>1. PICK i \in DOMAIN activeList :
        Matches(queue[k], activeList, activeHead, i) /\ activeList[i].op \in ops
  BY EntryAt
<1>2. queue[k].slot \notin Busy /\ ~activeList[i].ready
  BY <1>1 DEF Waiting, Matches
<1>3. ASSUME i \in Delivered PROVE FALSE
  <2>1. PICK w \in alu \cup writeBack : w.slot = SlotAt(activeHead, i)
    BY <1>3, DeliveredAre
  <2> QED BY <1>1, <1>2, <2>1 DEF Busy, Matches
<1> QED BY <1>1, <1>2, <1>3

-----------------------------------------------------------------------------
(* What the units do in a cycle without a flush. *)

\* An entry that is issued waits for no result, and its operand is ready.
LEMMA Issuing ==
  ASSUME LInv
  PROVE  /\ \A k \in IssuesAlu :
              /\ k \in DOMAIN aluQueue /\ ~aluQueue[k].issued /\ aluQueue[k].op # "store"
              /\ Staying(aluQueue[k], AluOps) /\ aluQueue[k].slot \notin Busy
         /\ \A k \in IssuesLsq :
              /\ k \in DOMAIN lsq /\ ~lsq[k].issued /\ lsq[k].op # "store"
              /\ Staying(lsq[k], {"load"}) /\ lsq[k].slot \notin Busy
         /\ \A j, k \in IssuesAlu : j = k
         /\ \A j, k \in IssuesLsq : j = k
         /\ storeBuffer # {} => IssuesLsq = {}
<1>1. /\ Linked(aluQueue, activeList, activeHead, AluOps) /\ Waiting(aluQueue)
      /\ Linked(lsq, activeList, activeHead, MemOps) /\ Waiting(lsq)
      /\ aluQueue \in Seq(Entry) /\ lsq \in Seq(Entry)
  BY DEF LInv, QueuesLinked, TypeOK
<1>2. ASSUME NEW k \in IssuesAlu
      PROVE  /\ k \in DOMAIN aluQueue /\ ~aluQueue[k].issued /\ aluQueue[k].op # "store"
             /\ Staying(aluQueue[k], AluOps) /\ aluQueue[k].slot \notin Busy
  <2>1. k \in DOMAIN aluQueue /\ ~aluQueue[k].issued /\ registerReady[aluQueue[k].rs1]
    BY <1>2 DEF IssuesAlu, First, AluCandidates
  <2>2. aluQueue[k].op # "store"
    <3>1. PICK i \in DOMAIN activeList :
            Matches(aluQueue[k], activeList, activeHead, i) /\ activeList[i].op \in AluOps
      BY <1>1, <2>1, EntryAt
    <3> QED BY <3>1 DEF Matches, AluOps
  <2>3. PICK i \in DOMAIN activeList \ Delivered :
          /\ Matches(aluQueue[k], activeList, activeHead, i)
          /\ activeList[i].op \in AluOps /\ ~activeList[i].ready
    BY <1>1, <2>1, <2>2, WaitingEntry
  <2>4. aluQueue[k].slot \notin Busy
    BY <1>1, <2>1, <2>2, WaitingEntry
  <2> QED BY <2>1, <2>2, <2>3, <2>4 DEF Staying, Matches
<1>3. ASSUME NEW k \in IssuesLsq
      PROVE  /\ k \in DOMAIN lsq /\ ~lsq[k].issued /\ lsq[k].op # "store"
             /\ Staying(lsq[k], {"load"}) /\ lsq[k].slot \notin Busy
  <2>1. /\ k \in DOMAIN lsq /\ ~lsq[k].issued /\ registerReady[lsq[k].rs1]
        /\ lsq[k].op # "store"
    BY <1>3 DEF IssuesLsq, First, LsqCandidates
  <2>2. PICK i \in DOMAIN activeList \ Delivered :
          /\ Matches(lsq[k], activeList, activeHead, i)
          /\ activeList[i].op \in MemOps /\ ~activeList[i].ready
    BY <1>1, <2>1, WaitingEntry
  <2>3. lsq[k].slot \notin Busy
    BY <1>1, <2>1, WaitingEntry
  <2>4. activeList[i].op = "load"
    BY <2>1, <2>2 DEF Matches, MemOps
  <2> QED BY <2>1, <2>2, <2>3, <2>4 DEF Staying, Matches
<1>4. /\ IssuesAlu \subseteq DOMAIN aluQueue /\ IssuesLsq \subseteq DOMAIN lsq
      /\ \A j, k \in IssuesAlu : j <= k
      /\ \A j, k \in IssuesLsq : j <= k
      /\ storeBuffer # {} => IssuesLsq = {}
  BY <1>2, <1>3 DEF IssuesAlu, IssuesLsq, First
<1>5. IssuesAlu \subseteq Nat /\ IssuesLsq \subseteq Nat
  BY <1>1, <1>4
<1>6. (\A j, k \in IssuesAlu : j = k) /\ (\A j, k \in IssuesLsq : j = k)
  BY <1>4, <1>5
<1> QED BY <1>2, <1>3, <1>4, <1>6

\* A load in the LSU gets its result in the next cycle, not in this one.
LEMMA LoadingStays ==
  ASSUME LInv, NEW v \in Loading
  PROVE  Staying(v, {"load"})
<1>1. InFlight(v, {"load"}) /\ P!RInv
  BY DEF LInv, UnitsInFlight
<1>2. PICK i \in DOMAIN activeList :
        /\ v.slot = SlotAt(activeHead, i) /\ v.rd = activeList[i].new
        /\ activeList[i].op \in {"load"} /\ ~activeList[i].ready
        /\ registerReady[activeList[i].source]
  BY <1>1 DEF InFlight
<1>3. ASSUME i \in Delivered PROVE FALSE
  <2>1. PICK w \in alu \cup writeBack : w.slot = SlotAt(activeHead, i)
    BY <1>3, DeliveredAre
  <2>2. CASE w \in alu
    BY <1>2, <1>3, <2>1, <2>2, DeliveredAre DEF AluOps
  <2>3. CASE w \in writeBack
    BY <1>2, <2>1, <2>3 DEF LInv, LoadsApart
  <2> QED BY <2>1, <2>2, <2>3
<1> QED BY <1>2, <1>3 DEF Staying

LEMMA UnitsAfter ==
  ASSUME LInv, ~R!FlushRecover, NEW ins, NEW wrong, Cycle(ins, wrong)
  PROVE  /\ alu' = {aluQueue[k] : k \in IssuesAlu}
         /\ Loading' = {lsq[k] : k \in IssuesLsq}
         /\ \A w \in writeBack' : \E v \in Loading : v.slot = w.slot /\ v.rd = w.rd
         /\ \A w \in alu' : Staying(w, AluOps)
         /\ \A w \in Loading' : Staying(w, {"load"}) /\ w.slot \notin Busy
         /\ \A w \in writeBack' : Staying(w, {"load"})
         /\ lateLoad' = {}
<1>1. alu' = {aluQueue[k] : k \in IssuesAlu}
  BY DEF Cycle
<1>2. lsu' = storeBuffer \cup {lsq[k] : k \in IssuesLsq}
  BY DEF Cycle, LsuCall
<1>3. \A w \in storeBuffer : w.op = "store"
  BY DEF LInv
<1>4. Loading' = {w \in lsu' : w.op # "store"}
  BY DEF Loading
<1>5. Loading' = {lsq[k] : k \in IssuesLsq}
  BY <1>2, <1>3, <1>4, Issuing
<1>6. ASSUME NEW w \in writeBack'
      PROVE  \E v \in Loading : v.slot = w.slot /\ v.rd = w.rd
  <2>1. PICK v \in {u \in lsu : u.op = "load"} :
          w = [rd |-> v.rd, slot |-> v.slot, value |-> memory[Address(v)]]
    BY <1>6 DEF Cycle, LsuBuild
  <2>2. v \in Loading
    BY <2>1 DEF Loading
  <2> QED BY <2>1, <2>2
<1>7. \A w \in alu' : Staying(w, AluOps)
  BY <1>1, Issuing
<1>8. \A w \in Loading' : Staying(w, {"load"}) /\ w.slot \notin Busy
  BY <1>5, Issuing
<1>9. ASSUME NEW w \in writeBack'
      PROVE  Staying(w, {"load"})
  <2>1. PICK v \in Loading : v.slot = w.slot /\ v.rd = w.rd
    BY <1>6
  <2> QED BY <2>1, LoadingStays DEF Staying
<1>10. lateLoad' = {}
  BY DEF Cycle, LateLoadBuild
<1> QED BY <1>1, <1>5, <1>6, <1>7, <1>8, <1>9, <1>10

-----------------------------------------------------------------------------
(* The queues after a cycle without a flush. *)

LEMMA PushedEntry ==
  ASSUME P!RInv, NEW ins \in Decodes, ins # Bubble
  PROVE  /\ QueueEntry(ins) \in Entry
         /\ R!Allocated(ins) = R!Allocated(Renamed(ins))
<1>1. ins \in Instructions /\ ins \in Instruction /\ Len(activeList) < ActiveListDepth
  BY InstructionsAssumption DEF Decodes, R!Decodable
<1>2. R!TypeOK /\ ListFacts
  BY ListIs, FactsHold
<1>3. ActiveListIdx \in 0 .. ActiveListDepth - 1
  <2>1. ActiveListIdx = SlotAt(activeHead, Len(activeList) + 1)
    BY SlotOfIs DEF ActiveListIdx
  <2>2. PICK n \in Nat : n = Len(activeList) /\ n < ActiveListDepth
    BY <1>1, <1>2 DEF ListFacts
  <2>3. n + 1 \in 1 .. ActiveListDepth
    BY <2>2, ActiveListDepthAssumption
  <2> QED BY <1>2, <2>1, <2>2, <2>3, SlotsDiffer DEF ListFacts
<1>4. R!Allocated(ins) \in Physical
  <2>1. /\ freeList.slots \in [0 .. R!FreeListDepth - 1 -> Physical]
        /\ freeList.head \in 0 .. R!FreeListDepth - 1
    BY <1>2 DEF R!TypeOK, R!FreeRing!Queues, R!FreeRing!Slots, R!Physical, Physical
  <2>2. freeList.slots[freeList.head] \in Physical
    BY <2>1
  <2>3. 0 \in Physical
    BY RegisterNumberAssumption DEF Physical
  <2> QED BY <2>2, <2>3 DEF R!Allocated, R!FreeRing!Front
<1>5. specTable[ins.source] \in Physical /\ specTable[ins.data] \in Physical
  BY <1>1, <1>2 DEF R!TypeOK, Instruction, Logical, R!Logical, R!Physical, Physical
<1>6. QueueEntry(ins) \in Entry
  BY <1>1, <1>3, <1>4, <1>5 DEF QueueEntry, Entry, Instruction
<1>7. R!HasDest(ins) <=> R!HasDest(Renamed(ins))
  BY DecodesAre DEF R!HasDest
<1> QED BY <1>6, <1>7 DEF R!Allocated

LEMMA QueueStep ==
  ASSUME P!RInv, ~R!FlushRecover, NEW ins, Decoding(ins), NEW ops,
         NEW queue \in Seq(Entry), Linked(queue, activeList, activeHead, ops), NEW issued,
         NEW pop \in {0, 1}, pop = IF Shift = 1 /\ activeList[1].op \in ops THEN 1 ELSE 0,
         NEW push \in {0, 1},
         push = IF ins # Bubble /\ Renamed(ins).op \in ops THEN 1 ELSE 0,
         NEW queue1, queue1 = QueueBuild(queue, issued, pop = 1, push = 1, ins)
  PROVE  /\ queue1 \in Seq(Entry)
         /\ Linked(queue1, activeList', activeHead', ops)
         /\ \A k \in DOMAIN queue1 :
              \/ \E j \in DOMAIN queue :
                   /\ Fixed(queue1[k]) = Fixed(queue[j])
                   /\ queue1[k].issued <=> queue[j].issued \/ j \in issued
              \/ ins # Bubble /\ queue1[k] = QueueEntry(ins)
<1>1. ins \in Decodes /\ ListFacts
  BY FactsHold DEF Decoding
<1>2. PICK n \in Nat : n = Len(activeList) /\ DOMAIN activeList = 1 .. n /\ n <= ActiveListDepth
  BY <1>1 DEF ListFacts
<1>3. PICK more \in {0, 1} : more = IF ins = Bubble THEN 0 ELSE 1
  OBVIOUS
<1>4. PICK r \in {0, 1} : r = Shift /\ r <= n
  BY <1>2, ListAfter
<1>5. PICK m \in Nat : m = Len(queue) /\ DOMAIN queue = 1 .. m
  OBVIOUS
<1>6. pop <= m
  <2>1. CASE pop = 1
    <3>1. r = 1 /\ activeList[1].op \in ops /\ n # 0
      BY <1>4, <2>1
    <3>2. PICK pos \in [DOMAIN queue -> DOMAIN activeList] :
            Places(pos, queue, activeList, activeHead, ops)
      BY DEF Linked
    <3> QED BY <1>2, <1>5, <3>1, <3>2, LinkedHead
  <2>2. CASE pop = 0
    BY <2>2
  <2> QED BY <2>1, <2>2
<1>7. push = 1 => ins # Bubble /\ Renamed(ins).op \in ops /\ QueueEntry(ins) \in Entry
  BY <1>1, PushedEntry
<1>8. /\ queue1 \in Seq(Entry) /\ Len(queue1) \in Nat /\ DOMAIN queue1 = 1 .. Len(queue1)
      /\ Len(queue1) = m - pop + push
      /\ \A k \in 1 .. m - pop :
              /\ k + pop \in 1 .. m
              /\ Fixed(queue1[k]) = Fixed(queue[k + pop])
              /\ queue1[k].issued <=> queue[k + pop].issued \/ k + pop \in issued
      /\ push = 1 => queue1[Len(queue1)] = QueueEntry(ins)
  BY SMTT(30), <1>5, <1>6, <1>7, QueueAfter
<1>9. /\ \A i \in 1 .. n - r :
           /\ activeList'[i].op = activeList[i + r].op /\ activeList'[i].new = activeList[i + r].new
           /\ activeList'[i].source = activeList[i + r].source
           /\ SlotAt(activeHead', i) = SlotAt(activeHead, i + r)
      /\ Len(activeList') = n - r + more /\ DOMAIN activeList' = 1 .. Len(activeList')
      /\ more = 1 => /\ SlotAt(activeHead', n - r + 1) = ActiveListIdx
                     /\ activeList'[n - r + 1] = R!NewEntry(Renamed(ins))
  <2>1. /\ \A i \in 1 .. Len(activeList) - Shift :
             /\ activeList'[i].op = activeList[i + Shift].op
             /\ activeList'[i].new = activeList[i + Shift].new
             /\ activeList'[i].source = activeList[i + Shift].source
             /\ SlotAt(activeHead', i) = SlotAt(activeHead, i + Shift)
        /\ Len(activeList') = IF ins = Bubble THEN Len(activeList) - Shift
                              ELSE Len(activeList) - Shift + 1
        /\ DOMAIN activeList' = 1 .. Len(activeList')
        /\ ins # Bubble =>
              /\ SlotAt(activeHead', Len(activeList) - Shift + 1) = ActiveListIdx
              /\ activeList'[Len(activeList) - Shift + 1] = R!NewEntry(Renamed(ins))
    BY ListAfter
  <2>2. Len(activeList') = n - r + more
    BY <1>2, <1>3, <1>4, <2>1
  <2> QED BY <1>2, <1>3, <1>4, <2>1, <2>2
<1>10. PICK n1 \in Nat : n1 = Len(activeList') /\ n1 = n - r + more /\ DOMAIN activeList' = 1 .. n1
  BY <1>4, <1>9
<1>11. PICK m1 \in Nat : m1 = Len(queue1) /\ m1 = m - pop + push /\ DOMAIN queue1 = 1 .. m1
  BY <1>8
<1>12. more = 1 => n1 = n - r + 1
  BY <1>10
<1>13. push = 1 => Matches(queue1[m1], activeList', activeHead', n1)
  <2> SUFFICES ASSUME push = 1 PROVE Matches(queue1[m1], activeList', activeHead', n1)
    OBVIOUS
  <2>1. more = 1 /\ queue1[m1] = QueueEntry(ins)
    BY <1>3, <1>7, <1>8, <1>11
  <2>2. SlotAt(activeHead', n1) = ActiveListIdx /\ activeList'[n1] = R!NewEntry(Renamed(ins))
    BY <1>9, <1>12, <2>1
  <2>3. R!Allocated(ins) = R!Allocated(Renamed(ins))
    BY <1>1, <1>7, PushedEntry
  <2>4. /\ Renamed(ins).source = ins.source
        /\ Renamed(ins).op = IF ins.op = "unmatched" THEN "load" ELSE ins.op
    BY <1>1, DecodesAre
  <2> QED BY <2>1, <2>2, <2>3, <2>4 DEF Matches, QueueEntry, R!NewEntry, R!Operand
<1>14. push = IF more = 1 /\ activeList'[n1].op \in ops THEN 1 ELSE 0
  <2>1. more = 1 => activeList'[n1].op = Renamed(ins).op
    BY <1>9, <1>12 DEF R!NewEntry
  <2> QED BY <1>3, <2>1
<1>15. QueueMoves(queue, m, pop, queue1)
  BY <1>8 DEF Fixed, QueueMoves
<1>16. pop = IF r = 1 /\ activeList[1].op \in ops THEN 1 ELSE 0
  BY <1>4
<1>17. Linked(queue1, activeList', activeHead', ops)
  <2>1. PICK list : list = activeList
    OBVIOUS
  <2>2. PICK head : head = activeHead
    OBVIOUS
  <2>3. PICK list1 : list1 = activeList'
    OBVIOUS
  <2>4. PICK head1 : head1 = activeHead'
    OBVIOUS
  <2>5. /\ DOMAIN list = 1 .. n /\ DOMAIN list1 = 1 .. n1
        /\ r <= n /\ n1 = n - r + more
        /\ Linked(queue, list, head, ops)
    BY <1>2, <1>4, <1>10, <2>1, <2>2, <2>3
  <2>6. ListMoves(list, head, n, r, list1, head1)
    BY <1>9, <2>1, <2>2, <2>3, <2>4 DEF ListMoves
  <2>7. /\ pop = IF r = 1 /\ list[1].op \in ops THEN 1 ELSE 0
        /\ push = IF more = 1 /\ list1[n1].op \in ops THEN 1 ELSE 0
        /\ push = 1 => Matches(queue1[m1], list1, head1, n1)
    BY <1>13, <1>14, <1>16, <2>1, <2>3, <2>4
  <2>8. /\ DOMAIN queue = 1 .. m /\ DOMAIN queue1 = 1 .. m1 /\ m1 = m - pop + push
    BY <1>5, <1>11
  <2>9. OneCycle(list, n, head, r, more, list1, n1, head1, ops, queue, m, pop, push, queue1, m1)
    BY <1>15, <2>5, <2>6, <2>7, <2>8 DEF OneCycle
  <2>10. Linked(queue1, list1, head1, ops)
    BY <2>5, <2>9, LinkedStep
  <2> QED BY <2>3, <2>4, <2>10
<1>18. ASSUME NEW k \in 1 .. m1
       PROVE  k \in 1 .. m - pop \/ (push = 1 /\ k = m1)
  BY <1>6, <1>11
<1>19. ASSUME NEW k \in DOMAIN queue1
       PROVE  \/ \E j \in DOMAIN queue :
                   /\ Fixed(queue1[k]) = Fixed(queue[j])
                   /\ queue1[k].issued <=> queue[j].issued \/ j \in issued
              \/ ins # Bubble /\ queue1[k] = QueueEntry(ins)
  <2>1. CASE k \in 1 .. m - pop
    <3>1. PICK j \in DOMAIN queue : j = k + pop
      BY <1>5, <1>8, <2>1
    <3> QED BY <1>8, <2>1, <3>1
  <2>2. CASE push = 1 /\ k = m1
    BY <1>7, <1>8, <1>11, <2>2
  <2> QED BY <1>11, <1>18, <2>1, <2>2
<1> QED BY <1>8, <1>17, <1>19

-----------------------------------------------------------------------------
(* The ports and the data after a cycle. *)

\* The load/store queue's head is the oldest entry, if commit pops it.
LEMMA MemPopHead ==
  ASSUME LInv, MemPop
  PROVE  lsq # <<>> /\ Head(lsq) \in Entry
<1>1. P!RInv /\ Linked(lsq, activeList, activeHead, MemOps) /\ lsq \in Seq(Entry)
  BY DEF LInv, QueuesLinked, TypeOK
<1>2. ListFacts
  BY <1>1, FactsHold
<1>3. activeList # <<>> /\ ~IsAlu(Head(activeList).op) /\ activeList \in Seq(R!Entry)
  BY <1>1, ListIs DEF MemPop, R!Retires, R!Oldest, R!TypeOK
<1>4. PICK n \in Nat \ {0} : n = Len(activeList) /\ DOMAIN activeList = 1 .. n
  BY <1>3
<1>5. activeList[1].op \in MemOps
  BY <1>2, <1>3, <1>4 DEF ListFacts, IsAlu, MemOps
<1>6. PICK pos \in [DOMAIN lsq -> DOMAIN activeList] :
        Places(pos, lsq, activeList, activeHead, MemOps)
  BY <1>1 DEF Linked
<1>7. PICK m \in Nat : m = Len(lsq) /\ DOMAIN lsq = 1 .. m
  BY <1>1
<1>8. m >= 1
  BY <1>4, <1>5, <1>6, <1>7, LinkedHead
<1> QED BY <1>1, <1>7, <1>8

LEMMA PortsAfter ==
  ASSUME LInv, NEW ins, NEW wrong, Cycle(ins, wrong)
  PROVE  /\ OnePort'
         /\ storeBuffer' \subseteq Entry /\ \A w \in storeBuffer' : w.op = "store"
         /\ alu' \subseteq Entry /\ lsu' \subseteq Entry
<1>1. /\ storeBuffer \subseteq Entry /\ lsu \subseteq Entry /\ OnePort
      /\ aluQueue \in Seq(Entry) /\ lsq \in Seq(Entry)
  BY DEF LInv, TypeOK
<1>2. storeBuffer' = IF MemPop /\ Head(lsq).op = "store" THEN {Head(lsq)} ELSE {}
  BY DEF Cycle, StoreBufferBuild
<1>3. Single(storeBuffer)' /\ storeBuffer' \subseteq Entry /\ \A w \in storeBuffer' : w.op = "store"
  <2>1. CASE MemPop /\ Head(lsq).op = "store"
    BY <1>2, <2>1, MemPopHead DEF Single
  <2>2. CASE ~(MemPop /\ Head(lsq).op = "store")
    BY <1>2, <2>2 DEF Single
  <2> QED BY <2>1, <2>2
<1>4. alu' = {aluQueue[k] : k \in IssuesAlu} /\ lsu' = storeBuffer \cup {lsq[k] : k \in IssuesLsq}
  BY DEF Cycle, LsuCall
<1>5. Single(alu)' /\ alu' \subseteq Entry
  BY <1>1, <1>4, Issuing DEF Single
<1>6. Single(lsu)' /\ lsu' \subseteq Entry
  <2>1. lsu' \subseteq Entry
    BY <1>1, <1>4, Issuing
  <2>2. CASE storeBuffer # {}
    <3>1. lsu' = storeBuffer
      BY <1>4, <2>2, Issuing
    <3> QED BY <1>1, <2>1, <3>1 DEF OnePort, Single
  <2>3. CASE storeBuffer = {}
    BY <1>4, <2>1, <2>3, Issuing DEF Single
  <2> QED BY <2>2, <2>3
<1>7. Single(writeBack)'
  <2>1. writeBack' = {[rd |-> w.rd, slot |-> w.slot, value |-> memory[Address(w)]] :
                        w \in {v \in lsu : v.op = "load"}}
    BY DEF Cycle, LsuBuild
  <2> SUFFICES ASSUME NEW a \in writeBack', NEW b \in writeBack' PROVE a = b
    BY DEF Single
  <2>2. PICK v \in lsu : a = [rd |-> v.rd, slot |-> v.slot, value |-> memory[Address(v)]]
    BY <2>1
  <2>3. PICK w \in lsu : b = [rd |-> w.rd, slot |-> w.slot, value |-> memory[Address(w)]]
    BY <2>1
  <2>4. v = w
    BY <1>1 DEF OnePort, Single
  <2> QED BY <2>2, <2>3, <2>4
<1> QED BY <1>3, <1>5, <1>6, <1>7 DEF OnePort

LEMMA SingleCount ==
  ASSUME NEW S, Single(S)
  PROVE  Cardinality(S) <= 1
<1>1. CASE S = {}
  BY <1>1, FS_EmptySet
<1>2. CASE S # {}
  <2>1. PICK x : S = {x}
    BY <1>2 DEF Single
  <2> QED BY <2>1, FS_Singleton
<1> QED BY <1>1, <1>2

LEMMA WordSum ==
  ASSUME NEW a \in Words, NEW b \in Words
  PROVE  (a + b) % Word \in Words
BY WordAssumption DEF Words

LEMMA DataAfter ==
  ASSUME LInv, NEW ins, NEW wrong, Cycle(ins, wrong)
  PROVE  /\ writeBack' \subseteq [rd : Physical, slot : 0 .. ActiveListDepth - 1, value : Words]
         /\ registerFile' \in [Physical -> Words]
         /\ memory' \in [Words -> Words]
<1>1. /\ alu \subseteq Entry /\ lsu \subseteq Entry
      /\ writeBack \subseteq [rd : Physical, slot : 0 .. ActiveListDepth - 1, value : Words]
      /\ registerFile \in [Physical -> Words] /\ memory \in [Words -> Words]
  BY DEF LInv, TypeOK
<1>2. \A w \in Entry : Address(w) \in Words /\ registerFile[w.rs2] \in Words
  BY <1>1, WordSum DEF Address, Entry
<1>3. writeBack' \subseteq [rd : Physical, slot : 0 .. ActiveListDepth - 1, value : Words]
  <2> SUFFICES ASSUME NEW x \in writeBack'
               PROVE  x \in [rd : Physical, slot : 0 .. ActiveListDepth - 1, value : Words]
    OBVIOUS
  <2>1. PICK w \in lsu : x = [rd |-> w.rd, slot |-> w.slot, value |-> memory[Address(w)]]
    BY DEF Cycle, LsuBuild
  <2>2. w.rd \in Physical /\ w.slot \in 0 .. ActiveListDepth - 1 /\ memory[Address(w)] \in Words
    BY <1>1, <1>2 DEF Entry
  <2> QED BY <2>1, <2>2
<1>4. registerFile' \in [Physical -> Words]
  <2>1. \A r \in AluResults \cup LoadResults : r.value \in Words
    <3>1. ASSUME NEW r \in AluResults PROVE r.value \in Words
      <4>1. PICK w \in alu :
              r = [rd |-> w.rd, value |-> (registerFile[w.rs1] + w.imm) % Word]
        BY DEF AluResults
      <4>2. r.value = Address(w) /\ w \in Entry
        BY <1>1, <4>1 DEF Address
      <4> QED BY <1>2, <4>2
    <3>2. ASSUME NEW r \in LoadResults PROVE r.value \in Words
      <4>1. PICK w \in writeBack : r = [rd |-> w.rd, value |-> w.value]
        BY DEF LoadResults
      <4>2. r.value = w.value /\ w.value \in Words
        BY <1>1, <4>1
      <4> QED BY <4>2
    <3> QED BY <3>1, <3>2
  <2>2. ASSUME NEW p \in Physical
        PROVE  (LET results == {r \in AluResults \cup LoadResults : r.rd = p}
                IN  IF results = {} THEN registerFile[p]
                    ELSE (CHOOSE r \in results : TRUE).value) \in Words
    <3> DEFINE results == {r \in AluResults \cup LoadResults : r.rd = p}
    <3>1. CASE results = {}
      BY <1>1, <3>1
    <3>2. CASE results # {}
      <4>1. (CHOOSE r \in results : TRUE) \in results
        BY <3>2
      <4>2. (CHOOSE r \in results : TRUE) \in AluResults \cup LoadResults
        BY <4>1
      <4> HIDE DEF results
      <4> QED BY <2>1, <3>2, <4>2 DEF results
    <3> QED BY <3>1, <3>2
  <2> QED BY <2>2 DEF Cycle, RegisterFileBuild
<1>5. memory' \in [Words -> Words]
  <2>1. lsu # {} => (CHOOSE w \in lsu : TRUE) \in lsu
    OBVIOUS
  <2>2. lsu # {} => registerFile[(CHOOSE w \in lsu : TRUE).rs2] \in Words
    BY <1>1, <1>2, <2>1
  <2>3. memory' = [a \in Words |->
                     IF \E w \in lsu : w.op = "store" /\ Address(w) = a
                       THEN registerFile[(CHOOSE w \in lsu : TRUE).rs2] ELSE memory[a]]
    BY DEF Cycle, MemoryBuild
  <2>4. ASSUME NEW a \in Words
        PROVE  (IF \E w \in lsu : w.op = "store" /\ Address(w) = a
                  THEN registerFile[(CHOOSE w \in lsu : TRUE).rs2] ELSE memory[a]) \in Words
    <3>1. CASE \E w \in lsu : w.op = "store" /\ Address(w) = a
      BY <2>2, <3>1
    <3>2. CASE ~(\E w \in lsu : w.op = "store" /\ Address(w) = a)
      BY <1>1, <3>2
    <3> QED BY <3>1, <3>2
  <2> QED BY <2>3, <2>4
<1> QED BY <1>3, <1>4, <1>5

-----------------------------------------------------------------------------
(* The invariant after a cycle without a flush. *)

\* Both queues, as QueueStep describes them.
QueueGrows(queue, queue1, issued, ins) ==
  \A k \in DOMAIN queue1 :
    \/ \E j \in DOMAIN queue :
         /\ Fixed(queue1[k]) = Fixed(queue[j])
         /\ queue1[k].issued <=> queue[j].issued \/ j \in issued
    \/ ins # Bubble /\ queue1[k] = QueueEntry(ins)

LEMMA QueuesAfter ==
  ASSUME LInv, ~R!FlushRecover, NEW ins \in Decodes, NEW wrong \in BOOLEAN, Cycle(ins, wrong)
  PROVE  /\ aluQueue' \in Seq(Entry) /\ lsq' \in Seq(Entry)
         /\ QueuesLinked'
         /\ QueueGrows(aluQueue, aluQueue', IssuesAlu, ins)
         /\ QueueGrows(lsq, lsq', IssuesLsq, ins)
<1>1. /\ P!RInv /\ Decoding(ins)
      /\ aluQueue \in Seq(Entry) /\ lsq \in Seq(Entry)
      /\ Linked(aluQueue, activeList, activeHead, AluOps)
      /\ Linked(lsq, activeList, activeHead, MemOps)
  BY DEF LInv, Decoding, TypeOK, QueuesLinked
<1>2. ListFacts
  BY <1>1, FactsHold
<1>3. Shift = 1 <=> R!Retires
  BY DEF Shift
<1>4. /\ AluPop <=> Shift = 1 /\ activeList[1].op \in AluOps
      /\ MemPop <=> Shift = 1 /\ activeList[1].op \in MemOps
  <2>1. R!Retires => R!Oldest = activeList[1] /\ 1 \in DOMAIN activeList
    <3>1. activeList \in Seq(R!Entry)
      BY <1>1, ListIs DEF R!TypeOK
    <3> QED BY <3>1 DEF R!Retires, R!Oldest
  <2>2. R!Retires => activeList[1].op \in {"alu", "load", "branch", "store"}
    BY <1>2, <2>1 DEF ListFacts
  <2> QED BY <1>3, <2>1, <2>2 DEF AluPop, MemPop, IsAlu, AluOps, MemOps
<1>5. /\ IsAlu(ins.op) <=> ins # Bubble /\ Renamed(ins).op \in AluOps
      /\ (ins # Bubble /\ ~IsAlu(ins.op)) <=> ins # Bubble /\ Renamed(ins).op \in MemOps
  <2>1. ins # Bubble => ins.op \in {"alu", "load", "branch", "store", "unmatched"}
    <3>1. ins # Bubble => ins \in Instruction
      BY DecodesAre, InstructionsAssumption
    <3> QED BY <3>1 DEF Instruction
  <2>2. ins = Bubble => ~IsAlu(ins.op)
    BY DEF Bubble, IsAlu
  <2>3. Renamed(ins).op = IF ins.op = "unmatched" THEN "load" ELSE ins.op
    BY DecodesAre
  <2> QED BY <2>1, <2>2, <2>3 DEF IsAlu, AluOps, MemOps
<1>6. /\ aluQueue' \in Seq(Entry)
      /\ Linked(aluQueue', activeList', activeHead', AluOps)
      /\ QueueGrows(aluQueue, aluQueue', IssuesAlu, ins)
  <2> DEFINE pop  == IF Shift = 1 /\ activeList[1].op \in AluOps THEN 1 ELSE 0
             push == IF ins # Bubble /\ Renamed(ins).op \in AluOps THEN 1 ELSE 0
  <2>1. (pop = 1) = AluPop /\ (push = 1) = IsAlu(ins.op)
    BY <1>4, <1>5 DEF AluPop, IsAlu
  <2>2. aluQueue' = QueueBuild(aluQueue, IssuesAlu, pop = 1, push = 1, ins)
    BY <2>1 DEF Cycle
  <2>3. pop \in {0, 1} /\ push \in {0, 1}
    OBVIOUS
  <2> QED BY <1>1, <2>2, <2>3, QueueStep DEF QueueGrows
<1>7. /\ lsq' \in Seq(Entry)
      /\ Linked(lsq', activeList', activeHead', MemOps)
      /\ QueueGrows(lsq, lsq', IssuesLsq, ins)
  <2> DEFINE pop  == IF Shift = 1 /\ activeList[1].op \in MemOps THEN 1 ELSE 0
             push == IF ins # Bubble /\ Renamed(ins).op \in MemOps THEN 1 ELSE 0
  <2>1. (pop = 1) = MemPop /\ (push = 1) = (ins # Bubble /\ ~IsAlu(ins.op))
    BY <1>4, <1>5 DEF MemPop
  <2>2. lsq' = QueueBuild(lsq, IssuesLsq, pop = 1, push = 1, ins)
    BY <2>1 DEF Cycle
  <2>3. pop \in {0, 1} /\ push \in {0, 1}
    OBVIOUS
  <2> QED BY <1>1, <2>2, <2>3, QueueStep DEF QueueGrows
<1> QED BY <1>6, <1>7 DEF QueuesLinked

\* Whoever is not issued in this cycle, and gets no result, waits on.
LEMMA WaitingAfter ==
  ASSUME LInv, P!RInv', ~R!FlushRecover,
         NEW ins \in Decodes, NEW wrong \in BOOLEAN, Cycle(ins, wrong),
         NEW queue, NEW queue1, NEW ops, NEW issued,
         Linked(queue, activeList, activeHead, ops), Waiting(queue),
         QueueGrows(queue, queue1, issued, ins),
         \A w \in alu' \cup Loading' : \A j \in DOMAIN queue :
           w.slot = queue[j].slot => j \in issued
  PROVE  \A k \in DOMAIN queue1 : ~queue1[k].issued /\ queue1[k].op # "store" =>
           /\ queue1[k].slot \notin Busy'
           /\ \A i \in DOMAIN activeList' :
                queue1[k].slot = SlotAt(activeHead', i) => ~activeList'[i].ready
<1>1. P!RInv /\ Decoding(ins)
  BY DEF LInv, Decoding
<1>2. ListFacts /\ ListFacts'
  BY <1>1, FactsHold, FactsNext
<1>3. Busy' = {w.slot : w \in alu' \cup Loading' \cup writeBack'}
  BY DEF Busy
<1>4. ASSUME NEW i \in DOMAIN activeList', NEW k \in DOMAIN activeList',
             SlotAt(activeHead', i) = SlotAt(activeHead', k)
      PROVE  i = k
  <2>1. PICK a \in 1 .. ActiveListDepth : a = i
    BY <1>2, ActiveListDepthAssumption DEF ListFacts
  <2>2. PICK b \in 1 .. ActiveListDepth : b = k
    BY <1>2, ActiveListDepthAssumption DEF ListFacts
  <2>3. activeHead' \in 0 .. ActiveListDepth - 1
    BY <1>2 DEF ListFacts
  <2> QED BY <1>4, <2>1, <2>2, <2>3, SlotsDiffer
<1> SUFFICES ASSUME NEW k \in DOMAIN queue1, ~queue1[k].issued, queue1[k].op # "store"
             PROVE  /\ queue1[k].slot \notin Busy'
                    /\ \A i \in DOMAIN activeList' :
                         queue1[k].slot = SlotAt(activeHead', i) => ~activeList'[i].ready
  OBVIOUS
<1>5. CASE \E j \in DOMAIN queue :
             /\ Fixed(queue1[k]) = Fixed(queue[j])
             /\ queue1[k].issued <=> queue[j].issued \/ j \in issued
  <2>1. PICK j \in DOMAIN queue :
          /\ queue1[k].slot = queue[j].slot /\ queue[j].op # "store"
          /\ ~queue[j].issued /\ j \notin issued
    BY <1>5 DEF Fixed
  <2>2. PICK i \in DOMAIN activeList \ Delivered :
          /\ Matches(queue[j], activeList, activeHead, i) /\ ~activeList[i].ready
    BY <2>1, WaitingEntry
  <2>3. queue[j].slot \notin Busy
    BY <2>1, WaitingEntry
  <2>4. /\ i - Shift \in DOMAIN activeList' /\ ~activeList'[i - Shift].ready
        /\ SlotAt(activeHead', i - Shift) = queue[j].slot
    BY <1>1, <2>2, Kept DEF Matches
  <2>5. ASSUME NEW w \in alu' \cup Loading' \cup writeBack', w.slot = queue[j].slot
        PROVE  FALSE
    <3>1. CASE w \in alu' \cup Loading'
      BY <2>1, <2>5, <3>1
    <3>2. CASE w \in writeBack'
      <4>1. PICK v \in Loading : v.slot = w.slot
        BY <3>2, UnitsAfter
      <4> QED BY <2>3, <2>5, <4>1 DEF Busy
    <3> QED BY <3>1, <3>2
  <2>6. queue1[k].slot \notin Busy'
    BY <1>3, <2>1, <2>5
  <2> QED BY <1>4, <2>1, <2>4, <2>6
<1>6. CASE ins # Bubble /\ queue1[k] = QueueEntry(ins)
  <2>1. /\ Len(activeList') = Len(activeList) - Shift + 1 /\ Shift \in {0, 1}
        /\ Shift <= Len(activeList)
        /\ SlotAt(activeHead', Len(activeList) - Shift + 1) = ActiveListIdx
        /\ activeList'[Len(activeList) - Shift + 1] = R!NewEntry(Renamed(ins))
    BY <1>1, <1>6, ListAfter
  <2>2. PICK n \in Nat : n = Len(activeList) - Shift
    <3>1. PICK r \in {0, 1} : r = Shift
      BY <2>1
    <3>2. PICK m \in Nat : m = Len(activeList)
      BY <1>2 DEF ListFacts
    <3>3. r <= m
      BY <2>1, <3>1, <3>2
    <3>4. m - r \in Nat
      BY <3>3
    <3> QED BY <3>1, <3>2, <3>4
  <2>3. /\ n + 1 \in DOMAIN activeList' /\ DOMAIN activeList' = 1 .. n + 1
        /\ SlotAt(activeHead', n + 1) = queue1[k].slot
        /\ activeList'[n + 1] = R!NewEntry(Renamed(ins))
    <3>1. queue1[k].slot = ActiveListIdx
      BY <1>6 DEF QueueEntry
    <3>2. DOMAIN activeList' = 1 .. Len(activeList') /\ Len(activeList') = n + 1
      BY <1>2, <2>1, <2>2 DEF ListFacts
    <3> QED BY <2>1, <2>2, <3>1, <3>2
  <2>4. ~activeList'[n + 1].ready
    <3>1. Renamed(ins).op # "store"
      BY <1>6, DecodesAre DEF QueueEntry
    <3>2. ~R!NewEntry(Renamed(ins)).ready
      BY <3>1 DEF R!NewEntry
    <3> QED BY <2>3, <3>2
  <2>5. ASSUME NEW w \in alu' \cup Loading' \cup writeBack', w.slot = queue1[k].slot
        PROVE  FALSE
    <3>1. Staying(w, AluOps) \/ Staying(w, {"load"})
      BY UnitsAfter
    <3>2. PICK i \in 1 .. Len(activeList) - Shift : w.slot = SlotAt(activeHead', i)
      BY <1>1, <3>1, StaysInFlight
    <3>3. i \in DOMAIN activeList' /\ i # n + 1
      BY <2>2, <2>3, <3>2
    <3> QED BY <1>4, <2>3, <2>5, <3>2, <3>3
  <2>6. queue1[k].slot \notin Busy'
    BY <1>3, <2>5
  <2> QED BY <1>4, <2>3, <2>4, <2>6
<1> QED BY <1>5, <1>6 DEF QueueGrows

LEMMA FetchedAfter ==
  ASSUME LInv, P!RInv', NEW ins \in Decodes, NEW wrong \in BOOLEAN, Cycle(ins, wrong)
  PROVE  fetched' \in Seq(Instruction) /\ Len(fetched') = Len(activeList')
<1>1. fetched \in Seq(Instruction) /\ Len(fetched) = Len(activeList) /\ P!RInv
  BY DEF LInv, TypeOK
<1>2. fetched' = IF R!FlushRecover THEN <<>>
                 ELSE IF ins = Bubble THEN (IF R!Retires THEN Tail(fetched) ELSE fetched)
                 ELSE Append(IF R!Retires THEN Tail(fetched) ELSE fetched, ins)
  BY DEF Cycle, FetchedBuild
<1>3. CASE R!FlushRecover
  <2>1. activeList' = <<>>
    BY <1>3 DEF Cycle, R!ActiveListBuild
  <2> QED BY <1>2, <1>3, <2>1
<1>4. CASE ~R!FlushRecover
  <2>1. Decoding(ins)
    BY DEF Decoding
  <2>2. /\ Shift <= Len(activeList)
        /\ Len(activeList') = IF ins = Bubble THEN Len(activeList) - Shift
                              ELSE Len(activeList) - Shift + 1
    BY <1>1, <1>4, <2>1, ListAfter
  <2>3. PICK kept : kept = IF R!Retires THEN Tail(fetched) ELSE fetched
    OBVIOUS
  <2>4. kept \in Seq(Instruction) /\ Len(kept) = Len(activeList) - Shift
    <3>1. CASE R!Retires
      <4>1. Shift = 1 /\ Len(fetched) >= 1
        BY <1>1, <2>2, <3>1 DEF Shift
      <4> QED BY <1>1, <2>3, <3>1, <4>1
    <3>2. CASE ~R!Retires
      BY <1>1, <2>3, <3>2 DEF Shift
    <3> QED BY <3>1, <3>2
  <2>5. CASE ins = Bubble
    BY <1>2, <1>4, <2>2, <2>3, <2>4, <2>5
  <2>6. CASE ins # Bubble
    <3>1. ins \in Instruction
      BY <2>6, DecodesAre, InstructionsAssumption
    <3>2. fetched' = Append(kept, ins)
      BY <1>2, <1>4, <2>3, <2>6
    <3> QED BY <2>2, <2>4, <2>6, <3>1, <3>2
  <2> QED BY <2>5, <2>6
<1> QED BY <1>3, <1>4

\* With the queues, everything TypeOK asks for.
LEMMA TypeAfter ==
  ASSUME LInv, P!RInv', NEW ins \in Decodes, NEW wrong \in BOOLEAN, Cycle(ins, wrong),
         aluQueue' \in Seq(Entry), lsq' \in Seq(Entry)
  PROVE  TypeOK'
<1>1. /\ Cardinality(storeBuffer') <= 1 /\ Cardinality(alu') <= 1
      /\ Cardinality(lsu') <= 1 /\ Cardinality(writeBack') <= 1
  <2>1. Single(storeBuffer') /\ Single(alu') /\ Single(lsu') /\ Single(writeBack')
    BY PortsAfter DEF OnePort
  <2> QED BY <2>1, SingleCount
<1>2. storeBuffer' \subseteq Entry /\ alu' \subseteq Entry /\ lsu' \subseteq Entry
  BY PortsAfter
<1> QED BY <1>1, <1>2, FetchedAfter, DataAfter DEF TypeOK

LEMMA CycleKeeps ==
  ASSUME LInv, P!RInv', ~R!FlushRecover,
         NEW ins \in Decodes, NEW wrong \in BOOLEAN, Cycle(ins, wrong)
  PROVE  LInv'
<1>1. P!RInv /\ ListFacts /\ Decoding(ins)
  BY FactsHold DEF LInv, Decoding
<1>2. TypeOK' /\ QueuesLinked'
  BY QueuesAfter, TypeAfter
<1>3. UnitsInFlight'
  <2>1. \A w \in alu' : InFlight(w, AluOps)'
    BY <1>1, UnitsAfter, StaysInFlight
  <2>2. \A w \in Loading' : InFlight(w, {"load"})'
    BY <1>1, UnitsAfter, StaysInFlight
  <2>3. \A w \in writeBack' : InFlight(w, {"load"})'
    BY <1>1, UnitsAfter, StaysInFlight
  <2>4. lateLoad' = {}
    BY UnitsAfter
  <2> QED BY <2>1, <2>2, <2>3, <2>4 DEF UnitsInFlight
<1>4. LoadsApart'
  <2> SUFFICES ASSUME NEW v \in Loading', NEW w \in writeBack', v.slot = w.slot
               PROVE  FALSE
    BY DEF LoadsApart
  <2>1. v.slot \notin Busy
    BY UnitsAfter
  <2>2. PICK u \in Loading : u.slot = w.slot
    BY UnitsAfter
  <2> QED BY <2>1, <2>2 DEF Busy
<1>5. OnePort' /\ \A w \in storeBuffer' : w.op = "store"
  BY PortsAfter
<1>6. /\ Linked(aluQueue, activeList, activeHead, AluOps) /\ Waiting(aluQueue)
      /\ Linked(lsq, activeList, activeHead, MemOps) /\ Waiting(lsq)
      /\ aluQueue \in Seq(Entry) /\ lsq \in Seq(Entry)
  BY DEF LInv, QueuesLinked, TypeOK
<1>7. PICK n \in Nat : DOMAIN activeList = 1 .. n /\ n <= ActiveListDepth
  BY <1>1 DEF ListFacts
<1>8. activeHead \in 0 .. ActiveListDepth - 1
  BY <1>1 DEF ListFacts
\* Two entries of different queues are of different positions.
<1>9. ASSUME NEW j \in DOMAIN aluQueue, NEW k \in DOMAIN lsq, aluQueue[j].slot = lsq[k].slot
      PROVE  FALSE
  <2>1. PICK a \in DOMAIN activeList :
          Matches(aluQueue[j], activeList, activeHead, a) /\ activeList[a].op \in AluOps
    BY <1>6, EntryAt
  <2>2. PICK b \in DOMAIN activeList :
          Matches(lsq[k], activeList, activeHead, b) /\ activeList[b].op \in MemOps
    BY <1>6, EntryAt
  <2>3. a \in 1 .. ActiveListDepth /\ b \in 1 .. ActiveListDepth
    BY <1>7, <2>1, <2>2, ActiveListDepthAssumption
  <2>4. SlotAt(activeHead, a) = SlotAt(activeHead, b)
    BY <1>9, <2>1, <2>2 DEF Matches
  <2>5. a = b
    BY <1>8, <2>3, <2>4, SlotsDiffer
  <2> QED BY <2>1, <2>2, <2>5 DEF AluOps, MemOps
<1>10. PICK m \in Nat : DOMAIN aluQueue = 1 .. m
  BY <1>6
<1>11. PICK l \in Nat : DOMAIN lsq = 1 .. l
  BY <1>6
<1>12. \A w \in alu' \cup Loading' : \A j \in DOMAIN aluQueue :
         w.slot = aluQueue[j].slot => j \in IssuesAlu
  <2>1. ASSUME NEW w \in alu', NEW j \in DOMAIN aluQueue, w.slot = aluQueue[j].slot
        PROVE  j \in IssuesAlu
    <3>1. PICK k \in IssuesAlu : w = aluQueue[k]
      BY UnitsAfter
    <3>2. k \in DOMAIN aluQueue
      BY Issuing
    <3>3. j = k
      BY <1>6, <1>7, <1>8, <1>10, <2>1, <3>1, <3>2, SlotsInQueue
    <3> QED BY <3>3
  <2>2. ASSUME NEW w \in Loading', NEW j \in DOMAIN aluQueue, w.slot = aluQueue[j].slot
        PROVE  FALSE
    <3>1. PICK k \in IssuesLsq : w = lsq[k]
      BY UnitsAfter
    <3>2. k \in DOMAIN lsq
      BY Issuing
    <3> QED BY <1>9, <2>2, <3>1, <3>2
  <2> QED BY <2>1, <2>2
<1>13. \A w \in alu' \cup Loading' : \A j \in DOMAIN lsq :
         w.slot = lsq[j].slot => j \in IssuesLsq
  <2>1. ASSUME NEW w \in Loading', NEW j \in DOMAIN lsq, w.slot = lsq[j].slot
        PROVE  j \in IssuesLsq
    <3>1. PICK k \in IssuesLsq : w = lsq[k]
      BY UnitsAfter
    <3>2. k \in DOMAIN lsq
      BY Issuing
    <3>3. j = k
      BY <1>6, <1>7, <1>8, <1>11, <2>1, <3>1, <3>2, SlotsInQueue
    <3> QED BY <3>3
  <2>2. ASSUME NEW w \in alu', NEW j \in DOMAIN lsq, w.slot = lsq[j].slot
        PROVE  FALSE
    <3>1. PICK k \in IssuesAlu : w = aluQueue[k]
      BY UnitsAfter
    <3>2. k \in DOMAIN aluQueue
      BY Issuing
    <3> QED BY <1>9, <2>2, <3>1, <3>2
  <2> QED BY <2>1, <2>2
<1>14. Waiting(aluQueue)'
  <2>1. QueueGrows(aluQueue, aluQueue', IssuesAlu, ins)
    BY QueuesAfter
  <2>2. \A k \in DOMAIN aluQueue' : ~aluQueue'[k].issued /\ aluQueue'[k].op # "store" =>
           /\ aluQueue'[k].slot \notin Busy'
           /\ \A i \in DOMAIN activeList' :
                aluQueue'[k].slot = SlotAt(activeHead', i) => ~activeList'[i].ready
    BY <1>6, <1>12, <2>1, WaitingAfter
  <2> QED BY <2>2 DEF Waiting
<1>15. Waiting(lsq)'
  <2>1. QueueGrows(lsq, lsq', IssuesLsq, ins)
    BY QueuesAfter
  <2>2. \A k \in DOMAIN lsq' : ~lsq'[k].issued /\ lsq'[k].op # "store" =>
           /\ lsq'[k].slot \notin Busy'
           /\ \A i \in DOMAIN activeList' :
                lsq'[k].slot = SlotAt(activeHead', i) => ~activeList'[i].ready
    BY <1>6, <1>13, <2>1, WaitingAfter
  <2> QED BY <2>2 DEF Waiting
<1> QED BY <1>2, <1>3, <1>4, <1>5, <1>14, <1>15 DEF LInv

-----------------------------------------------------------------------------
(* A flush, the initial state, and a stuttering step. *)

LEMMA LinkedEmpty ==
  ASSUME NEW head, NEW ops
  PROVE  Linked(<<>>, <<>>, head, ops)
<1> DEFINE pos == [k \in {} |-> 0]
<1>1. DOMAIN <<>> = {}
  OBVIOUS
<1>2. pos \in [DOMAIN <<>> -> DOMAIN <<>>] /\ Places(pos, <<>>, <<>>, head, ops)
  BY <1>1 DEF Places
<1> QED BY <1>2 DEF Linked

LEMMA FlushKeeps ==
  ASSUME LInv, P!RInv', R!FlushRecover,
         NEW ins \in Decodes, NEW wrong \in BOOLEAN, Cycle(ins, wrong)
  PROVE  LInv'
<1>1. activeList' = <<>> /\ aluQueue' = <<>> /\ lsq' = <<>>
  BY DEF Cycle, R!ActiveListBuild, QueueBuild
<1>2. alu' = {} /\ lsu' = storeBuffer
  BY DEF Cycle, IssuesAlu, IssuesLsq, LsuCall
<1>3. Loading' = {}
  <2>1. Loading' = {w \in lsu' : w.op # "store"}
    BY DEF Loading
  <2> QED BY <1>2, <2>1 DEF LInv
<1>4. aluQueue' \in Seq(Entry) /\ lsq' \in Seq(Entry)
  BY <1>1
<1>5. QueuesLinked'
  <2>1. PICK head : head = activeHead'
    OBVIOUS
  <2>2. Linked(aluQueue', activeList', activeHead', AluOps)
    BY <1>1, <2>1, LinkedEmpty
  <2>3. Linked(lsq', activeList', activeHead', MemOps)
    BY <1>1, <2>1, LinkedEmpty
  <2> QED BY <2>2, <2>3 DEF QueuesLinked
<1>6. UnitsInFlight'
  <2>1. writeBack' = {[rd |-> w.rd, slot |-> w.slot, value |-> memory[Address(w)]] :
                        w \in {v \in lsu : v.op = "load"}}
    BY DEF Cycle, LsuBuild
  <2>2. lateLoad' = {[slot |-> R!SlotOf(i), entry |-> activeList[i]] :
                       i \in {j \in DOMAIN activeList :
                                \E w \in lsu : w.op = "load" /\ w.slot = R!SlotOf(j)}}
    BY DEF Cycle, LateLoadBuild
  <2>3. ASSUME NEW v \in lsu, v.op = "load"
        PROVE  InFlight(v, {"load"})
    BY <2>3 DEF LInv, UnitsInFlight, Loading
  <2>4. ASSUME NEW w \in writeBack'
        PROVE  \E l \in lateLoad' : l.entry.new = w.rd
    <3>1. PICK v \in {u \in lsu : u.op = "load"} :
            w = [rd |-> v.rd, slot |-> v.slot, value |-> memory[Address(v)]]
      BY <2>1
    <3>2. PICK i \in DOMAIN activeList : v.slot = SlotAt(activeHead, i) /\ v.rd = activeList[i].new
      BY <2>3, <3>1 DEF InFlight
    <3> DEFINE l == [slot |-> R!SlotOf(i), entry |-> activeList[i]]
    <3>3. l \in lateLoad'
      BY <2>2, <3>1, <3>2, SlotOfIs
    <3>4. l.entry.new = w.rd
      BY <3>1, <3>2
    <3> QED BY <3>3, <3>4
  <2>5. ASSUME NEW l \in lateLoad'
        PROVE  \E w \in writeBack' : l.entry.new = w.rd
    <3>1. PICK i \in DOMAIN activeList, v \in lsu :
            /\ l = [slot |-> R!SlotOf(i), entry |-> activeList[i]]
            /\ v.op = "load" /\ v.slot = R!SlotOf(i)
      BY <2>2
    <3>2. v.rd = activeList[i].new
      BY <2>3, <3>1, SlotOfIs, InFlightAt DEF LInv
    <3> DEFINE w == [rd |-> v.rd, slot |-> v.slot, value |-> memory[Address(v)]]
    <3>3. w \in writeBack'
      BY <2>1, <3>1
    <3>4. l.entry.new = w.rd
      BY <3>1, <3>2
    <3> QED BY <3>3, <3>4
  <2> QED BY <1>2, <1>3, <2>4, <2>5 DEF UnitsInFlight
<1>7. LoadsApart' /\ Waiting(aluQueue)' /\ Waiting(lsq)'
  BY <1>1, <1>3 DEF LoadsApart, Waiting
<1>8. TypeOK'
  BY <1>4, TypeAfter
<1> QED BY <1>5, <1>6, <1>7, <1>8, PortsAfter DEF LInv

LEMMA LInit == Init => LInv
<1> SUFFICES ASSUME Init PROVE LInv
  OBVIOUS
<1>1. P!RInv
  BY ReadyInit DEF Init
<1>2. /\ activeList = <<>> /\ fetched = <<>> /\ aluQueue = <<>> /\ lsq = <<>>
      /\ storeBuffer = {} /\ alu = {} /\ lsu = {} /\ writeBack = {} /\ lateLoad = {}
      /\ registerFile = [p \in Physical |-> 0] /\ memory = [a \in Words |-> 0]
  BY DEF Init, R!Init
<1>3. TypeOK
  <2>1. 0 \in Words
    BY WordAssumption DEF Words
  <2>2. Cardinality({}) = 0
    BY FS_EmptySet
  <2> QED BY <1>2, <2>1, <2>2 DEF TypeOK
<1>4. QueuesLinked
  <2>1. PICK head : head = activeHead
    OBVIOUS
  <2> QED BY <1>2, <2>1, LinkedEmpty DEF QueuesLinked
<1>5. Loading = {}
  BY <1>2 DEF Loading
<1>6. UnitsInFlight /\ LoadsApart /\ OnePort /\ Waiting(aluQueue) /\ Waiting(lsq)
  BY <1>2, <1>5 DEF UnitsInFlight, LoadsApart, OnePort, Single, Waiting
<1> QED BY <1>1, <1>2, <1>3, <1>4, <1>6 DEF LInv

LEMMA LNext ==
  ASSUME LInv, [Next]_vars
  PROVE  LInv'
<1>1. P!RInv
  BY DEF LInv
<1>2. CASE Next
  <2>1. P!RInv'
    BY <1>1, <1>2, IsRenaming, ReadyNext
  <2>2. PICK ins \in Decodes, wrong \in BOOLEAN : Cycle(ins, wrong)
    BY <1>2 DEF Next
  <2> QED BY <2>1, <2>2, CycleKeeps, FlushKeeps
<1>3. CASE UNCHANGED vars
  <2>1. P!RInv'
    <3>1. UNCHANGED P!vars
      BY <1>3 DEF vars, renamingVars, P!vars
    <3> QED BY <1>1, <3>1, Assumptions, P!ReadyNext
  <2>2. TypeOK'
    BY <1>3 DEF LInv, TypeOK, vars, renamingVars
  <2>3. QueuesLinked' /\ UnitsInFlight' /\ LoadsApart' /\ OnePort'
        /\ Waiting(aluQueue)' /\ Waiting(lsq)' /\ \A w \in storeBuffer' : w.op = "store"
    BY <1>3 DEF LInv, vars, renamingVars, QueuesLinked, UnitsInFlight, LoadsApart, OnePort, Single,
                Waiting, Busy, Loading, InFlight
  <2> QED BY <2>1, <2>2, <2>3 DEF LInv
<1> QED BY <1>2, <1>3

THEOREM UnitsInvariant == Spec => []LInv
<1>1. LInv /\ [Next]_vars => LInv'
  BY LNext
<1> QED BY <1>1, LInit, PTL DEF Spec

-----------------------------------------------------------------------------
(* What it implies. *)

\* Every queue, port, unit, register and memory word keeps its type, and the unit ports carry
\* at most one entry per cycle.
THEOREM TypeCorrect == Spec => []TypeOK
<1>1. LInv => TypeOK
  BY DEF LInv
<1> QED BY <1>1, UnitsInvariant, PTL

\* The scheduler, the units, write-back and commit do what Renaming allows: every cycle of
\* theirs is one of Renaming's, whose invariants therefore hold of them.
THEOREM RefinesRenaming == Spec => ImplementsRenaming
<1>1. LInv /\ [Next]_vars => [R!Next]_(R!vars)
  BY IsRenaming DEF vars, renamingVars, R!vars
<1>2. Init => R!Init
  BY DEF Init
<1> QED BY <1>1, <1>2, UnitsInvariant, PTL DEF Spec, ImplementsRenaming, R!Spec

\* While a branch is in flight, the slots of the free list from the snapshot to its head hold,
\* in order, the registers handed out behind it: the stages composed here never hand the
\* recovery a register that is still in use.
THEOREM WrongPathGivenBack == Spec => []WrongPathCanBeGivenBack
<1>1. ASSUME LInv PROVE P!SnapshotCoversWrongPath
  <2>1. P!IInv
    BY <1>1 DEF LInv, P!RInv
  <2> QED BY <2>1, Assumptions, P!SnapshotHolds
<1>2. R!SnapshotCoversWrongPath <=> P!SnapshotCoversWrongPath
  BY DEF R!SnapshotCoversWrongPath, P!SnapshotCoversWrongPath, R!Branches, P!Branches,
         R!Writers, P!Writers, R!HasDest, P!HasDest, R!FreeRing!Distance, P!FreeRing!Distance,
         R!FreeRing!Advance, P!FreeRing!Advance, R!FreeListDepth, P!FreeListDepth,
         R!Cardinality, P!Cardinality
<1>3. LInv => WrongPathCanBeGivenBack
  BY <1>1, <1>2 DEF WrongPathCanBeGivenBack
<1> QED BY <1>3, UnitsInvariant, PTL

\* An increasing enumeration counts.
Enumerates(pos, m, n, S) ==
  /\ pos \in [1 .. m -> 1 .. n] /\ S = {pos[k] : k \in 1 .. m}
  /\ \A j, k \in 1 .. m : j < k => pos[j] < pos[k]
UpTo(S, p) == {q \in S : q <= p}

LEMMA Counting ==
  ASSUME NEW n \in Nat, NEW m \in Nat, NEW pos, NEW S, Enumerates(pos, m, n, S)
  PROVE  /\ Cardinality(S) = m
         /\ \A k \in 1 .. m : Cardinality(UpTo(S, pos[k])) = k
<1> USE DEF Enumerates
<1>1. ASSUME NEW k \in 0 .. m
      PROVE  Cardinality({pos[j] : j \in 1 .. k}) = k
  <2> DEFINE T == {pos[j] : j \in 1 .. k}
             f == [j \in 1 .. k |-> pos[j]]
  <2>1. f \in Bijection(1 .. k, T)
    <3>1. \A i, j \in 1 .. k : i # j => f[i] # f[j]
      <4> SUFFICES ASSUME NEW i \in 1 .. k, NEW j \in 1 .. k, i # j
                   PROVE  pos[i] # pos[j]
        OBVIOUS
      <4>1. i \in 1 .. m /\ j \in 1 .. m /\ (i < j \/ j < i)
        OBVIOUS
      <4>2. pos[i] \in 1 .. n /\ pos[j] \in 1 .. n
        BY <4>1
      <4> QED BY <4>1, <4>2
    <3>2. f \in [1 .. k -> T] /\ \A t \in T : \E j \in 1 .. k : f[j] = t
      OBVIOUS
    <3> QED BY <3>1, <3>2 DEF Bijection, Injection, Surjection, IsInjective
  <2>2. IsFiniteSet(1 .. k) /\ Cardinality(1 .. k) = k
    BY FS_Interval
  <2>3. ExistsBijection(1 .. k, T)
    BY <2>1 DEF ExistsBijection
  <2> QED BY <2>2, <2>3, FS_Bijection
<1>2. Cardinality(S) = m
  BY <1>1
<1>3. ASSUME NEW k \in 1 .. m
      PROVE  Cardinality(UpTo(S, pos[k])) = k
  <2>1. ASSUME NEW j \in 1 .. m
        PROVE  pos[j] <= pos[k] <=> j \in 1 .. k
    <3>1. pos[j] \in 1 .. n /\ pos[k] \in 1 .. n
      OBVIOUS
    <3>2. (j < k => pos[j] < pos[k]) /\ (k < j => pos[k] < pos[j])
      OBVIOUS
    <3> QED BY <3>1, <3>2
  <2>2. UpTo(S, pos[k]) = {pos[j] : j \in 1 .. k}
    <3>1. \A j \in 1 .. k : j \in 1 .. m
      OBVIOUS
    <3> QED BY <2>1, <3>1 DEF UpTo
  <2> QED BY <1>1, <2>2
<1> QED BY <1>2, <1>3

LEMMA LinkedMirrors ==
  ASSUME P!RInv, NEW queue \in Seq(Entry), NEW ops, NEW isAlu \in BOOLEAN,
         Linked(queue, activeList, activeHead, ops),
         Positions(isAlu) = {i \in DOMAIN activeList : activeList[i].op \in ops}
  PROVE  Mirrors(queue, isAlu)
<1>1. PICK n \in Nat : DOMAIN activeList = 1 .. n
  BY FactsHold DEF ListFacts
<1>2. PICK m \in Nat : DOMAIN queue = 1 .. m /\ Len(queue) = m
  OBVIOUS
<1>3. PICK pos \in [1 .. m -> 1 .. n] : Places(pos, queue, activeList, activeHead, ops)
  BY <1>1, <1>2 DEF Linked
<1>4. /\ \A j, k \in 1 .. m : j < k => pos[j] < pos[k]
      /\ \A k \in 1 .. m : /\ queue[k].slot = SlotAt(activeHead, pos[k])
                           /\ activeList[pos[k]].op \in ops
      /\ \A i \in 1 .. n : activeList[i].op \in ops => \E k \in 1 .. m : pos[k] = i
  BY <1>1, <1>2, <1>3 DEF Places, Matches
<1>5. Positions(isAlu) = {pos[k] : k \in 1 .. m}
  BY <1>1, <1>4
<1>6. /\ Cardinality(Positions(isAlu)) = m
      /\ \A k \in 1 .. m : Cardinality(UpTo(Positions(isAlu), pos[k])) = k
  <2>1. PICK S : S = Positions(isAlu)
    OBVIOUS
  <2>2. Enumerates(pos, m, n, S)
    BY <1>4, <1>5, <2>1 DEF Enumerates
  <2>3. /\ Cardinality(S) = m
        /\ \A k \in 1 .. m : Cardinality(UpTo(S, pos[k])) = k
    BY <2>2, Counting
  <2> QED BY <2>1, <2>3
<1>7. ASSUME NEW p \in Positions(isAlu)
      PROVE  queue[Cardinality({q \in Positions(isAlu) : q <= p})].slot = R!SlotOf(p)
  <2>1. PICK k \in 1 .. m : p = pos[k]
    BY <1>5
  <2>2. {q \in Positions(isAlu) : q <= p} = UpTo(Positions(isAlu), pos[k])
    BY <2>1 DEF UpTo
  <2> QED BY <1>4, <1>6, <2>1, <2>2, SlotOfIs
<1> QED BY <1>2, <1>6, <1>7 DEF Mirrors

\* The ALU queue and the load/store queue together are the active list, in order: they have
\* room when it has, and what commit pops from their heads is what retires.
THEOREM QueuesMirror == Spec => []QueuesMirrorActiveList
<1>1. ASSUME LInv PROVE QueuesMirrorActiveList
  <2>1. P!RInv /\ QueuesLinked /\ aluQueue \in Seq(Entry) /\ lsq \in Seq(Entry)
    BY <1>1 DEF LInv, TypeOK
  <2>2. \A i \in DOMAIN activeList : activeList[i].op \in {"alu", "load", "branch", "store"}
    BY <2>1, FactsHold DEF ListFacts
  <2>3. Positions(TRUE) = {i \in DOMAIN activeList : activeList[i].op \in AluOps}
    BY <2>2 DEF Positions, IsAlu, AluOps
  <2>4. Positions(FALSE) = {i \in DOMAIN activeList : activeList[i].op \in MemOps}
    BY <2>2 DEF Positions, IsAlu, MemOps
  <2> QED BY <2>1, <2>3, <2>4, LinkedMirrors DEF QueuesMirrorActiveList, QueuesLinked
<1> QED BY <1>1, UnitsInvariant, PTL

-----------------------------------------------------------------------------
(* OutOfOrder retires what InOrder executes, for every program that loads nothing into x0. *)

\* Loads write the register they are given, and one to x0 is given register 0 (zero_register).
NoLoadToZero == \A ins \in Instructions : ins.op = "load" => ins.dest # 0

-----------------------------------------------------------------------------
(* The invariant. *)

\* p is the mapping of l that the entry at position i was decoded under.
Mapping(l, i, p) == P!Maps(P!FixedOf(activeList), commitTable, l, i, p)

\* Each entry of the active list is its instruction, with the renamed operand; one that no
\* pattern matches never finishes.
Traced ==
  \A i \in DOMAIN activeList :
    /\ fetched[i] \in Instructions
    /\ activeList[i].op = Renamed(fetched[i]).op /\ activeList[i].dest = fetched[i].dest
    /\ Mapping(fetched[i].source, i, activeList[i].source)
    /\ fetched[i].op = "unmatched" => ~activeList[i].ready

\* w does the work of the entry at position i.
Does(w, i, list, head, program, commit) ==
  /\ w.slot = SlotAt(head, i)
  /\ w.op = program[i].op /\ w.imm = program[i].imm /\ w.rs1 = list[i].source
  /\ P!Maps(P!FixedOf(list), commit, program[i].data, i, w.rs2)
Works(w) ==
  \E i \in DOMAIN activeList : Does(w, i, activeList, activeHead, fetched, commitTable)

WorkTraced ==
  /\ \A k \in DOMAIN aluQueue : Works(aluQueue[k])
  /\ \A k \in DOMAIN lsq : Works(lsq[k])
  /\ \A w \in alu \cup Loading : Works(w)

\* What the registers and the memory give the instruction at position i.
Sum(i) == (registerFile[activeList[i].source] + fetched[i].imm) % Word
Result(i) == IF fetched[i].op = "load" THEN memory[Sum(i)] ELSE Sum(i)

\* A finished entry has its result in its register; a load's is on its way from the memory.
ResultsWritten ==
  \A i \in DOMAIN activeList :
    activeList[i].ready /\ activeList[i].dest # 0 =>
      registerFile[activeList[i].new] = Result(i)
ResultsUnderWay ==
  \A w \in writeBack : \A i \in DOMAIN activeList :
    w.slot = SlotAt(activeHead, i) => fetched[i].op = "load" /\ w.value = Result(i)

\* From its issue to its retirement no store is before a load: none that has not retired,
\* and none on its way to the memory.
Issued(i) ==
  /\ activeList[i].op = "load"
  /\ activeList[i].ready \/ \E w \in Loading \cup writeBack : w.slot = SlotAt(activeHead, i)
NoStoreBefore(i) == \A j \in DOMAIN activeList : j < i => activeList[j].op # "store"
StoresDone == storeBuffer = {} /\ \A w \in lsu : w.op # "store"
LoadsAfterStores == \A i \in DOMAIN activeList : Issued(i) => StoresDone /\ NoStoreBefore(i)

\* The operands of a store in the buffer are committed registers, and a late load writes none.
StoresCommitted ==
  \A w \in storeBuffer : \E k, l \in Logical : w.rs1 = commitTable[k] /\ w.rs2 = commitTable[l]
LateLoadsDropped == \A l \in lateLoad : \A k \in Logical : l.entry.new # commitTable[k]

VInv ==
  /\ Traced
  /\ WorkTraced
  /\ ResultsWritten /\ ResultsUnderWay
  /\ LoadsAfterStores
  /\ StoresCommitted /\ LateLoadsDropped

-----------------------------------------------------------------------------
(* The mappings under which entries were decoded. *)

LEMMA MappingNow ==
  ASSUME P!RInv
  PROVE  /\ P!FixedOf(activeList) \in Seq(P!FixedEntry)
         /\ Len(P!FixedOf(activeList)) = Len(activeList) /\ Len(activeList) \in Nat
         /\ commitTable \in [Logical -> Physical] /\ commitTable[0] = 0
         /\ P!MappingOf(P!FixedOf(activeList), commitTable, specTable)
         /\ \A i \in DOMAIN activeList, l \in Logical :
              activeList[i].dest # 0 => activeList[i].new # commitTable[l]
<1> DEFINE list == P!FixedOf(activeList)
<1>1. P!TypeOK /\ P!DataOK(freeList, snapshotHead, list, commitTable, specTable)
  BY DEF P!RInv, P!IInv
<1>2. activeList \in Seq(P!Entry)
  BY <1>1 DEF P!TypeOK
<1>3. /\ list \in Seq(P!FixedEntry) /\ Len(list) = Len(activeList) /\ Len(list) \in Nat
      /\ \A i \in 1 .. Len(list) :
           list[i].dest = activeList[i].dest /\ list[i].new = activeList[i].new
  BY <1>2, Assumptions, P!FixedIs
<1>4. /\ commitTable \in [P!Logical -> P!Physical]
      /\ P!MappingOf(list, commitTable, specTable)
      /\ P!PartitionOf(P!FreeOf(freeList), freeList.count, list, commitTable)
  BY <1>1 DEF P!DataOK
<1> HIDE DEF list
<1>5. P!Logical = Logical /\ P!Physical = Physical
  BY DEF P!Logical, P!Physical, Logical, Physical
<1>6. commitTable[0] = 0 /\ \A j \in P!WritersOf(list), l \in Logical : list[j].new # commitTable[l]
  BY <1>4, <1>5 DEF P!PartitionOf
<1>7. DOMAIN list = 1 .. Len(list) /\ DOMAIN activeList = 1 .. Len(activeList)
  BY <1>2, <1>3
<1>8. \A i \in DOMAIN activeList, l \in Logical :
        activeList[i].dest # 0 => activeList[i].new # commitTable[l]
  BY <1>3, <1>6, <1>7 DEF P!WritersOf
<1> QED BY <1>3, <1>4, <1>5, <1>6, <1>8 DEF list

\* Nothing is older than the oldest entry: its operands are committed registers.
LEMMA OldestMapping ==
  ASSUME P!RInv, NEW l, NEW p, Mapping(l, 1, p)
  PROVE  p = commitTable[l]
<1> DEFINE list == P!FixedOf(activeList)
<1>1. list \in Seq(P!FixedEntry)
  BY MappingNow
<1>2. P!Maps(list, commitTable, l, 1, p)
  BY DEF Mapping
<1> HIDE DEF list
<1>3. \A j \in P!WritersOf(list) : ~(j < 1)
  BY <1>1 DEF P!WritersOf
<1> QED BY <1>2, <1>3 DEF P!Maps

\* The committed table changes at the retirement of an instruction with a destination.
LEMMA CommitAfter ==
  ASSUME P!RInv, NEW ins, NEW wrong, Cycle(ins, wrong)
  PROVE  /\ R!Retires => 1 \in DOMAIN activeList /\ activeList[1].ready
         /\ commitTable' = IF R!Retires /\ activeList[1].dest # 0
                            THEN [commitTable EXCEPT ![activeList[1].dest] = activeList[1].new]
                            ELSE commitTable
         /\ R!FlushRecover => R!Retires /\ activeList[1].op = "branch"
<1>1. activeList \in Seq(R!Entry)
  BY ListIs DEF R!TypeOK
<1>2. R!Retires => R!Oldest = activeList[1] /\ 1 \in DOMAIN activeList
  BY <1>1 DEF R!Retires, R!Oldest
<1>3. commitTable' = IF R!WritesCommit THEN [commitTable EXCEPT ![R!Oldest.dest] = R!Oldest.new]
                     ELSE commitTable
  BY DEF Cycle, R!MapTableBuild
<1> QED BY <1>2, <1>3 DEF R!WritesCommit, R!HasDest, R!FlushRecover, R!Retires

\* An entry keeps the mapping it was decoded under; the new one has that of the table.
LEMMA MappingAfter ==
  ASSUME P!RInv, ~R!FlushRecover, NEW ins, Decoding(ins), NEW l \in Logical
  PROVE  /\ \A i \in 1 .. Len(activeList) - Shift : \A p :
              Mapping(l, i + Shift, p) => Mapping(l, i, p)'
         /\ ins # Bubble => \A i, p : i = Len(activeList) - Shift + 1 /\ p = specTable[l] =>
                              Mapping(l, i, p)'
<1> DEFINE list == P!FixedOf(activeList)
           x == P!FixedNew(Renamed(ins))
<1>1. /\ list \in Seq(P!FixedEntry) /\ Len(list) = Len(activeList) /\ Len(activeList) \in Nat
      /\ commitTable \in [Logical -> Physical]
      /\ P!MappingOf(list, commitTable, specTable)
  BY MappingNow
<1>2. PICK wrong \in BOOLEAN : Cycle(ins, wrong)
  BY DEF Decoding
<1>3. /\ P!TypeOK /\ ~P!FlushRecover /\ P!ActiveListBuild(Renamed(ins), Delivered, wrong)
      /\ P!MapTableBuild(Renamed(ins))
  BY <1>2, SameStages, SameOutputs DEF Cycle, P!RInv, P!IInv
<1>4. Renamed(ins) \in P!Decodes /\ (Renamed(ins) = P!Bubble <=> ins = Bubble)
  BY DecodesAre DEF Decoding
<1>5. PICK r \in {0, 1} : r = Shift
  BY DEF Shift
<1>6. P!Retires <=> r = 1
  BY <1>5, SameOutputs DEF Shift
<1>7. PICK kept : kept = IF P!Retires THEN P!Rest(list) ELSE list
  OBVIOUS
<1>8. P!FixedOf(activeList') = IF ins = Bubble THEN kept ELSE P!With(kept, x)
  <2>1. kept = IF P!Retires THEN P!Rest(P!FixedOf(activeList)) ELSE P!FixedOf(activeList)
    BY <1>7
  <2> QED BY <1>3, <1>4, <2>1, Assumptions, P!ListStep
<1>9. P!Retires => list # <<>> /\ Len(list) > 0
  BY <1>1, <1>2, <1>6, SameOutputs, CommitAfter, ListIs
<1>10. x \in P!FixedEntry \/ ins = Bubble
  BY <1>3, <1>4, Assumptions, P!NewEntryIs
<1> HIDE DEF list, x
<1>11. commitTable' = IF P!Retires THEN P!Committed(commitTable, list[1]) ELSE commitTable
  <2>1. R!Retires => list[1].dest = activeList[1].dest /\ list[1].new = activeList[1].new
    <3>1. activeList \in Seq(P!Entry)
      BY <1>3 DEF P!TypeOK
    <3>2. R!Retires => 1 \in 1 .. Len(activeList)
      BY <1>2, CommitAfter, ListIs
    <3> QED BY <3>1, <3>2, Assumptions, P!FixedIs DEF list
  <2>2. commitTable' = IF R!Retires /\ activeList[1].dest # 0
                       THEN [commitTable EXCEPT ![activeList[1].dest] = activeList[1].new]
                       ELSE commitTable
    BY <1>2, CommitAfter
  <2> QED BY <2>1, <2>2, SameOutputs DEF P!Committed
<1>12. P!Logical = Logical /\ P!Physical = Physical
  BY DEF P!Logical, P!Physical, Logical, Physical
<1>13. kept \in Seq(P!FixedEntry) /\ Len(kept) = Len(activeList) - r
  <2>1. CASE P!Retires
    BY <1>1, <1>6, <1>7, <1>9, <2>1, Assumptions, P!RestIs
  <2>2. CASE ~P!Retires
    BY <1>1, <1>6, <1>7, <2>2
  <2> QED BY <2>1, <2>2
<1>14. P!MappingOf(kept, commitTable', specTable)
  <2>1. CASE P!Retires
    BY <1>1, <1>7, <1>9, <1>11, <1>12, <2>1, Assumptions, P!RetireMapping
  <2>2. CASE ~P!Retires
    BY <1>1, <1>7, <1>11, <2>2
  <2> QED BY <2>1, <2>2
<1>15. ASSUME NEW i \in 1 .. Len(activeList) - r, NEW p,
              P!Maps(list, commitTable, l, i + r, p)
       PROVE  P!Maps(kept, commitTable', l, i, p)
  <2>1. CASE P!Retires
    <3>1. r = 1 /\ i \in 1 .. Len(list)
      BY <1>1, <1>6, <2>1
    <3>2. P!Maps(list, commitTable, l, i + 1, p)
      BY <1>15, <3>1
    <3>3. P!Maps(P!Rest(list), P!Committed(commitTable, list[1]), l, i, p)
      BY <1>1, <1>9, <1>12, <2>1, <3>1, <3>2, Assumptions, P!RetireMaps
    <3> QED BY <1>7, <1>11, <2>1, <3>3
  <2>2. CASE ~P!Retires
    <3>1. r = 0 /\ i + r = i
      BY <1>5, <1>6, <2>2
    <3> QED BY <1>7, <1>11, <1>15, <2>2, <3>1
  <2> QED BY <2>1, <2>2
<1>16. ASSUME NEW i \in 1 .. Len(kept) + 1, NEW p, P!Maps(kept, commitTable', l, i, p)
       PROVE  ins # Bubble => P!Maps(P!FixedOf(activeList'), commitTable', l, i, p)
  BY <1>8, <1>10, <1>13, <1>16, Assumptions, P!WithMaps
<1>17. ASSUME NEW i \in 1 .. Len(activeList) - r, NEW p, Mapping(l, i + r, p)
       PROVE  Mapping(l, i, p)'
  <2>1. P!Maps(kept, commitTable', l, i, p)
    BY <1>15, <1>17 DEF Mapping, list
  <2>2. i \in 1 .. Len(kept) + 1
    BY <1>1, <1>13
  <2>3. P!Maps(P!FixedOf(activeList'), commitTable', l, i, p)
    BY <1>8, <1>16, <2>1, <2>2
  <2> QED BY <2>3 DEF Mapping
<1>18. ASSUME ins # Bubble, NEW i, i = Len(activeList) - r + 1, NEW p, p = specTable[l]
       PROVE  Mapping(l, i, p)'
  <2>1. P!Maps(kept, commitTable', l, Len(kept) + 1, specTable[l])
    BY <1>12, <1>14 DEF P!MappingOf
  <2>2. Len(kept) + 1 \in 1 .. Len(kept) + 1 /\ i = Len(kept) + 1
    BY <1>1, <1>13, <1>18
  <2>3. P!Maps(P!FixedOf(activeList'), commitTable', l, i, p)
    BY <1>16, <1>18, <2>1, <2>2
  <2> QED BY <2>3 DEF Mapping
<1> QED BY <1>5, <1>17, <1>18

-----------------------------------------------------------------------------
(* Instructions and work. *)

\* No two positions have one slot, and the entries move on by `Shift'.
LEMMA PositionsAfter ==
  ASSUME P!RInv, P!RInv', ~R!FlushRecover, NEW ins, Decoding(ins)
  PROVE  /\ \A i \in DOMAIN activeList, j \in DOMAIN activeList :
              SlotAt(activeHead, i) = SlotAt(activeHead, j) => i = j
         /\ \A i \in DOMAIN activeList, i1 \in DOMAIN activeList' :
              SlotAt(activeHead', i1) = SlotAt(activeHead, i) =>
                i1 \in 1 .. Len(activeList) - Shift /\ i = i1 + Shift
         /\ \A i1 \in DOMAIN activeList' :
              \/ i1 \in 1 .. Len(activeList) - Shift /\ i1 + Shift \in DOMAIN activeList
              \/ ins # Bubble /\ i1 = Len(activeList) - Shift + 1
<1>1. ListFacts /\ ListFacts'
  BY FactsHold, FactsNext
<1>2. PICK n \in Nat : n = Len(activeList) /\ DOMAIN activeList = 1 .. n /\ n <= ActiveListDepth
  BY <1>1 DEF ListFacts
<1>3. PICK n1 \in Nat : n1 = Len(activeList') /\ DOMAIN activeList' = 1 .. n1
  BY <1>1 DEF ListFacts
<1>4. PICK r \in {0, 1} : r = Shift
  BY DEF Shift
<1>5. /\ r <= n /\ n1 = IF ins = Bubble THEN n - r ELSE n - r + 1
      /\ \A i \in 1 .. n - r : SlotAt(activeHead', i) = SlotAt(activeHead, i + r)
      /\ ins # Bubble => /\ n < ActiveListDepth
                         /\ SlotAt(activeHead', n - r + 1) = SlotAt(activeHead, n + 1)
  BY <1>2, <1>3, <1>4, ListAfter, SlotOfIs DEF ActiveListIdx
<1>6. activeHead \in 0 .. ActiveListDepth - 1 /\ ActiveListDepth \in Nat
  BY <1>1, ActiveListDepthAssumption DEF ListFacts
<1>7. \A i, j \in 1 .. ActiveListDepth : SlotAt(activeHead, i) = SlotAt(activeHead, j) => i = j
  BY <1>6, SlotsDiffer
<1>8. ASSUME NEW i1 \in 1 .. n1
      PROVE  \/ i1 \in 1 .. n - r /\ i1 + r \in 1 .. n
             \/ ins # Bubble /\ i1 = n - r + 1
  BY <1>5
<1>9. ASSUME NEW i \in 1 .. n, NEW i1 \in 1 .. n1, SlotAt(activeHead', i1) = SlotAt(activeHead, i)
      PROVE  i1 \in 1 .. n - r /\ i = i1 + r
  <2>1. CASE i1 \in 1 .. n - r /\ i1 + r \in 1 .. n
    <3>1. i1 + r \in 1 .. ActiveListDepth /\ i \in 1 .. ActiveListDepth
      BY <1>2, <1>6, <2>1
    <3>2. SlotAt(activeHead, i1 + r) = SlotAt(activeHead, i)
      BY <1>5, <1>9, <2>1
    <3> QED BY <1>7, <2>1, <3>1, <3>2
  <2>2. CASE ins # Bubble /\ i1 = n - r + 1
    <3>1. n + 1 \in 1 .. ActiveListDepth /\ i \in 1 .. ActiveListDepth /\ n + 1 # i
      BY <1>2, <1>5, <1>6, <2>2
    <3>2. SlotAt(activeHead, n + 1) = SlotAt(activeHead, i)
      BY <1>5, <1>9, <2>2
    <3> QED BY <1>7, <3>1, <3>2
  <2> QED BY <1>8, <2>1, <2>2
<1>10. \A i \in DOMAIN activeList, j \in DOMAIN activeList :
         SlotAt(activeHead, i) = SlotAt(activeHead, j) => i = j
  <2>1. \A i \in 1 .. n : i \in 1 .. ActiveListDepth
    BY <1>2, <1>6
  <2> QED BY <1>2, <1>7, <2>1
<1> QED BY <1>2, <1>3, <1>4, <1>8, <1>9, <1>10

\* The instructions move on with their entries.
LEMMA ProgramAfter ==
  ASSUME LInv, ~R!FlushRecover, NEW ins \in Decodes, NEW wrong \in BOOLEAN, Cycle(ins, wrong)
  PROVE  /\ \A i \in 1 .. Len(activeList) - Shift : fetched'[i] = fetched[i + Shift]
         /\ ins # Bubble => fetched'[Len(activeList) - Shift + 1] = ins
<1>1. fetched \in Seq(Instruction) /\ Len(fetched) = Len(activeList) /\ P!RInv
  BY DEF LInv, TypeOK
<1>2. fetched' = IF ins = Bubble THEN (IF R!Retires THEN Tail(fetched) ELSE fetched)
                 ELSE Append(IF R!Retires THEN Tail(fetched) ELSE fetched, ins)
  BY DEF Cycle, FetchedBuild
<1>3. PICK kept : kept = IF R!Retires THEN Tail(fetched) ELSE fetched
  OBVIOUS
<1>4. PICK n \in Nat : n = Len(activeList) /\ n = Len(fetched)
  BY <1>1
<1>5. PICK r \in {0, 1} : r = Shift /\ r <= n
  <2>1. Shift \in {0, 1} /\ Shift <= Len(activeList)
    BY <1>1, ListAfter DEF Decoding
  <2> QED BY <1>4, <2>1
<1>6. kept \in Seq(Instruction) /\ Len(kept) = n - r /\ \A i \in 1 .. n - r : kept[i] = fetched[i + r]
  <2>1. CASE R!Retires
    <3>1. r = 1 /\ Len(fetched) >= 1 /\ kept = Tail(fetched)
      BY <1>3, <1>4, <1>5, <2>1 DEF Shift
    <3> QED BY <1>1, <1>4, <3>1
  <2>2. CASE ~R!Retires
    <3>1. r = 0 /\ kept = fetched
      BY <1>3, <1>5, <2>2 DEF Shift
    <3> QED BY <1>1, <1>4, <3>1
  <2> QED BY <2>1, <2>2
<1>7. CASE ins = Bubble
  <2>1. fetched' = kept
    BY <1>2, <1>3, <1>7
  <2> QED BY <1>4, <1>5, <1>6, <1>7, <2>1
<1>8. CASE ins # Bubble
  <2>1. fetched' = Append(kept, ins) /\ ins \in Instruction
    BY <1>2, <1>3, <1>8, DecodesAre, InstructionsAssumption
  <2>2. \A i \in 1 .. n - r : fetched'[i] = kept[i]
    BY <1>6, <2>1
  <2>3. fetched'[n - r + 1] = ins
    BY <1>6, <2>1
  <2> QED BY <1>4, <1>5, <1>6, <2>2, <2>3
<1> QED BY <1>7, <1>8

\* Work for an entry that stays is still its work after the cycle.
LEMMA WorkMoves ==
  ASSUME LInv, VInv, P!RInv', ~R!FlushRecover,
         NEW ins \in Decodes, NEW wrong \in BOOLEAN, Cycle(ins, wrong),
         NEW w, Works(w), NEW w1, Fixed(w1) = Fixed(w),
         NEW i1 \in DOMAIN activeList', w1.slot = SlotAt(activeHead', i1)
  PROVE  Does(w1, i1, activeList', activeHead', fetched', commitTable')
<1>1. P!RInv /\ Decoding(ins) /\ fetched \in Seq(Instruction) /\ Len(fetched) = Len(activeList)
  BY DEF LInv, TypeOK, Decoding
<1>2. PICK i \in DOMAIN activeList : Does(w, i, activeList, activeHead, fetched, commitTable)
  BY DEF Works
<1>3. /\ w1.slot = w.slot /\ w1.op = w.op /\ w1.imm = w.imm /\ w1.rs1 = w.rs1 /\ w1.rs2 = w.rs2
  BY DEF Fixed
<1>4. i1 \in 1 .. Len(activeList) - Shift /\ i = i1 + Shift
  BY <1>1, <1>2, <1>3, PositionsAfter DEF Does
<1>5. fetched'[i1] = fetched[i] /\ activeList'[i1].source = activeList[i].source
  BY <1>1, <1>4, ProgramAfter, ListAfter
<1>6. PICK l \in Logical : l = fetched[i].data
  <2>1. i \in DOMAIN fetched
    BY <1>1, ListIs
  <2>2. fetched[i] \in Instruction
    BY <1>1, <2>1
  <2> QED BY <2>2 DEF Instruction
<1>7. PICK p : p = w.rs2
  OBVIOUS
<1>8. Mapping(l, i1 + Shift, p)
  BY <1>2, <1>4, <1>6, <1>7 DEF Does, Mapping
<1>9. Mapping(l, i1, p)'
  BY <1>1, <1>4, <1>8, MappingAfter
<1>10. P!Maps(P!FixedOf(activeList'), commitTable', fetched'[i1].data, i1, w1.rs2)
  BY <1>3, <1>5, <1>6, <1>7, <1>9 DEF Mapping
<1> QED BY <1>2, <1>3, <1>5, <1>10 DEF Does

\* The entry the decoder pushes does the work of the entry it appends.
LEMMA WorkPushed ==
  ASSUME LInv, ~R!FlushRecover,
         NEW ins \in Decodes, NEW wrong \in BOOLEAN, Cycle(ins, wrong), ins # Bubble
  PROVE  Does(QueueEntry(ins), Len(activeList) - Shift + 1,
              activeList', activeHead', fetched', commitTable')
<1>1. P!RInv /\ Decoding(ins)
  BY DEF LInv, Decoding
<1>2. PICK i1 : i1 = Len(activeList) - Shift + 1
  OBVIOUS
<1>3. /\ SlotAt(activeHead', i1) = ActiveListIdx /\ fetched'[i1] = ins
      /\ activeList'[i1] = R!NewEntry(Renamed(ins))
  BY <1>1, <1>2, ListAfter, ProgramAfter
<1>4. activeList'[i1].source = specTable[ins.source]
  <2>1. R!NewEntry(Renamed(ins)).source = specTable[Renamed(ins).source]
    BY DEF R!NewEntry, R!Operand
  <2> QED BY <1>3, <2>1, DecodesAre
<1>5. PICK l \in Logical : l = ins.data
  BY DecodesAre, InstructionsAssumption DEF Instruction
<1>6. PICK p : p = specTable[l]
  OBVIOUS
<1>7. Mapping(l, i1, p)'
  BY <1>1, <1>2, <1>5, <1>6, MappingAfter
<1>8. P!Maps(P!FixedOf(activeList'), commitTable', fetched'[i1].data, i1, QueueEntry(ins).rs2)
  BY <1>3, <1>5, <1>6, <1>7 DEF Mapping, QueueEntry
<1> QED BY <1>2, <1>3, <1>4, <1>8 DEF Does, QueueEntry

\* So what a queue holds after the cycle is the work of the entries in flight.
LEMMA QueueWorks ==
  ASSUME LInv, VInv, P!RInv', ~R!FlushRecover,
         NEW ins \in Decodes, NEW wrong \in BOOLEAN, Cycle(ins, wrong),
         NEW queue, \A k \in DOMAIN queue : Works(queue[k]), NEW issued,
         NEW queue1, QueueGrows(queue, queue1, issued, ins),
         NEW ops, Linked(queue1, activeList', activeHead', ops), NEW k \in DOMAIN queue1
  PROVE  \E i \in DOMAIN activeList' :
           Does(queue1[k], i, activeList', activeHead', fetched', commitTable')
<1>1. PICK i1 \in DOMAIN activeList' : queue1[k].slot = SlotAt(activeHead', i1)
  BY EntryAt DEF Matches
<1>2. CASE \E j \in DOMAIN queue : Fixed(queue1[k]) = Fixed(queue[j])
  BY <1>1, <1>2, WorkMoves
<1>3. CASE ins # Bubble /\ queue1[k] = QueueEntry(ins)
  <2>1. Len(activeList) - Shift + 1 \in DOMAIN activeList'
    <3>1. P!RInv /\ Decoding(ins)
      BY DEF LInv, Decoding
    <3>2. PICK n \in Nat, r \in {0, 1} : n = Len(activeList) /\ r = Shift
      BY <3>1, ListIs DEF Shift
    <3>3. r <= n /\ DOMAIN activeList' = 1 .. Len(activeList') /\ Len(activeList') = n - r + 1
      BY <1>3, <3>1, <3>2, ListAfter DEF LInv
    <3> QED BY <3>2, <3>3
  <2> QED BY <1>3, <2>1, WorkPushed
<1> QED BY <1>2, <1>3 DEF QueueGrows

LEMMA WorkAfter ==
  ASSUME LInv, VInv, LInv', ~R!FlushRecover,
         NEW ins \in Decodes, NEW wrong \in BOOLEAN, Cycle(ins, wrong)
  PROVE  WorkTraced'
<1>1. P!RInv /\ Decoding(ins) /\ WorkTraced
  BY DEF LInv, Decoding, VInv
<1>2. P!RInv' /\ QueuesLinked'
  BY DEF LInv
<1>3. QueueGrows(aluQueue, aluQueue', IssuesAlu, ins) /\ QueueGrows(lsq, lsq', IssuesLsq, ins)
  BY QueuesAfter
<1>4. \A k \in DOMAIN aluQueue' : \E i \in DOMAIN activeList' :
        Does(aluQueue'[k], i, activeList', activeHead', fetched', commitTable')
  <2>1. \A k \in DOMAIN aluQueue : Works(aluQueue[k])
    BY <1>1 DEF WorkTraced
  <2>2. Linked(aluQueue', activeList', activeHead', AluOps)
    BY <1>2 DEF QueuesLinked
  <2> QED BY <1>2, <1>3, <2>1, <2>2, QueueWorks
<1>5. \A k \in DOMAIN lsq' : \E i \in DOMAIN activeList' :
        Does(lsq'[k], i, activeList', activeHead', fetched', commitTable')
  <2>1. \A k \in DOMAIN lsq : Works(lsq[k])
    BY <1>1 DEF WorkTraced
  <2>2. Linked(lsq', activeList', activeHead', MemOps)
    BY <1>2 DEF QueuesLinked
  <2> QED BY <1>2, <1>3, <2>1, <2>2, QueueWorks
<1>6. ASSUME NEW w \in alu' \cup Loading'
      PROVE  \E i \in DOMAIN activeList' :
               Does(w, i, activeList', activeHead', fetched', commitTable')
  <2>1. Works(w) /\ \E ops : Staying(w, ops)
    <3>1. CASE w \in alu'
      BY <1>1, <3>1, UnitsAfter, Issuing DEF WorkTraced
    <3>2. CASE w \in Loading'
      BY <1>1, <3>2, UnitsAfter, Issuing DEF WorkTraced
    <3> QED BY <3>1, <3>2
  <2>2. PICK k \in 1 .. Len(activeList) - Shift : w.slot = SlotAt(activeHead', k)
    BY <1>1, <1>2, <2>1, StaysInFlight
  <2>3. k \in DOMAIN activeList'
    <3>1. PICK n \in Nat, r \in {0, 1} : n = Len(activeList) /\ r = Shift
      BY <1>1, ListIs DEF Shift
    <3>2. /\ r <= n /\ DOMAIN activeList' = 1 .. Len(activeList')
          /\ Len(activeList') = IF ins = Bubble THEN n - r ELSE n - r + 1
      BY <1>1, <3>1, ListAfter
    <3> QED BY <2>2, <3>1, <3>2
  <2> QED BY <1>2, <2>1, <2>2, <2>3, WorkMoves
<1> QED BY <1>4, <1>5, <1>6 DEF WorkTraced, Works

-----------------------------------------------------------------------------
(* What a cycle writes to the register file. *)

\* The registers somebody has a result for.
WrittenByAlu(p) == p # 0 /\ \E w \in alu : w.rd = p
WrittenByLoad(p) == \E w \in writeBack : w.rd = p

LEMMA RegisterFileAfter ==
  ASSUME LInv, NEW ins, NEW wrong, Cycle(ins, wrong), NEW p \in Physical
  PROVE  /\ ~WrittenByAlu(p) /\ ~WrittenByLoad(p) => registerFile'[p] = registerFile[p]
         /\ ~WrittenByLoad(p) => \A w \in alu : w.rd = p /\ p # 0 =>
              registerFile'[p] = (registerFile[w.rs1] + w.imm) % Word
         /\ ~WrittenByAlu(p) => \A w \in writeBack : w.rd = p => registerFile'[p] = w.value
<1> DEFINE results == {r \in AluResults \cup LoadResults : r.rd = p}
<1>1. registerFile'[p] = IF results = {} THEN registerFile[p] ELSE (CHOOSE r \in results : TRUE).value
  BY DEF Cycle, RegisterFileBuild
<1>2. Single(alu) /\ Single(writeBack)
  BY DEF LInv, OnePort
<1>3. ASSUME NEW r \in AluResults, r.rd = p
      PROVE  \E w \in alu : /\ w.rd = p /\ p # 0
                            /\ r.value = (registerFile[w.rs1] + w.imm) % Word
  <2>1. PICK w \in {v \in alu : v.rd # 0} :
          r = [rd |-> w.rd, value |-> (registerFile[w.rs1] + w.imm) % Word]
    BY DEF AluResults
  <2> QED BY <1>3, <2>1
<1>4. ASSUME NEW w \in alu, w.rd = p, p # 0
      PROVE  \E r \in AluResults : r.rd = p
  <2>1. w \in {v \in alu : v.rd # 0}
    BY <1>4
  <2> DEFINE r == [rd |-> w.rd, value |-> (registerFile[w.rs1] + w.imm) % Word]
  <2>2. r \in AluResults
    BY <2>1 DEF AluResults
  <2>3. r.rd = p
    BY <1>4
  <2> QED BY <2>2, <2>3
<1>5. ASSUME NEW r \in LoadResults, r.rd = p
      PROVE  \E w \in writeBack : w.rd = p /\ r.value = w.value
  <2>1. PICK w \in writeBack : r = [rd |-> w.rd, value |-> w.value]
    BY DEF LoadResults
  <2> QED BY <1>5, <2>1
<1>6. ASSUME NEW w \in writeBack, w.rd = p
      PROVE  \E r \in LoadResults : r.rd = p
  <2> DEFINE r == [rd |-> w.rd, value |-> w.value]
  <2>1. r \in LoadResults
    BY DEF LoadResults
  <2>2. r.rd = p
    BY <1>6
  <2> QED BY <2>1, <2>2
<1>7. \A r : r \in results <=> (r \in AluResults \/ r \in LoadResults) /\ r.rd = p
  OBVIOUS
<1> HIDE DEF results
<1>8. ~WrittenByAlu(p) /\ ~WrittenByLoad(p) => registerFile'[p] = registerFile[p]
  <2>1. ~WrittenByAlu(p) /\ ~WrittenByLoad(p) => results = {}
    BY <1>3, <1>5, <1>7 DEF WrittenByAlu, WrittenByLoad
  <2> QED BY <1>1, <2>1
<1>9. ASSUME ~WrittenByLoad(p), NEW w \in alu, w.rd = p, p # 0
      PROVE  registerFile'[p] = (registerFile[w.rs1] + w.imm) % Word
  <2>1. PICK c : c = CHOOSE r \in results : TRUE
    OBVIOUS
  <2>2. c \in results /\ results # {}
    BY <1>4, <1>7, <1>9, <2>1
  <2>3. c \in AluResults /\ c.rd = p
    BY <1>5, <1>7, <1>9, <2>2 DEF WrittenByLoad
  <2>4. PICK v \in alu : c.value = (registerFile[v.rs1] + v.imm) % Word
    BY <1>3, <2>3
  <2>5. v = w
    BY <1>2 DEF Single
  <2> QED BY <1>1, <2>1, <2>2, <2>4, <2>5
<1>10. ASSUME ~WrittenByAlu(p), NEW w \in writeBack, w.rd = p
       PROVE  registerFile'[p] = w.value
  <2>1. PICK c : c = CHOOSE r \in results : TRUE
    OBVIOUS
  <2>2. c \in results /\ results # {}
    BY <1>6, <1>7, <1>10, <2>1
  <2>3. c \in LoadResults /\ c.rd = p
    BY <1>3, <1>7, <1>10, <2>2 DEF WrittenByAlu
  <2>4. PICK v \in writeBack : c.value = v.value
    BY <1>5, <2>3
  <2>5. v = w
    BY <1>2 DEF Single
  <2> QED BY <1>1, <2>1, <2>2, <2>4, <2>5
<1> QED BY <1>8, <1>9, <1>10

\* A load that is delivered has a register of its own.
LEMMA LoadWrites ==
  ASSUME LInv, VInv, NoLoadToZero, NEW w \in writeBack
  PROVE  \/ \E i \in DOMAIN activeList :
              /\ w.slot = SlotAt(activeHead, i) /\ w.rd = activeList[i].new
              /\ activeList[i].op = "load" /\ ~activeList[i].ready /\ activeList[i].dest # 0
         \/ /\ activeList = <<>>
            /\ \A l \in Logical : w.rd # commitTable[l]
<1>1. InFlight(w, {"load"}) \/ \E l \in lateLoad : l.entry.new = w.rd
  BY DEF LInv, UnitsInFlight
<1>2. CASE InFlight(w, {"load"})
  <2>1. PICK i \in DOMAIN activeList :
          /\ w.slot = SlotAt(activeHead, i) /\ w.rd = activeList[i].new
          /\ activeList[i].op = "load" /\ ~activeList[i].ready
    BY <1>2 DEF InFlight
  <2>2. fetched[i].op = "load" /\ fetched[i] \in Instructions /\ activeList[i].dest = fetched[i].dest
    BY <2>1 DEF VInv, ResultsUnderWay, Traced
  <2>3. activeList[i].dest # 0
    BY <2>2 DEF NoLoadToZero
  <2> QED BY <2>1, <2>3
<1>3. CASE \E l \in lateLoad : l.entry.new = w.rd
  <2>1. activeList = <<>>
    BY <1>3, ListIs DEF LInv
  <2>2. \A l \in Logical : w.rd # commitTable[l]
    BY <1>3 DEF VInv, LateLoadsDropped
  <2> QED BY <2>1, <2>2
<1> QED BY <1>1, <1>2, <1>3

\* Committed registers keep their values, and so do those that are ready, but for a late load.
LEMMA RegistersKeep ==
  ASSUME LInv, VInv, NoLoadToZero, NEW ins, NEW wrong, Cycle(ins, wrong)
  PROVE  /\ \A l \in Logical : registerFile'[commitTable[l]] = registerFile[commitTable[l]]
         /\ activeList # <<>> => \A p \in Physical :
              registerReady[p] => registerFile'[p] = registerFile[p]
<1>1. P!RInv /\ RegisterFacts /\ ListFacts /\ UnitsInFlight
  BY FactsHold DEF LInv
<1>2. /\ commitTable \in [Logical -> Physical] /\ commitTable[0] = 0 /\ 0 \in Logical
      /\ \A i \in DOMAIN activeList, l \in Logical :
           activeList[i].dest # 0 => activeList[i].new # commitTable[l]
  BY <1>1, MappingNow, LogicalNumberAssumption DEF Logical
<1>3. ASSUME NEW w \in alu, w.rd # 0
      PROVE  \E i \in DOMAIN activeList :
               w.rd = activeList[i].new /\ activeList[i].dest # 0 /\ ~activeList[i].ready
  <2>1. PICK i \in DOMAIN activeList : w.rd = activeList[i].new /\ ~activeList[i].ready
    BY <1>1 DEF UnitsInFlight, InFlight
  <2> QED BY <1>1, <1>3, <2>1 DEF ListFacts
<1>4. ASSUME NEW l \in Logical
      PROVE  registerFile'[commitTable[l]] = registerFile[commitTable[l]]
  <2>1. PICK p \in Physical : p = commitTable[l]
    BY <1>2
  <2>2. ~WrittenByAlu(p)
    BY <1>2, <1>3, <2>1 DEF WrittenByAlu
  <2>3. ~WrittenByLoad(p)
    BY <1>2, <2>1, LoadWrites DEF WrittenByLoad
  <2> QED BY <2>1, <2>2, <2>3, RegisterFileAfter
<1>5. ASSUME activeList # <<>>, NEW p \in Physical, registerReady[p]
      PROVE  registerFile'[p] = registerFile[p]
  <2>1. \A i \in DOMAIN activeList :
          ~(activeList[i].dest # 0 /\ activeList[i].new = p /\ ~activeList[i].ready)
    BY <1>1, <1>5 DEF RegisterFacts
  <2>2. ~WrittenByAlu(p)
    BY <1>3, <2>1 DEF WrittenByAlu
  <2>3. ~WrittenByLoad(p)
    BY <1>5, <2>1, LoadWrites DEF WrittenByLoad
  <2> QED BY <2>2, <2>3, RegisterFileAfter
<1> QED BY <1>4, <1>5

\* The operand of a finished entry that has a result is ready, and so is that result.
LEMMA FinishedRegisters ==
  ASSUME P!RInv, NEW i \in DOMAIN activeList, activeList[i].ready
  PROVE  /\ activeList[i].source \in Physical /\ activeList[i].new \in Physical
         /\ activeList[i].op # "store" => registerReady[activeList[i].source]
         /\ activeList[i].dest # 0 => registerReady[activeList[i].new]
<1>1. RegisterFacts /\ ListFacts
  BY FactsHold
<1>2. activeList[i].source \in Physical /\ activeList[i].new \in Physical
  BY <1>1 DEF ListFacts
<1>3. ASSUME activeList[i].op # "store", ~registerReady[activeList[i].source]
      PROVE  FALSE
  <2>1. PICK j \in DOMAIN activeList :
          /\ activeList[j].dest # 0 /\ activeList[j].new = activeList[i].source
          /\ ~activeList[j].ready
    BY <1>1, <1>2, <1>3 DEF RegisterFacts
  <2>2. activeList[i].source # 0
    BY <1>1, <2>1 DEF ListFacts
  <2>3. ~(j >= i)
    BY <1>1, <2>1, <2>2 DEF RegisterFacts
  <2>4. j < i
    BY <1>1, <2>3 DEF ListFacts
  <2>5. P!ProducersFinishFirst
    BY DEF P!RInv
  <2> QED BY <1>3, <2>1, <2>4, <2>5 DEF P!ProducersFinishFirst, P!Writers, P!HasDest
<1>4. ASSUME activeList[i].dest # 0, ~registerReady[activeList[i].new]
      PROVE  FALSE
  <2>1. PICK j \in DOMAIN activeList :
          /\ activeList[j].dest # 0 /\ activeList[j].new = activeList[i].new
          /\ ~activeList[j].ready
    BY <1>1, <1>2, <1>4 DEF RegisterFacts
  <2>2. i = j
    BY <2>1, ListIs
  <2> QED BY <2>1, <2>2
<1> QED BY <1>2, <1>3, <1>4

\* A delivered entry gets its result into its register.
LEMMA DeliveredResult ==
  ASSUME LInv, VInv, NoLoadToZero, NEW ins, NEW wrong, Cycle(ins, wrong),
         NEW i \in Delivered
  PROVE  /\ i \in DOMAIN activeList /\ registerReady[activeList[i].source]
         /\ fetched[i].op # "unmatched"
         /\ activeList[i].op = "load" => Issued(i)
         /\ activeList[i].dest # 0 => registerFile'[activeList[i].new] = Result(i)
<1>1. P!RInv /\ ListFacts /\ UnitsInFlight /\ TypeOK
  BY FactsHold DEF LInv
<1>2. i \in DOMAIN activeList
  BY DeliveredAre
<1>3. PICK w \in alu \cup writeBack : w.slot = SlotAt(activeHead, i)
  BY <1>2, DeliveredAre
<1>4. /\ w.rd = activeList[i].new /\ ~activeList[i].ready /\ registerReady[activeList[i].source]
      /\ activeList[i].op \in (IF w \in alu THEN AluOps ELSE {"load"})
  BY <1>3, DeliveredAre
<1>5. /\ fetched[i] \in Instructions /\ activeList[i].op = Renamed(fetched[i]).op
  BY <1>2 DEF VInv, Traced
<1>6. Renamed(fetched[i]).op = IF fetched[i].op = "unmatched" THEN "load" ELSE fetched[i].op
  BY DEF Renamed
<1>7. activeList[i].new \in Physical /\ (activeList[i].new = 0 <=> activeList[i].dest = 0)
  BY <1>1, <1>2 DEF ListFacts
<1>8. ASSUME NEW j \in DOMAIN activeList, activeList[j].new = activeList[i].new, activeList[i].dest # 0
      PROVE  j = i
  BY <1>1, <1>2, <1>8, ListIs
<1>9. CASE w \in alu
  <2>1. activeList[i].op \in {"alu", "branch"} /\ fetched[i].op \in {"alu", "branch"}
    BY <1>4, <1>5, <1>6, <1>9 DEF AluOps
  <2>2. PICK j \in DOMAIN activeList : Does(w, j, activeList, activeHead, fetched, commitTable)
    BY <1>9 DEF VInv, WorkTraced, Works
  <2>3. j = i
    <3>1. activeHead \in 0 .. ActiveListDepth - 1 /\ i \in 1 .. ActiveListDepth /\ j \in 1 .. ActiveListDepth
      BY <1>1, <1>2, ActiveListDepthAssumption DEF ListFacts
    <3>2. \A a, b \in 1 .. ActiveListDepth : SlotAt(activeHead, a) = SlotAt(activeHead, b) => a = b
      BY <3>1, SlotsDiffer
    <3>3. SlotAt(activeHead, j) = SlotAt(activeHead, i)
      BY <1>3, <2>2 DEF Does
    <3> QED BY <3>1, <3>2, <3>3
  <2>4. w.rs1 = activeList[i].source /\ w.imm = fetched[i].imm
    BY <2>2, <2>3 DEF Does
  <2>5. activeList[i].dest # 0 => ~WrittenByLoad(activeList[i].new)
    <3> SUFFICES ASSUME activeList[i].dest # 0, NEW v \in writeBack, v.rd = activeList[i].new
                 PROVE  FALSE
      BY DEF WrittenByLoad
    <3>1. activeList # <<>>
      BY <1>2
    <3>2. PICK k \in DOMAIN activeList : v.rd = activeList[k].new /\ activeList[k].op = "load"
      BY <3>1, LoadWrites
    <3>3. k = i
      BY <1>8, <3>2
    <3> QED BY <2>1, <3>2, <3>3
  <2>6. activeList[i].dest # 0 =>
          registerFile'[activeList[i].new] = (registerFile[w.rs1] + w.imm) % Word
    BY <1>4, <1>7, <1>9, <2>5, RegisterFileAfter
  <2> QED BY <1>2, <1>4, <2>1, <2>4, <2>6 DEF Result, Sum
<1>10. CASE w \notin alu
  <2>1. w \in writeBack /\ activeList[i].op = "load"
    BY <1>3, <1>4, <1>10
  <2>2. fetched[i].op = "load" /\ w.value = Result(i)
    BY <1>2, <1>3, <2>1 DEF VInv, ResultsUnderWay
  <2>3. Issued(i)
    BY <1>3, <2>1 DEF Issued
  <2>4. activeList[i].dest # 0 => ~WrittenByAlu(activeList[i].new)
    <3> SUFFICES ASSUME activeList[i].dest # 0, NEW v \in alu, v.rd = activeList[i].new
                 PROVE  FALSE
      BY DEF WrittenByAlu
    <3>1. PICK k \in DOMAIN activeList : v.rd = activeList[k].new /\ activeList[k].op \in AluOps
      BY <1>1 DEF UnitsInFlight, InFlight
    <3>2. k = i
      BY <1>8, <3>1
    <3> QED BY <2>1, <3>1, <3>2 DEF AluOps
  <2>5. activeList[i].dest # 0 => registerFile'[activeList[i].new] = w.value
    BY <1>4, <1>7, <2>1, <2>4, RegisterFileAfter
  <2> QED BY <1>2, <1>4, <2>2, <2>3, <2>5
<1> QED BY <1>9, <1>10

-----------------------------------------------------------------------------
(* Results after a cycle without a flush. *)

LEMMA MemoryKeeps ==
  ASSUME LInv, StoresDone, NEW ins, NEW wrong, Cycle(ins, wrong)
  PROVE  memory' = memory
<1>1. memory \in [Words -> Words]
  BY DEF LInv, TypeOK
<1>2. memory' = [a \in Words |->
                   IF \E w \in lsu : w.op = "store" /\ Address(w) = a
                     THEN registerFile[(CHOOSE w \in lsu : TRUE).rs2] ELSE memory[a]]
  BY DEF Cycle, MemoryBuild
<1>3. \A w \in lsu : w.op # "store"
  BY DEF StoresDone
<1>4. memory' = [a \in Words |-> memory[a]]
  BY <1>2, <1>3
<1> QED BY <1>1, <1>4

\* What an instruction with a destination is.
LEMMA WriterIs ==
  ASSUME VInv, NEW i \in DOMAIN activeList
  PROVE  /\ fetched[i] \in Instructions
         /\ activeList[i].dest = fetched[i].dest /\ activeList[i].op = Renamed(fetched[i]).op
         /\ activeList[i].dest # 0 => activeList[i].op = fetched[i].op /\ fetched[i].op \in {"alu", "load"}
         /\ activeList[i].op = "branch" => fetched[i].op = "branch"
         /\ activeList[i].op = "store" <=> fetched[i].op = "store"
<1>1. /\ fetched[i] \in Instructions
      /\ activeList[i].dest = fetched[i].dest /\ activeList[i].op = Renamed(fetched[i]).op
  BY DEF VInv, Traced
<1>2. Renamed(fetched[i]).op = IF fetched[i].op = "unmatched" THEN "load" ELSE fetched[i].op
  BY DEF Renamed
<1>3. fetched[i].op \notin {"alu", "load"} => fetched[i].dest = 0
  BY <1>1, InstructionsAssumption
<1> QED BY <1>1, <1>2, <1>3

\* The result of an entry stays what it was, once its operand is ready and, for a load, the
\* older stores have reached the memory.
LEMMA ResultKeeps ==
  ASSUME LInv, VInv, NoLoadToZero, ~R!FlushRecover,
         NEW ins \in Decodes, NEW wrong \in BOOLEAN, Cycle(ins, wrong),
         NEW i1 \in 1 .. Len(activeList) - Shift, NEW i \in DOMAIN activeList, i = i1 + Shift,
         registerReady[activeList[i].source], fetched[i].op = "load" => StoresDone
  PROVE  Result(i1)' = Result(i)
<1>1. P!RInv /\ Decoding(ins)
  BY DEF LInv, Decoding
<1>2. activeList'[i1].source = activeList[i].source /\ fetched'[i1] = fetched[i]
  BY <1>1, ListAfter, ProgramAfter
<1>3. activeList[i].source \in Physical /\ activeList # <<>>
  BY <1>1, FactsHold DEF ListFacts
<1>4. registerFile'[activeList[i].source] = registerFile[activeList[i].source]
  BY <1>3, RegistersKeep
<1>5. Sum(i1)' = Sum(i)
  BY <1>2, <1>4 DEF Sum
<1>6. fetched[i].op = "load" => memory' = memory
  BY MemoryKeeps
<1> QED BY <1>2, <1>5, <1>6 DEF Result

LEMMA ResultsAfter ==
  ASSUME LInv, VInv, NoLoadToZero, P!RInv', ~R!FlushRecover,
         NEW ins \in Decodes, NEW wrong \in BOOLEAN, Cycle(ins, wrong)
  PROVE  ResultsWritten'
<1>1. P!RInv /\ Decoding(ins)
  BY DEF LInv, Decoding
<1> SUFFICES ASSUME NEW i1 \in DOMAIN activeList', activeList'[i1].ready, activeList'[i1].dest # 0
             PROVE  registerFile'[activeList'[i1].new] = Result(i1)'
  BY DEF ResultsWritten
<1>2. CASE i1 \in 1 .. Len(activeList) - Shift /\ i1 + Shift \in DOMAIN activeList
  <2>1. PICK i \in DOMAIN activeList : i = i1 + Shift
    BY <1>2
  <2>2. /\ activeList'[i1].dest = activeList[i].dest /\ activeList'[i1].new = activeList[i].new
        /\ activeList[i].ready \/ i \in Delivered
    BY <1>1, <1>2, <2>1, ListAfter
  <2>3. activeList[i].op = fetched[i].op /\ fetched[i].op \in {"alu", "load"}
    BY <2>2, WriterIs
  <2>4. CASE activeList[i].ready
    <3>1. /\ registerReady[activeList[i].source] /\ registerReady[activeList[i].new]
          /\ activeList[i].new \in Physical
      BY <1>1, <2>2, <2>3, <2>4, FinishedRegisters
    <3>2. registerFile'[activeList[i].new] = registerFile[activeList[i].new]
      BY <3>1, RegistersKeep
    <3>3. registerFile[activeList[i].new] = Result(i)
      BY <2>2, <2>4 DEF VInv, ResultsWritten
    <3>4. fetched[i].op = "load" => StoresDone
      BY <2>3, <2>4 DEF VInv, LoadsAfterStores, Issued
    <3>5. Result(i1)' = Result(i)
      BY <1>2, <2>1, <3>1, <3>4, ResultKeeps
    <3> QED BY <2>2, <3>2, <3>3, <3>5
  <2>5. CASE i \in Delivered
    <3>1. registerFile'[activeList[i].new] = Result(i) /\ registerReady[activeList[i].source]
      BY <2>2, <2>5, DeliveredResult
    <3>2. fetched[i].op = "load" => StoresDone
      BY <2>3, <2>5, DeliveredResult DEF VInv, LoadsAfterStores
    <3>3. Result(i1)' = Result(i)
      BY <1>2, <2>1, <3>1, <3>2, ResultKeeps
    <3> QED BY <2>2, <3>1, <3>3
  <2> QED BY <2>2, <2>4, <2>5
<1>3. CASE ins # Bubble /\ i1 = Len(activeList) - Shift + 1
  <2>1. activeList'[i1] = R!NewEntry(Renamed(ins)) /\ ins \in Instructions
    BY <1>1, <1>3, ListAfter, DecodesAre
  <2>2. R!NewEntry(Renamed(ins)).dest = ins.dest
    BY DecodesAre DEF R!NewEntry
  <2>3. ins.op \in {"alu", "load"}
    BY <2>1, <2>2, InstructionsAssumption
  <2>4. Renamed(ins).op # "store"
    BY <2>3, DecodesAre
  <2>5. ~R!NewEntry(Renamed(ins)).ready
    BY <2>4 DEF R!NewEntry
  <2> QED BY <2>1, <2>5
<1> QED BY <1>1, <1>2, <1>3, PositionsAfter

LEMMA UnderWayAfter ==
  ASSUME LInv, VInv, NoLoadToZero, P!RInv', ~R!FlushRecover,
         NEW ins \in Decodes, NEW wrong \in BOOLEAN, Cycle(ins, wrong)
  PROVE  ResultsUnderWay'
<1>1. P!RInv /\ Decoding(ins)
  BY DEF LInv, Decoding
<1> SUFFICES ASSUME NEW w \in writeBack', NEW i1 \in DOMAIN activeList',
                    w.slot = SlotAt(activeHead', i1)
             PROVE  fetched'[i1].op = "load" /\ w.value = Result(i1)'
  BY DEF ResultsUnderWay
<1>2. PICK v \in {u \in lsu : u.op = "load"} :
        w = [rd |-> v.rd, slot |-> v.slot, value |-> memory[Address(v)]]
  BY DEF Cycle, LsuBuild
<1>3. v \in Loading /\ w.slot = v.slot /\ w.value = memory[Address(v)] /\ v.op = "load"
  BY <1>2 DEF Loading
<1>4. PICK i \in DOMAIN activeList : Does(v, i, activeList, activeHead, fetched, commitTable)
  BY <1>3 DEF VInv, WorkTraced, Works
<1>5. i1 \in 1 .. Len(activeList) - Shift /\ i = i1 + Shift
  BY <1>1, <1>3, <1>4, PositionsAfter DEF Does
<1>6. activeList[i].op = "load" /\ registerReady[activeList[i].source]
  <2>1. InFlight(v, {"load"}) /\ v.slot = SlotAt(activeHead, i)
    BY <1>3, <1>4 DEF LInv, UnitsInFlight, Does
  <2> QED BY <1>1, <2>1, InFlightAt
<1>7. StoresDone
  BY <1>3, <1>4, <1>6 DEF VInv, LoadsAfterStores, Issued, Does
<1>8. Result(i1)' = Result(i)
  BY <1>5, <1>6, <1>7, ResultKeeps
<1>9. fetched[i].op = "load" /\ Address(v) = Sum(i)
  BY <1>3, <1>4 DEF Does, Address, Sum
<1>10. fetched'[i1] = fetched[i]
  BY <1>5, ProgramAfter
<1> QED BY <1>3, <1>8, <1>9, <1>10 DEF Result

-----------------------------------------------------------------------------
(* Loads and stores. *)

\* A retiring store goes to the buffer, with committed operands.
LEMMA RetiringStore ==
  ASSUME LInv, VInv, NEW ins, NEW wrong, Cycle(ins, wrong)
  PROVE  /\ storeBuffer' = IF R!Retires /\ activeList[1].op = "store" THEN {lsq[1]} ELSE {}
         /\ R!Retires /\ activeList[1].op = "store" =>
              /\ lsq[1].op = "store" /\ fetched[1].op = "store"
              /\ fetched[1] \in Instruction /\ activeList[1].dest = 0
              /\ lsq[1].imm = fetched[1].imm
              /\ lsq[1].rs1 = commitTable[fetched[1].source]
              /\ lsq[1].rs2 = commitTable[fetched[1].data]
<1>1. P!RInv /\ lsq \in Seq(Entry) /\ Linked(lsq, activeList, activeHead, MemOps) /\ ListFacts
  BY FactsHold DEF LInv, TypeOK, QueuesLinked
<1>2. R!Retires => 1 \in DOMAIN activeList /\ R!Oldest = activeList[1]
  <2>1. activeList \in Seq(R!Entry)
    BY <1>1, ListIs DEF R!TypeOK
  <2> QED BY <2>1 DEF R!Retires, R!Oldest
<1>3. MemPop <=> R!Retires /\ activeList[1].op \in MemOps
  BY <1>1, <1>2 DEF MemPop, IsAlu, MemOps, ListFacts
<1>4. ASSUME MemPop
      PROVE  /\ lsq # <<>> /\ Head(lsq) = lsq[1]
             /\ Does(lsq[1], 1, activeList, activeHead, fetched, commitTable)
  <2>1. PICK pos \in [DOMAIN lsq -> DOMAIN activeList] :
          Places(pos, lsq, activeList, activeHead, MemOps)
    BY <1>1 DEF Linked
  <2>0. PICK m \in Nat : m = Len(lsq) /\ DOMAIN lsq = 1 .. m
    BY <1>1
  <2>2. PICK n \in Nat : n = Len(activeList) /\ DOMAIN activeList = 1 .. n
    BY <1>1 DEF ListFacts
  <2>3. n \in Nat \ {0} /\ activeList[1].op \in MemOps
    BY <1>2, <1>3, <1>4, <2>2
  <2>4. m >= 1 /\ pos[1] = 1
    BY <2>0, <2>1, <2>2, <2>3, LinkedHead
  <2>5. 1 \in DOMAIN lsq /\ lsq[1].slot = SlotAt(activeHead, 1)
    BY <2>1, <2>0, <2>2, <2>4 DEF Places, Matches
  <2>6. PICK j \in DOMAIN activeList : Does(lsq[1], j, activeList, activeHead, fetched, commitTable)
    BY <2>5 DEF VInv, WorkTraced, Works
  <2>7. j = 1
    <3>1. activeHead \in 0 .. ActiveListDepth - 1 /\ 1 \in 1 .. ActiveListDepth /\ j \in 1 .. ActiveListDepth
      BY <1>1, <2>2, <2>3, ActiveListDepthAssumption DEF ListFacts
    <3>2. \A a, b \in 1 .. ActiveListDepth : SlotAt(activeHead, a) = SlotAt(activeHead, b) => a = b
      BY <3>1, SlotsDiffer
    <3>3. SlotAt(activeHead, j) = SlotAt(activeHead, 1)
      BY <2>5, <2>6 DEF Does
    <3> QED BY <3>1, <3>2, <3>3
  <2>8. lsq # <<>> /\ Head(lsq) = lsq[1]
    BY <1>1, <2>5
  <2> QED BY <2>6, <2>7, <2>8
<1>5. R!Retires /\ activeList[1].op = "store" =>
        /\ MemPop /\ fetched[1].op = "store" /\ fetched[1] \in Instructions
        /\ activeList[1].dest = 0
  BY <1>2, <1>3, WriterIs DEF MemOps
<1>6. MemPop => (Head(lsq).op = "store" <=> activeList[1].op = "store")
  BY <1>2, <1>3, <1>4, WriterIs DEF Does
<1>7. storeBuffer' = IF MemPop /\ Head(lsq).op = "store" THEN {Head(lsq)} ELSE {}
  BY DEF Cycle, StoreBufferBuild
<1>8. storeBuffer' = IF R!Retires /\ activeList[1].op = "store" THEN {lsq[1]} ELSE {}
  <2>1. CASE R!Retires /\ activeList[1].op = "store"
    <3>1. MemPop /\ Head(lsq).op = "store" /\ Head(lsq) = lsq[1]
      BY <1>4, <1>5, <1>6, <2>1
    <3> QED BY <1>7, <2>1, <3>1
  <2>2. CASE ~(R!Retires /\ activeList[1].op = "store")
    <3>1. ~(MemPop /\ Head(lsq).op = "store")
      BY <1>3, <1>6, <2>2
    <3> QED BY <1>7, <2>2, <3>1
  <2> QED BY <2>1, <2>2
<1>9. ASSUME R!Retires, activeList[1].op = "store"
      PROVE  /\ lsq[1].op = "store" /\ lsq[1].imm = fetched[1].imm
             /\ lsq[1].rs1 = commitTable[fetched[1].source]
             /\ lsq[1].rs2 = commitTable[fetched[1].data]
  <2>1. Does(lsq[1], 1, activeList, activeHead, fetched, commitTable) /\ 1 \in DOMAIN activeList
    BY <1>2, <1>4, <1>5, <1>9
  <2>2. Mapping(fetched[1].source, 1, activeList[1].source)
    BY <2>1 DEF VInv, Traced
  <2>3. Mapping(fetched[1].data, 1, lsq[1].rs2)
    BY <2>1 DEF Does, Mapping
  <2>4. activeList[1].source = commitTable[fetched[1].source]
    BY <1>1, <2>2, OldestMapping
  <2>5. lsq[1].rs2 = commitTable[fetched[1].data]
    BY <1>1, <2>3, OldestMapping
  <2> QED BY <1>5, <1>9, <2>1, <2>4, <2>5 DEF Does
<1> QED BY <1>5, <1>8, <1>9, InstructionsAssumption

\* A load that is issued has no older store, and none is in the buffer.
LEMMA IssuedAlone ==
  ASSUME LInv, NEW k \in IssuesLsq, NEW i \in DOMAIN activeList,
         lsq[k].slot = SlotAt(activeHead, i)
  PROVE  storeBuffer = {} /\ NoStoreBefore(i)
<1>1. P!RInv /\ lsq \in Seq(Entry) /\ Linked(lsq, activeList, activeHead, MemOps) /\ ListFacts
  BY FactsHold DEF LInv, TypeOK, QueuesLinked
<1>2. storeBuffer = {} /\ k \in DOMAIN lsq
  BY Issuing
<1>3. \A j \in 1 .. k - 1 : lsq[j].op # "store"
  <2>1. k \in LsqCandidates
    BY DEF IssuesLsq, First
  <2> QED BY <2>1 DEF LsqCandidates, AnyStoreBefore
<1>4. PICK pos \in [DOMAIN lsq -> DOMAIN activeList] :
        Places(pos, lsq, activeList, activeHead, MemOps)
  BY <1>1 DEF Linked
<1>0. PICK m \in Nat : m = Len(lsq) /\ DOMAIN lsq = 1 .. m
  BY <1>1
<1>5. PICK n \in Nat : n = Len(activeList) /\ DOMAIN activeList = 1 .. n /\ n <= ActiveListDepth
  BY <1>1 DEF ListFacts
<1>6. pos[k] = i
  <2>1. lsq[k].slot = SlotAt(activeHead, pos[k]) /\ pos[k] \in DOMAIN activeList
    BY <1>2, <1>4 DEF Places, Matches
  <2>2. PICK q \in DOMAIN activeList : q = pos[k]
    BY <2>1
  <2>3. activeHead \in 0 .. ActiveListDepth - 1 /\ i \in 1 .. ActiveListDepth /\ q \in 1 .. ActiveListDepth
    BY <1>1, <1>5, ActiveListDepthAssumption DEF ListFacts
  <2>4. \A a, b \in 1 .. ActiveListDepth : SlotAt(activeHead, a) = SlotAt(activeHead, b) => a = b
    BY <2>3, SlotsDiffer
  <2>5. SlotAt(activeHead, q) = SlotAt(activeHead, i)
    BY <2>1, <2>2
  <2> QED BY <2>2, <2>3, <2>4, <2>5
<1>7. ASSUME NEW q \in DOMAIN activeList, q < i, activeList[q].op = "store"
      PROVE  FALSE
  <2>1. PICK j \in DOMAIN lsq : pos[j] = q
    BY <1>4, <1>7 DEF Places, MemOps
  <2>2. lsq[j].op = "store"
    <3>1. activeList[q].op = IF lsq[j].op = "unmatched" THEN "load" ELSE lsq[j].op
      BY <1>4, <2>1 DEF Places, Matches
    <3> QED BY <1>7, <3>1
  <2>3. j < k
    <3>1. j \in 1 .. m /\ k \in 1 .. m /\ q \in 1 .. n /\ i \in 1 .. n
      BY <1>0, <1>2, <1>5, <2>1
    <3>2. j # k
      BY <1>6, <1>7, <2>1, <3>1
    <3>3. k < j => pos[k] < pos[j]
      BY <1>2, <1>4, <2>1 DEF Places
    <3>4. ~(k < j)
      BY <1>6, <1>7, <2>1, <3>1, <3>3
    <3> QED BY <3>1, <3>2, <3>4
  <2>4. j \in 1 .. k - 1
    BY <1>0, <1>2, <1>5, <2>1, <2>3
  <2> QED BY <1>3, <2>2, <2>4
<1> QED BY <1>2, <1>7 DEF NoStoreBefore

\* So it stays, whatever retires.
LEMMA AloneKeeps ==
  ASSUME LInv, VInv, P!RInv', ~R!FlushRecover,
         NEW ins \in Decodes, NEW wrong \in BOOLEAN, Cycle(ins, wrong),
         NEW i1 \in 1 .. Len(activeList) - Shift, NEW i \in DOMAIN activeList, i = i1 + Shift,
         activeList[i].op = "load", storeBuffer = {}, NoStoreBefore(i)
  PROVE  StoresDone' /\ NoStoreBefore(i1)'
<1>1. P!RInv /\ Decoding(ins)
  BY DEF LInv, Decoding
<1>2. PICK n \in Nat, r \in {0, 1} : n = Len(activeList) /\ DOMAIN activeList = 1 .. n /\ r = Shift
  BY <1>1, ListIs DEF Shift
<1>3. \A w \in lsu' : w.op # "store"
  <2>1. lsu' = {lsq[k] : k \in IssuesLsq}
    BY DEF Cycle, LsuCall
  <2> QED BY <2>1, Issuing
<1>4. storeBuffer' = {}
  <2> SUFFICES ASSUME R!Retires, activeList[1].op = "store"
               PROVE  FALSE
    BY RetiringStore
  <2>1. 1 \in DOMAIN activeList /\ 1 < i
    <3>1. i \in 1 .. n /\ i # 1
      BY <1>2
    <3> QED BY <1>2, <3>1
  <2> QED BY <2>1 DEF NoStoreBefore
<1>5. ASSUME NEW j1 \in DOMAIN activeList', j1 < i1
      PROVE  activeList'[j1].op # "store"
  <2>1. DOMAIN activeList' = 1 .. Len(activeList') /\ Len(activeList') \in Nat
    BY FactsNext DEF ListFacts
  <2>2. PICK k \in 1 .. n - r : k = j1
    BY <1>2, <1>5, <2>1
  <2>3. k + r \in DOMAIN activeList /\ activeList'[k].op = activeList[k + r].op
    BY <1>1, <1>2, ListAfter
  <2>4. k + r < i
    BY <1>2, <1>5, <2>2
  <2> QED BY <2>2, <2>3, <2>4 DEF NoStoreBefore
<1> QED BY <1>3, <1>4, <1>5 DEF StoresDone, NoStoreBefore

LEMMA LoadsAfter ==
  ASSUME LInv, VInv, NoLoadToZero, P!RInv', ~R!FlushRecover,
         NEW ins \in Decodes, NEW wrong \in BOOLEAN, Cycle(ins, wrong)
  PROVE  LoadsAfterStores'
<1>1. P!RInv /\ Decoding(ins)
  BY DEF LInv, Decoding
<1> SUFFICES ASSUME NEW i1 \in DOMAIN activeList', Issued(i1)'
             PROVE  StoresDone' /\ NoStoreBefore(i1)'
  BY DEF LoadsAfterStores
<1>2. /\ activeList'[i1].op = "load"
      /\ activeList'[i1].ready \/ \E w \in Loading' \cup writeBack' : w.slot = SlotAt(activeHead', i1)
  BY DEF Issued
<1>3. i1 \in 1 .. Len(activeList) - Shift /\ i1 + Shift \in DOMAIN activeList
  <2> SUFFICES ASSUME ins # Bubble, i1 = Len(activeList) - Shift + 1
               PROVE  i1 \in 1 .. Len(activeList) - Shift /\ i1 + Shift \in DOMAIN activeList
    BY <1>1, PositionsAfter
  <2>1. CASE activeList'[i1].ready
    <3>1. activeList'[i1] = R!NewEntry(Renamed(ins))
      BY <1>1, ListAfter
    <3>2. R!NewEntry(Renamed(ins)).op = Renamed(ins).op
      BY DEF R!NewEntry
    <3>3. Renamed(ins).op # "store"
      BY <1>2, <3>1, <3>2
    <3>4. ~R!NewEntry(Renamed(ins)).ready
      BY <3>3 DEF R!NewEntry
    <3> QED BY <2>1, <3>1, <3>4
  <2>2. CASE \E w \in Loading' \cup writeBack' : w.slot = SlotAt(activeHead', i1)
    <3>1. PICK w \in Loading' \cup writeBack' : w.slot = SlotAt(activeHead', i1)
      BY <2>2
    <3>2. Staying(w, {"load"})
      BY <3>1, UnitsAfter
    <3>3. PICK i \in DOMAIN activeList : w.slot = SlotAt(activeHead, i)
      BY <3>2 DEF Staying
    <3> QED BY <1>1, <3>1, <3>3, PositionsAfter
  <2> QED BY <1>2, <2>1, <2>2
<1>4. PICK i \in DOMAIN activeList : i = i1 + Shift
  BY <1>3
<1>5. /\ activeList[i].op = "load" /\ SlotAt(activeHead', i1) = SlotAt(activeHead, i)
      /\ activeList'[i1].ready <=> activeList[i].ready \/ i \in Delivered
  BY <1>1, <1>2, <1>3, <1>4, ListAfter
<1>6. storeBuffer = {} /\ NoStoreBefore(i)
  <2>1. CASE Issued(i)
    BY <2>1 DEF VInv, LoadsAfterStores, StoresDone
  <2>2. CASE activeList'[i1].ready
    <3>1. Issued(i)
      BY <1>5, <2>2, DeliveredResult DEF Issued
    <3> QED BY <2>1, <3>1
  <2>3. CASE \E w \in Loading' : w.slot = SlotAt(activeHead', i1)
    <3>1. PICK k \in IssuesLsq : lsq[k].slot = SlotAt(activeHead, i)
      BY <1>5, <2>3, UnitsAfter
    <3> QED BY <3>1, IssuedAlone
  <2>4. CASE \E w \in writeBack' : w.slot = SlotAt(activeHead', i1)
    <3>1. PICK v \in Loading : v.slot = SlotAt(activeHead, i)
      BY <1>5, <2>4, UnitsAfter
    <3>2. Issued(i)
      BY <1>5, <3>1 DEF Issued
    <3> QED BY <2>1, <3>2
  <2> QED BY <1>2, <2>2, <2>3, <2>4
<1> QED BY <1>3, <1>4, <1>5, <1>6, AloneKeeps

-----------------------------------------------------------------------------
(* The invariant holds. *)

LEMMA TracedAfter ==
  ASSUME LInv, VInv, NoLoadToZero, P!RInv', ~R!FlushRecover,
         NEW ins \in Decodes, NEW wrong \in BOOLEAN, Cycle(ins, wrong)
  PROVE  Traced'
<1>1. P!RInv /\ Decoding(ins)
  BY DEF LInv, Decoding
<1> SUFFICES ASSUME NEW i1 \in DOMAIN activeList'
             PROVE  /\ fetched'[i1] \in Instructions
                    /\ activeList'[i1].op = Renamed(fetched'[i1]).op
                    /\ activeList'[i1].dest = fetched'[i1].dest
                    /\ P!Maps(P!FixedOf(activeList'), commitTable', fetched'[i1].source, i1,
                              activeList'[i1].source)
                    /\ fetched'[i1].op = "unmatched" => ~activeList'[i1].ready
  BY DEF Traced, Mapping
<1>2. CASE i1 \in 1 .. Len(activeList) - Shift /\ i1 + Shift \in DOMAIN activeList
  <2>1. PICK i \in DOMAIN activeList : i = i1 + Shift
    BY <1>2
  <2>2. /\ activeList'[i1].op = activeList[i].op /\ activeList'[i1].dest = activeList[i].dest
        /\ activeList'[i1].source = activeList[i].source
        /\ activeList'[i1].ready <=> activeList[i].ready \/ i \in Delivered
    BY <1>1, <1>2, <2>1, ListAfter
  <2>3. fetched'[i1] = fetched[i]
    BY <1>2, <2>1, ProgramAfter
  <2>4. /\ fetched[i] \in Instructions /\ activeList[i].op = Renamed(fetched[i]).op
        /\ activeList[i].dest = fetched[i].dest
        /\ Mapping(fetched[i].source, i, activeList[i].source)
        /\ fetched[i].op = "unmatched" => ~activeList[i].ready
    BY DEF VInv, Traced
  <2>5. PICK l \in Logical : l = fetched[i].source
    BY <2>4, InstructionsAssumption DEF Instruction
  <2>6. PICK p : p = activeList[i].source
    OBVIOUS
  <2>7. Mapping(l, i1, p)'
    BY <1>1, <1>2, <2>1, <2>4, <2>5, <2>6, MappingAfter
  <2>8. P!Maps(P!FixedOf(activeList'), commitTable', fetched'[i1].source, i1, activeList'[i1].source)
    BY <2>2, <2>3, <2>5, <2>6, <2>7 DEF Mapping
  <2>9. fetched[i].op = "unmatched" => i \notin Delivered
    BY DeliveredResult
  <2> QED BY <2>2, <2>3, <2>4, <2>8, <2>9
<1>3. CASE ins # Bubble /\ i1 = Len(activeList) - Shift + 1
  <2>1. activeList'[i1] = R!NewEntry(Renamed(ins)) /\ fetched'[i1] = ins /\ ins \in Instructions
    BY <1>1, <1>3, ListAfter, ProgramAfter, DecodesAre
  <2>2. /\ R!NewEntry(Renamed(ins)).op = Renamed(ins).op
        /\ R!NewEntry(Renamed(ins)).dest = ins.dest
        /\ R!NewEntry(Renamed(ins)).source = specTable[ins.source]
    BY DecodesAre DEF R!NewEntry, R!Operand
  <2>3. ins.op = "unmatched" => ~R!NewEntry(Renamed(ins)).ready
    <3>1. ins.op = "unmatched" => Renamed(ins).op # "store"
      BY DecodesAre
    <3> QED BY <3>1 DEF R!NewEntry
  <2>4. PICK l \in Logical : l = ins.source
    BY <2>1, InstructionsAssumption DEF Instruction
  <2>5. PICK p : p = specTable[l]
    OBVIOUS
  <2>6. Mapping(l, i1, p)'
    BY <1>1, <1>3, <2>4, <2>5, MappingAfter
  <2>7. P!Maps(P!FixedOf(activeList'), commitTable', ins.source, i1, R!NewEntry(Renamed(ins)).source)
    BY <2>2, <2>4, <2>5, <2>6 DEF Mapping
  <2> QED BY <2>1, <2>2, <2>3, <2>7
<1> QED BY <1>1, <1>2, <1>3, PositionsAfter

\* A branch and a store write no register: their retirement leaves the committed table alone.
LEMMA TableKeeps ==
  ASSUME LInv, VInv, NEW ins, NEW wrong, Cycle(ins, wrong),
         R!FlushRecover \/ (R!Retires /\ activeList[1].op = "store")
  PROVE  commitTable' = commitTable
<1>1. /\ R!Retires /\ 1 \in DOMAIN activeList /\ activeList[1].op \in {"branch", "store"}
      /\ commitTable' = IF R!Retires /\ activeList[1].dest # 0
                          THEN [commitTable EXCEPT ![activeList[1].dest] = activeList[1].new]
                          ELSE commitTable
  BY CommitAfter DEF LInv
<1>2. activeList[1].dest = 0
  BY <1>1, WriterIs
<1> QED BY <1>1, <1>2

LEMMA StoresAfter ==
  ASSUME LInv, VInv, NEW ins, NEW wrong, Cycle(ins, wrong)
  PROVE  StoresCommitted'
<1> SUFFICES ASSUME NEW w \in storeBuffer'
             PROVE  \E k, l \in Logical : w.rs1 = commitTable'[k] /\ w.rs2 = commitTable'[l]
  BY DEF StoresCommitted
<1>1. R!Retires /\ activeList[1].op = "store" /\ w = lsq[1]
  BY RetiringStore
<1>2. /\ fetched[1] \in Instruction
      /\ w.rs1 = commitTable[fetched[1].source] /\ w.rs2 = commitTable[fetched[1].data]
  BY <1>1, RetiringStore
<1>3. fetched[1].source \in Logical /\ fetched[1].data \in Logical
  BY <1>2 DEF Instruction
<1>4. commitTable' = commitTable
  BY <1>1, TableKeeps
<1> QED BY <1>2, <1>3, <1>4

LEMMA LateLoadsAfter ==
  ASSUME LInv, VInv, NoLoadToZero, NEW ins, NEW wrong, Cycle(ins, wrong)
  PROVE  LateLoadsDropped'
<1>1. P!RInv /\ ListFacts
  BY FactsHold DEF LInv
<1> SUFFICES ASSUME NEW d \in lateLoad', NEW k \in Logical
             PROVE  d.entry.new # commitTable'[k]
  BY DEF LateLoadsDropped
<1>2. R!FlushRecover
  BY DEF Cycle, LateLoadBuild
<1>3. PICK i \in DOMAIN activeList, w \in lsu :
        d = [slot |-> R!SlotOf(i), entry |-> activeList[i]] /\ w.op = "load" /\ w.slot = R!SlotOf(i)
  BY <1>2 DEF Cycle, LateLoadBuild
<1>4. w \in Loading /\ w.slot = SlotAt(activeHead, i) /\ d.entry.new = activeList[i].new
  BY <1>3, SlotOfIs DEF Loading
<1>5. PICK j \in DOMAIN activeList : Does(w, j, activeList, activeHead, fetched, commitTable)
  BY <1>4 DEF VInv, WorkTraced, Works
<1>6. j = i
  <2>1. activeHead \in 0 .. ActiveListDepth - 1 /\ i \in 1 .. ActiveListDepth /\ j \in 1 .. ActiveListDepth
    BY <1>1, ActiveListDepthAssumption DEF ListFacts
  <2>2. \A a, b \in 1 .. ActiveListDepth : SlotAt(activeHead, a) = SlotAt(activeHead, b) => a = b
    BY <2>1, SlotsDiffer
  <2>3. SlotAt(activeHead, j) = SlotAt(activeHead, i)
    BY <1>4, <1>5 DEF Does
  <2> QED BY <2>1, <2>2, <2>3
<1>7. fetched[i].op = "load"
  BY <1>3, <1>5, <1>6 DEF Does
<1>8. activeList[i].dest # 0
  <2>1. fetched[i] \in Instructions /\ activeList[i].dest = fetched[i].dest
    BY WriterIs
  <2> QED BY <1>7, <2>1 DEF NoLoadToZero
<1>9. activeList[i].new # commitTable[k]
  BY <1>1, <1>8, MappingNow
<1>10. commitTable' = commitTable
  BY <1>2, TableKeeps
<1> QED BY <1>4, <1>9, <1>10

LEMMA VCycle ==
  ASSUME LInv, LInv', VInv, NoLoadToZero, ~R!FlushRecover,
         NEW ins \in Decodes, NEW wrong \in BOOLEAN, Cycle(ins, wrong)
  PROVE  VInv'
<1>1. P!RInv'
  BY DEF LInv
<1>2. Traced' /\ WorkTraced'
  BY <1>1, TracedAfter, WorkAfter
<1>3. ResultsWritten' /\ ResultsUnderWay' /\ LoadsAfterStores'
  BY <1>1, ResultsAfter, UnderWayAfter, LoadsAfter
<1>4. StoresCommitted' /\ LateLoadsDropped'
  BY StoresAfter, LateLoadsAfter
<1> QED BY <1>2, <1>3, <1>4 DEF VInv

LEMMA VFlush ==
  ASSUME LInv, VInv, NoLoadToZero, R!FlushRecover, NEW ins, NEW wrong, Cycle(ins, wrong)
  PROVE  VInv'
<1>1. activeList' = <<>> /\ aluQueue' = <<>> /\ lsq' = <<>>
  BY DEF Cycle, R!ActiveListBuild, QueueBuild
<1>2. alu' = {} /\ lsu' = storeBuffer
  BY DEF Cycle, IssuesAlu, IssuesLsq, LsuCall
<1>3. Loading' = {}
  <2>1. Loading' = {w \in lsu' : w.op # "store"}
    BY DEF Loading
  <2> QED BY <1>2, <2>1 DEF LInv
<1>4. Traced' /\ WorkTraced'
  BY <1>1, <1>2, <1>3 DEF Traced, WorkTraced
<1>5. ResultsWritten' /\ ResultsUnderWay' /\ LoadsAfterStores'
  BY <1>1 DEF ResultsWritten, ResultsUnderWay, LoadsAfterStores
<1>6. StoresCommitted' /\ LateLoadsDropped'
  BY StoresAfter, LateLoadsAfter
<1> QED BY <1>4, <1>5, <1>6 DEF VInv

LEMMA VInit == Init => VInv
<1> SUFFICES ASSUME Init PROVE VInv
  OBVIOUS
<1>1. /\ activeList = <<>> /\ fetched = <<>> /\ aluQueue = <<>> /\ lsq = <<>>
      /\ storeBuffer = {} /\ alu = {} /\ lsu = {} /\ writeBack = {} /\ lateLoad = {}
  BY DEF Init, R!Init
<1>2. Loading = {}
  BY <1>1 DEF Loading
<1> QED BY <1>1, <1>2 DEF VInv, Traced, WorkTraced, ResultsWritten, ResultsUnderWay,
                          LoadsAfterStores, StoresCommitted, LateLoadsDropped

LEMMA VNext ==
  ASSUME LInv, LInv', VInv, NoLoadToZero, [Next]_vars
  PROVE  VInv'
<1>1. CASE Next
  <2>1. PICK ins \in Decodes, wrong \in BOOLEAN : Cycle(ins, wrong)
    BY <1>1 DEF Next
  <2> QED BY <2>1, VCycle, VFlush
<1>2. CASE UNCHANGED vars
  <2>1. UNCHANGED <<renamingVars, fetched, aluQueue, lsq, storeBuffer, alu, lsu, writeBack,
                    registerFile, memory>>
    BY <1>2 DEF vars
  <2>2. UNCHANGED <<commitTable, activeList, activeHead, lateLoad>>
    BY <2>1 DEF renamingVars
  <2>3. Traced' /\ WorkTraced'
    BY <2>1, <2>2 DEF VInv, Traced, Mapping, WorkTraced, Works, Loading
  <2>4. ResultsWritten' /\ ResultsUnderWay'
    BY <2>1, <2>2 DEF VInv, ResultsWritten, ResultsUnderWay, Result, Sum
  <2>5. LoadsAfterStores' /\ StoresCommitted' /\ LateLoadsDropped'
    BY <2>1, <2>2 DEF VInv, LoadsAfterStores, Issued, Loading, StoresDone, NoStoreBefore,
                      StoresCommitted, LateLoadsDropped
  <2> QED BY <2>3, <2>4, <2>5 DEF VInv
<1> QED BY <1>1, <1>2

-----------------------------------------------------------------------------
(* The committed registers and the memory that InOrder sees. *)

\* The memory m once the store at `port' has been carried out with the registers rf.
Carried(m, port, rf) ==
  [a \in Words |-> IF \E w \in port : w.op = "store" /\ (rf[w.rs1] + w.imm) % Word = a
                     THEN rf[(CHOOSE w \in port : TRUE).rs2] ELSE m[a]]

LEMMA CarriedNone ==
  ASSUME NEW m, m = [a \in Words |-> m[a]], NEW port, \A w \in port : w.op # "store", NEW rf
  PROVE  Carried(m, port, rf) = m
BY DEF Carried

LEMMA CarriedOne ==
  ASSUME NEW m, m = [a \in Words |-> m[a]], NEW w, w.op = "store", NEW rf
  PROVE  Carried(m, {w}, rf) = [m EXCEPT ![(rf[w.rs1] + w.imm) % Word] = rf[w.rs2]]
<1>1. (CHOOSE v \in {w} : TRUE) = w
  OBVIOUS
<1>2. PICK x : x = (rf[w.rs1] + w.imm) % Word
  OBVIOUS
<1>3. Carried(m, {w}, rf) = [a \in Words |-> IF x = a THEN rf[w.rs2] ELSE m[a]]
  BY <1>1, <1>2 DEF Carried
<1>4. [m EXCEPT ![x] = rf[w.rs2]] = [a \in Words |-> IF x = a THEN rf[w.rs2] ELSE m[a]]
  OBVIOUS
<1> QED BY <1>2, <1>3, <1>4

LEMMA CarriedSame ==
  ASSUME NEW m, NEW port, NEW rf, NEW rf1,
         \A w \in port : rf1[w.rs1] = rf[w.rs1] /\ rf1[w.rs2] = rf[w.rs2]
  PROVE  Carried(m, port, rf1) = Carried(m, port, rf)
<1>1. ASSUME NEW a \in Words
      PROVE  (IF \E w \in port : w.op = "store" /\ (rf1[w.rs1] + w.imm) % Word = a
                THEN rf1[(CHOOSE w \in port : TRUE).rs2] ELSE m[a])
             = (IF \E w \in port : w.op = "store" /\ (rf[w.rs1] + w.imm) % Word = a
                  THEN rf[(CHOOSE w \in port : TRUE).rs2] ELSE m[a])
  <2>1. PICK c : c = CHOOSE w \in port : TRUE
    OBVIOUS
  <2>2. port # {} => c \in port
    BY <2>1
  <2>3. (\E w \in port : w.op = "store" /\ (rf1[w.rs1] + w.imm) % Word = a)
          <=> (\E w \in port : w.op = "store" /\ (rf[w.rs1] + w.imm) % Word = a)
    OBVIOUS
  <2>4. port # {} => rf1[c.rs2] = rf[c.rs2]
    BY <2>2
  <2> QED BY <2>1, <2>3, <2>4
<1> QED BY <1>1 DEF Carried

LEMMA ArchMemoryIs ==
  /\ ArchMemory = Carried(Carried(memory, lsu, registerFile), storeBuffer, registerFile)
  /\ ArchMemory' = Carried(Carried(memory', lsu', registerFile'), storeBuffer', registerFile')
<1>1. ArchMemory = Carried(Carried(memory, lsu, registerFile), storeBuffer, registerFile)
  BY DEF ArchMemory, Stored, Address, Carried
<1>2. ArchMemory' = Carried(Carried(memory', lsu', registerFile'), storeBuffer', registerFile')
  BY DEF ArchMemory, Stored, Address, Carried
<1> QED BY <1>1, <1>2

\* Only the retirement of a store changes it.
LEMMA ArchMemoryAfter ==
  ASSUME LInv, VInv, NoLoadToZero, NEW ins, NEW wrong, Cycle(ins, wrong)
  PROVE  ArchMemory' =
           IF R!Retires /\ activeList[1].op = "store"
             THEN [ArchMemory EXCEPT ![(ArchRegs[fetched[1].source] + fetched[1].imm) % Word]
                                       = ArchRegs[fetched[1].data]]
             ELSE ArchMemory
<1>1. PICK m : m = Carried(memory, lsu, registerFile)
  OBVIOUS
<1>2. m = [a \in Words |-> m[a]]
  BY <1>1 DEF Carried
<1>3. memory' = m
  BY <1>1 DEF Cycle, MemoryBuild, Address, Carried
<1>4. PICK s : s = Carried(m, storeBuffer, registerFile)
  OBVIOUS
<1>5. s = [a \in Words |-> s[a]]
  BY <1>4 DEF Carried
<1>6. ArchMemory = s
  BY <1>1, <1>4, ArchMemoryIs
<1>7. \A l \in Logical : registerFile'[commitTable[l]] = registerFile[commitTable[l]]
  BY RegistersKeep
<1>8. Carried(memory', lsu', registerFile') = s
  <2>1. lsu' = storeBuffer \cup {lsq[k] : k \in IssuesLsq}
    BY DEF Cycle, LsuCall
  <2>2. CASE storeBuffer = {}
    <3>1. \A w \in lsu' : w.op # "store"
      BY <2>1, <2>2, Issuing
    <3>2. Carried(m, lsu', registerFile') = m
      BY <1>2, <3>1, CarriedNone
    <3>3. s = m
      BY <1>2, <1>4, <2>2, CarriedNone
    <3> QED BY <1>3, <3>2, <3>3
  <2>3. CASE storeBuffer # {}
    <3>1. lsu' = storeBuffer
      BY <2>1, <2>3, Issuing
    <3>2. \A w \in storeBuffer : /\ registerFile'[w.rs1] = registerFile[w.rs1]
                                 /\ registerFile'[w.rs2] = registerFile[w.rs2]
      BY <1>7 DEF VInv, StoresCommitted
    <3>3. Carried(m, storeBuffer, registerFile') = s
      BY <1>4, <3>2, CarriedSame
    <3> QED BY <1>3, <3>1, <3>3
  <2> QED BY <2>2, <2>3
<1>9. ArchMemory' = Carried(s, storeBuffer', registerFile')
  BY <1>8, ArchMemoryIs
<1>10. CASE R!Retires /\ activeList[1].op = "store"
  <2>1. /\ storeBuffer' = {lsq[1]} /\ lsq[1].op = "store"
        /\ fetched[1] \in Instruction /\ lsq[1].imm = fetched[1].imm
        /\ lsq[1].rs1 = commitTable[fetched[1].source]
        /\ lsq[1].rs2 = commitTable[fetched[1].data]
    BY <1>10, RetiringStore
  <2>2. PICK w : w = lsq[1]
    OBVIOUS
  <2>3. Carried(s, {w}, registerFile')
          = [s EXCEPT ![(registerFile'[w.rs1] + w.imm) % Word] = registerFile'[w.rs2]]
    <3>1. PICK rf : rf = registerFile'
      OBVIOUS
    <3>2. w.op = "store"
      BY <2>1, <2>2
    <3>3. Carried(s, {w}, rf) = [s EXCEPT ![(rf[w.rs1] + w.imm) % Word] = rf[w.rs2]]
      BY <1>5, <3>2, CarriedOne
    <3> QED BY <3>1, <3>3
  <2>4. fetched[1].source \in Logical /\ fetched[1].data \in Logical
    BY <2>1 DEF Instruction
  <2>5. /\ registerFile'[w.rs1] = ArchRegs[fetched[1].source]
        /\ registerFile'[w.rs2] = ArchRegs[fetched[1].data]
    BY <1>7, <2>1, <2>2, <2>4 DEF ArchRegs
  <2> QED BY <1>6, <1>9, <1>10, <2>1, <2>2, <2>3, <2>5
<1>11. CASE ~(R!Retires /\ activeList[1].op = "store")
  <2>1. storeBuffer' = {}
    BY <1>11, RetiringStore
  <2>2. Carried(s, storeBuffer', registerFile') = s
    BY <1>5, <2>1, CarriedNone
  <2> QED BY <1>6, <1>9, <1>11, <2>2
<1> QED BY <1>10, <1>11

\* Only the retirement of an instruction with a destination changes the registers.
LEMMA ArchRegsAfter ==
  ASSUME LInv, VInv, NoLoadToZero, NEW ins, NEW wrong, Cycle(ins, wrong)
  PROVE  ArchRegs' = IF R!Retires /\ activeList[1].dest # 0
                       THEN [ArchRegs EXCEPT ![activeList[1].dest] = Result(1)]
                       ELSE ArchRegs
<1>1. P!RInv /\ ListFacts
  BY FactsHold DEF LInv
<1>2. ArchRegs' = [l \in Logical |-> registerFile'[commitTable'[l]]]
  BY DEF ArchRegs
<1>3. \A l \in Logical : registerFile'[commitTable[l]] = registerFile[commitTable[l]]
  BY RegistersKeep
<1>4. commitTable' = IF R!Retires /\ activeList[1].dest # 0
                       THEN [commitTable EXCEPT ![activeList[1].dest] = activeList[1].new]
                       ELSE commitTable
  BY <1>1, CommitAfter
<1>5. CASE R!Retires /\ activeList[1].dest # 0
  <2>1. 1 \in DOMAIN activeList /\ activeList[1].ready
    BY <1>1, <1>5, CommitAfter
  <2>2. PICK new \in Physical : new = activeList[1].new
    BY <1>1, <2>1, FinishedRegisters
  <2>3. registerReady[new] /\ activeList # <<>>
    BY <1>1, <1>5, <2>1, <2>2, FinishedRegisters
  <2>4. registerFile'[new] = registerFile[new]
    BY <2>3, RegistersKeep
  <2>5. registerFile[new] = Result(1)
    BY <1>5, <2>1, <2>2 DEF VInv, ResultsWritten
  <2>6. commitTable \in [Logical -> Physical]
    BY <1>1, MappingNow
  <2>7. PICK dest : dest = activeList[1].dest
    OBVIOUS
  <2>8. commitTable' = [commitTable EXCEPT ![dest] = new]
    BY <1>4, <1>5, <2>2, <2>7
  <2>9. \A l \in Logical : registerFile'[commitTable'[l]] = IF l = dest THEN Result(1) ELSE ArchRegs[l]
    BY <1>3, <2>4, <2>5, <2>6, <2>8 DEF ArchRegs
  <2>10. [ArchRegs EXCEPT ![dest] = Result(1)]
           = [l \in Logical |-> IF l = dest THEN Result(1) ELSE ArchRegs[l]]
    BY DEF ArchRegs
  <2>11. ArchRegs' = [l \in Logical |-> IF l = dest THEN Result(1) ELSE ArchRegs[l]]
    BY <1>2, <2>9
  <2> QED BY <1>5, <2>7, <2>10, <2>11
<1>6. CASE ~(R!Retires /\ activeList[1].dest # 0)
  <2>1. commitTable' = commitTable
    BY <1>4, <1>6
  <2>2. ArchRegs' = [l \in Logical |-> registerFile[commitTable[l]]]
    BY <1>2, <1>3, <2>1
  <2> QED BY <1>6, <2>2 DEF ArchRegs
<1> QED BY <1>5, <1>6

\* What the oldest instruction, once finished, has computed is what InOrder computes now.
LEMMA OldestResult ==
  ASSUME LInv, VInv, R!Retires
  PROVE  /\ fetched[1] \in Instructions /\ fetched[1].op \in {"alu", "load", "store", "branch"}
         /\ activeList[1].dest = fetched[1].dest
         /\ activeList[1].op = "store" <=> fetched[1].op = "store"
         /\ Result(1) = IF fetched[1].op = "load" THEN ArchMemory[I!Sum(fetched[1])]
                        ELSE I!Sum(fetched[1])
<1>1. P!RInv /\ TypeOK
  BY DEF LInv
<1>2. 1 \in DOMAIN activeList /\ activeList[1].ready
  <2>1. activeList \in Seq(R!Entry)
    BY <1>1, ListIs DEF R!TypeOK
  <2> QED BY <2>1 DEF R!Retires, R!Oldest
<1>3. /\ fetched[1] \in Instructions /\ activeList[1].dest = fetched[1].dest
      /\ activeList[1].op = "store" <=> fetched[1].op = "store"
      /\ activeList[1].op = Renamed(fetched[1]).op
  BY <1>2, WriterIs
<1>4. fetched[1].op # "unmatched" /\ Mapping(fetched[1].source, 1, activeList[1].source)
  BY <1>2 DEF VInv, Traced
<1>5. fetched[1] \in Instruction
  BY <1>3, InstructionsAssumption
<1>6. fetched[1].op \in {"alu", "load", "store", "branch"} /\ fetched[1].source \in Logical
  BY <1>4, <1>5 DEF Instruction
<1>7. activeList[1].source = commitTable[fetched[1].source]
  BY <1>1, <1>4, OldestMapping
<1>8. Sum(1) = I!Sum(fetched[1])
  BY <1>6, <1>7 DEF Sum, I!Sum, ArchRegs
<1>9. fetched[1].op = "load" => ArchMemory = memory
  <2> SUFFICES ASSUME fetched[1].op = "load" PROVE ArchMemory = memory
    OBVIOUS
  <2>1. activeList[1].op = "load"
    BY <1>3 DEF Renamed
  <2>2. storeBuffer = {} /\ \A w \in lsu : w.op # "store"
    BY <1>2, <2>1 DEF VInv, LoadsAfterStores, Issued, StoresDone
  <2>3. memory = [a \in Words |-> memory[a]]
    BY <1>1 DEF TypeOK
  <2>4. Carried(memory, lsu, registerFile) = memory
    BY <2>2, <2>3, CarriedNone
  <2>5. Carried(memory, storeBuffer, registerFile) = memory
    BY <2>2, <2>3, CarriedNone
  <2> QED BY <2>4, <2>5, ArchMemoryIs
<1> QED BY <1>3, <1>6, <1>8, <1>9 DEF Result

\* A cycle executes the retiring instruction and changes nothing else.
LEMMA RetirementStep ==
  ASSUME LInv, VInv, NoLoadToZero, Next
  PROVE  IF R!Retires THEN I!Execute(fetched[1]) ELSE UNCHANGED <<ArchRegs, ArchMemory>>
<1>1. PICK ins \in Decodes, wrong \in BOOLEAN : Cycle(ins, wrong)
  BY DEF Next
<1>2. CASE R!Retires
  <2>1. /\ fetched[1] \in Instructions /\ fetched[1].op \in {"alu", "load", "store", "branch"}
        /\ activeList[1].dest = fetched[1].dest
        /\ activeList[1].op = "store" <=> fetched[1].op = "store"
        /\ Result(1) = IF fetched[1].op = "load" THEN ArchMemory[I!Sum(fetched[1])]
                       ELSE I!Sum(fetched[1])
    BY <1>2, OldestResult
  <2>2. ArchRegs' = I!Written(fetched[1], Result(1))
    BY <1>1, <1>2, <2>1, ArchRegsAfter DEF I!Written
  <2>3. fetched[1].op \in {"store", "branch"} => ArchRegs' = ArchRegs
    <3>1. fetched[1].op \in {"store", "branch"} => fetched[1].dest = 0
      BY <2>1, InstructionsAssumption
    <3> QED BY <2>2, <3>1 DEF I!Written
  <2>4. fetched[1].op # "store" => ArchMemory' = ArchMemory
    BY <1>1, <2>1, ArchMemoryAfter
  <2>5. fetched[1].op = "store" =>
          ArchMemory' = [ArchMemory EXCEPT ![I!Sum(fetched[1])] = ArchRegs[fetched[1].data]]
    BY <1>1, <1>2, <2>1, ArchMemoryAfter DEF I!Sum
  <2>6. I!Execute(fetched[1])
    <3>1. fetched[1].op = "alu" => Result(1) = I!Sum(fetched[1])
      BY <2>1
    <3>2. fetched[1].op = "load" => Result(1) = ArchMemory[I!Sum(fetched[1])]
      BY <2>1
    <3>3. CASE fetched[1].op = "alu"
      BY <2>2, <2>4, <3>1, <3>3 DEF I!Execute
    <3>4. CASE fetched[1].op = "load"
      BY <2>2, <2>4, <3>2, <3>4 DEF I!Execute
    <3>5. CASE fetched[1].op = "store"
      BY <2>3, <2>5, <3>5 DEF I!Execute
    <3>6. CASE fetched[1].op = "branch"
      BY <2>3, <2>4, <3>6 DEF I!Execute
    <3> QED BY <2>1, <3>3, <3>4, <3>5, <3>6
  <2> QED BY <1>2, <2>6
<1>3. CASE ~R!Retires
  <2>1. ArchRegs' = ArchRegs /\ ArchMemory' = ArchMemory
    BY <1>1, <1>3, ArchRegsAfter, ArchMemoryAfter
  <2> QED BY <1>3, <2>1
<1> QED BY <1>2, <1>3

LEMMA ArchInit == Init => I!Init
<1> SUFFICES ASSUME Init PROVE I!Init
  OBVIOUS
<1>1. /\ storeBuffer = {} /\ lsu = {} /\ memory = [a \in Words |-> 0]
      /\ registerFile = [p \in Physical |-> 0] /\ commitTable = [l \in Logical |-> 0]
  BY DEF Init, R!Init, R!Logical, Logical
<1>2. memory = [a \in Words |-> memory[a]]
  BY <1>1
<1>3. Carried(memory, lsu, registerFile) = memory
  BY <1>1, <1>2, CarriedNone
<1>4. Carried(memory, storeBuffer, registerFile) = memory
  BY <1>1, <1>2, CarriedNone
<1>5. ArchMemory = [a \in Words |-> 0]
  BY <1>1, <1>3, <1>4, ArchMemoryIs
<1>6. 0 \in Physical
  BY RegisterNumberAssumption DEF Physical
<1>7. ArchRegs = [l \in Logical |-> 0]
  BY <1>1, <1>6 DEF ArchRegs
<1> QED BY <1>5, <1>7 DEF I!Init, I!Logical, I!Words, Logical, Words

\* Every program that loads nothing into x0 takes effect as if its instructions were executed
\* one at a time, in the order they were fetched: each retirement changes the committed
\* registers and the memory as that instruction does, and nothing else ever changes them.
THEOREM RetirementInOrder ==
  ASSUME NoLoadToZero
  PROVE  Spec => RetiresInOrder
<1>1. Init => VInv
  BY VInit
<1>2. LInv /\ LInv' /\ VInv /\ [Next]_vars => VInv'
  BY VNext
<1>3. LInv /\ VInv /\ [Next]_vars =>
        [IF R!Retires THEN I!Execute(fetched[1]) ELSE UNCHANGED <<ArchRegs, ArchMemory>>]_vars
  BY RetirementStep
<1> QED BY <1>1, <1>2, <1>3, ArchInit, UnitsInvariant, PTL DEF Spec, RetiresInOrder
=============================================================================
