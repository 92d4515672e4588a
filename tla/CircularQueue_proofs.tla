------------------------ MODULE CircularQueue_proofs ------------------------
(***************************************************************************)
(* CircularQueue for every depth and every data type: its registers keep   *)
(* their types and agree with each other, and the ring implements the      *)
(* bounded FIFO.                                                           *)
(***************************************************************************)
EXTENDS CircularQueue, SequenceTheorems, Recursion, TLAPS

USE DepthAssumption

\* The registers after one permitted cycle keep their types and their agreement.
Agrees(q) == q.tail = IF q.count = Depth THEN q.head ELSE Advance(q.head, q.count)

LEMMA StoreKeeps ==
  ASSUME NEW q \in Queues(Data), NEW offset \in 0 .. q.count - 1, NEW data \in Data
  PROVE  /\ Store(q, offset, data) \in Queues(Data)
         /\ Store(q, offset, data).head = q.head
         /\ Store(q, offset, data).tail = q.tail
         /\ Store(q, offset, data).count = q.count
BY DEF Queues, Slots, Store, Advance

LEMMA OperateKeeps ==
  ASSUME NEW q \in Queues(Data), Agrees(q),
         NEW push \in BOOLEAN, NEW pop \in BOOLEAN, NEW clear \in BOOLEAN, NEW data \in Data,
         Permitted(q, push, pop)
  PROVE  /\ Operate(q, push, data, pop, clear) \in Queues(Data)
         /\ Agrees(Operate(q, push, data, pop, clear))
<1> DEFINE r == Operate(q, push, data, pop, clear)
<1>1. r.slots \in [Slots -> Data]
  BY DEF Operate, Queues, Slots
<1>2. r.head \in Slots /\ r.tail \in Slots
  BY DEF Operate, Queues, Slots, Increment
<1>3. r.count \in 0 .. Depth
  BY DEF Operate, Queues, Slots, Permitted, IsFull, IsEmpty
<1>4. r \in Queues(Data)
  BY <1>1, <1>2, <1>3 DEF Operate, Queues
<1>5. Agrees(r)
  <2>1. CASE clear
    BY <2>1 DEF Agrees, Advance, Operate, Queues, Slots
  <2>2. CASE ~clear /\ push /\ pop
    BY SMTT(30), <2>2 DEF Agrees, Advance, Operate, Queues, Slots, Increment, Permitted, IsFull, IsEmpty
  <2>3. CASE ~clear /\ push /\ ~pop
    BY SMTT(30), <2>3 DEF Agrees, Advance, Operate, Queues, Slots, Increment, Permitted, IsFull, IsEmpty
  <2>4. CASE ~clear /\ ~push /\ pop
    BY SMTT(30), <2>4 DEF Agrees, Advance, Operate, Queues, Slots, Increment, Permitted, IsFull, IsEmpty
  <2>5. CASE ~clear /\ ~push /\ ~pop
    BY <2>5 DEF Agrees, Operate, Queues, Slots
  <2> QED BY <2>1, <2>2, <2>3, <2>4, <2>5
<1> QED BY <1>4, <1>5

-----------------------------------------------------------------------------
(* The registers. *)

LEMMA InitRegisters == Init => TypeOK /\ Agrees(queue)
BY DefaultCountAssumption DEF Init, TypeOK, Queues, Slots, Agrees, Advance

LEMMA StepRegisters == TypeOK /\ Agrees(queue) /\ [Next]_queue => TypeOK' /\ Agrees(queue)'
<1> SUFFICES ASSUME TypeOK, Agrees(queue), [Next]_queue
             PROVE  TypeOK' /\ Agrees(queue)'
  OBVIOUS
<1>1. CASE UNCHANGED queue
  BY <1>1 DEF TypeOK, Agrees
<1>2. ASSUME NEW push \in BOOLEAN, NEW pop \in BOOLEAN, NEW clear \in BOOLEAN, NEW data \in Data,
             Operation(queue, push, data, pop, clear)
      PROVE  TypeOK' /\ Agrees(queue)'
  BY <1>2, OperateKeeps DEF TypeOK, Agrees, Operation
<1>3. ASSUME NEW push \in BOOLEAN, NEW pop \in BOOLEAN, NEW clear \in BOOLEAN, NEW data \in Data,
             NEW offset \in 0 .. queue.count - 1, NEW new \in Data,
             Operation(Store(queue, offset, new), push, data, pop, clear)
      PROVE  TypeOK' /\ Agrees(queue)'
  <2> DEFINE q == Store(queue, offset, new)
  <2>1. /\ q \in Queues(Data)
        /\ q.head = queue.head
        /\ q.tail = queue.tail
        /\ q.count = queue.count
    BY StoreKeeps DEF TypeOK
  <2>2. Agrees(q) /\ Permitted(q, push, pop)
    BY <1>3, <2>1 DEF Agrees, Operation, Permitted, IsFull, IsEmpty
  <2>3. Operate(q, push, data, pop, clear) \in Queues(Data) /\ Agrees(Operate(q, push, data, pop, clear))
    BY <2>1, <2>2, OperateKeeps
  <2> QED BY <1>3, <2>3 DEF TypeOK, Agrees, Operation
<1> QED BY <1>1, <1>2, <1>3 DEF Next

\* Whatever a caller does within operate's assume() calls, the four registers of
\* circular_queue.py keep their types: no pointer leaves the array and count stays in range.
THEOREM TypeCorrect == Spec => []TypeOK
<1>1. TypeOK /\ Agrees(queue) /\ [Next]_queue => (TypeOK /\ Agrees(queue))'
  BY StepRegisters
<1> QED BY InitRegisters, <1>1, PTL DEF Spec

\* Head, tail and count always tell the same story (circular_queue.py updates them under
\* three separate conditions).
THEOREM RegistersAgree == Spec => []CountIsDistance
<1>1. TypeOK /\ Agrees(queue) /\ [Next]_queue => (TypeOK /\ Agrees(queue))'
  BY StepRegisters
<1>2. Agrees(queue) => CountIsDistance
  BY DEF Agrees, CountIsDistance
<1> QED BY InitRegisters, <1>1, <1>2, PTL DEF Spec

-----------------------------------------------------------------------------
(* The entries. *)

LEMMA ContentsSeq ==
  ASSUME NEW q \in Queues(Data)
  PROVE  /\ Contents(q) \in Seq(Data)
         /\ Len(Contents(q)) = q.count
         /\ DOMAIN Contents(q) = 1 .. q.count
         /\ \A i \in 1 .. q.count : Contents(q)[i] = q.slots[Advance(q.head, i - 1)]
<1>1. \A i \in 1 .. q.count : Advance(q.head, i - 1) \in Slots
  BY DEF Advance, Queues, Slots
<1>2. q.count \in Nat /\ \A i \in 1 .. q.count : q.slots[Advance(q.head, i - 1)] \in Data
  BY <1>1 DEF Queues
<1>3. Contents(q) \in [1 .. q.count -> Data]
  BY <1>2 DEF Contents
<1> QED BY <1>2, <1>3, LenProperties DEF Contents

\* A store through an index rewrites that entry and no other.
LEMMA StoreContents ==
  ASSUME NEW q \in Queues(Data), NEW offset \in 0 .. q.count - 1, NEW data \in Data
  PROVE  Contents(Store(q, offset, data)) = [Contents(q) EXCEPT ![offset + 1] = data]
<1> DEFINE r == Store(q, offset, data)
           s == [Contents(q) EXCEPT ![offset + 1] = data]
<1>1. r \in Queues(Data) /\ r.count = q.count /\ r.head = q.head
  BY StoreKeeps
<1>2. offset + 1 \in 1 .. q.count
  BY DEF Queues
<1>3. /\ s \in Seq(Data)
      /\ Len(s) = q.count
      /\ \A i \in 1 .. q.count : s[i] = IF i = offset + 1 THEN data ELSE Contents(q)[i]
  BY <1>2, ContentsSeq, ExceptSeq
<1>4. /\ Contents(r) \in Seq(Data)
      /\ Len(Contents(r)) = q.count
      /\ \A i \in 1 .. q.count : Contents(r)[i] = r.slots[Advance(q.head, i - 1)]
  BY <1>1, ContentsSeq
<1>5. ASSUME NEW i \in 1 .. q.count
      PROVE  Contents(r)[i] = s[i]
  <2>1. Advance(q.head, offset) \in Slots /\ Advance(q.head, i - 1) \in Slots
    BY SMTT(60) DEF Queues, Slots, Advance
  <2>2. (Advance(q.head, offset) = Advance(q.head, i - 1)) <=> (i = offset + 1)
    BY SMTT(20) DEF Queues, Slots, Advance
  <2>3. r.slots = [q.slots EXCEPT ![Advance(q.head, offset)] = data]
    BY DEF Store, Queues
  <2>4. r.slots[Advance(q.head, i - 1)] = IF i = offset + 1 THEN data ELSE q.slots[Advance(q.head, i - 1)]
    BY <2>1, <2>2, <2>3 DEF Queues
  <2> QED BY <2>4, <1>3, <1>4, ContentsSeq
<1> QED BY <1>3, <1>4, <1>5, SeqEqual

\* One permitted cycle drops the oldest entry, appends the pushed one, or drops everything.
LEMMA OperateContents ==
  ASSUME NEW q \in Queues(Data), Agrees(q),
         NEW push \in BOOLEAN, NEW pop \in BOOLEAN, NEW clear \in BOOLEAN, NEW data \in Data,
         Permitted(q, push, pop)
  PROVE  LET kept == IF pop THEN Tail(Contents(q)) ELSE Contents(q)
         IN  Contents(Operate(q, push, data, pop, clear)) =
               IF clear THEN <<>> ELSE IF push THEN Append(kept, data) ELSE kept
<1> DEFINE c == Contents(q)
           r == Operate(q, push, data, pop, clear)
           kept == IF pop THEN Tail(c) ELSE c
           after == IF clear THEN <<>> ELSE IF push THEN Append(kept, data) ELSE kept
           n == q.count - (IF pop THEN 1 ELSE 0)
           first == IF pop THEN 1 ELSE 0
<1>1. /\ c \in Seq(Data)
      /\ Len(c) = q.count
      /\ \A i \in 1 .. q.count : c[i] = q.slots[Advance(q.head, i - 1)]
  BY ContentsSeq
<1>2. r \in Queues(Data)
  BY OperateKeeps
<1>3. /\ Contents(r) \in Seq(Data)
      /\ Len(Contents(r)) = r.count
      /\ \A i \in 1 .. r.count : Contents(r)[i] = r.slots[Advance(r.head, i - 1)]
  BY <1>2, ContentsSeq
<1>4. CASE clear
  BY <1>3, <1>4, EmptySeq, SeqEqual DEF Operate
<1>5. CASE ~clear
  <2>1. pop => q.count > 0
    BY DEF Permitted, IsEmpty, Queues
  <2>2. push => q.count < Depth
    BY DEF Permitted, IsFull, Queues
  <2>3. /\ kept \in Seq(Data)
        /\ Len(kept) = n
        /\ n \in Nat
        /\ \A i \in 1 .. n : kept[i] = c[i + first]
    <3>1. CASE pop
      <4>1. c # <<>>
        BY <1>1, <2>1, <3>1
      <4> QED BY <1>1, <2>1, <3>1, <4>1, HeadTailProperties DEF Queues
    <3>2. CASE ~pop
      BY <1>1, <3>2 DEF Queues
    <3> QED BY <3>1, <3>2
  <2>4. r.count = n + (IF push THEN 1 ELSE 0)
    BY <1>5, <2>1 DEF Operate, Queues
  <2>5. r.head = Advance(q.head, first)
    BY <1>5 DEF Operate, Increment, Advance, Queues, Slots
  <2>6. ASSUME NEW i \in 1 .. n
        PROVE  r.slots[Advance(r.head, i - 1)] = kept[i]
    <3>1. Advance(r.head, i - 1) = Advance(q.head, i + first - 1)
      BY SMTT(30), <2>5, <2>1 DEF Advance, Queues, Slots
    <3>2. /\ Advance(q.head, i + first - 1) \in Slots
          /\ q.tail \in Slots
          /\ push => q.tail # Advance(q.head, i + first - 1)
      <4>1. i + first - 1 \in Nat /\ i + first - 1 < q.count
        BY DEF Queues
      <4>2. q.head \in Slots /\ q.tail \in Slots /\ q.count \in 0 .. Depth
        BY DEF Queues
      <4> HIDE DEF first
      <4> QED BY <2>2, <4>1, <4>2 DEF Advance, Slots, Agrees
    <3>3. r.slots[Advance(q.head, i + first - 1)] = q.slots[Advance(q.head, i + first - 1)]
      BY <3>2 DEF Operate, Queues
    <3>4. i + first \in 1 .. q.count
      BY <2>1 DEF Queues
    <3> QED BY <1>1, <2>3, <3>1, <3>3, <3>4
  <2>7. CASE ~push
    <3>1. r.count = n
      BY <2>3, <2>4, <2>7
    <3>2. \A i \in 1 .. n : Contents(r)[i] = kept[i]
      BY <1>3, <2>6, <3>1
    <3> HIDE DEF n, kept, r
    <3>3. Contents(r) = kept
      BY <1>3, <2>3, <3>1, <3>2, SeqEqual
    <3> QED BY <1>5, <2>7, <3>3 DEF r, kept
  <2>8. CASE push
    <3>1. /\ Append(kept, data) \in Seq(Data)
          /\ Len(Append(kept, data)) = n + 1
          /\ \A i \in 1 .. n + 1 : Append(kept, data)[i] = IF i = n + 1 THEN data ELSE kept[i]
      BY <2>3
    <3>2. r.slots[Advance(r.head, n)] = data
      <4>1. Advance(r.head, n) = q.tail
        BY <2>1, <2>2, <2>5, <2>8 DEF Advance, Queues, Slots, Agrees
      <4> QED BY <1>5, <2>8, <4>1 DEF Operate, Queues
    <3>3. r.count = n + 1
      BY <2>3, <2>4, <2>8
    <3> HIDE DEF n, kept, r
    <3>4. ASSUME NEW i \in 1 .. n + 1
          PROVE  Contents(r)[i] = Append(kept, data)[i]
      <4>1. CASE i = n + 1
        BY <1>3, <2>3, <3>1, <3>2, <3>3, <4>1
      <4>2. CASE i # n + 1
        <5>1. i \in 1 .. n
          BY <2>3, <4>2
        <5> QED BY <1>3, <2>6, <3>1, <3>3, <4>2, <5>1
      <4> QED BY <4>1, <4>2
    <3>5. Contents(r) = Append(kept, data)
      BY <1>3, <3>1, <3>3, <3>4, SeqEqual
    <3> QED BY <1>5, <2>8, <3>5 DEF r, kept
  <2> QED BY <2>7, <2>8
<1> QED BY <1>4, <1>5

\* The initial slots of the ring map to an initial sequence of the abstract queue.
LEMMA InitRefines == Init => Fifo!Init
<1> SUFFICES ASSUME Init PROVE Fifo!Init
  OBVIOUS
<1>1. queue \in Queues(Data)
  BY InitRegisters DEF TypeOK
<1>2. queue.count = DefaultCount
  BY DEF Init
<1> QED BY <1>1, <1>2, ContentsSeq, LenProperties, DefaultCountAssumption DEF Fifo!Init

LEMMA StepRefines == TypeOK /\ Agrees(queue) /\ [Next]_queue => [Fifo!Next]_(Contents(queue))
<1> SUFFICES ASSUME TypeOK, Agrees(queue), [Next]_queue
             PROVE  [Fifo!Next]_(Contents(queue))
  OBVIOUS
<1> DEFINE c == Contents(queue)
<1>0. /\ c \in Seq(Data)
      /\ Len(c) = queue.count
      /\ DOMAIN c = 1 .. queue.count
  BY ContentsSeq DEF TypeOK
<1>1. CASE UNCHANGED queue
  BY <1>1 DEF Contents
<1>2. ASSUME NEW push \in BOOLEAN, NEW pop \in BOOLEAN, NEW clear \in BOOLEAN, NEW data \in Data,
             NEW q \in Queues(Data), Agrees(q), q.count = queue.count,
             Operation(q, push, data, pop, clear)
      PROVE  Fifo!Cycle(Contents(q), push, data, pop, clear)
  <2>1. Permitted(q, push, pop)
    BY <1>2 DEF Operation, Permitted, IsEmpty, IsFull
  <2>2. pop => c # <<>>
    BY <1>0, <1>2, <2>1 DEF Permitted, IsEmpty, Queues
  <2>3. push => Len(c) < Depth
    BY <1>0, <1>2, <2>1 DEF Permitted, IsFull, Queues
  <2>4. c' = Contents(Operate(q, push, data, pop, clear))
    BY <1>2 DEF Operation, Contents
  <2> QED BY <1>2, <2>1, <2>2, <2>3, <2>4, OperateContents DEF Fifo!Cycle
<1>3. ASSUME NEW push \in BOOLEAN, NEW pop \in BOOLEAN, NEW clear \in BOOLEAN, NEW data \in Data,
             Operation(queue, push, data, pop, clear)
      PROVE  Fifo!Next
  <2>1. Fifo!Cycle(c, push, data, pop, clear)
    BY <1>2, <1>3 DEF TypeOK
  <2> QED BY <2>1 DEF Fifo!Next
<1>4. ASSUME NEW push \in BOOLEAN, NEW pop \in BOOLEAN, NEW clear \in BOOLEAN, NEW data \in Data,
             NEW offset \in 0 .. queue.count - 1, NEW new \in Data,
             Operation(Store(queue, offset, new), push, data, pop, clear)
      PROVE  Fifo!Next
  <2> DEFINE q == Store(queue, offset, new)
  <2>1. q \in Queues(Data) /\ q.count = queue.count /\ Agrees(q)
    BY StoreKeeps DEF TypeOK, Agrees
  <2>2. offset + 1 \in DOMAIN c
    BY <1>0 DEF TypeOK, Queues
  <2>3. Contents(q) = [c EXCEPT ![offset + 1] = new]
    BY StoreContents DEF TypeOK
  <2>4. Fifo!Cycle(Contents(q), push, data, pop, clear)
    BY <1>2, <1>4, <2>1
  <2>5. Fifo!Cycle([c EXCEPT ![offset + 1] = new], push, data, pop, clear)
    BY <2>3, <2>4
  <2> QED BY <2>2, <2>5 DEF Fifo!Next
<1> QED BY <1>1, <1>3, <1>4 DEF Next

\* The ring implements the bounded FIFO: through wraps, simultaneous push and pop, clear and
\* stores by index, no entry of a circular_queue.py queue is lost, duplicated or reordered.
THEOREM ImplementsFifo == Spec => IsBoundedFifo
<1>1. TypeOK /\ Agrees(queue) /\ [Next]_queue => (TypeOK /\ Agrees(queue))'
  BY StepRegisters
<1> QED BY InitRegisters, InitRefines, StepRefines, <1>1, PTL DEF Spec, IsBoundedFifo, Fifo!Spec

-----------------------------------------------------------------------------
(* choose. *)

\* r is the first valid one of the n candidates from lo on, or invalid when there is none.
FirstOf(r, q, matches, lo, n) ==
  /\ r.valid => \E j \in lo .. lo + n - 1 :
                  /\ r = Candidate(q, matches, j)
                  /\ \A k \in lo .. j - 1 : ~Candidate(q, matches, k).valid
  /\ ~r.valid => \A k \in lo .. lo + n - 1 : ~Candidate(q, matches, k).valid

\* The tree is high enough for every candidate.
LEMMA HeightIs == Height \in Nat /\ 2^Height >= Depth
<1> DEFINE T == {h \in Nat : 2^h >= Depth}
<1>1. Depth \in Nat /\ Depth \in T
  BY PowerAbove, PowerPositive
<1>2. T \in SUBSET Nat /\ T # {}
  BY <1>1
<1>3. PICK h \in T : \A k \in 0 .. h - 1 : k \notin T
  <2> HIDE DEF T
  <2> QED BY <1>2, LeastNumber
<1>4. h \in 0 .. Depth
  <2>1. ~(Depth \in 0 .. h - 1)
    BY <1>1, <1>3
  <2> QED BY <1>1, <1>3, <2>1
<1>5. \A k \in 0 .. h - 1 : 2^k < Depth
  <2> SUFFICES ASSUME NEW k \in 0 .. h - 1 PROVE 2^k < Depth
    OBVIOUS
  <2>1. k \in Nat /\ ~(2^k >= Depth)
    BY <1>3, <1>4
  <2>2. 2^k \in Nat
    BY <2>1, PowerPositive
  <2> QED BY <1>1, <2>1, <2>2
<1>6. \E g \in 0 .. Depth : 2^g >= Depth /\ \A k \in 0 .. g - 1 : 2^k < Depth
  BY <1>3, <1>4, <1>5
<1>7. Height \in 0 .. Depth /\ 2^Height >= Depth
  BY <1>6, Zenon DEF Height
<1> QED BY <1>1, <1>7

\* A pair of the tree keeps the first of its two halves.
LEMMA Joins ==
  ASSUME NEW q, NEW matches, NEW lo \in Nat, NEW n \in Nat, NEW a, NEW b,
         FirstOf(a, q, matches, lo, n), FirstOf(b, q, matches, lo + n, n)
  PROVE  FirstOf(IF a.valid THEN a ELSE b, q, matches, lo, 2 * n)
<1>1. CASE a.valid
  <2>1. PICK j \in lo .. lo + n - 1 :
          a = Candidate(q, matches, j) /\ \A k \in lo .. j - 1 : ~Candidate(q, matches, k).valid
    BY <1>1 DEF FirstOf
  <2>2. j \in lo .. lo + 2 * n - 1
    OBVIOUS
  <2> QED BY <1>1, <2>1, <2>2 DEF FirstOf
<1>2. CASE ~a.valid
  <2>1. \A k \in lo .. lo + n - 1 : ~Candidate(q, matches, k).valid
    BY <1>2 DEF FirstOf
  <2>2. CASE b.valid
    <3>1. PICK j \in lo + n .. lo + n + n - 1 :
            /\ b = Candidate(q, matches, j)
            /\ \A k \in lo + n .. j - 1 : ~Candidate(q, matches, k).valid
      BY <2>2 DEF FirstOf
    <3>2. j \in lo .. lo + 2 * n - 1
      OBVIOUS
    <3>3. \A k \in lo .. j - 1 : ~Candidate(q, matches, k).valid
      <4> SUFFICES ASSUME NEW k \in lo .. j - 1 PROVE ~Candidate(q, matches, k).valid
        OBVIOUS
      <4>1. k \in lo .. lo + n - 1 \/ k \in lo + n .. j - 1
        OBVIOUS
      <4> QED BY <2>1, <3>1, <4>1
    <3> QED BY <1>2, <2>2, <3>1, <3>2, <3>3 DEF FirstOf
  <2>3. CASE ~b.valid
    <3>1. \A k \in lo + n .. lo + n + n - 1 : ~Candidate(q, matches, k).valid
      BY <2>3 DEF FirstOf
    <3>2. \A k \in lo .. lo + 2 * n - 1 : ~Candidate(q, matches, k).valid
      <4> SUFFICES ASSUME NEW k \in lo .. lo + 2 * n - 1 PROVE ~Candidate(q, matches, k).valid
        OBVIOUS
      <4>1. k \in lo .. lo + n - 1 \/ k \in lo + n .. lo + n + n - 1
        OBVIOUS
      <4> QED BY <2>1, <3>1, <4>1
    <3> QED BY <1>2, <2>3, <3>2 DEF FirstOf
  <2> QED BY <2>2, <2>3
<1> QED BY <1>1, <1>2

\* The layer h of the tree: one entry for every 2^h candidates.
LayerType(q, matches, h) ==
  {f \in [0 .. 2^(Height - h) - 1 -> {Candidate(q, matches, i) : i \in 0 .. 2^Height - 1}] :
     \A i \in 0 .. 2^(Height - h) - 1 : FirstOf(f[i], q, matches, i * 2^h, 2^h)}

NextLayer(below, n) ==
  [i \in 0 .. n - 1 |-> IF below[2 * i].valid THEN below[2 * i] ELSE below[2 * i + 1]]

LEMMA LowestLayer ==
  ASSUME NEW q, NEW matches
  PROVE  [i \in 0 .. 2^Height - 1 |-> Candidate(q, matches, i)] \in LayerType(q, matches, 0)
<1> DEFINE f == [i \in 0 .. 2^Height - 1 |-> Candidate(q, matches, i)]
<1>1. Height - 0 = Height /\ 2^0 = 1
  BY HeightIs, PowerOfZero
<1>2. \A i \in 0 .. 2^Height - 1 : FirstOf(f[i], q, matches, i * 1, 1)
  <2> SUFFICES ASSUME NEW i \in 0 .. 2^Height - 1 PROVE FirstOf(f[i], q, matches, i * 1, 1)
    OBVIOUS
  <2>1. i \in Nat /\ i * 1 = i /\ f[i] = Candidate(q, matches, i)
    BY HeightIs, PowerPositive
  <2>2. i .. i + 1 - 1 = {i} /\ i .. i - 1 = {}
    BY <2>1
  <2> HIDE DEF f
  <2> QED BY <2>1, <2>2 DEF FirstOf
<1> QED BY <1>1, <1>2 DEF LayerType

LEMMA LayerStep ==
  ASSUME NEW q, NEW matches, NEW h \in 1 .. Height, NEW below \in LayerType(q, matches, h - 1)
  PROVE  NextLayer(below, 2^(Height - h)) \in LayerType(q, matches, h)
<1>1. PICK n, p : n = 2^(Height - h) /\ p = 2^(h - 1)
  OBVIOUS
<1>2. h \in Nat /\ Height - h \in Nat /\ h - 1 \in Nat /\ (h - 1) + 1 = h
      /\ (Height - h) + 1 = Height - (h - 1)
  BY HeightIs
<1>3. n \in Nat /\ n > 0 /\ p \in Nat /\ p > 0
  BY <1>1, <1>2, PowerPositive
<1>4. 2^h = 2 * p /\ 2^(Height - (h - 1)) = 2 * n
  BY <1>1, <1>2, PowerStep
<1>5. PICK C : C = {Candidate(q, matches, i) : i \in 0 .. 2^Height - 1}
  OBVIOUS
<1>6. /\ below \in [0 .. 2 * n - 1 -> C]
      /\ \A i \in 0 .. 2 * n - 1 : FirstOf(below[i], q, matches, i * p, p)
  BY <1>1, <1>4, <1>5 DEF LayerType
<1>7. ASSUME NEW i \in 0 .. n - 1
      PROVE  /\ NextLayer(below, n)[i] \in C
             /\ FirstOf(NextLayer(below, n)[i], q, matches, i * (2 * p), 2 * p)
  <2>1. 2 * i \in 0 .. 2 * n - 1 /\ 2 * i + 1 \in 0 .. 2 * n - 1
    BY <1>3
  <2>2. PICK m : m = i * p
    OBVIOUS
  <2>3. m \in Nat
    BY <1>3, <2>2
  <2>4. (2 * i) * p = 2 * m /\ (2 * i + 1) * p = 2 * m + p /\ i * (2 * p) = 2 * m
    BY <1>3, <2>2
  <2>5. FirstOf(below[2 * i], q, matches, 2 * m, p)
    BY <1>6, <2>1, <2>4
  <2>6. FirstOf(below[2 * i + 1], q, matches, 2 * m + p, p)
    BY <1>6, <2>1, <2>4
  <2>7. 2 * m \in Nat
    BY <2>3
  <2>8. FirstOf(IF below[2 * i].valid THEN below[2 * i] ELSE below[2 * i + 1], q, matches,
                2 * m, 2 * p)
    BY <1>3, <2>5, <2>6, <2>7, Joins
  <2>9. NextLayer(below, n)[i] = IF below[2 * i].valid THEN below[2 * i] ELSE below[2 * i + 1]
    BY DEF NextLayer
  <2>10. NextLayer(below, n)[i] \in C
    BY <1>6, <2>1, <2>9
  <2> QED BY <2>4, <2>8, <2>9, <2>10
<1>8. NextLayer(below, n) \in [0 .. n - 1 -> C]
  BY <1>7 DEF NextLayer
<1> QED BY <1>1, <1>4, <1>5, <1>7, <1>8 DEF LayerType

\* The root of the tree is the first of all candidates.
LEMMA ChooseIs ==
  ASSUME NEW q, NEW matches
  PROVE  FirstOf(Choose(q, matches), q, matches, 0, 2^Height)
<1> DEFINE a == [i \in 0 .. 2^Height - 1 |-> Candidate(q, matches, i)]
           V == [h \in 0 .. Height |-> LayerType(q, matches, h)]
           U == UNION {LayerType(q, matches, h) : h \in 0 .. Height}
           step == [h \in 1 .. Height |-> [v \in V[h - 1] |-> NextLayer(v, 2^(Height - h))]]
           Layers(f) == [h \in 0 .. Height |->
                           IF h = 0 THEN a ELSE NextLayer(f[h - 1], 2^(Height - h))]
<1>1. Height \in Nat
  BY HeightIs
<1>2. a \in V[0]
  BY <1>1, LowestLayer
<1>3. \A h \in 1 .. Height : h \in 0 .. Height /\ h - 1 \in 0 .. Height
  BY <1>1
<1>4. ASSUME NEW h \in 1 .. Height, NEW v \in V[h - 1]
      PROVE  NextLayer(v, 2^(Height - h)) \in V[h]
  BY <1>3, LayerStep
<1>5. \A h \in 1 .. Height : \A v \in V[h - 1] :
        step[h][v] = NextLayer(v, 2^(Height - h)) /\ step[h][v] \in V[h]
  <2> HIDE DEF V
  <2> QED BY <1>4
<1>u. V \in [0 .. Height -> SUBSET U]
  OBVIOUS
<1> HIDE DEF a, U, V, step
<1>6. PICK f \in [0 .. Height -> U] :
        /\ f[0] = a
        /\ \A h \in 0 .. Height : f[h] \in V[h]
        /\ \A h \in 1 .. Height : f[h] = step[h][f[h - 1]]
  <2>1. StepsOn(Height, U, V, a, step)
    BY <1>2, <1>5, <1>u DEF StepsOn
  <2>2. PICK f : IsRecursive(f, Height, U, V, a, step)
    BY <1>1, <2>1, RecursiveFunction
  <2> QED BY <2>2 DEF IsRecursive
<1>7. f = Layers(f)
  <2>1. ASSUME NEW h \in 0 .. Height
        PROVE  f[h] = IF h = 0 THEN a ELSE NextLayer(f[h - 1], 2^(Height - h))
    <3>1. CASE h = 0
      BY <1>6, <3>1
    <3>2. CASE h # 0
      <4>1. h \in 1 .. Height /\ h - 1 \in 0 .. Height
        BY <1>1, <3>2
      <4> QED BY <1>5, <1>6, <3>2, <4>1
    <3> QED BY <3>1, <3>2
  <2>2. f = [h \in 0 .. Height |-> f[h]]
    OBVIOUS
  <2> QED BY <2>1, <2>2
<1>8. PICK g : g = Layers(g) /\ g = CHOOSE layer : layer = Layers(layer)
  <2> HIDE DEF Layers
  <2> QED BY <1>7
<1>9. Choose(q, matches) = g[Height][0]
  BY <1>8 DEF Choose, NextLayer, a
<1>10. g[0] \in V[0] /\ \A h \in 1 .. Height : g[h] = NextLayer(g[h - 1], 2^(Height - h))
  <2>1. g[0] = a
    BY <1>1, <1>8
  <2>2. ASSUME NEW h \in 1 .. Height PROVE g[h] = NextLayer(g[h - 1], 2^(Height - h))
    <3>1. h \in 0 .. Height /\ h # 0
      BY <1>1
    <3> QED BY <1>8, <3>1
  <2> QED BY <1>2, <2>1, <2>2
<1>11. \A h \in 1 .. Height : g[h - 1] \in V[h - 1] => g[h] \in V[h]
  BY <1>5, <1>10
<1>12. \A h \in 0 .. Height : g[h] \in V[h]
  <2> HIDE DEF Layers
  <2> QED BY <1>1, <1>10, <1>11, RecursiveValues
<1>13. g[Height] \in LayerType(q, matches, Height)
  <2>1. Height \in 0 .. Height
    BY <1>1
  <2> QED BY <1>12, <2>1 DEF V
<1>14. 0 \in 0 .. 2^(Height - Height) - 1 /\ 0 * 2^Height = 0
  <2>1. Height - Height = 0
    BY <1>1
  <2>2. PICK p \in Nat : p = 2^Height
    BY <1>1, PowerPositive
  <2>3. 2^(Height - Height) = 1
    BY <2>1, PowerOfZero
  <2> QED BY <2>2, <2>3
<1>15. FirstOf(g[Height][0], q, matches, 0 * 2^Height, 2^Height)
  BY <1>13, <1>14 DEF LayerType
<1> QED BY <1>9, <1>14, <1>15

\* The tree of choose returns the oldest entry that matches, whatever the depth.
THEOREM ChooseOldest == Spec => []ChooseIsOldestMatch
<1>1. ASSUME TypeOK PROVE ChooseIsOldestMatch
  <2> SUFFICES ASSUME NEW matches \in [Data -> BOOLEAN]
               PROVE  LET contents == Contents(queue)
                          hits     == {i \in DOMAIN contents : matches[contents[i]]}
                          chosen   == Choose(queue, matches)
                      IN  /\ chosen.valid <=> hits # {}
                          /\ chosen.valid => /\ chosen.distance + 1 \in hits
                                             /\ \A i \in hits : chosen.distance + 1 <= i
                                             /\ chosen.index = Advance(queue.head, chosen.distance)
    BY DEF ChooseIsOldestMatch
  <2>1. PICK hits, chosen :
          /\ hits = {i \in DOMAIN Contents(queue) : matches[Contents(queue)[i]]}
          /\ chosen = Choose(queue, matches)
    OBVIOUS
  <2>2. queue.count \in 0 .. Depth /\ 2^Height \in Nat /\ 2^Height >= Depth
    BY <1>1, HeightIs, PowerPositive DEF TypeOK, Queues
  <2>3. \A i : i \in hits <=>
          i \in 1 .. queue.count /\ matches[queue.slots[Advance(queue.head, i - 1)]]
    BY <2>1 DEF Contents
  <2>4. \A j \in 0 .. 2^Height - 1 : Candidate(queue, matches, j).valid <=> j + 1 \in hits
    <3> SUFFICES ASSUME NEW j \in 0 .. 2^Height - 1
                 PROVE  Candidate(queue, matches, j).valid <=> j + 1 \in hits
      OBVIOUS
    <3>1. j \in Nat /\ (j + 1) - 1 = j
      BY <2>2
    <3>2. CASE j < queue.count
      <4>1. j < Depth /\ j + 1 \in 1 .. queue.count
        BY <2>2, <3>1, <3>2
      <4> QED BY <2>3, <3>1, <3>2, <4>1 DEF Candidate
    <3>3. CASE ~(j < queue.count)
      <4>1. ~(j + 1 \in 1 .. queue.count)
        BY <2>2, <3>1, <3>3
      <4> QED BY <2>3, <3>3, <4>1 DEF Candidate
    <3> QED BY <3>2, <3>3
  <2>5. \A i \in hits : i - 1 \in 0 .. 2^Height - 1 /\ (i - 1) + 1 = i /\ i \in Nat
    BY <2>2, <2>3
  <2>6. FirstOf(chosen, queue, matches, 0, 2^Height)
    BY <2>1, ChooseIs
  <2>7. CASE chosen.valid
    <3>1. PICK j \in 0 .. 0 + 2^Height - 1 :
            /\ chosen = Candidate(queue, matches, j)
            /\ \A k \in 0 .. j - 1 : ~Candidate(queue, matches, k).valid
      BY <2>6, <2>7 DEF FirstOf
    <3>2. j \in 0 .. 2^Height - 1 /\ j \in Nat
      BY <2>2
    <3>3. j + 1 \in hits
      BY <2>4, <2>7, <3>1, <3>2
    <3>4. j < Depth
      BY <2>2, <2>3, <3>2, <3>3
    <3>5. chosen.distance = j /\ chosen.index = Advance(queue.head, j)
      BY <3>1, <3>4 DEF Candidate
    <3>6. \A i \in hits : j + 1 <= i
      <4> SUFFICES ASSUME NEW i \in hits, ~(j + 1 <= i) PROVE FALSE
        OBVIOUS
      <4>1. i - 1 \in 0 .. j - 1 /\ i - 1 \in 0 .. 2^Height - 1 /\ (i - 1) + 1 = i
        BY <2>5, <3>2
      <4> QED BY <2>4, <3>1, <4>1
    <3> QED BY <2>1, <2>7, <3>3, <3>5, <3>6
  <2>8. CASE ~chosen.valid
    <3>1. \A k \in 0 .. 0 + 2^Height - 1 : ~Candidate(queue, matches, k).valid
      BY <2>6, <2>8 DEF FirstOf
    <3>2. \A k \in 0 .. 2^Height - 1 : ~Candidate(queue, matches, k).valid
      BY <2>2, <3>1
    <3>3. hits = {}
      BY <2>4, <2>5, <3>2
    <3> QED BY <2>1, <2>8, <3>3
  <2> QED BY <2>7, <2>8
<1> QED BY <1>1, TypeCorrect, PTL
=============================================================================
