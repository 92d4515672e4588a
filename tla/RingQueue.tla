----------------------------- MODULE RingQueue -----------------------------
(***************************************************************************)
(* The storage and the cycle function of dataclass/circular_queue.py, the  *)
(* "single-push, single-pop, multi-modify" queue on which the active list, *)
(* the ALU queue, the load/store queue and the free list are built.  A     *)
(* queue is a record of its four registers; pointers wrap by comparison    *)
(* with the last index, as _increment_pointer does, never by a modulus.    *)
(*                                                                         *)
(* Operators only: CircularQueue is the class as a state machine, and      *)
(* Renaming uses these operators for the free list.                        *)
(***************************************************************************)
EXTENDS Naturals

CONSTANT Depth
ASSUME DepthAssumption == Depth \in Nat \ {0}

Slots == 0 .. Depth - 1

Queues(Data) == [slots : [Slots -> Data], head : Slots, tail : Slots, count : 0 .. Depth]

\* Mutant: the pointer does not wrap.
IncrementPastEnd(p) == p + 1

\* _increment_pointer
Increment(p) == IF p = Depth - 1 THEN 0 ELSE p + 1

\* The slot i places behind p, for i \in Slots.
Advance(p, i) == IF p + i < Depth THEN p + i ELSE p + i - Depth

\* How many increments lead from slot a to slot b.
Distance(a, b) == IF b >= a THEN b - a ELSE b + Depth - a

IsFull(q)  == q.count = Depth
IsEmpty(q) == q.count = 0
Front(q)   == q.slots[q.head]

\* The entries from the oldest to the youngest.
Contents(q) == [i \in 1 .. q.count |-> q.slots[Advance(q.head, i - 1)]]

\* The two assume() calls of operate: what every caller owes the queue.
Permitted(q, push, pop) == ~(pop /\ IsEmpty(q)) /\ ~(push /\ IsFull(q))

\* Mutants: clear resets only the count; a push counts even when an entry leaves with it.
OperateClearsCount(q, push, data, pop, clear) ==
  [slots |-> IF push /\ ~clear THEN [q.slots EXCEPT ![q.tail] = data] ELSE q.slots,
   head  |-> IF pop  THEN Increment(q.head) ELSE q.head,
   tail  |-> IF push THEN Increment(q.tail) ELSE q.tail,
   count |-> IF clear THEN 0
             ELSE IF push /\ ~pop THEN q.count + 1
             ELSE IF pop /\ ~push THEN q.count - 1
             ELSE q.count]
OperateCountsPush(q, push, data, pop, clear) ==
  [slots |-> IF push /\ ~clear THEN [q.slots EXCEPT ![q.tail] = data] ELSE q.slots,
   head  |-> IF clear THEN 0 ELSE IF pop  THEN Increment(q.head) ELSE q.head,
   tail  |-> IF clear THEN 0 ELSE IF push THEN Increment(q.tail) ELSE q.tail,
   count |-> IF clear THEN 0
             ELSE IF push /\ q.count < Depth THEN q.count + 1
             ELSE IF pop THEN q.count - 1
             ELSE q.count]

\* One cycle of operate.  All registers are read before any is written.
Operate(q, push, data, pop, clear) ==
  [slots |-> IF push /\ ~clear THEN [q.slots EXCEPT ![q.tail] = data] ELSE q.slots,
   head  |-> IF clear THEN 0 ELSE IF pop  THEN Increment(q.head) ELSE q.head,
   tail  |-> IF clear THEN 0 ELSE IF push THEN Increment(q.tail) ELSE q.tail,
   count |-> IF clear THEN 0
             ELSE IF push /\ ~pop THEN q.count + 1
             ELSE IF pop /\ ~push THEN q.count - 1
             ELSE q.count]

-----------------------------------------------------------------------------
(***************************************************************************)
(* choose: one candidate per offset from the head, padded to a power of    *)
(* two, then reduced pairwise in layers; of two candidates the left one is *)
(* kept when it is valid.                                                  *)
(***************************************************************************)
\* Mutant: slots behind the tail are candidates too.
CandidateUnqueued(q, matches, i) ==
  IF i < Depth
    THEN [index |-> Advance(q.head, i), distance |-> i,
          valid |-> matches[q.slots[Advance(q.head, i)]]]
    ELSE [index |-> 0, distance |-> 0, valid |-> FALSE]

Candidate(q, matches, i) ==
  IF i < Depth
    THEN [index |-> Advance(q.head, i), distance |-> i,
          valid |-> i < q.count /\ matches[q.slots[Advance(q.head, i)]]]
    ELSE [index |-> 0, distance |-> 0, valid |-> FALSE]

Height == CHOOSE h \in 0 .. Depth : 2^h >= Depth /\ \A k \in 0 .. h - 1 : 2^k < Depth

Choose(q, matches) ==
  LET layer[h \in 0 .. Height] ==
        IF h = 0 THEN [i \in 0 .. 2^Height - 1 |-> Candidate(q, matches, i)]
        ELSE LET below == layer[h - 1]
             IN  [i \in 0 .. 2^(Height - h) - 1 |->
                    IF below[2 * i].valid THEN below[2 * i] ELSE below[2 * i + 1]]
  IN  layer[Height][0]
=============================================================================
