--------------------------- MODULE CircularQueue ---------------------------
(***************************************************************************)
(* dataclass/circular_queue.py as a state machine.  One step is one clock  *)
(* cycle: operate is driven with any push / pop / clear its assume() calls *)
(* permit, while a caller may store to the slot of a queued entry through  *)
(* __setitem__ (ActiveList.set_ready, ALUQueue and LSQ mark_issued).       *)
(***************************************************************************)
EXTENDS RingQueue, Sequences

CONSTANTS Data, DefaultCount
ASSUME DataAssumption == Data # {}
ASSUME DefaultCountAssumption == DefaultCount \in 0 .. Depth

VARIABLE queue

Init ==
  \E initializer \in [Slots -> Data] :
    queue = [slots |-> initializer, head |-> 0,
             tail  |-> IF DefaultCount = Depth THEN 0 ELSE DefaultCount,
             count |-> DefaultCount]

\* __setitem__ at the slot of the queued entry that is `offset' places behind the head.
Store(q, offset, data) == [q EXCEPT !.slots[Advance(q.head, offset)] = data]

Operation(q, push, data, pop, clear) ==
  /\ Permitted(queue, push, pop)
  /\ queue' = Operate(q, push, data, pop, clear)

Next ==
  \E push, pop, clear \in BOOLEAN, data \in Data :
    \/ Operation(queue, push, data, pop, clear)
    \/ \E offset \in 0 .. queue.count - 1, new \in Data :
         Operation(Store(queue, offset, new), push, data, pop, clear)

Spec == Init /\ [][Next]_queue

-----------------------------------------------------------------------------
(***************************************************************************)
(* Type correctness, with the one relation between the registers that the  *)
(* class keeps redundantly: count is the distance from head to tail.       *)
(***************************************************************************)
TypeOK == queue \in Queues(Data)

\* Head, tail and count never disagree: the tail is the slot `count' places behind the
\* head, whether the queue is empty, full or wrapped (circular_queue.py keeps all three).
CountIsDistance ==
  queue.tail = IF queue.count = Depth THEN queue.head ELSE Advance(queue.head, queue.count)

\* The reduction tree of choose returns the oldest matching entry, its slot and its
\* distance, and is valid exactly when some queued entry matches: the scheduler relies on
\* it to pick the oldest ready instruction (scheduler.py, lsq.py).
ChooseIsOldestMatch ==
  \A matches \in [Data -> BOOLEAN] :
    LET contents == Contents(queue)
        hits     == {i \in DOMAIN contents : matches[contents[i]]}
        chosen   == Choose(queue, matches)
    IN  /\ chosen.valid <=> hits # {}
        /\ chosen.valid => /\ chosen.distance + 1 \in hits
                           /\ \A i \in hits : chosen.distance + 1 <= i
                           /\ chosen.index = Advance(queue.head, chosen.distance)

\* The ring of slots behaves as a bounded FIFO: wrapping, simultaneous push and pop,
\* clear, and stores to queued slots never lose, duplicate or reorder an entry.
Fifo == INSTANCE BoundedFifo WITH contents <- Contents(queue)
IsBoundedFifo == Fifo!Spec
=============================================================================
