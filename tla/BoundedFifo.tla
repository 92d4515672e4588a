---------------------------- MODULE BoundedFifo ----------------------------
(***************************************************************************)
(* What dataclass/circular_queue.py promises its users: a sequence of at   *)
(* most Depth entries.  In one cycle the holder of an entry's index may    *)
(* rewrite it in place, the oldest entry may leave, one may enter behind   *)
(* the youngest, or all may be dropped.                                    *)
(***************************************************************************)
EXTENDS Naturals, Sequences

CONSTANTS Data, Depth, DefaultCount
VARIABLE contents

Init == contents \in [1 .. DefaultCount -> Data]

Cycle(rewritten, push, data, pop, clear) ==
  /\ pop => contents # <<>>
  /\ push => Len(contents) < Depth
  /\ LET kept == IF pop THEN Tail(rewritten) ELSE rewritten
     IN  contents' = IF clear THEN <<>> ELSE IF push THEN Append(kept, data) ELSE kept

Next ==
  \E push, pop, clear \in BOOLEAN, data \in Data :
    \/ Cycle(contents, push, data, pop, clear)
    \/ \E i \in DOMAIN contents, new \in Data :
         Cycle([contents EXCEPT ![i] = new], push, data, pop, clear)

Spec == Init /\ [][Next]_contents
=============================================================================
