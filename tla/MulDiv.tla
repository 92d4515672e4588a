------------------------------- MODULE MulDiv -------------------------------
(***************************************************************************)
(* The ALU side of the back end: in-order commit, the scheduler's choice   *)
(* from the ALU queue, the single-cycle ALU, the three-stage multiplier    *)
(* and the iterative divider with its busy flag (modules/alu.py,           *)
(* downstreams/scheduler_down.py).  One step is one clock cycle; a unit    *)
(* runs in the cycle after it is called.                                   *)
(*                                                                         *)
(* Only instructions that go through the ALU queue are in the stream, so   *)
(* the ALU queue and the active list hold the same entries and are one     *)
(* sequence here.  Data are dropped; every operation in a unit carries the *)
(* entry it belongs to instead: its slot, which is all the hardware knows, *)
(* and `epoch', a history variable that a flush changes, which tells the   *)
(* entries of different flushes apart.                                     *)
(***************************************************************************)
EXTENDS Naturals, Sequences, FiniteSets, SequencesExt

CONSTANTS
  Ops,              \* the kinds of instructions in the stream
  Depth,            \* entries of the active list
  MaxSteps          \* the longest division, in divider iterations (32 in the code)

ASSUME OpsAssumption == Ops \subseteq {"alu", "mul", "div", "branch"}
ASSUME DepthAssumption == Depth \in Nat \ {0}
ASSUME MaxStepsAssumption == MaxSteps \in Nat

VARIABLES
  window,           \* ActiveList.queue and ALUQueue.queue, oldest entry first
  head,             \* the slot of the oldest entry
  speculating,      \* SpeculationState.speculating
  flush,            \* Commit.flush: the previous cycle recovered from a misprediction
  divBusy,          \* Multiply_ALU.div_busy
  alu,              \* the entries the units were called with in the previous cycle:
  mulAlu,           \* ALU, Multiply_ALU,
  reduce,           \* MultiplyReduceLevel,
  sum,              \* MultiplySumLevel
  divider,          \* Divider: its ports, registers and pending calls
  epoch             \* history: parity of the flushes

vars == <<window, head, speculating, flush, divBusy, alu, mulAlu, reduce, sum, divider, epoch>>

Slots == 0 .. Depth - 1
Entry == [op : Ops, dependent : BOOLEAN, issued : BOOLEAN, ready : BOOLEAN, mispredicted : BOOLEAN]
Work == [op : Ops, slot : Slots, epoch : BOOLEAN]

SlotOf(i) == (head + i - 1) % Depth
WorkOf(i) == [op |-> window[i].op, slot |-> SlotOf(i), epoch |-> epoch]

-----------------------------------------------------------------------------
(* Commit. *)

Retires == window # <<>> /\ window[1].ready
FlushRecover == Retires /\ window[1].op = "branch" /\ window[1].mispredicted

-----------------------------------------------------------------------------
(* The scheduler: the oldest entry that waits for nothing and is not issued, *)
(* and only that one, is offered to its unit.                                *)

\* A dependent entry reads the result of the one before it.
OperandsReady(i) == window[i].dependent /\ i > 1 => window[i - 1].ready

\* Mutant: an issued entry is a candidate until it is ready.
CandidatesReissued == {i \in DOMAIN window : ~window[i].ready /\ OperandsReady(i)}

Candidates == {i \in DOMAIN window : ~window[i].issued /\ OperandsReady(i)}
Selected == {i \in Candidates : \A j \in Candidates : i <= j}

\* Mutants: the scheduler issues in the cycle of a flush; it ignores the busy flag.
IssuesInFlush(i) == i \in Selected /\ (window[i].op = "div" => ~divBusy)
IssuesToBusyDivider(i) == i \in Selected /\ ~FlushRecover

Issues(i) == i \in Selected /\ ~FlushRecover /\ (window[i].op = "div" => ~divBusy)

Issued == {i \in DOMAIN window : Issues(i)}
IssuedTo(ops) == {WorkOf(i) : i \in {j \in Issued : window[j].op \in ops}}

-----------------------------------------------------------------------------
(* The units.  Each is called with at most one entry per cycle. *)

\* MultiplyReduceLevel calls MultiplySumLevel unless the cycle follows a flush.
CallsSum == IF flush THEN {} ELSE reduce

\* Multiply_ALU calls the multiplier or the divider, or answers a division by zero or an
\* overflow at once (`quick').
CallsReduce == IF flush THEN {} ELSE {w \in mulAlu : w.op = "mul"}
CallsDivider(quick) == IF flush \/ quick THEN {} ELSE {w \in mulAlu : w.op = "div"}
Quick(quick) == IF flush \/ ~quick THEN {} ELSE {w \in mulAlu : w.op = "div"}

Running == divider.calls > 0
Loads == Running /\ ~flush /\ divider.operands # {}
Iterates == Running /\ ~flush /\ divider.operands = {} /\ divider.left > 0
Finishes == Running /\ ~flush /\ divider.operands = {} /\ divider.left = 0

\* In finish() the divider takes the instruction at the front of its port; the result is
\* that of the operands it loaded last.
FinishedDivision == IF Finishes /\ divider.instrs # <<>> THEN {Head(divider.instrs)} ELSE {}

\* The ports as the divider leaves them, before this cycle's call is added.
InstrsLeft ==
  IF (Finishes \/ (Running /\ flush)) /\ divider.instrs # <<>>
    THEN Tail(divider.instrs) ELSE divider.instrs

DividerBuild(quick, steps) ==
  LET called == CallsDivider(quick)
  IN  divider' =
        [instrs   |-> InstrsLeft \o SetToSeq(called),
         operands |-> IF Running THEN called ELSE divider.operands \cup called,
         loaded   |-> IF Loads THEN divider.operands ELSE divider.loaded,
         left     |-> IF Loads THEN steps
                      ELSE IF Iterates THEN divider.left - 1 ELSE divider.left,
         calls    |-> (IF Running THEN divider.calls - 1 ELSE 0)
                        + (IF Loads \/ Iterates THEN 1 ELSE 0)
                        + (IF called # {} THEN 1 ELSE 0)]

\* Mutant: the divider keeps the flag when it finishes.
BusyUntilNextIssue(quick) ==
  {window[i].op = "div" : i \in {j \in Issued : window[j].op \in {"mul", "div"}}}

\* The values written to div_busy: by an issue to Multiply_ALU, by a finished division, and
\* by Multiply_ALU when it runs in the cycle after a flush.
BusyWrites(quick) ==
  {window[i].op = "div" : i \in {j \in Issued : window[j].op \in {"mul", "div"}}}
    \cup {FALSE : w \in FinishedDivision \cup Quick(quick)}
    \cup {FALSE : w \in {v \in mulAlu : flush}}

\* Entries whose result is delivered to the active list in this cycle: set_ready.
Delivered(quick) ==
  alu \cup (IF flush THEN {} ELSE sum) \cup FinishedDivision \cup Quick(quick)

-----------------------------------------------------------------------------
\* Mutant: the decoder ignores a full active list.
DecodesWhenFull(op) == op = "branch" => ~speculating

Decodable(op) == Len(window) < Depth /\ (op = "branch" => ~speculating)

\* Mutant: an entry's slot is taken for its distance from the head.
UpdatedByDistance(i, quick, wrong) ==
  [window[i] EXCEPT
     !.issued = @ \/ Issues(i),
     !.ready  = @ \/ \E w \in Delivered(quick) : w.slot = i - 1]

\* The entry of a slot after set_ready and mark_issued.
Updated(i, quick, wrong) ==
  [window[i] EXCEPT
     !.issued = @ \/ Issues(i),
     !.ready  = @ \/ \E w \in Delivered(quick) : w.slot = SlotOf(i),
     !.mispredicted = @ \/ (window[i].op = "branch" /\ wrong
                              /\ \E w \in Delivered(quick) : w.slot = SlotOf(i))]

NewEntry(op, dependent) ==
  [op |-> op, dependent |-> dependent, issued |-> FALSE, ready |-> FALSE, mispredicted |-> FALSE]

\* The entries pushed: none, or one the decoder may push.
Pushes == {<<>>} \cup {<<NewEntry(op, dependent)>> : op \in {o \in Ops : Decodable(o)}, dependent \in BOOLEAN}

WindowBuild(push, quick, wrong) ==
  LET updated == [i \in DOMAIN window |-> Updated(i, quick, wrong)]
  IN  /\ window' = IF FlushRecover THEN <<>>
                   ELSE (IF Retires THEN Tail(updated) ELSE updated) \o push
      /\ head' = IF FlushRecover THEN 0 ELSE IF Retires THEN (head + 1) % Depth ELSE head

Cycle(push, quick, wrong, steps) ==
  /\ WindowBuild(push, quick, wrong)
  /\ speculating' = ((speculating \/ (push # <<>> /\ push[1].op = "branch"))
                       /\ ~(Retires /\ window[1].op = "branch"))
  /\ flush' = FlushRecover
  /\ epoch' = (epoch # FlushRecover)
  /\ alu' = IssuedTo({"alu", "branch"})
  /\ mulAlu' = IssuedTo({"mul", "div"})
  /\ reduce' = CallsReduce
  /\ sum' = CallsSum
  /\ DividerBuild(quick, steps)
  /\ divBusy' \in IF BusyWrites(quick) = {} THEN {divBusy} ELSE BusyWrites(quick)

Init ==
  /\ window = <<>> /\ head = 0
  /\ speculating = FALSE /\ flush = FALSE /\ divBusy = FALSE /\ epoch = FALSE
  /\ alu = {} /\ mulAlu = {} /\ reduce = {} /\ sum = {}
  /\ divider = [instrs |-> <<>>, operands |-> {}, loaded |-> {}, left |-> 0, calls |-> 0]

Next ==
  \E push \in Pushes, quick, wrong \in BOOLEAN, steps \in 0 .. MaxSteps :
    Cycle(push, quick, wrong, steps)

\* The clock never stops.
Spec == Init /\ [][Next]_vars /\ WF_vars(Next)

-----------------------------------------------------------------------------
(* Properties. *)

TypeOK ==
  /\ window \in Seq(Entry) /\ Len(window) <= Depth
  /\ head \in Slots
  /\ {speculating, flush, divBusy, epoch} \subseteq BOOLEAN
  /\ \A unit \in {alu, mulAlu, reduce, sum, divider.operands, divider.loaded} :
       unit \subseteq Work /\ Cardinality(unit) <= 1
  /\ divider.instrs \in Seq(Work)
  /\ divider.left \in 0 .. MaxSteps /\ divider.calls \in Nat

Executing == {i \in DOMAIN window : window[i].issued /\ ~window[i].ready}

\* Every result is delivered to the entry it was computed for, while that entry still waits
\* for it: a unit knows only a slot number, and a flush refills the slots from 0 while the
\* multiplier and the divider still hold work issued before it.
ResultsReachTheirEntries ==
  \A quick \in BOOLEAN : \A w \in Delivered(quick) :
    \E i \in Executing : WorkOf(i) = w

Holders(w) ==
  Cardinality({k \in 1 .. 4 : w \in <<alu, mulAlu, reduce, sum>>[k]})
    + Cardinality({k \in DOMAIN divider.instrs : divider.instrs[k] = w})

\* An issued, unfinished instruction is in exactly one unit: none is dropped on its way
\* through the multiplier or the divider, and none is executed twice.
IssuedIsInOneUnit == \A i \in Executing : Holders(WorkOf(i)) = 1

\* A division answers with the quotient of its own operands.
DivisionsKeepTheirOperands ==
  Finishes => \A w \in FinishedDivision : divider.loaded = {w}

\* The busy flag is set exactly while a division is under way.
BusyTracksDivision == divBusy <=> \E i \in Executing : window[i].op = "div"

\* Whatever is in flight, an instruction retires again and again until nothing is in flight.
Progress == []<>(window = <<>> \/ Retires)
=============================================================================
