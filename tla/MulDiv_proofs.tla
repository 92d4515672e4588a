---------------------------- MODULE MulDiv_proofs ----------------------------
(***************************************************************************)
(* MulDiv is type correct and its units deliver every result to its entry, *)
(* with divisions kept apart from branches and multiplications (Apart), as *)
(* the run has them: without it the busy flag goes wrong (divide_flush,    *)
(* divide_multiply).                                                       *)
(***************************************************************************)
EXTENDS MCMulDiv, FiniteSetTheorems, SequenceTheorems, TLAPS

-----------------------------------------------------------------------------
(* The invariant. *)

Single(S) == \A v, w \in S : v = w
OfKind(S, ops) == S \subseteq {w \in Work : w.op \in ops}
Dividing == {divider.instrs[k] : k \in DOMAIN divider.instrs}
Live == IF flush THEN {} ELSE alu \cup mulAlu \cup reduce \cup sum \cup Dividing

Registers ==
  /\ window \in Seq(Entry) /\ Len(window) <= Depth
  /\ head \in Slots
  /\ speculating \in BOOLEAN /\ flush \in BOOLEAN /\ divBusy \in BOOLEAN /\ epoch \in BOOLEAN

\* A unit holds at most one entry, of a kind it executes.
Units ==
  /\ OfKind(alu, {"alu", "branch"}) /\ Single(alu)
  /\ OfKind(mulAlu, {"mul", "div"}) /\ Single(mulAlu)
  /\ OfKind(reduce, {"mul"}) /\ Single(reduce)
  /\ OfKind(sum, {"mul"}) /\ Single(sum)

\* The divider is idle, or has one division: its operands are at the port or loaded.
DividerHolds ==
  /\ divider = [instrs |-> divider.instrs, operands |-> divider.operands,
                loaded |-> divider.loaded, left |-> divider.left, calls |-> divider.calls]
  /\ divider.left \in 0 .. MaxSteps
  /\ OfKind(divider.loaded, {"div"}) /\ Single(divider.loaded)
  /\ \/ divider.instrs = <<>> /\ divider.operands = {} /\ divider.calls = 0
     \/ \E d \in Work :
          /\ d.op = "div" /\ divider.instrs = <<d>> /\ divider.calls = 1
          /\ \/ divider.operands = {d}
             \/ divider.operands = {} /\ divider.loaded = {d}

\* No unit has an entry of another.
UnitsApart ==
  /\ mulAlu \cap reduce = {} /\ mulAlu \cap sum = {} /\ reduce \cap sum = {}
  /\ (\E w \in mulAlu : w.op = "div") => divider.instrs = <<>>

\* The units hold the issued entries that have no result yet, unless these were flushed.
Executed == {WorkOf(i) : i \in Executing}
LiveIsExecuting == Live = Executed
ReadyIsIssued == \A i \in DOMAIN window : window[i].ready => window[i].issued

AfterFlush == flush => window = <<>> /\ alu = {} /\ mulAlu = {} /\ divider.instrs = <<>>

BusyExact == divBusy <=> (\E w \in mulAlu : w.op = "div") \/ divider.instrs # <<>>

IInv ==
  /\ Registers /\ Units /\ DividerHolds /\ UnitsApart /\ LiveIsExecuting
  /\ ReadyIsIssued /\ AfterFlush /\ BusyExact /\ Apart

-----------------------------------------------------------------------------
(* Slots, sequences and small sets. *)

LEMMA AddressSlots ==
  ASSUME NEW h \in Slots
  PROVE  /\ \A i \in 1 .. Depth : (h + i - 1) % Depth \in Slots
         /\ \A i, j \in 1 .. Depth : (h + i - 1) % Depth = (h + j - 1) % Depth => i = j
         /\ (h + 1) % Depth \in Slots
         /\ \A i \in 1 .. Depth - 1 : (((h + 1) % Depth) + i - 1) % Depth = (h + (i + 1) - 1) % Depth
<1>1. \A n \in 0 .. 2 * Depth - 1 : n % Depth = IF n < Depth THEN n ELSE n - Depth
  BY DepthAssumption
<1>2. PICK D : D = Depth
  OBVIOUS
<1>3. h \in Nat /\ h < D /\ D \in Nat /\ D > 0
  BY <1>2, DepthAssumption DEF Slots
<1>4. \A i \in 1 .. D : (h + i - 1) % D = IF h + i - 1 < D THEN h + i - 1 ELSE h + i - 1 - D
  BY <1>1, <1>2, <1>3
<1>5. (h + 1) % D = IF h + 1 < D THEN h + 1 ELSE 0
  BY <1>1, <1>2, <1>3
<1>6. \A i \in 1 .. D - 1 : (((h + 1) % D) + i - 1) % D = (h + (i + 1) - 1) % D
  <2> SUFFICES ASSUME NEW i \in 1 .. D - 1 PROVE (((h + 1) % D) + i - 1) % D = (h + (i + 1) - 1) % D
    OBVIOUS
  <2>1. (h + (i + 1) - 1) % D = IF h + i < D THEN h + i ELSE h + i - D
    BY <1>1, <1>2, <1>3
  <2>2. CASE h + 1 < D
    BY <1>3, <1>5, <2>2
  <2>3. CASE ~(h + 1 < D)
    <3>1. (h + 1) % D = 0
      BY <1>5, <2>3
    <3>2. (0 + i - 1) % D = i - 1
      BY <1>1, <1>2, <1>3
    <3> QED BY <1>3, <2>1, <2>3, <3>1, <3>2
  <2> QED BY <2>2, <2>3
<1>7. Slots = 0 .. D - 1
  BY <1>2 DEF Slots
<1>8. \A i \in 1 .. D : (h + i - 1) % D \in Slots
  BY <1>3, <1>4, <1>7
<1>9. \A i, j \in 1 .. D : (h + i - 1) % D = (h + j - 1) % D => i = j
  BY <1>3, <1>4
<1>10. (h + 1) % D \in Slots
  BY <1>3, <1>5, <1>7
<1> QED BY <1>2, <1>6, <1>8, <1>9, <1>10

LEMMA SeqOfNone == SetToSeq({}) = <<>>
<1>1. Cardinality({}) = 0
  BY FS_EmptySet
<1>2. \A f : f \in [1 .. 0 -> {}] <=> f = <<>>
  <2>1. ASSUME NEW f, f \in [1 .. 0 -> {}] PROVE f = <<>>
    <3>1. f \in Seq({})
      BY <2>1, SeqDef
    <3>2. Len(f) = 0
      BY <2>1, <3>1, LenProperties
    <3> QED BY <3>1, <3>2, EmptySeq
  <2>2. <<>> \in [1 .. 0 -> {}]
    <3>1. <<>> \in Seq({}) /\ Len(<<>>) = 0
      BY EmptySeq
    <3> QED BY <3>1, LenProperties
  <2> QED BY <2>1, <2>2
<1>3. IsInjective(<<>>)
  BY DEF IsInjective
<1> QED BY <1>1, <1>2, <1>3 DEF SetToSeq

LEMMA SeqOfOne == ASSUME NEW v PROVE SetToSeq({v}) = <<v>>
<1>1. Cardinality({v}) = 1
  BY FS_Singleton
<1>2. 1 .. 1 = {1}
  OBVIOUS
<1>3. \A f : f \in [{1} -> {v}] <=> f = <<v>>
  <2>1. <<v>> = [i \in {1} |-> v]
    OBVIOUS
  <2> QED BY <2>1
<1>4. IsInjective(<<v>>)
  BY DEF IsInjective
<1> QED BY <1>1, <1>2, <1>3, <1>4 DEF SetToSeq

LEMMA SingleIsSmall ==
  ASSUME NEW S, Single(S)
  PROVE  Cardinality(S) <= 1
<1>1. CASE S = {}
  BY <1>1, FS_EmptySet
<1>2. CASE S # {}
  <2>1. PICK v : S = {v}
    BY <1>2 DEF Single
  <2>2. Cardinality({v}) = 1
    BY FS_Singleton
  <2> QED BY <2>1, <2>2
<1> QED BY <1>1, <1>2

-----------------------------------------------------------------------------
(* What is issued and what is delivered. *)

LEMMA WindowIs ==
  ASSUME Registers
  PROVE  /\ Len(window) \in Nat /\ Len(window) <= Depth /\ DOMAIN window = 1 .. Len(window)
         /\ \A i \in DOMAIN window : window[i] \in Entry /\ SlotOf(i) \in Slots /\ WorkOf(i) \in Work
         /\ \A i, j \in DOMAIN window : SlotOf(i) = SlotOf(j) => i = j
<1>1. Len(window) \in Nat /\ Len(window) <= Depth /\ DOMAIN window = 1 .. Len(window)
  BY DEF Registers
<1>2. \A i \in DOMAIN window : window[i] \in Entry
  BY <1>1 DEF Registers
<1>3. \A i \in DOMAIN window : i \in 1 .. Depth
  BY <1>1, DepthAssumption
<1>4. \A i \in DOMAIN window : SlotOf(i) \in Slots
  BY <1>3, AddressSlots DEF Registers, SlotOf
<1>5. \A i, j \in DOMAIN window : SlotOf(i) = SlotOf(j) => i = j
  BY <1>3, AddressSlots DEF Registers, SlotOf
<1>6. ASSUME NEW i \in DOMAIN window PROVE WorkOf(i) \in Work
  <2>1. window[i].op \in Ops /\ SlotOf(i) \in Slots /\ epoch \in BOOLEAN
    BY <1>2, <1>4 DEF Registers, Entry
  <2> QED BY <2>1 DEF WorkOf, Work
<1> QED BY <1>1, <1>2, <1>4, <1>5, <1>6

LEMMA WorkIs == \A i : WorkOf(i).op = window[i].op /\ WorkOf(i).slot = SlotOf(i)
BY DEF WorkOf

LEMMA IssuesOne ==
  ASSUME Registers
  PROVE  /\ Issued \subseteq {i \in DOMAIN window : ~window[i].issued}
         /\ \A i, j \in Issued : i = j
         /\ FlushRecover => Issued = {}
         /\ \A i \in Issued : window[i].op = "div" => ~divBusy
<1>1. \A i \in Issued : i \in DOMAIN window /\ i \in Selected /\ ~FlushRecover
                          /\ (window[i].op = "div" => ~divBusy)
  BY DEF Issued, Issues
<1>2. \A i \in Selected : i \in DOMAIN window /\ ~window[i].issued
                            /\ \A j \in Selected : i <= j
  BY DEF Selected, Candidates
<1>3. DOMAIN window \subseteq Nat
  BY WindowIs
<1>4. \A i, j \in Selected : i = j
  BY <1>2, <1>3
<1> QED BY <1>1, <1>2, <1>4

\* What is called in the next cycle.
IssuedWork == {WorkOf(i) : i \in Issued}

LEMMA IssuedToUnits ==
  ASSUME Registers
  PROVE  /\ \A ops : IssuedTo(ops) = {w \in IssuedWork : w.op \in ops}
         /\ IssuedWork \subseteq Work /\ Single(IssuedWork)
         /\ FlushRecover => IssuedWork = {}
         /\ \A w \in IssuedWork : w \notin Executed
<1>1. \A ops : IssuedTo(ops) = {w \in IssuedWork : w.op \in ops}
  <2> SUFFICES ASSUME NEW ops PROVE IssuedTo(ops) = {w \in IssuedWork : w.op \in ops}
    OBVIOUS
  <2> QED BY WorkIs DEF IssuedTo, IssuedWork
<1>2. IssuedWork \subseteq Work
  BY WindowIs, IssuesOne DEF IssuedWork
<1>3. Single(IssuedWork)
  BY IssuesOne DEF IssuedWork, Single
<1>4. FlushRecover => IssuedWork = {}
  BY IssuesOne DEF IssuedWork
<1>5. \A w \in IssuedWork : w \notin Executed
  <2> SUFFICES ASSUME NEW i \in Issued, NEW j \in Executing, WorkOf(i) = WorkOf(j) PROVE FALSE
    BY DEF IssuedWork, Executed
  <2>1. i \in DOMAIN window /\ ~window[i].issued /\ j \in DOMAIN window /\ window[j].issued
    BY IssuesOne DEF Executing
  <2>2. SlotOf(i) = SlotOf(j)
    BY WorkIs
  <2> QED BY <2>1, <2>2, WindowIs
<1> QED BY <1>1, <1>2, <1>3, <1>4, <1>5

\* Results come from units, and for entries that wait for them.
LEMMA DeliveredIsLive ==
  ASSUME IInv, NEW quick \in BOOLEAN
  PROVE  /\ Delivered(quick) \subseteq Live
         /\ \A w \in Delivered(quick) : \E i \in Executing : WorkOf(i) = w
<1>1. FinishedDivision \subseteq Dividing /\ (FinishedDivision # {} => ~flush)
  <2>1. CASE divider.instrs = <<>>
    BY <2>1 DEF FinishedDivision
  <2>2. CASE divider.instrs # <<>>
    <3>1. PICK d : divider.instrs = <<d>>
      BY <2>2 DEF IInv, DividerHolds
    <3>2. Head(divider.instrs) = d /\ Dividing = {d}
      BY <3>1 DEF Dividing
    <3> QED BY <3>2 DEF FinishedDivision, Finishes
  <2> QED BY <2>1, <2>2
<1>2. flush => alu = {} /\ Quick(quick) = {}
  BY DEF IInv, AfterFlush, Quick
<1>3. Quick(quick) \subseteq mulAlu
  BY DEF Quick
<1>4. Delivered(quick) \subseteq Live
  BY <1>1, <1>2, <1>3 DEF Delivered, Live
<1> QED BY <1>4 DEF IInv, LiveIsExecuting, Executed

-----------------------------------------------------------------------------
(* The window after a cycle without a flush. *)

Shift == IF Retires THEN 1 ELSE 0

LEMMA WindowAfter ==
  ASSUME Registers, ~FlushRecover, NEW push \in Pushes, NEW quick \in BOOLEAN,
         NEW wrong \in BOOLEAN, WindowBuild(push, quick, wrong)
  PROVE  /\ Shift \in {0, 1} /\ Shift <= Len(window)
         /\ Len(push) \in {0, 1}
         /\ Len(push) = 1 => /\ Decodable(push[1].op) /\ push[1] \in Entry
                             /\ ~push[1].issued /\ ~push[1].ready
         /\ window' \in Seq(Entry) /\ Len(window') = Len(window) - Shift + Len(push)
         /\ \A k \in 1 .. Len(window) - Shift :
              k + Shift \in DOMAIN window /\ window'[k] = Updated(k + Shift, quick, wrong)
         /\ Len(push) = 1 => window'[Len(window) - Shift + 1] = push[1]
<1> DEFINE updated == [i \in DOMAIN window |-> Updated(i, quick, wrong)]
<1>1. PICK n : n = Len(window)
  OBVIOUS
<1>2. n \in Nat /\ DOMAIN window = 1 .. n /\ \A i \in 1 .. n : window[i] \in Entry
  BY <1>1, WindowIs
<1>3. \A i \in 1 .. n : Updated(i, quick, wrong) \in Entry
  <2> SUFFICES ASSUME NEW i \in 1 .. n PROVE Updated(i, quick, wrong) \in Entry
    OBVIOUS
  <2>1. PICK e : e = window[i]
    OBVIOUS
  <2>2. e \in Entry
    BY <1>2, <2>1
  <2>3. PICK a, b, c \in BOOLEAN :
          Updated(i, quick, wrong) = [e EXCEPT !.issued = a, !.ready = b, !.mispredicted = c]
    <3>1. e.issued \in BOOLEAN /\ e.ready \in BOOLEAN /\ e.mispredicted \in BOOLEAN
      BY <2>2 DEF Entry
    <3> DEFINE a == e.issued \/ Issues(i)
               b == e.ready \/ \E w \in Delivered(quick) : w.slot = SlotOf(i)
               c == e.mispredicted \/ (e.op = "branch" /\ wrong
                                         /\ \E w \in Delivered(quick) : w.slot = SlotOf(i))
    <3>2. a \in BOOLEAN /\ b \in BOOLEAN /\ c \in BOOLEAN
      OBVIOUS
    <3>3. Updated(i, quick, wrong) = [e EXCEPT !.issued = a, !.ready = b, !.mispredicted = c]
      BY <2>1, Zenon DEF Updated
    <3> HIDE DEF a, b, c
    <3> QED BY <3>2, <3>3
  <2> QED BY <2>2, <2>3 DEF Entry
<1>4. updated \in Seq(Entry) /\ Len(updated) = n /\ \A i \in 1 .. n : updated[i] = Updated(i, quick, wrong)
  <2>1. updated = [i \in 1 .. n |-> Updated(i, quick, wrong)]
    BY <1>2
  <2>2. \A i \in 1 .. n : updated[i] = Updated(i, quick, wrong)
    BY <2>1
  <2>3. updated \in [1 .. n -> Entry]
    BY <1>3, <2>1
  <2>4. updated \in Seq(Entry)
    BY <1>2, <2>3, SeqDef
  <2>5. Len(updated) = n
    BY <1>2, <2>3, <2>4, LenProperties
  <2> QED BY <2>2, <2>4, <2>5
<1>5. Retires => window # <<>> /\ 1 \in 1 .. n
  <2>1. window # <<>> => n > 0
    BY <1>1, <1>2, EmptySeq DEF Registers
  <2> QED BY <1>2, <2>1 DEF Retires
<1>6. Shift \in {0, 1} /\ Shift <= n
  BY <1>2, <1>5 DEF Shift
<1>7. /\ push \in Seq(Entry) /\ Len(push) \in {0, 1}
      /\ Len(push) = 1 => /\ Decodable(push[1].op) /\ push[1] \in Entry
                          /\ ~push[1].issued /\ ~push[1].ready
  <2>1. CASE push = <<>>
    BY <2>1
  <2>2. CASE push # <<>>
    <3>1. PICK op \in Ops, dependent \in BOOLEAN :
            Decodable(op) /\ push = <<NewEntry(op, dependent)>>
      BY <2>2 DEF Pushes
    <3>2. /\ NewEntry(op, dependent) \in Entry /\ NewEntry(op, dependent).op = op
          /\ ~NewEntry(op, dependent).issued /\ ~NewEntry(op, dependent).ready
      BY DEF NewEntry, Entry
    <3> QED BY <3>1, <3>2
  <2> QED BY <2>1, <2>2
<1> HIDE DEF updated
<1>8. PICK kept : /\ kept = IF Retires THEN Tail(updated) ELSE updated
                  /\ window' = kept \o push
  BY DEF WindowBuild, updated
<1>9. /\ kept \in Seq(Entry) /\ Len(kept) = n - Shift
      /\ \A k \in 1 .. n - Shift : kept[k] = updated[k + Shift]
  <2>1. CASE Retires
    <3>1. updated # <<>>
      BY <1>2, <1>4, <1>5, <2>1
    <3> QED BY <1>2, <1>4, <1>5, <1>8, <2>1, <3>1 DEF Shift
  <2>2. CASE ~Retires
    BY <1>2, <1>4, <1>8, <2>2 DEF Shift
  <2> QED BY <2>1, <2>2
<1>10. /\ window' \in Seq(Entry) /\ Len(window') = n - Shift + Len(push)
       /\ \A k \in 1 .. n - Shift : window'[k] = kept[k]
       /\ Len(push) = 1 => window'[n - Shift + 1] = push[1]
  <2>1. PICK r, m : r = n - Shift /\ m = Len(push)
    OBVIOUS
  <2>2. r \in Nat /\ m \in {0, 1} /\ Len(kept) = r
    BY <1>2, <1>6, <1>7, <1>9, <2>1
  <2>3. /\ kept \o push \in Seq(Entry) /\ Len(kept \o push) = r + m
        /\ \A k \in 1 .. r + m : (kept \o push)[k] = IF k <= r THEN kept[k] ELSE push[k - r]
    <3>1. /\ kept \o push \in Seq(Entry) /\ Len(kept \o push) = Len(kept) + Len(push)
          /\ \A k \in 1 .. Len(kept) + Len(push) :
               (kept \o push)[k] = IF k <= Len(kept) THEN kept[k] ELSE push[k - Len(kept)]
      <4>1. kept \in Seq(Entry) /\ push \in Seq(Entry)
        BY <1>7, <1>9
      <4> QED BY <4>1, ConcatProperties
    <3> QED BY <2>1, <2>2, <3>1
  <2>4. m = 1 => (kept \o push)[r + 1] = push[1]
    <3> SUFFICES ASSUME m = 1 PROVE (kept \o push)[r + 1] = push[1]
      OBVIOUS
    <3>1. r + 1 \in 1 .. r + m /\ ~(r + 1 <= r) /\ (r + 1) - r = 1
      BY <2>2
    <3> QED BY <2>3, <3>1
  <2>5. \A k \in 1 .. r : (kept \o push)[k] = kept[k]
    BY <2>2, <2>3
  <2> QED BY <1>8, <2>1, <2>3, <2>4, <2>5
<1>11. \A k \in 1 .. n - Shift : k + Shift \in 1 .. n
  BY <1>2, <1>6
<1> QED BY <1>1, <1>2, <1>4, <1>6, <1>7, <1>9, <1>10, <1>11

\* A position keeps its slot when the head moves past a retired entry.
LEMMA SlotsAfter ==
  ASSUME Registers, ~FlushRecover, NEW push, NEW quick, NEW wrong, WindowBuild(push, quick, wrong),
         Shift <= Len(window)
  PROVE  /\ head' \in Slots
         /\ \A k \in 1 .. Len(window) - Shift : (head' + k - 1) % Depth = SlotOf(k + Shift)
<1>1. head' = IF Retires THEN (head + 1) % Depth ELSE head
  BY DEF WindowBuild
<1>2. head \in Slots /\ Len(window) \in Nat /\ Len(window) <= Depth /\ Depth \in Nat
  BY WindowIs, DepthAssumption DEF Registers
<1>3. CASE Retires
  <2>1. Shift = 1 /\ head' = (head + 1) % Depth
    BY <1>1, <1>3 DEF Shift
  <2>2. \A k \in 1 .. Len(window) - 1 : k \in 1 .. Depth - 1
    BY <1>2
  <2> QED BY <1>2, <2>1, <2>2, AddressSlots DEF SlotOf
<1>4. CASE ~Retires
  <2>1. Shift = 0 /\ head' = head
    BY <1>1, <1>4 DEF Shift
  <2>2. \A k \in 1 .. Len(window) : k + 0 = k
    BY <1>2
  <2> QED BY <1>2, <2>1, <2>2 DEF SlotOf
<1> QED BY <1>3, <1>4

\* A result clears exactly its own entry, and an issued entry starts to execute.
LEMMA ExecutedAfter ==
  ASSUME IInv, ~FlushRecover, NEW push \in Pushes, NEW quick \in BOOLEAN,
         NEW wrong \in BOOLEAN, NEW steps, Cycle(push, quick, wrong, steps)
  PROVE  /\ Executed' = (Executed \ Delivered(quick)) \cup IssuedWork
         /\ ReadyIsIssued'
<1>1. PICK n, r : n = Len(window) /\ r = Shift
  OBVIOUS
<1>2. Registers /\ WindowBuild(push, quick, wrong) /\ epoch' = epoch
  <2>1. epoch \in BOOLEAN /\ epoch' = (epoch # FlushRecover)
    BY DEF Cycle, IInv, Registers
  <2>2. FlushRecover = FALSE
    BY DEF FlushRecover
  <2> QED BY <2>1, <2>2 DEF Cycle, IInv
<1>3. /\ n \in Nat /\ r \in {0, 1} /\ r <= n /\ DOMAIN window = 1 .. n
      /\ window' \in Seq(Entry) /\ Len(push) \in {0, 1} /\ Len(window') = n - r + Len(push)
      /\ \A k \in 1 .. n - r : window'[k] = Updated(k + r, quick, wrong)
      /\ Len(push) = 1 => window'[n - r + 1] = push[1] /\ ~push[1].issued /\ ~push[1].ready
  BY <1>1, <1>2, WindowAfter, WindowIs
<1>4. DOMAIN window' = 1 .. Len(window')
  BY <1>3, LenProperties
<1>5. \A k \in DOMAIN window' : k \in 1 .. n - r \/ (Len(push) = 1 /\ k = n - r + 1)
  <2>1. PICK m : m = Len(push)
    OBVIOUS
  <2>2. m \in {0, 1} /\ DOMAIN window' = 1 .. n - r + m
    BY <1>3, <1>4, <2>1
  <2>3. \A k \in 1 .. n - r + m : k \in 1 .. n - r \/ (m = 1 /\ k = n - r + 1)
    BY <1>3, <2>2
  <2> QED BY <2>1, <2>2, <2>3
<1>6. \A k \in 1 .. n - r : (head' + k - 1) % Depth = SlotOf(k + r)
  BY <1>1, <1>2, <1>3, SlotsAfter
<1>7. \A i \in DOMAIN window, w \in Delivered(quick) : w.slot = SlotOf(i) <=> w = WorkOf(i)
  <2> SUFFICES ASSUME NEW i \in DOMAIN window, NEW w \in Delivered(quick)
               PROVE  w.slot = SlotOf(i) <=> w = WorkOf(i)
    OBVIOUS
  <2>1. PICK j \in Executing : WorkOf(j) = w
    BY DeliveredIsLive
  <2>2. j \in DOMAIN window /\ w.slot = SlotOf(j)
    BY <2>1, WorkIs DEF Executing
  <2> QED BY <1>2, <2>1, <2>2, WindowIs, WorkIs
<1>8. \A i \in DOMAIN window :
        /\ Updated(i, quick, wrong).op = window[i].op
        /\ Updated(i, quick, wrong).issued <=> (window[i].issued \/ i \in Issued)
        /\ Updated(i, quick, wrong).ready <=> (window[i].ready \/ WorkOf(i) \in Delivered(quick))
  <2> SUFFICES ASSUME NEW i \in DOMAIN window
               PROVE  /\ Updated(i, quick, wrong).op = window[i].op
                      /\ Updated(i, quick, wrong).issued <=> (window[i].issued \/ i \in Issued)
                      /\ Updated(i, quick, wrong).ready
                           <=> (window[i].ready \/ WorkOf(i) \in Delivered(quick))
    OBVIOUS
  <2>1. PICK e : e = window[i]
    OBVIOUS
  <2>2. /\ e = [op |-> e.op, dependent |-> e.dependent, issued |-> e.issued, ready |-> e.ready,
               mispredicted |-> e.mispredicted]
        /\ e.issued \in BOOLEAN /\ e.ready \in BOOLEAN
    BY <1>2, <2>1, WindowIs DEF Entry
  <2>3. Issues(i) <=> i \in Issued
    BY DEF Issued
  <2>4. (\E w \in Delivered(quick) : w.slot = SlotOf(i)) <=> WorkOf(i) \in Delivered(quick)
    BY <1>7
  <2>5. PICK a, b, c :
          /\ a = (e.issued \/ Issues(i))
          /\ b = (e.ready \/ \E w \in Delivered(quick) : w.slot = SlotOf(i))
          /\ Updated(i, quick, wrong) = [e EXCEPT !.issued = a, !.ready = b, !.mispredicted = c]
    BY <2>1, Zenon DEF Updated
  <2>6. /\ Updated(i, quick, wrong).op = e.op /\ Updated(i, quick, wrong).issued = a
        /\ Updated(i, quick, wrong).ready = b
    BY <2>2, <2>5
  <2> QED BY <2>1, <2>3, <2>4, <2>5, <2>6, Zenon
<1>9. ReadyIsIssued'
  <2> SUFFICES ASSUME NEW k \in DOMAIN window', window'[k].ready PROVE window'[k].issued
    BY DEF ReadyIsIssued
  <2>1. k \in 1 .. n - r
    BY <1>3, <1>5
  <2>2. PICK i : i = k + r
    OBVIOUS
  <2>3. i \in DOMAIN window /\ window'[k] = Updated(i, quick, wrong)
    BY <1>3, <2>1, <2>2
  <2>4. CASE window[i].ready
    BY <1>8, <2>3, <2>4 DEF IInv, ReadyIsIssued
  <2>5. CASE WorkOf(i) \in Delivered(quick)
    <3>1. PICK j \in Executing : WorkOf(j) = WorkOf(i)
      BY <2>5, DeliveredIsLive
    <3>2. j = i
      BY <1>2, <2>3, <3>1, WindowIs, WorkIs DEF Executing
    <3> QED BY <1>8, <2>3, <3>2 DEF Executing
  <2> QED BY <1>8, <2>3, <2>4, <2>5
<1>10. \A k \in 1 .. n - r : WorkOf(k)' = WorkOf(k + r)
  <2> SUFFICES ASSUME NEW k \in 1 .. n - r PROVE WorkOf(k)' = WorkOf(k + r)
    OBVIOUS
  <2>1. k + r \in DOMAIN window
    BY <1>3
  <2>2. window'[k].op = window[k + r].op
    BY <1>3, <1>8, <2>1
  <2>3. WorkOf(k)' = [op |-> window'[k].op, slot |-> (head' + k - 1) % Depth, epoch |-> epoch']
    BY DEF WorkOf, SlotOf
  <2> QED BY <1>2, <1>6, <2>2, <2>3 DEF WorkOf
<1>11. Executed' \subseteq (Executed \ Delivered(quick)) \cup IssuedWork
  <2> SUFFICES ASSUME NEW k \in DOMAIN window', window'[k].issued, ~window'[k].ready
               PROVE  WorkOf(k)' \in (Executed \ Delivered(quick)) \cup IssuedWork
    BY DEF Executed, Executing
  <2>1. k \in 1 .. n - r
    BY <1>3, <1>5
  <2>2. PICK i : i = k + r
    OBVIOUS
  <2>3. i \in DOMAIN window /\ window'[k] = Updated(i, quick, wrong) /\ WorkOf(k)' = WorkOf(i)
    BY <1>3, <1>10, <2>1, <2>2
  <2>4. WorkOf(i) \notin Delivered(quick) /\ ~window[i].ready /\ (window[i].issued \/ i \in Issued)
    BY <1>8, <2>3
  <2> QED BY <2>3, <2>4 DEF Executed, Executing, IssuedWork
<1>12. (Executed \ Delivered(quick)) \cup IssuedWork \subseteq Executed'
  <2> SUFFICES ASSUME NEW i \in DOMAIN window, i \in Executing \/ i \in Issued,
                      i \in Issued \/ WorkOf(i) \notin Delivered(quick)
               PROVE  WorkOf(i) \in Executed'
    BY IssuesOne, <1>2 DEF Executed, Executing, IssuedWork
  <2>1. WorkOf(i) \notin Delivered(quick)
    <3>1. i \in Issued => WorkOf(i) \notin Executed
      BY <1>2, IssuedToUnits DEF IssuedWork
    <3> QED BY <3>1, DeliveredIsLive DEF Executed
  <2>2. ~window[i].ready
    BY <1>2, IssuesOne DEF Executing, IInv, ReadyIsIssued
  <2>3. PICK k : k = i - r
    OBVIOUS
  <2>4. k \in 1 .. n - r /\ i = k + r
    <3>1. r = 1 => i # 1
      BY <1>1, <2>2 DEF Shift, Retires
    <3> QED BY <1>3, <2>3, <3>1
  <2>5. k \in DOMAIN window' /\ window'[k] = Updated(i, quick, wrong) /\ WorkOf(k)' = WorkOf(i)
    BY <1>3, <1>4, <1>10, <2>4
  <2>6. window'[k].issued /\ ~window'[k].ready
    BY <1>8, <2>1, <2>2, <2>5 DEF Executing
  <2> QED BY <2>5, <2>6 DEF Executed, Executing
<1> QED BY <1>9, <1>11, <1>12

-----------------------------------------------------------------------------
(* The units after a cycle. *)

LEMMA DividerAfter ==
  ASSUME IInv, NEW push, NEW quick \in BOOLEAN, NEW wrong, NEW steps \in 0 .. MaxSteps,
         Cycle(push, quick, wrong, steps)
  PROVE  /\ DividerHolds'
         /\ Dividing' = (Dividing \ FinishedDivision) \cup CallsDivider(quick)
         /\ divider.instrs # <<>> => CallsDivider(quick) = {}
         /\ FinishedDivision \cap CallsDivider(quick) = {}
         /\ divider.instrs' = <<>> <=> Dividing \subseteq FinishedDivision /\ CallsDivider(quick) = {}
<1>1. PICK called : called = CallsDivider(quick)
  OBVIOUS
<1>2. /\ called \subseteq mulAlu /\ OfKind(called, {"div"}) /\ Single(called)
      /\ divider.instrs # <<>> => called = {}
  <2>1. called \subseteq {w \in mulAlu : w.op = "div"}
    BY <1>1 DEF CallsDivider
  <2> QED BY <2>1 DEF IInv, Units, OfKind, Single, UnitsApart
<1>3. called = {} \/ \E d \in Work : d.op = "div" /\ called = {d}
  BY <1>2 DEF OfKind, Single
<1>4. divider' =
        [instrs   |-> InstrsLeft \o SetToSeq(called),
         operands |-> IF Running THEN called ELSE divider.operands \cup called,
         loaded   |-> IF Loads THEN divider.operands ELSE divider.loaded,
         left     |-> IF Loads THEN steps
                      ELSE IF Iterates THEN divider.left - 1 ELSE divider.left,
         calls    |-> (IF Running THEN divider.calls - 1 ELSE 0)
                        + (IF Loads \/ Iterates THEN 1 ELSE 0)
                        + (IF called # {} THEN 1 ELSE 0)]
  BY <1>1 DEF Cycle, DividerBuild
<1>5. DividerHolds /\ divider.left \in 0 .. MaxSteps /\ MaxSteps \in Nat
  BY MaxStepsAssumption DEF IInv, DividerHolds
<1>6. CASE divider.instrs = <<>>
  <2>1. divider.operands = {} /\ divider.calls = 0
    BY <1>5, <1>6 DEF DividerHolds
  <2>2. ~Running /\ ~Loads /\ ~Iterates /\ ~Finishes /\ InstrsLeft = <<>>
    BY <1>6, <2>1 DEF Running, Loads, Iterates, Finishes, InstrsLeft
  <2>3. FinishedDivision = {} /\ Dividing = {}
    BY <1>6, <2>2 DEF FinishedDivision, Dividing
  <2>4. divider' = [instrs |-> <<>> \o SetToSeq(called), operands |-> called,
                    loaded |-> divider.loaded, left |-> divider.left,
                    calls |-> IF called # {} THEN 1 ELSE 0]
    BY <1>4, <2>1, <2>2
  <2>5. CASE called = {}
    <3>1. <<>> \o SetToSeq(called) = <<>>
      BY <2>5, SeqOfNone
    <3>2. /\ divider'.instrs = <<>> /\ divider'.operands = {} /\ divider'.calls = 0
          /\ divider'.loaded = divider.loaded /\ divider'.left = divider.left
      BY <2>4, <2>5, <3>1
    <3>3. Dividing' = {}
      BY <3>2 DEF Dividing
    <3>4. DividerHolds'
      BY <1>5, <2>4, <3>2 DEF DividerHolds
    <3> QED BY <1>1, <1>6, <2>3, <2>5, <3>2, <3>3, <3>4
  <2>6. CASE called # {}
    <3>1. PICK d \in Work : d.op = "div" /\ called = {d}
      BY <1>3, <2>6
    <3>2. <<>> \o SetToSeq(called) = <<d>>
      <4>1. SetToSeq(called) = <<d>>
        BY <3>1, SeqOfOne
      <4> QED BY <4>1
    <3>3. /\ divider'.instrs = <<d>> /\ divider'.operands = {d} /\ divider'.calls = 1
          /\ divider'.loaded = divider.loaded /\ divider'.left = divider.left
      BY <2>4, <2>6, <3>1, <3>2
    <3>4. Dividing' = {d} /\ divider'.instrs # <<>>
      BY <3>3 DEF Dividing
    <3>5. DividerHolds'
      BY <1>5, <2>4, <3>1, <3>3 DEF DividerHolds
    <3> QED BY <1>1, <1>6, <2>3, <2>6, <3>1, <3>4, <3>5
  <2> QED BY <2>5, <2>6
<1>7. CASE divider.instrs # <<>>
  <2>1. PICK d \in Work :
          /\ d.op = "div" /\ divider.instrs = <<d>> /\ divider.calls = 1
          /\ \/ divider.operands = {d}
             \/ divider.operands = {} /\ divider.loaded = {d}
    BY <1>5, <1>7 DEF DividerHolds
  <2>2. called = {} /\ ~flush /\ Running
    BY <1>2, <1>7, <2>1 DEF IInv, AfterFlush, Running
  <2>3. Dividing = {d}
    BY <2>1 DEF Dividing
  <2>4. InstrsLeft = IF Finishes THEN <<>> ELSE <<d>>
    <3>1. Tail(<<d>>) = <<>>
      OBVIOUS
    <3> QED BY <2>1, <2>2, <3>1 DEF InstrsLeft
  <2>5. InstrsLeft \o SetToSeq(called) = InstrsLeft
    <3>1. SetToSeq(called) = <<>>
      BY <2>2, SeqOfNone
    <3>2. <<d>> \o <<>> = <<d>> /\ <<>> \o <<>> = <<>>
      OBVIOUS
    <3> QED BY <2>4, <3>1, <3>2
  <2>6. divider' = [instrs |-> InstrsLeft, operands |-> {},
                    loaded |-> IF Loads THEN divider.operands ELSE divider.loaded,
                    left |-> IF Loads THEN steps
                             ELSE IF Iterates THEN divider.left - 1 ELSE divider.left,
                    calls |-> IF Loads \/ Iterates THEN 1 ELSE 0]
    <3>1. /\ (IF Running THEN called ELSE divider.operands \cup called) = {}
          /\ (IF Running THEN divider.calls - 1 ELSE 0) + (IF Loads \/ Iterates THEN 1 ELSE 0)
               + (IF called # {} THEN 1 ELSE 0) = IF Loads \/ Iterates THEN 1 ELSE 0
      BY <2>1, <2>2
    <3> QED BY <1>4, <2>5, <3>1, Zenon
  <2>7. FinishedDivision = IF Finishes THEN {d} ELSE {}
    BY <2>1 DEF FinishedDivision
  <2>8. CASE Finishes
    <3>1. ~Loads /\ ~Iterates
      BY <2>8 DEF Finishes, Loads, Iterates
    <3>2. /\ divider'.instrs = <<>> /\ divider'.operands = {} /\ divider'.calls = 0
          /\ divider'.loaded = divider.loaded /\ divider'.left = divider.left
      BY <2>4, <2>6, <2>8, <3>1
    <3>3. Dividing' = {}
      BY <3>2 DEF Dividing
    <3>4. DividerHolds'
      BY <1>5, <2>6, <3>2 DEF DividerHolds
    <3> QED BY <1>1, <2>2, <2>3, <2>7, <2>8, <3>2, <3>3, <3>4
  <2>9. CASE ~Finishes
    <3>1. Loads \/ Iterates
      BY <1>5, <2>2, <2>9 DEF Finishes, Loads, Iterates
    <3>2. Loads => divider.operands = {d}
      BY <2>1 DEF Loads
    <3>3. ~Loads => divider.loaded = {d} /\ divider.left > 0
      BY <2>1, <2>2, <3>1 DEF Loads, Iterates
    <3>4. /\ divider'.instrs = <<d>> /\ divider'.operands = {} /\ divider'.calls = 1
          /\ divider'.loaded = {d} /\ divider'.left \in 0 .. MaxSteps
      BY <1>5, <2>4, <2>6, <2>9, <3>1, <3>2, <3>3
    <3>5. Dividing' = {d} /\ divider'.instrs # <<>>
      BY <3>4 DEF Dividing
    <3>6. OfKind({d}, {"div"}) /\ Single({d})
      BY <2>1 DEF OfKind, Single
    <3>7. DividerHolds'
      BY <2>1, <2>6, <3>4, <3>6 DEF DividerHolds, OfKind, Single
    <3> QED BY <1>1, <2>2, <2>3, <2>7, <2>9, <3>5, <3>7
  <2> QED BY <2>8, <2>9
<1> QED BY <1>6, <1>7

LEMMA DividingIs ==
  ASSUME DividerHolds
  PROVE  /\ OfKind(Dividing, {"div"})
         /\ Dividing = {} <=> divider.instrs = <<>>
         /\ FinishedDivision \subseteq Dividing
<1>1. CASE divider.instrs = <<>>
  <2>1. Dividing = {}
    BY <1>1 DEF Dividing
  <2> QED BY <1>1, <2>1 DEF FinishedDivision, OfKind
<1>2. CASE divider.instrs # <<>>
  <2>1. PICK d \in Work : d.op = "div" /\ divider.instrs = <<d>>
    BY <1>2 DEF DividerHolds
  <2>2. Dividing = {d} /\ Head(divider.instrs) = d
    BY <2>1 DEF Dividing
  <2> QED BY <1>2, <2>1, <2>2 DEF FinishedDivision, OfKind
<1> QED BY <1>1, <1>2

LEMMA CallsOf ==
  ASSUME IInv, NEW quick \in BOOLEAN
  PROVE  /\ OfKind(CallsReduce, {"mul"}) /\ Single(CallsReduce) /\ CallsReduce \subseteq mulAlu
         /\ OfKind(CallsSum, {"mul"}) /\ Single(CallsSum) /\ CallsSum \subseteq reduce
         /\ OfKind(CallsDivider(quick), {"div"}) /\ CallsDivider(quick) \subseteq mulAlu
         /\ OfKind(Quick(quick), {"div"}) /\ Quick(quick) \subseteq mulAlu
         /\ CallsDivider(quick) \cap Quick(quick) = {}
         /\ flush => CallsReduce = {} /\ CallsSum = {} /\ CallsDivider(quick) = {} /\ Quick(quick) = {}
         /\ ~flush => /\ mulAlu = CallsReduce \cup CallsDivider(quick) \cup Quick(quick)
                      /\ CallsSum = reduce
BY DEF IInv, Units, OfKind, Single, CallsReduce, CallsSum, CallsDivider, Quick

LEMMA UnitsAfter ==
  ASSUME IInv, NEW push, NEW quick \in BOOLEAN, NEW wrong, NEW steps \in 0 .. MaxSteps,
         Cycle(push, quick, wrong, steps)
  PROVE  /\ Units' /\ UnitsApart'
         /\ alu' \cup mulAlu' = IssuedWork
         /\ ~FlushRecover => Live' = (Live \ Delivered(quick)) \cup IssuedWork
<1>1. /\ alu' = {w \in IssuedWork : w.op \in {"alu", "branch"}}
      /\ mulAlu' = {w \in IssuedWork : w.op \in {"mul", "div"}}
      /\ IssuedWork \subseteq Work /\ Single(IssuedWork)
      /\ \A w \in IssuedWork : w \notin Live
  BY IssuedToUnits DEF Cycle, IInv, LiveIsExecuting
<1>2. reduce' = CallsReduce /\ sum' = CallsSum /\ flush' = FlushRecover
  BY DEF Cycle
<1>3. Units'
  BY <1>1, <1>2, CallsOf DEF Units, OfKind, Single
<1>4. /\ Dividing' = (Dividing \ FinishedDivision) \cup CallsDivider(quick)
      /\ divider.instrs' = <<>> <=> Dividing \subseteq FinishedDivision /\ CallsDivider(quick) = {}
  BY DividerAfter
<1>5. ~flush => Live = alu \cup mulAlu \cup reduce \cup sum \cup Dividing
  BY DEF Live
<1>6. \A w \in Work : w.op \in {"alu", "branch", "mul", "div"}
  BY OpsAssumption DEF Work
<1>7. alu' \cup mulAlu' = IssuedWork
  BY <1>1, <1>6
<1>8. UnitsApart'
  <2>1. mulAlu' \cap reduce' = {} /\ mulAlu' \cap sum' = {}
    BY <1>1, <1>2, <1>5, CallsOf
  <2>2. reduce' \cap sum' = {}
    BY <1>2, CallsOf DEF IInv, UnitsApart
  <2>3. ASSUME NEW w \in mulAlu', w.op = "div" PROVE divider.instrs' = <<>>
    <3>1. w \in IssuedWork
      BY <1>1, <2>3
    <3>2. PICK i \in Issued : WorkOf(i) = w
      BY <3>1 DEF IssuedWork
    <3>3. window[i].op = "div"
      BY <2>3, <3>2, WorkIs
    <3>4. ~divBusy
      BY <3>3, IssuesOne DEF IInv
    <3>5. divider.instrs = <<>> /\ \A v \in mulAlu : v.op # "div"
      BY <3>4 DEF IInv, BusyExact
    <3>6. CallsDivider(quick) = {} /\ Dividing = {}
      BY <3>5, CallsOf, DividingIs DEF IInv, OfKind
    <3> QED BY <1>4, <3>6
  <2> QED BY <2>1, <2>2, <2>3 DEF UnitsApart
<1>9. ASSUME ~FlushRecover PROVE Live' = (Live \ Delivered(quick)) \cup IssuedWork
  <2>1. Live' = alu' \cup mulAlu' \cup reduce' \cup sum' \cup Dividing'
    BY <1>2, <1>9 DEF Live
  <2>2. Live' = IssuedWork \cup CallsReduce \cup CallsSum \cup (Dividing \ FinishedDivision)
                  \cup CallsDivider(quick)
    BY <1>2, <1>4, <1>7, <2>1
  <2>3. CASE flush
    <3>1. Live = {} /\ Dividing = {}
      BY <2>3, DividingIs DEF IInv, AfterFlush, Live
    <3> QED BY <2>2, <2>3, <3>1, CallsOf
  <2>4. CASE ~flush
    <3>1. Delivered(quick) = alu \cup sum \cup FinishedDivision \cup Quick(quick)
      BY <2>4 DEF Delivered
    <3>2. Live = alu \cup CallsReduce \cup CallsDivider(quick) \cup Quick(quick) \cup CallsSum
                   \cup sum \cup Dividing
      BY <1>5, <2>4, CallsOf
    <3>3. /\ OfKind(alu, {"alu", "branch"}) /\ OfKind(sum, {"mul"})
          /\ OfKind(CallsReduce, {"mul"}) /\ OfKind(CallsSum, {"mul"})
          /\ OfKind(CallsDivider(quick), {"div"}) /\ OfKind(Quick(quick), {"div"})
          /\ OfKind(Dividing, {"div"}) /\ FinishedDivision \subseteq Dividing
      BY CallsOf, DividingIs DEF IInv, Units
    <3>4. /\ sum \cap CallsReduce = {} /\ sum \cap CallsSum = {}
          /\ CallsDivider(quick) \cap Quick(quick) = {}
      BY CallsOf DEF IInv, UnitsApart
    <3>5. CallsDivider(quick) \cup Quick(quick) # {} => Dividing = {}
      BY CallsOf, DividingIs DEF IInv, UnitsApart, OfKind
    <3>6. Live \ Delivered(quick) = CallsReduce \cup CallsDivider(quick) \cup CallsSum
                                      \cup (Dividing \ FinishedDivision)
      BY <3>1, <3>2, <3>3, <3>4, <3>5 DEF OfKind
    <3> QED BY <2>2, <3>6
  <2> QED BY <2>3, <2>4
<1> QED BY <1>3, <1>7, <1>8, <1>9

-----------------------------------------------------------------------------
(* The busy flag, and the registers. *)

\* Without a division in the window there is none in a unit.
LEMMA NoDivision ==
  ASSUME IInv, \A i \in DOMAIN window : window[i].op # "div"
  PROVE  (\A w \in mulAlu : w.op # "div") /\ divider.instrs = <<>> /\ ~divBusy
<1>1. \A w \in Executed : w.op # "div"
  BY WorkIs DEF Executed, Executing
<1>2. (\A w \in mulAlu : w.op # "div") /\ divider.instrs = <<>>
  <2>1. CASE flush
    BY <2>1 DEF IInv, AfterFlush
  <2>2. CASE ~flush
    <3>1. mulAlu \subseteq Executed /\ Dividing \subseteq Executed
      BY <2>2 DEF IInv, LiveIsExecuting, Live
    <3>2. Dividing = {}
      BY <1>1, <3>1, DividingIs DEF IInv, OfKind
    <3> QED BY <1>1, <3>1, <3>2, DividingIs DEF IInv
  <2> QED BY <2>1, <2>2
<1> QED BY <1>2 DEF IInv, BusyExact

LEMMA ApartFrom ==
  ASSUME Apart, NEW i \in DOMAIN window, window[i].op \in {"mul", "branch"}
  PROVE  \A j \in DOMAIN window : window[j].op # "div"
<1> DEFINE ops == {window[j].op : j \in DOMAIN window}
<1>1. "div" \in ops => ops \subseteq {"div", "alu"}
  BY DEF Apart
<1>2. window[i].op \in ops
  OBVIOUS
<1>3. "div" \notin ops
  BY <1>1, <1>2
<1> QED BY <1>3

LEMMA BusyAfter ==
  ASSUME IInv, NEW push, NEW quick \in BOOLEAN, NEW wrong, NEW steps \in 0 .. MaxSteps,
         Cycle(push, quick, wrong, steps)
  PROVE  BusyExact' /\ divBusy' \in BOOLEAN
<1> DEFINE issues == {window[i].op = "div" : i \in {j \in Issued : window[j].op \in {"mul", "div"}}}
           answers == {FALSE : w \in FinishedDivision \cup Quick(quick)}
<1>1. BusyWrites(quick) = issues \cup answers
  <2>1. {v \in mulAlu : flush} = {}
    BY DEF IInv, AfterFlush
  <2>2. {FALSE : w \in {v \in mulAlu : flush}} = {}
    BY <2>1
  <2> QED BY <2>2 DEF BusyWrites
<1>2. divBusy' \in IF BusyWrites(quick) = {} THEN {divBusy} ELSE BusyWrites(quick)
  BY DEF Cycle
<1>3. mulAlu' = {w \in IssuedWork : w.op \in {"mul", "div"}}
  BY IssuedToUnits DEF Cycle, IInv
<1>4. divider.instrs' = <<>> <=> Dividing \subseteq FinishedDivision /\ CallsDivider(quick) = {}
  BY DividerAfter
<1>5. /\ OfKind(Dividing, {"div"}) /\ (Dividing = {} <=> divider.instrs = <<>>)
      /\ FinishedDivision \subseteq Dividing
  BY DividingIs DEF IInv
<1>6. CASE \E i \in Issued : window[i].op \in {"mul", "div"}
  <2>1. PICK i \in Issued : window[i].op \in {"mul", "div"}
    BY <1>6
  <2>2. i \in DOMAIN window /\ Issued = {i} /\ (window[i].op = "div" => ~divBusy)
    BY <2>1, IssuesOne DEF IInv
  <2>3. (\A w \in mulAlu : w.op # "div") /\ divider.instrs = <<>>
    <3>1. CASE window[i].op = "div"
      BY <2>2, <3>1 DEF IInv, BusyExact
    <3>2. CASE window[i].op = "mul"
      BY <2>2, <3>2, ApartFrom, NoDivision DEF IInv
    <3> QED BY <2>1, <3>1, <3>2
  <2>4. Quick(quick) = {} /\ CallsDivider(quick) = {} /\ FinishedDivision = {} /\ Dividing = {}
    BY <1>5, <2>3, CallsOf DEF OfKind
  <2>5. issues = {window[i].op = "div"} /\ answers = {}
    BY <2>1, <2>2, <2>4
  <2>6. divBusy' = (window[i].op = "div")
    BY <1>1, <1>2, <2>5
  <2>7. IssuedWork = {WorkOf(i)} /\ WorkOf(i).op = window[i].op
    BY <2>2, WorkIs DEF IssuedWork
  <2>8. (\E w \in mulAlu' : w.op = "div") <=> window[i].op = "div"
    BY <1>3, <2>7
  <2>9. divider.instrs' = <<>>
    BY <1>4, <2>4
  <2> QED BY <2>6, <2>8, <2>9 DEF BusyExact
<1>7. CASE ~\E i \in Issued : window[i].op \in {"mul", "div"}
  <2>1. issues = {}
    BY <1>7
  <2>2. mulAlu' = {}
    BY <1>3, <1>7, WorkIs DEF IssuedWork
  <2>3. CASE FinishedDivision \cup Quick(quick) # {}
    <3>1. answers = {FALSE}
      BY <2>3
    <3>2. divBusy' = FALSE
      BY <1>1, <1>2, <2>1, <3>1
    <3>3. CallsDivider(quick) = {} /\ Dividing \subseteq FinishedDivision
      <4>1. CASE FinishedDivision # {}
        <5>1. divider.instrs # <<>>
          BY <1>5, <4>1
        <5>2. PICK d : Dividing = {d}
          <6>1. PICK d : divider.instrs = <<d>>
            BY <5>1 DEF IInv, DividerHolds
          <6> QED BY <6>1 DEF Dividing
        <5> QED BY <1>5, <4>1, <5>1, <5>2, DividerAfter
      <4>2. CASE Quick(quick) # {}
        <5>1. \E w \in mulAlu : w.op = "div"
          BY <4>2, CallsOf DEF OfKind
        <5>2. divider.instrs = <<>>
          BY <5>1 DEF IInv, UnitsApart
        <5>3. CallsDivider(quick) = {}
          BY <4>2 DEF Quick, CallsDivider
        <5> QED BY <1>5, <5>2, <5>3
      <4> QED BY <2>3, <4>1, <4>2
    <3> QED BY <1>4, <2>2, <3>2, <3>3 DEF BusyExact
  <2>4. CASE FinishedDivision \cup Quick(quick) = {}
    <3>1. divBusy' = divBusy
      BY <1>1, <1>2, <2>1, <2>4
    <3>2. (\E w \in mulAlu : w.op = "div") <=> CallsDivider(quick) # {}
      <4>1. \A w \in mulAlu : w.op = "div" => w \in CallsDivider(quick)
        BY <2>4, CallsOf DEF OfKind, IInv, AfterFlush
      <4> QED BY <4>1, CallsOf DEF OfKind
    <3>3. Dividing \subseteq FinishedDivision <=> divider.instrs = <<>>
      BY <1>5, <2>4
    <3>4. divBusy \in BOOLEAN
      BY DEF IInv, Registers
    <3> QED BY <1>4, <2>2, <3>1, <3>2, <3>3, <3>4 DEF IInv, BusyExact
  <2> QED BY <2>3, <2>4
<1> QED BY <1>6, <1>7

LEMMA RegistersAfter ==
  ASSUME IInv, NEW push \in Pushes, NEW quick \in BOOLEAN, NEW wrong \in BOOLEAN,
         NEW steps \in 0 .. MaxSteps, Cycle(push, quick, wrong, steps)
  PROVE  Registers'
<1>1. Registers /\ WindowBuild(push, quick, wrong) /\ Depth \in Nat \ {0}
  BY DepthAssumption DEF IInv, Cycle
<1>2. window' \in Seq(Entry) /\ Len(window') <= Depth /\ head' \in Slots
  <2>1. CASE FlushRecover
    <3>1. window' = <<>> /\ head' = 0
      BY <1>1, <2>1 DEF WindowBuild
    <3> QED BY <1>1, <3>1 DEF Slots
  <2>2. CASE ~FlushRecover
    <3>1. PICK n, m, r : n = Len(window) /\ m = Len(push) /\ r = Shift
      OBVIOUS
    <3>2. /\ r \in {0, 1} /\ m \in {0, 1} /\ r <= n /\ n \in Nat /\ n <= Depth
          /\ m = 1 => Decodable(push[1].op)
          /\ window' \in Seq(Entry) /\ Len(window') = n - r + m
      BY <1>1, <2>2, <3>1, WindowAfter, WindowIs
    <3>3. m = 1 => n < Depth
      BY <3>1, <3>2 DEF Decodable
    <3>4. n - r + m <= Depth
      BY <1>1, <3>2, <3>3
    <3>5. head' \in Slots
      BY <1>1, <2>2, <3>1, <3>2, SlotsAfter
    <3> QED BY <3>2, <3>4, <3>5
  <2> QED BY <2>1, <2>2
<1>3. speculating' \in BOOLEAN /\ flush' \in BOOLEAN /\ epoch' \in BOOLEAN
  <2>1. speculating' \in BOOLEAN
    BY DEF Cycle
  <2>2. flush' \in BOOLEAN
    BY DEF Cycle, FlushRecover
  <2>3. epoch' \in BOOLEAN
    BY DEF Cycle
  <2> QED BY <2>1, <2>2, <2>3
<1>4. divBusy' \in BOOLEAN
  BY BusyAfter
<1> QED BY <1>2, <1>3, <1>4 DEF Registers

LEMMA FlushAfter ==
  ASSUME IInv, NEW push, NEW quick \in BOOLEAN, NEW wrong, NEW steps \in 0 .. MaxSteps,
         Cycle(push, quick, wrong, steps)
  PROVE  /\ AfterFlush'
         /\ FlushRecover => LiveIsExecuting' /\ ReadyIsIssued'
<1>1. flush' = FlushRecover
  BY DEF Cycle
<1>2. CASE FlushRecover
  <2>1. window' = <<>>
    BY <1>2 DEF Cycle, WindowBuild
  <2>2. alu' = {} /\ mulAlu' = {}
    BY <1>2, UnitsAfter, IssuedToUnits DEF IInv
  <2>3. 1 \in DOMAIN window /\ window[1].op = "branch"
    <3>1. Len(window) > 0
      BY <1>2, WindowIs, EmptySeq DEF FlushRecover, Retires, IInv, Registers
    <3> QED BY <1>2, <3>1, WindowIs DEF FlushRecover, IInv
  <2>4. (\A w \in mulAlu : w.op # "div") /\ divider.instrs = <<>>
    BY <2>3, ApartFrom, NoDivision DEF IInv
  <2>5. CallsDivider(quick) = {} /\ Dividing = {}
    BY <2>4, CallsOf, DividingIs DEF IInv, OfKind
  <2>6. divider.instrs' = <<>>
    BY <2>5, DividerAfter
  <2>7. Live' = {}
    BY <1>1, <1>2 DEF Live
  <2>8. DOMAIN window' = {}
    BY <2>1
  <2>9. Executed' = {}
    BY <2>8 DEF Executed, Executing
  <2> QED BY <1>1, <1>2, <2>1, <2>2, <2>6, <2>7, <2>8, <2>9
          DEF AfterFlush, LiveIsExecuting, ReadyIsIssued
<1>3. CASE ~FlushRecover
  BY <1>1, <1>3 DEF AfterFlush
<1> QED BY <1>2, <1>3

-----------------------------------------------------------------------------
(* Theorems. *)

LEMMA InitInv == Init => IInv
<1> SUFFICES ASSUME Init PROVE IInv
  OBVIOUS
<1>1. /\ window = <<>> /\ head = 0 /\ speculating = FALSE /\ flush = FALSE /\ divBusy = FALSE
      /\ epoch = FALSE /\ alu = {} /\ mulAlu = {} /\ reduce = {} /\ sum = {}
      /\ divider = [instrs |-> <<>>, operands |-> {}, loaded |-> {}, left |-> 0, calls |-> 0]
  BY DEF Init
<1>2. DOMAIN window = {}
  BY <1>1
<1>3. Registers
  <2>1. window \in Seq(Entry) /\ Len(window) = 0
    BY <1>1, EmptySeq
  <2>2. 0 \in Slots /\ 0 <= Depth
    BY DepthAssumption DEF Slots
  <2> QED BY <1>1, <2>1, <2>2 DEF Registers
<1>4. Units /\ UnitsApart
  BY <1>1 DEF Units, UnitsApart, OfKind, Single
<1>5. DividerHolds
  BY <1>1, MaxStepsAssumption DEF DividerHolds, OfKind, Single
<1>6. Dividing = {}
  <2>1. divider.instrs = <<>>
    BY <1>1
  <2> QED BY <2>1 DEF Dividing
<1>7. LiveIsExecuting /\ ReadyIsIssued
  BY <1>1, <1>2, <1>6 DEF LiveIsExecuting, Live, Executed, Executing, ReadyIsIssued
<1>8. AfterFlush /\ BusyExact
  BY <1>1 DEF AfterFlush, BusyExact
<1>9. Apart
  BY <1>2 DEF Apart
<1> QED BY <1>3, <1>4, <1>5, <1>7, <1>8, <1>9 DEF IInv

LEMMA NextInv == IInv /\ [Next /\ Apart']_vars => IInv'
<1> SUFFICES ASSUME IInv, [Next /\ Apart']_vars PROVE IInv'
  OBVIOUS
<1>1. CASE Next /\ Apart'
  <2>1. PICK push \in Pushes, quick, wrong \in BOOLEAN, steps \in 0 .. MaxSteps :
          Cycle(push, quick, wrong, steps)
    BY <1>1 DEF Next
  <2>2. Registers' /\ BusyExact'
    BY <2>1, RegistersAfter, BusyAfter
  <2>3. Units' /\ UnitsApart' /\ DividerHolds' /\ AfterFlush'
    BY <2>1, UnitsAfter, DividerAfter, FlushAfter
  <2>4. LiveIsExecuting' /\ ReadyIsIssued'
    <3>1. CASE FlushRecover
      BY <2>1, <3>1, FlushAfter
    <3>2. CASE ~FlushRecover
      <4>1. Live' = (Live \ Delivered(quick)) \cup IssuedWork
        BY <2>1, <3>2, UnitsAfter
      <4>2. Executed' = (Executed \ Delivered(quick)) \cup IssuedWork /\ ReadyIsIssued'
        BY <2>1, <3>2, ExecutedAfter
      <4>3. Live = Executed
        BY DEF IInv, LiveIsExecuting
      <4> QED BY <4>1, <4>2, <4>3 DEF LiveIsExecuting
    <3> QED BY <3>1, <3>2
  <2> QED BY <1>1, <2>2, <2>3, <2>4 DEF IInv
<1>2. CASE UNCHANGED vars
  <2>1. /\ window' = window /\ head' = head /\ speculating' = speculating /\ flush' = flush
        /\ divBusy' = divBusy /\ alu' = alu /\ mulAlu' = mulAlu /\ reduce' = reduce
        /\ sum' = sum /\ divider' = divider /\ epoch' = epoch
    BY <1>2 DEF vars
  <2>2. Executed' = Executed /\ Live' = Live
    BY <2>1 DEF Executed, Executing, WorkOf, SlotOf, Live, Dividing
  <2>3. Registers' /\ Units' /\ UnitsApart' /\ DividerHolds' /\ LiveIsExecuting'
    BY <2>1, <2>2 DEF IInv, Registers, Units, UnitsApart, DividerHolds, LiveIsExecuting
  <2>4. ReadyIsIssued' /\ AfterFlush' /\ BusyExact' /\ Apart'
    BY <2>1 DEF IInv, ReadyIsIssued, AfterFlush, BusyExact, Apart
  <2> QED BY <2>3, <2>4 DEF IInv
<1> QED BY <1>1, <1>2

\* A cycle, with or without a flush, keeps every result on its way to its entry.
THEOREM Invariant == MCSpec => []IInv
BY InitInv, NextInv, PTL DEF MCSpec

\* Every register and unit keeps its type, and a unit is called with one entry at most.
THEOREM TypeCorrect == MCSpec => []TypeOK
<1>1. IInv => TypeOK
  <2> SUFFICES ASSUME IInv PROVE TypeOK
    OBVIOUS
  <2>1. Registers /\ Units /\ DividerHolds
    BY DEF IInv
  <2>2. /\ Single(alu) /\ Single(mulAlu) /\ Single(reduce) /\ Single(sum)
        /\ alu \subseteq Work /\ mulAlu \subseteq Work /\ reduce \subseteq Work /\ sum \subseteq Work
    BY <2>1 DEF Units, OfKind
  <2>3. /\ Single(divider.operands) /\ divider.operands \subseteq Work
        /\ divider.instrs \in Seq(Work) /\ divider.calls \in Nat
    <3>1. CASE divider.instrs = <<>>
      <4>1. <<>> \in Seq(Work)
        BY EmptySeq
      <4> QED BY <2>1, <3>1, <4>1 DEF DividerHolds, Single
    <3>2. CASE divider.instrs # <<>>
      <4>1. PICK d \in Work : /\ divider.instrs = <<d>> /\ divider.calls = 1
                              /\ divider.operands \subseteq {d}
        BY <2>1, <3>2 DEF DividerHolds
      <4>2. <<d>> \in Seq(Work)
        OBVIOUS
      <4> QED BY <4>1, <4>2 DEF Single
    <3> QED BY <3>1, <3>2
  <2>4. Single(divider.loaded) /\ divider.loaded \subseteq Work /\ divider.left \in 0 .. MaxSteps
    BY <2>1 DEF DividerHolds, OfKind
  <2>5. \A unit \in {alu, mulAlu, reduce, sum, divider.operands, divider.loaded} :
          unit \subseteq Work /\ Cardinality(unit) <= 1
    BY <2>2, <2>3, <2>4, SingleIsSmall
  <2>6. {speculating, flush, divBusy, epoch} \subseteq BOOLEAN
    BY <2>1 DEF Registers
  <2> QED BY <2>1, <2>3, <2>4, <2>5, <2>6 DEF TypeOK, Registers
<1> QED BY <1>1, Invariant, PTL

\* Whatever is flushed, a unit's result reaches the entry it was computed for, which waits.
THEOREM ResultsArrive == MCSpec => []ResultsReachTheirEntries
<1>1. IInv => ResultsReachTheirEntries
  BY DeliveredIsLive DEF ResultsReachTheirEntries
<1> QED BY <1>1, Invariant, PTL

\* An instruction between issue and result is in one unit, neither dropped nor doubled.
THEOREM OneUnit == MCSpec => []IssuedIsInOneUnit
<1>1. IInv => IssuedIsInOneUnit
  <2> SUFFICES ASSUME IInv, NEW i \in Executing PROVE Holders(WorkOf(i)) = 1
    BY DEF IssuedIsInOneUnit
  <2>1. PICK w : w = WorkOf(i)
    OBVIOUS
  <2>2. w \in Live
    BY <2>1 DEF IInv, LiveIsExecuting, Executed
  <2>3. w \in alu \/ w \in mulAlu \/ w \in reduce \/ w \in sum \/ w \in Dividing
    BY <2>2 DEF Live
  <2> DEFINE units == {k \in 1 .. 4 : w \in <<alu, mulAlu, reduce, sum>>[k]}
             places == {k \in DOMAIN divider.instrs : divider.instrs[k] = w}
  <2>4. units = {k \in 1 .. 4 : \/ k = 1 /\ w \in alu
                                \/ k = 2 /\ w \in mulAlu
                                \/ k = 3 /\ w \in reduce
                                \/ k = 4 /\ w \in sum}
    <3>1. /\ <<alu, mulAlu, reduce, sum>>[1] = alu
          /\ <<alu, mulAlu, reduce, sum>>[2] = mulAlu
          /\ <<alu, mulAlu, reduce, sum>>[3] = reduce
          /\ <<alu, mulAlu, reduce, sum>>[4] = sum
      OBVIOUS
    <3>2. 1 .. 4 = {1, 2, 3, 4}
      OBVIOUS
    <3> QED BY <3>1, <3>2
  <2>5. /\ w \in alu => w \notin mulAlu /\ w \notin reduce /\ w \notin sum /\ w \notin Dividing
        /\ w \in mulAlu => w \notin reduce /\ w \notin sum /\ w \notin Dividing
        /\ w \in reduce => w \notin sum /\ w \notin Dividing
        /\ w \in sum => w \notin Dividing
    BY DividingIs DEF IInv, Units, UnitsApart, OfKind
  <2>6. places = IF w \in Dividing THEN {1} ELSE {}
    <3>1. CASE divider.instrs = <<>>
      BY <3>1 DEF Dividing
    <3>2. CASE divider.instrs # <<>>
      <4>1. PICK d : divider.instrs = <<d>>
        BY <3>2 DEF IInv, DividerHolds
      <4> QED BY <4>1 DEF Dividing
    <3> QED BY <3>1, <3>2
  <2>7. CASE w \in Dividing
    <3>1. units = {} /\ places = {1}
      BY <2>4, <2>5, <2>6, <2>7
    <3>2. Cardinality(units) = 0 /\ Cardinality(places) = 1
      BY <3>1, FS_EmptySet, FS_Singleton
    <3> QED BY <2>1, <3>2 DEF Holders
  <2>8. CASE w \notin Dividing
    <3>1. PICK k : units = {k}
      BY <2>3, <2>4, <2>5, <2>8
    <3>2. places = {}
      BY <2>6, <2>8
    <3>3. Cardinality(units) = 1 /\ Cardinality(places) = 0
      BY <3>1, <3>2, FS_EmptySet, FS_Singleton
    <3> QED BY <2>1, <3>3 DEF Holders
  <2> QED BY <2>7, <2>8
<1> QED BY <1>1, Invariant, PTL

\* A division answers with the quotient of its own operands, however long each one takes.
THEOREM OwnOperands == MCSpec => []DivisionsKeepTheirOperands
<1>1. IInv => DivisionsKeepTheirOperands
  <2> SUFFICES ASSUME IInv, Finishes, NEW w \in FinishedDivision PROVE divider.loaded = {w}
    BY DEF DivisionsKeepTheirOperands
  <2>1. divider.instrs # <<>> /\ w = Head(divider.instrs)
    BY DEF FinishedDivision
  <2>2. PICK d : /\ divider.instrs = <<d>>
                 /\ divider.operands = {d} \/ divider.loaded = {d}
    BY <2>1 DEF IInv, DividerHolds
  <2>3. divider.operands = {}
    BY DEF Finishes
  <2> QED BY <2>1, <2>2, <2>3
<1> QED BY <1>1, Invariant, PTL

\* The busy flag, which an issue, a result and a flush all write, is exact.
THEOREM BusyIsExact == MCSpec => []BusyTracksDivision
<1>1. IInv => BusyTracksDivision
  <2> SUFFICES ASSUME IInv PROVE BusyTracksDivision
    OBVIOUS
  <2>1. (\E i \in Executing : window[i].op = "div") <=> \E w \in Live : w.op = "div"
    BY WorkIs DEF IInv, LiveIsExecuting, Executed
  <2>2. (\E w \in Live : w.op = "div") <=> (\E w \in mulAlu : w.op = "div") \/ divider.instrs # <<>>
    <3>1. CASE flush
      BY <3>1 DEF Live, IInv, AfterFlush
    <3>2. CASE ~flush
      <4>1. Live = alu \cup mulAlu \cup reduce \cup sum \cup Dividing
        BY <3>2 DEF Live
      <4>2. \A w \in alu \cup reduce \cup sum : w.op # "div"
        BY DEF IInv, Units, OfKind
      <4>3. (\E w \in Dividing : w.op = "div") <=> divider.instrs # <<>>
        BY DividingIs DEF IInv, OfKind
      <4> QED BY <4>1, <4>2, <4>3
    <3> QED BY <3>1, <3>2
  <2> QED BY <2>1, <2>2 DEF IInv, BusyExact, BusyTracksDivision
<1> QED BY <1>1, Invariant, PTL

=============================================================================
