--------------------------- MODULE Frontend_proofs ---------------------------
(***************************************************************************)
(* Frontend for every program, every depth of the active list and every    *)
(* predictor: the order of retirement is the program's.                    *)
(*                                                                         *)
(* The invariant behind it is the path of prediction: each entry of the    *)
(* active list is where the one before it was predicted to lead, and the   *)
(* PC, unless the fetcher is stalled, is where the last one leads.  What   *)
(* it says of an entry depends on its PC and its prediction only, which no *)
(* unit changes.                                                           *)
(***************************************************************************)
EXTENDS Frontend, SequenceTheorems, TLAPS

\* Where an entry was predicted to lead.
PredictedPC(e) ==
  IF Kind(e.pc) = "branch" /\ e.predict THEN program[e.pc].target ELSE Following(e.pc)

IsBranch(e) == Kind(e.pc) = "branch"

\* The decoder is called with the PC, and not while the fetcher is stalled.
PortIsPC ==
  /\ port \in {<<>>, <<pc>>}
  /\ stalled => port = <<>>

\* The entries in flight are consecutive on the path of prediction, which ends at the PC.
PathPredicted ==
  /\ \A i \in DOMAIN activeList : i + 1 \in DOMAIN activeList =>
       activeList[i + 1].pc = PredictedPC(activeList[i])
  /\ activeList # <<>> /\ ~stalled => pc = PredictedPC(activeList[Len(activeList)])

IInv == TypeOK /\ PortIsPC /\ StallTracksJump /\ OneBranchInFlight /\ PathPredicted

-----------------------------------------------------------------------------
(* Addresses and instructions. *)

LEMMA FollowingIsAddress ==
  ASSUME NEW a \in Address
  PROVE  Following(a) \in Address
BY WordsAssumption DEF Address, Following

\* An offset is added to the PC and the sum wraps: it is the target the offset was made for.
LEMMA OffsetLeadsToTarget ==
  ASSUME NEW a \in Address, NEW t \in Address
  PROVE  (a + (t + Words - a)) % Words = t
<1>1. a \in Int /\ t \in 0 .. Words - 1 /\ Words \in Nat \ {0}
  BY WordsAssumption DEF Address
<1>2. a + (t + Words - a) = t + Words
  BY <1>1
<1>3. (t + Words) % Words = t
  BY <1>1
<1> QED BY <1>2, <1>3

LEMMA InstructionAt ==
  ASSUME TypeOK, NEW a \in Address
  PROVE  /\ Kind(a) \in {"plain", "branch", "jal", "jalr", "halt"}
         /\ program[a].target \in Address
<1>1. program \in [Address -> Instruction]
  BY ProgramsAssumption DEF TypeOK
<1>2. program[a] \in Instruction
  BY <1>1
<1> QED BY <1>2 DEF Instruction, Kind

-----------------------------------------------------------------------------
(* One cycle. *)

\* How many entries retire.
Shift == IF Retires THEN 1 ELSE 0

\* What a cycle makes of the active list: what is left of it keeps its PCs and predictions.
LEMMA ListStep ==
  ASSUME TypeOK, Next
  PROVE  /\ activeList' \in Seq(Entry) /\ Len(activeList') <= ActiveListDepth
         /\ FlushRecover => activeList' = <<>>
         /\ ~FlushRecover =>
              /\ Shift <= Len(activeList)
              /\ \A i \in 1 .. Len(activeList) - Shift :
                   /\ activeList'[i].pc = activeList[i + Shift].pc
                   /\ activeList'[i].predict = activeList[i + Shift].predict
              /\ Accepts => /\ Len(activeList') = Len(activeList) - Shift + 1
                            /\ activeList'[Len(activeList) - Shift + 1] = NewEntry
              /\ ~Accepts => Len(activeList') = Len(activeList) - Shift
<1>s. Shift \in {0, 1} /\ Shift \in Nat /\ (Shift = 1 <=> Retires)
  BY DEF Shift
<1>0. PICK done \in SUBSET Unfinished, taken \in BOOLEAN, target \in Address :
        Cycle(done, taken, target)
  BY DEF Next
<1> DEFINE finished == Finished(done, taken, target)
           kept == IF Retires THEN Tail(finished) ELSE finished
<1>1. /\ activeList \in Seq(Entry) /\ Len(activeList) \in Nat /\ Len(activeList) <= ActiveListDepth
      /\ \A i \in 1 .. Len(activeList) : activeList[i] \in Entry
      /\ ActiveListDepth \in Nat
  BY DepthAssumption DEF TypeOK
<1>2. /\ finished \in Seq(Entry) /\ Len(finished) = Len(activeList)
      /\ \A i \in 1 .. Len(activeList) : /\ finished[i].pc = activeList[i].pc
                                         /\ finished[i].predict = activeList[i].predict
  <2>1. finished = [i \in 1 .. Len(activeList) |->
                     IF i \in done
                       THEN [activeList[i] EXCEPT
                               !.ready = TRUE,
                               !.actual = Kind(activeList[i].pc) = "branch" /\ taken,
                               !.target = IF Kind(activeList[i].pc) = "jalr" THEN target ELSE @]
                       ELSE activeList[i]]
    BY <1>1 DEF Finished
  <2>2. \A i \in 1 .. Len(activeList) :
          /\ finished[i] \in Entry
          /\ finished[i].pc = activeList[i].pc /\ finished[i].predict = activeList[i].predict
    <3> SUFFICES ASSUME NEW i \in 1 .. Len(activeList)
                 PROVE  /\ finished[i] \in Entry
                        /\ finished[i].pc = activeList[i].pc
                        /\ finished[i].predict = activeList[i].predict
      OBVIOUS
    <3>1. activeList[i] \in Entry
      BY <1>1
    <3>2. (Kind(activeList[i].pc) = "branch" /\ taken) \in BOOLEAN
      OBVIOUS
    <3> HIDE DEF finished
    <3> QED BY <2>1, <3>1, <3>2 DEF Entry
  <2>3. \A i \in 1 .. Len(activeList) : finished[i] \in Entry
    BY <2>2
  <2> HIDE DEF finished
  <2>4. finished = [i \in 1 .. Len(activeList) |-> finished[i]]
    BY <2>1
  <2>5. finished \in Seq(Entry)
    BY <2>3, <2>4, <1>1
  <2>6. DOMAIN finished = 1 .. Len(activeList)
    BY <2>1
  <2>7. Len(finished) = Len(activeList)
    BY <2>5, <2>6, <1>1
  <2> QED BY <2>2, <2>5, <2>7
<1>3. Retires => Len(activeList) >= 1
  BY <1>1 DEF Retires
<1> HIDE DEF finished
<1>4. /\ kept \in Seq(Entry) /\ Len(kept) = Len(activeList) - Shift
      /\ \A i \in 1 .. Len(activeList) - Shift : kept[i] = finished[i + Shift]
  <2>1. CASE Retires
    <3>1. finished # <<>>
      BY <1>s, <1>1, <1>2, <1>3, <2>1
    <3>2. /\ Tail(finished) \in Seq(Entry) /\ Len(Tail(finished)) = Len(finished) - 1
          /\ \A i \in 1 .. Len(finished) - 1 : Tail(finished)[i] = finished[i + 1]
      BY <1>s, <1>2, <3>1
    <3> QED BY <1>s, <2>1, <3>2, <1>2
  <2>2. CASE ~Retires
    BY <1>s, <2>2, <1>2, <1>1
  <2> QED BY <1>s, <2>1, <2>2
<1>5. Accepts => NewEntry \in Entry
  <2> SUFFICES ASSUME Accepts PROVE NewEntry \in Entry
    OBVIOUS
  <2>1. port[1] \in Address
    BY DEF TypeOK, Accepts
  <2>2. program[port[1]].target \in Address
    BY <1>s, <2>1, InstructionAt
  <2>3. /\ (Kind(port[1]) = "branch" /\ Predict(port[1])) \in BOOLEAN
        /\ (Kind(port[1]) = "halt") \in BOOLEAN
    OBVIOUS
  <2> QED BY <1>s, <2>1, <2>2, <2>3 DEF NewEntry, Entry
<1>6. activeList' = IF FlushRecover THEN <<>> ELSE IF Accepts THEN Append(kept, NewEntry) ELSE kept
  BY <1>s, <1>0 DEF Cycle, ActiveListBuild, finished
<1>7. Accepts => Len(activeList) < ActiveListDepth
  BY DEF Accepts
<1> HIDE DEF kept
<1>8. CASE FlushRecover
  BY <1>s, <1>6, <1>8, <1>1
<1>9. CASE ~FlushRecover /\ Accepts
  <2>1. activeList' = Append(kept, NewEntry)
    BY <1>s, <1>6, <1>9
  <2>2. /\ activeList' \in Seq(Entry) /\ Len(activeList') = Len(activeList) - Shift + 1
        /\ activeList'[Len(activeList) - Shift + 1] = NewEntry
        /\ \A i \in 1 .. Len(activeList) - Shift : activeList'[i] = kept[i]
    BY <1>s, <2>1, <1>1, <1>4, <1>5, <1>9
  <2>3. Shift <= Len(activeList)
    BY <1>s, <1>1, <1>3
  <2>4. Len(activeList') <= ActiveListDepth
    BY <1>s, <2>2, <1>1, <1>7, <1>9
  <2>5. \A i \in 1 .. Len(activeList) - Shift : i + Shift \in 1 .. Len(activeList)
    BY <1>s, <1>1
  <2> QED BY <1>s, <2>2, <2>3, <2>4, <2>5, <1>2, <1>4, <1>9
<1>10. CASE ~FlushRecover /\ ~Accepts
  <2>1. activeList' = kept
    BY <1>s, <1>6, <1>10
  <2>3. Shift <= Len(activeList)
    BY <1>s, <1>1, <1>3
  <2>4. Len(activeList') <= ActiveListDepth
    BY <1>s, <2>1, <1>1, <1>4
  <2>5. \A i \in 1 .. Len(activeList) - Shift : i + Shift \in 1 .. Len(activeList)
    BY <1>s, <1>1
  <2> QED BY <1>s, <2>1, <2>3, <2>4, <2>5, <1>2, <1>4, <1>10
<1> QED BY <1>s, <1>8, <1>9, <1>10

\* A jump or the terminator that retires has nothing behind it.
LEMMA JumpRetiresAlone ==
  ASSUME IInv, OldestIs({"jal", "jalr", "halt"})
  PROVE  /\ Len(activeList) = 1 /\ port = <<>>
         /\ ~Accepts /\ ~FlushRecover
<1>1. activeList # <<>> /\ activeList \in Seq(Entry)
  BY DEF IInv, TypeOK, OldestIs, Retires
<1>2. 1 \in DOMAIN activeList /\ JumpOrHalt(activeList[1])
  BY <1>1 DEF OldestIs, Oldest, JumpOrHalt
<1>3. 1 = Len(activeList) /\ port = <<>>
  BY <1>2 DEF IInv, StallTracksJump
<1> QED BY <1>3 DEF Accepts, FlushRecover, Mispredict, OldestIs

\* Where the fetcher goes, when nothing redirects it, is where the decoded instruction is
\* predicted to lead.
LEMMA FetchStep ==
  ASSUME IInv, FetcherBuild
  PROVE  /\ pc' \in Address
         /\ stalled' = Stalls
         /\ port' = IF Stalls THEN <<>> ELSE <<pc'>>
         /\ FlushFetcher => pc' = FlushPC
         /\ ~FlushFetcher /\ ~Accepts => pc' = pc
         /\ ~FlushFetcher /\ Accepts /\ ~Stalls => pc' = PredictedPC(NewEntry)
<1>1. TypeOK /\ pc \in Address /\ PortIsPC
  BY DEF IInv, TypeOK
<1>2. Accepts => port = <<pc>> /\ port[1] = pc
  BY <1>1 DEF Accepts, PortIsPC
<1>3. pc' = NextPC
  BY DEF FetcherBuild
<1>4. FlushFetcher => FlushPC \in Address
  <2> SUFFICES ASSUME FlushFetcher PROVE FlushPC \in Address
    OBVIOUS
  <2>1. Oldest \in Entry
    BY <1>1 DEF TypeOK, FlushFetcher, Mispredict, OldestIs, Retires, Oldest
  <2>2. Oldest.pc \in Address /\ Oldest.target \in Address
    BY <2>1 DEF Entry
  <2>3. program[Oldest.pc].target \in Address /\ Following(Oldest.pc) \in Address
    BY <1>1, <2>2, InstructionAt, FollowingIsAddress
  <2> QED BY <2>2, <2>3 DEF FlushPC
<1>5. ASSUME ~FlushFetcher, Accepts, ~Stalls
      PROVE  pc' = PredictedPC(NewEntry) /\ pc' \in Address
  <2>1. NewEntry.pc = pc /\ NewEntry.predict = (Kind(pc) = "branch" /\ Predict(pc))
    BY <1>2, <1>5 DEF NewEntry
  <2>2. program[pc].target \in Address /\ Following(pc) \in Address
    BY <1>1, InstructionAt, FollowingIsAddress
  <2>3. pc' = IF Kind(pc) = "branch" THEN (pc + BranchOffset) % Words ELSE Following(pc)
    BY <1>2, <1>3, <1>5 DEF NextPC
  <2>4. CASE Kind(pc) = "branch" /\ Predict(pc)
    <3>1. BranchOffset = program[pc].target + Words - pc
      BY <2>4, <1>2, <1>5 DEF BranchOffset
    <3>2. (pc + BranchOffset) % Words = program[pc].target
      BY <3>1, <1>1, <2>2, OffsetLeadsToTarget
    <3> QED BY <2>1, <2>2, <2>3, <2>4, <3>2 DEF PredictedPC
  <2>5. CASE Kind(pc) = "branch" /\ ~Predict(pc)
    <3>1. BranchOffset = 1
      BY <2>5, <1>2, <1>5 DEF BranchOffset
    <3>2. (pc + BranchOffset) % Words = Following(pc)
      BY <3>1 DEF Following
    <3> QED BY <2>1, <2>2, <2>3, <2>5, <3>2 DEF PredictedPC
  <2>6. CASE Kind(pc) # "branch"
    BY <2>1, <2>2, <2>3, <2>6 DEF PredictedPC
  <2> QED BY <2>4, <2>5, <2>6
<1>6. ~FlushFetcher /\ (Stalls \/ ~Accepts) => pc' = pc
  BY <1>3 DEF NextPC
<1>7. FlushFetcher => pc' = FlushPC
  BY <1>3 DEF NextPC
<1>8. pc' \in Address
  BY <1>1, <1>4, <1>5, <1>6, <1>7
<1>9. stalled' = Stalls /\ port' = IF Stalls THEN <<>> ELSE <<pc'>>
  BY <1>3 DEF FetcherBuild
<1> QED BY <1>5, <1>6, <1>7, <1>8, <1>9

LEMMA PredictorStep ==
  ASSUME TypeOK, PredictorBuild
  PROVE  states' \in [0 .. PredictorSize - 1 -> StronglyB .. StronglyNo]
<1>1. states \in [0 .. PredictorSize - 1 -> StronglyB .. StronglyNo]
  BY DEF TypeOK
<1>2. \A i \in 0 .. PredictorSize - 1 : Trained(states[i]) \in StronglyB .. StronglyNo
  BY <1>1 DEF Trained, StronglyB, StronglyNo
<1>3. CASE OldestIs({"branch"}) /\ PredictorKind = "binary"
  <2>1. states' = [states EXCEPT ![Index(Oldest.pc)] = Trained(@)]
    BY <1>3 DEF PredictorBuild
  <2>2. states' = [i \in 0 .. PredictorSize - 1 |->
                    IF i = Index(Oldest.pc) THEN Trained(states[i]) ELSE states[i]]
    BY <2>1, <1>1
  <2> QED BY <2>2, <1>1, <1>2
<1>4. CASE ~(OldestIs({"branch"}) /\ PredictorKind = "binary")
  BY <1>1, <1>4 DEF PredictorBuild
<1> QED BY <1>3, <1>4

-----------------------------------------------------------------------------
(* The invariant is inductive. *)

LEMMA InitHolds == Init => IInv
<1> SUFFICES ASSUME Init PROVE IInv
  OBVIOUS
<1>1. 0 \in Address
  BY WordsAssumption DEF Address
<1>2. states \in [0 .. PredictorSize - 1 -> StronglyB .. StronglyNo]
  BY DEF Init, StronglyB, WeaklyNo, StronglyNo
<1>3. activeList = <<>> /\ activeList \in Seq(Entry) /\ Len(activeList) = 0
      /\ DOMAIN activeList = {}
  BY DEF Init
<1>4. TypeOK
  <2>1. {stalled, speculating, halted} \subseteq BOOLEAN /\ port \in {<<>>} /\ pc \in Address
    BY <1>1 DEF Init
  <2> QED BY <2>1, <1>2, <1>3, DepthAssumption DEF Init, TypeOK
<1>5. PortIsPC /\ StallTracksJump /\ OneBranchInFlight /\ PathPredicted
  BY <1>3 DEF Init, PortIsPC, StallTracksJump, OneBranchInFlight, PathPredicted
<1> QED BY <1>4, <1>5 DEF IInv

\* What the parts of the invariant need to know of a cycle, whatever commit does in it:
\* where an entry of the next active list comes from.
LEMMA EntriesStep ==
  ASSUME IInv, Next,
         NEW i \in DOMAIN activeList'
  PROVE  /\ ~FlushRecover /\ ~OldestIs({"jal", "jalr", "halt"}) /\ ~FlushFetcher
         /\ i \in Nat \ {0} /\ Len(activeList) \in Nat /\ Len(activeList') \in Nat
         /\ \/ /\ i \in 1 .. Len(activeList) - Shift /\ i + Shift \in DOMAIN activeList
               /\ activeList'[i].pc = activeList[i + Shift].pc
               /\ activeList'[i].predict = activeList[i + Shift].predict
            \/ /\ Accepts /\ i = Len(activeList) - Shift + 1
               /\ activeList'[i] = NewEntry
         /\ Len(activeList') = IF Accepts THEN Len(activeList) - Shift + 1 ELSE Len(activeList) - Shift
         /\ DOMAIN activeList' = 1 .. Len(activeList')
         /\ DOMAIN activeList = 1 .. Len(activeList)
<1>0. Shift \in {0, 1} /\ Shift \in Nat /\ (Shift = 1 <=> Retires)
  BY DEF Shift
<1>1. TypeOK /\ activeList \in Seq(Entry) /\ Len(activeList) \in Nat
      /\ DOMAIN activeList = 1 .. Len(activeList)
  BY DEF IInv, TypeOK
<1>2. /\ activeList' \in Seq(Entry) /\ Len(activeList') \in Nat
      /\ DOMAIN activeList' = 1 .. Len(activeList')
  BY <1>1, ListStep
<1>3. ~FlushRecover
  BY <1>1, <1>2, ListStep
<1>4. /\ \A k \in 1 .. Len(activeList) - Shift :
           /\ activeList'[k].pc = activeList[k + Shift].pc
           /\ activeList'[k].predict = activeList[k + Shift].predict
      /\ Accepts => /\ Len(activeList') = Len(activeList) - Shift + 1
                    /\ activeList'[Len(activeList) - Shift + 1] = NewEntry
      /\ ~Accepts => Len(activeList') = Len(activeList) - Shift
  BY <1>1, <1>3, ListStep
<1>5. ~OldestIs({"jal", "jalr", "halt"})
  <2> SUFFICES ASSUME OldestIs({"jal", "jalr", "halt"}) PROVE FALSE
    OBVIOUS
  <2>1. Len(activeList) = 1 /\ ~Accepts /\ Shift = 1
    <3>1. Retires
      BY DEF OldestIs
    <3> QED BY <3>1, <1>0, JumpRetiresAlone
  <2> QED BY <2>1, <1>2, <1>4
<1>6. ~FlushFetcher
  BY <1>3, <1>5 DEF FlushFetcher, FlushRecover, OldestIs
<1>7. \/ i \in 1 .. Len(activeList) - Shift /\ i + Shift \in DOMAIN activeList
      \/ Accepts /\ i = Len(activeList) - Shift + 1
  <2>1. /\ i \in Nat /\ 1 <= i /\ i <= Len(activeList') /\ Shift \in {0, 1}
        /\ Len(activeList) \in Nat
    BY <1>0, <1>1, <1>2
  <2>2. CASE Accepts
    <3>1. i <= Len(activeList) - Shift + 1
      BY <1>4, <2>1, <2>2
    <3> QED BY <1>1, <2>1, <2>2, <3>1
  <2>3. CASE ~Accepts
    <3>1. i <= Len(activeList) - Shift
      BY <1>4, <2>1, <2>3
    <3> QED BY <1>1, <2>1, <3>1
  <2> QED BY <2>2, <2>3
<1> QED BY <1>1, <1>2, <1>3, <1>4, <1>5, <1>6, <1>7

\* An entry that stalls the fetcher is in flight if and only if it was before and did not
\* retire, or has just been decoded.
LEMMA StallStep ==
  ASSUME IInv, Next
  PROVE  StallTracksJump'
<1>0. Shift \in {0, 1} /\ Shift \in Nat /\ (Shift = 1 <=> Retires)
  BY DEF Shift
<1>1. /\ TypeOK /\ PortIsPC /\ StallTracksJump /\ ~halted /\ FetcherBuild
      /\ program' = program /\ (halted' <=> OldestIs({"halt"}))
      /\ activeList \in Seq(Entry) /\ Len(activeList) \in Nat
      /\ DOMAIN activeList = 1 .. Len(activeList)
  BY DEF IInv, TypeOK, Next, Cycle
<1>2. stalled' = Stalls /\ port' = IF Stalls THEN <<>> ELSE <<pc'>>
  BY FetchStep, <1>1
<1>3. ASSUME NEW i \in DOMAIN activeList', JumpOrHalt(activeList[i])'
      PROVE  i = Len(activeList') /\ stalled' /\ port' = <<>>
  <2>1. Kind(activeList'[i].pc) \in {"jal", "jalr", "halt"}
    BY <1>1, <1>3 DEF JumpOrHalt, Kind
  <2>2. CASE i \in 1 .. Len(activeList) - Shift /\ i + Shift \in DOMAIN activeList
             /\ activeList'[i].pc = activeList[i + Shift].pc
    <3>1. JumpOrHalt(activeList[i + Shift])
      BY <2>1, <2>2 DEF JumpOrHalt
    <3>2. i + Shift = Len(activeList) /\ port = <<>> /\ stalled
      BY <1>1, <2>2, <3>1 DEF StallTracksJump
    <3>3. ~Accepts /\ ~FlushFetcher /\ Stalls
      BY <3>2, <1>0, EntriesStep DEF Accepts, Stalls
    <3>4. i = Len(activeList')
      BY <3>2, <3>3, <1>0, EntriesStep
    <3> QED BY <1>2, <3>3, <3>4
  <2>3. CASE Accepts /\ i = Len(activeList) - Shift + 1 /\ activeList'[i] = NewEntry
    <3>1. AcceptsKind({"jal", "jalr", "halt"})
      BY <2>1, <2>3 DEF NewEntry, AcceptsKind
    <3>2. ~FlushFetcher /\ i = Len(activeList')
      BY <2>3, <1>0, EntriesStep
    <3> QED BY <1>2, <3>1, <3>2 DEF Stalls
  <2> QED BY <1>0, <2>2, <2>3, EntriesStep
<1>4. ASSUME ~halted', stalled'
      PROVE  \E i \in DOMAIN activeList' : JumpOrHalt(activeList[i])'
  <2>1. ~FlushFetcher /\ ~FlushRecover
    BY <1>2, <1>4 DEF Stalls, FlushFetcher, FlushRecover
  <2>2. ~OldestIs({"jal", "jalr", "halt"})
    BY <1>1, <1>4, <2>1 DEF FlushFetcher, OldestIs
  <2>3. /\ \A k \in 1 .. Len(activeList) - Shift : activeList'[k].pc = activeList[k + Shift].pc
        /\ Accepts => /\ Len(activeList') = Len(activeList) - Shift + 1
                      /\ activeList'[Len(activeList) - Shift + 1] = NewEntry
        /\ ~Accepts => Len(activeList') = Len(activeList) - Shift
        /\ Shift <= Len(activeList)
        /\ DOMAIN activeList' = 1 .. Len(activeList')
    <3>1. activeList' \in Seq(Entry)
      BY <1>0, <1>1, ListStep
    <3>2. DOMAIN activeList' = 1 .. Len(activeList')
      BY <3>1
    <3> QED BY <3>2, <1>0, <1>1, <2>1, ListStep
  <2>4. CASE stalled
    <3>1. PICK k \in DOMAIN activeList : JumpOrHalt(activeList[k])
      BY <1>1, <2>4 DEF StallTracksJump
    <3>2. k = Len(activeList) /\ ~Accepts
      BY <1>1, <2>4, <3>1 DEF StallTracksJump, PortIsPC, Accepts
    <3>3. k = 1 => ~Retires
      BY <2>2, <3>1 DEF OldestIs, Oldest, JumpOrHalt
    <3>4. k - Shift \in DOMAIN activeList' /\ k - Shift \in 1 .. Len(activeList) - Shift /\ (k - Shift) + Shift = k
      BY <1>0, <1>1, <2>3, <3>1, <3>2, <3>3
    <3>5. activeList'[k - Shift].pc = activeList[k].pc
      BY <2>3, <3>4
    <3> QED BY <1>1, <3>1, <3>4, <3>5 DEF JumpOrHalt, Kind
  <2>5. CASE AcceptsKind({"jal", "jalr", "halt"})
    <3>1. Accepts /\ Kind(NewEntry.pc) \in {"jal", "jalr", "halt"}
      BY <2>5 DEF AcceptsKind, NewEntry
    <3>2. Len(activeList) - Shift + 1 \in DOMAIN activeList'
      BY <1>0, <1>1, <2>3, <3>1
    <3> QED BY <1>1, <2>3, <3>1, <3>2 DEF JumpOrHalt, Kind
  <2> QED BY <1>2, <1>4, <2>4, <2>5 DEF Stalls
<1> QED BY <1>3, <1>4 DEF StallTracksJump

\* A branch is decoded only while none is in flight, and speculating ends when it leaves.
LEMMA BranchStep ==
  ASSUME IInv, Next
  PROVE  OneBranchInFlight'
<1>0. Shift \in {0, 1} /\ Shift \in Nat /\ (Shift = 1 <=> Retires)
  BY DEF Shift
<1>1. /\ OneBranchInFlight /\ program' = program
      /\ speculating' = ((speculating \/ AcceptsKind({"branch"})) /\ ~OldestIs({"branch"}))
      /\ DOMAIN activeList = 1 .. Len(activeList)
  BY DEF IInv, TypeOK, Next, Cycle, SpeculationStateBuild
<1>2. ASSUME Accepts, IsBranch(NewEntry)
      PROVE  AcceptsKind({"branch"}) /\ \A k \in DOMAIN activeList : ~IsBranch(activeList[k])
  BY <1>1, <1>2 DEF Accepts, AcceptsKind, NewEntry, IsBranch, OneBranchInFlight
<1>3. \A k \in DOMAIN activeList : IsBranch(activeList[k]) =>
        speculating /\ (OldestIs({"branch"}) => k = 1)
  <2> SUFFICES ASSUME NEW k \in DOMAIN activeList, IsBranch(activeList[k])
               PROVE  speculating /\ (OldestIs({"branch"}) => k = 1)
    OBVIOUS
  <2>1. speculating
    BY <1>1 DEF OneBranchInFlight, IsBranch
  <2>2. ASSUME OldestIs({"branch"}) PROVE k = 1
    <3>1. 1 \in DOMAIN activeList /\ Kind(activeList[1].pc) = "branch"
      BY <1>1, <2>2 DEF OldestIs, Oldest, Retires
    <3> QED BY <1>1, <3>1 DEF OneBranchInFlight, IsBranch
  <2> QED BY <2>1, <2>2
<1>4. ASSUME NEW i \in DOMAIN activeList', Kind(activeList'[i].pc) = "branch"
      PROVE  /\ speculating'
             /\ \/ i + Shift \in DOMAIN activeList /\ IsBranch(activeList[i + Shift])
                \/ Accepts /\ IsBranch(NewEntry) /\ i = Len(activeList) - Shift + 1
  <2>1. /\ i \in Nat \ {0}
        /\ \/ i + Shift \in DOMAIN activeList /\ activeList'[i].pc = activeList[i + Shift].pc
           \/ Accepts /\ i = Len(activeList) - Shift + 1 /\ activeList'[i] = NewEntry
    BY EntriesStep
  <2>2. CASE i + Shift \in DOMAIN activeList /\ activeList'[i].pc = activeList[i + Shift].pc
    <3>1. IsBranch(activeList[i + Shift])
      BY <1>4, <2>2 DEF IsBranch
    <3>2. speculating /\ (OldestIs({"branch"}) => i + Shift = 1)
      BY <1>3, <2>2, <3>1
    <3>3. ~OldestIs({"branch"})
      <4> SUFFICES ASSUME OldestIs({"branch"}) PROVE FALSE
        OBVIOUS
      <4>1. Shift = 1
        BY <1>0 DEF OldestIs
      <4> QED BY <2>1, <3>2, <4>1
    <3> QED BY <1>1, <2>2, <3>1, <3>2, <3>3
  <2>3. CASE Accepts /\ i = Len(activeList) - Shift + 1 /\ activeList'[i] = NewEntry
    <3>1. IsBranch(NewEntry)
      BY <1>4, <2>3 DEF IsBranch
    <3>2. AcceptsKind({"branch"}) /\ ~OldestIs({"branch"})
      <4>1. AcceptsKind({"branch"}) /\ \A k \in DOMAIN activeList : ~IsBranch(activeList[k])
        BY <1>2, <2>3, <3>1
      <4>2. ASSUME OldestIs({"branch"}) PROVE FALSE
        <5>1. 1 \in DOMAIN activeList /\ Kind(activeList[1].pc) = "branch"
          BY <4>2, <1>1 DEF OldestIs, Oldest, Retires, IInv, TypeOK
        <5> QED BY <4>1, <5>1 DEF IsBranch
      <4> QED BY <4>1, <4>2
    <3> QED BY <1>1, <2>3, <3>1, <3>2
  <2> QED BY <2>1, <2>2, <2>3
<1>5. ASSUME NEW i \in DOMAIN activeList', NEW j \in DOMAIN activeList',
             Kind(activeList'[i].pc) = "branch", Kind(activeList'[j].pc) = "branch"
      PROVE  i = j /\ speculating'
  <2>1. /\ \/ i + Shift \in DOMAIN activeList /\ IsBranch(activeList[i + Shift])
           \/ Accepts /\ IsBranch(NewEntry) /\ i = Len(activeList) - Shift + 1
        /\ \/ j + Shift \in DOMAIN activeList /\ IsBranch(activeList[j + Shift])
           \/ Accepts /\ IsBranch(NewEntry) /\ j = Len(activeList) - Shift + 1
        /\ speculating'
    BY <1>4, <1>5
  <2>2. i \in Nat /\ j \in Nat
    BY EntriesStep
  <2>3. CASE Accepts /\ IsBranch(NewEntry)
    BY <1>2, <2>1, <2>3
  <2>4. CASE ~(Accepts /\ IsBranch(NewEntry))
    <3>1. i + Shift = j + Shift
      BY <1>1, <2>1, <2>4 DEF OneBranchInFlight, IsBranch
    <3> QED BY <1>0, <2>1, <2>2, <3>1
  <2> QED BY <2>3, <2>4
\* The bit stays only for a branch that stays, and is set for the one that is decoded.
<1>6. ASSUME speculating'
      PROVE  \E i \in DOMAIN activeList' : Kind(activeList'[i].pc) = "branch"
  <2>1. ~OldestIs({"branch"}) /\ (speculating \/ AcceptsKind({"branch"}))
    BY <1>1, <1>6
  <2>2. ~FlushRecover
    BY <2>1 DEF FlushRecover, Mispredict
  <2>3. /\ Shift <= Len(activeList)
        /\ \A i \in 1 .. Len(activeList) - Shift : activeList'[i].pc = activeList[i + Shift].pc
        /\ Accepts => /\ Len(activeList') = Len(activeList) - Shift + 1
                      /\ activeList'[Len(activeList) - Shift + 1] = NewEntry
        /\ ~Accepts => Len(activeList') = Len(activeList) - Shift
        /\ activeList' \in Seq(Entry) /\ activeList \in Seq(Entry)
    BY <2>2, ListStep DEF IInv, TypeOK
  <2>4. /\ Len(activeList) \in Nat
        /\ DOMAIN activeList' = 1 .. Len(activeList')
    BY <2>3
  <2>5. CASE AcceptsKind({"branch"})
    <3>1. Accepts /\ Kind(NewEntry.pc) = "branch"
      BY <2>5 DEF AcceptsKind, NewEntry
    <3>2. Len(activeList) - Shift + 1 \in DOMAIN activeList'
      BY <1>0, <2>3, <2>4, <3>1
    <3> QED BY <2>3, <3>1, <3>2
  <2>6. CASE speculating
    <3>1. PICK k \in DOMAIN activeList : Kind(activeList[k].pc) = "branch"
      BY <1>1, <2>6 DEF OneBranchInFlight
    <3>2. Shift = 1 => k # 1
      BY <1>0, <2>1, <3>1 DEF OldestIs, Oldest
    <3>3. k \in Nat /\ 1 <= k /\ k <= Len(activeList)
      BY <1>1, <2>4
    <3>4. k - Shift \in 1 .. Len(activeList) - Shift /\ (k - Shift) + Shift = k
      BY <1>0, <2>4, <3>2, <3>3
    <3>5. activeList'[k - Shift].pc = activeList[k].pc
      BY <2>3, <3>4
    <3>6. k - Shift \in DOMAIN activeList'
      BY <1>0, <2>3, <2>4, <3>4
    <3> QED BY <3>1, <3>5, <3>6
  <2> QED BY <2>1, <2>5, <2>6
<1>7. \A a : Kind(a)' = Kind(a)
  BY <1>1 DEF Kind
<1> QED BY <1>5, <1>6, <1>7 DEF OneBranchInFlight

\* The path of prediction grows by the decoded instruction and shrinks by the retired one.
LEMMA PathStep ==
  ASSUME IInv, Next
  PROVE  PathPredicted'
<1>0. Shift \in {0, 1} /\ Shift \in Nat /\ (Shift = 1 <=> Retires)
  BY DEF Shift
<1>1. /\ PathPredicted /\ PortIsPC /\ FetcherBuild /\ program' = program
      /\ activeList \in Seq(Entry) /\ Len(activeList) \in Nat
      /\ DOMAIN activeList = 1 .. Len(activeList)
  BY DEF IInv, TypeOK, Next, Cycle
<1>2. \A e : PredictedPC(e)' = PredictedPC(e)
  BY <1>1 DEF PredictedPC, Kind
<1>3. Accepts => ~stalled /\ NewEntry.pc = pc
  BY <1>1 DEF Accepts, PortIsPC, NewEntry
<1>4. \A d, e : d.pc = e.pc /\ d.predict = e.predict => PredictedPC(d) = PredictedPC(e)
  BY DEF PredictedPC
<1>5. ASSUME NEW i \in DOMAIN activeList', i + 1 \in DOMAIN activeList'
      PROVE  activeList'[i + 1].pc = PredictedPC(activeList'[i])
  <2>1. /\ i \in Nat \ {0} /\ i + 1 \in 1 .. Len(activeList')
        /\ Len(activeList') = IF Accepts THEN Len(activeList) - Shift + 1
                              ELSE Len(activeList) - Shift
    BY <1>5, EntriesStep
  <2>2. /\ i + Shift \in DOMAIN activeList
        /\ activeList'[i].pc = activeList[i + Shift].pc
        /\ activeList'[i].predict = activeList[i + Shift].predict
    <3>1. ~(i = Len(activeList) - Shift + 1)
      <4>1. Len(activeList) \in Nat /\ Shift \in Nat /\ Len(activeList') \in Nat /\ i \in Nat
        BY <1>0, <1>1, EntriesStep
      <4>2. i + 1 <= Len(activeList')
        BY <2>1, <4>1
      <4>3. CASE Accepts
        <5>1. Len(activeList') = Len(activeList) - Shift + 1
          BY <2>1, <4>3
        <5> QED BY <4>1, <4>2, <5>1
      <4>4. CASE ~Accepts
        <5>1. Len(activeList') = Len(activeList) - Shift
          BY <2>1, <4>4
        <5> QED BY <4>1, <4>2, <5>1
      <4> QED BY <4>3, <4>4
    <3> QED BY <3>1, EntriesStep
  <2>3. PredictedPC(activeList'[i]) = PredictedPC(activeList[i + Shift])
    BY <1>4, <2>2
  <2>4. CASE (i + 1) + Shift \in DOMAIN activeList
             /\ activeList'[i + 1].pc = activeList[(i + 1) + Shift].pc
    <3>1. (i + 1) + Shift = (i + Shift) + 1
      BY <1>0, <2>1
    <3>2. activeList[(i + Shift) + 1].pc = PredictedPC(activeList[i + Shift])
      BY <1>1, <2>2, <2>4, <3>1 DEF PathPredicted
    <3> QED BY <2>3, <2>4, <3>1, <3>2
  <2>5. CASE Accepts /\ i + 1 = Len(activeList) - Shift + 1 /\ activeList'[i + 1] = NewEntry
    <3>1. i + Shift = Len(activeList)
      BY <1>0, <1>1, <2>1, <2>5
    <3>2. activeList # <<>>
      BY <2>2
    <3>3. pc = PredictedPC(activeList[i + Shift])
      BY <1>1, <1>3, <2>5, <3>1, <3>2 DEF PathPredicted
    <3> QED BY <1>3, <2>3, <2>5, <3>3
  <2> QED BY <1>5, <2>4, <2>5, EntriesStep
<1>6. ASSUME activeList' # <<>>, ~stalled'
      PROVE  pc' = PredictedPC(activeList'[Len(activeList')])
  <2> DEFINE n == Len(activeList')
  <2>1. activeList' \in Seq(Entry)
    BY ListStep DEF IInv
  <2>2. n \in DOMAIN activeList'
    BY <1>6, <2>1
  <2>3. ~FlushFetcher /\ ~Stalls
    <3>1. stalled' = Stalls
      BY <1>1, FetchStep
    <3> QED BY <1>6, <2>2, <3>1, EntriesStep
  <2> HIDE DEF n
  <2>4. CASE Accepts
    <3>1. pc' = PredictedPC(NewEntry)
      BY <1>1, <2>3, <2>4, FetchStep
    <3>2. n = Len(activeList) - Shift + 1
      BY <2>2, <2>4, EntriesStep DEF n
    <3>3. activeList'[n] = NewEntry
      <4>1. ~(n \in 1 .. Len(activeList) - Shift)
        BY <1>0, <1>1, <3>2
      <4> QED BY <2>2, <4>1, EntriesStep
    <3> QED BY <3>1, <3>3 DEF n
  <2>5. CASE ~Accepts
    <3>1. pc' = pc /\ ~stalled
      BY <1>1, <2>3, <2>5, FetchStep DEF Stalls
    <3>2. /\ n + Shift \in DOMAIN activeList /\ n = Len(activeList) - Shift
          /\ activeList'[n].pc = activeList[n + Shift].pc
          /\ activeList'[n].predict = activeList[n + Shift].predict
      BY <2>2, <2>5, EntriesStep DEF n
    <3>3. n + Shift = Len(activeList) /\ activeList # <<>>
      BY <1>0, <1>1, <3>2
    <3>4. pc = PredictedPC(activeList[n + Shift])
      BY <1>1, <3>1, <3>3 DEF PathPredicted
    <3> QED BY <1>4, <3>1, <3>2, <3>4 DEF n
  <2> QED BY <2>4, <2>5
<1> QED BY <1>2, <1>5, <1>6 DEF PathPredicted

LEMMA NextHolds ==
  ASSUME IInv, [Next]_vars
  PROVE  IInv'
<1>1. CASE Next
  <2>1. PortIsPC' /\ pc' \in Address /\ stalled' \in BOOLEAN
        /\ port' \in {<<>>} \cup {<<a>> : a \in Address'}
    <3>1. FetcherBuild
      BY <1>1 DEF Next, Cycle
    <3>2. pc' \in Address /\ stalled' = Stalls /\ port' = IF Stalls THEN <<>> ELSE <<pc'>>
      BY <3>1, FetchStep
    <3>3. Stalls \in BOOLEAN
      BY DEF Stalls
    <3> QED BY <3>2, <3>3 DEF PortIsPC, Address
  <2>2. states' \in [0 .. PredictorSize - 1 -> StronglyB .. StronglyNo]
    <3>1. PredictorBuild
      BY <1>1 DEF Next, Cycle
    <3> QED BY <3>1, PredictorStep DEF IInv
  <2>3. speculating' \in BOOLEAN /\ halted' \in BOOLEAN /\ program' = program
    BY <1>1 DEF Next, Cycle, SpeculationStateBuild, OldestIs
  <2>4. activeList' \in Seq(Entry) /\ Len(activeList') <= ActiveListDepth
    BY <1>1, ListStep DEF IInv
  <2>5. TypeOK'
    <3>1. program' \in Programs
      BY <2>3 DEF IInv, TypeOK
    <3> QED BY <2>1, <2>2, <2>3, <2>4, <3>1 DEF TypeOK
  <2>6. StallTracksJump' /\ OneBranchInFlight' /\ PathPredicted'
    BY <1>1, StallStep, BranchStep, PathStep
  <2> QED BY <2>1, <2>5, <2>6 DEF IInv
<1>2. CASE UNCHANGED vars
  BY <1>2 DEF vars, IInv, TypeOK, PortIsPC, StallTracksJump, OneBranchInFlight, PathPredicted,
              Kind, JumpOrHalt, PredictedPC
<1> QED BY <1>1, <1>2

THEOREM Invariant == Spec => []IInv
<1>1. IInv /\ [Next]_vars => IInv'
  BY NextHolds
<1> QED BY <1>1, InitHolds, PTL DEF Spec

-----------------------------------------------------------------------------
(* What the invariant implies. *)

\* Registers keep their types, the decoder's port holds at most one call and the active list
\* stays within its depth.
THEOREM TypeCorrect == Spec => []TypeOK
<1>1. IInv => TypeOK
  BY DEF IInv
<1> QED BY <1>1, Invariant, PTL

\* FetcherImpl is stalled exactly while a jump or the terminator is in flight.
THEOREM StallIsExact == Spec => []StallTracksJump
<1>1. IInv => StallTracksJump
  BY DEF IInv
<1> QED BY <1>1, Invariant, PTL

\* speculation_state.py: the bit is set exactly while a branch is in flight, and decoder.py
\* never accepts a second one behind it.
THEOREM OneBranch == Spec => []OneBranchInFlight
<1>1. IInv => OneBranchInFlight
  BY DEF IInv
<1> QED BY <1>1, Invariant, PTL

\* One cycle retires the next instruction of the program or none.  The entry behind the
\* oldest, or else the PC, is where the oldest was predicted to lead (PathPredicted); commit
\* redirects the fetcher when that is not where it leads.
LEMMA ProgramOrderStep ==
  ASSUME IInv, Next
  PROVE  IF Retires THEN OldestIs({"halt"}) \/ CurrentPC' = Successor(Oldest)
         ELSE CurrentPC' = CurrentPC
<1>0. Shift \in {0, 1} /\ Shift \in Nat /\ (Shift = 1 <=> Retires)
  BY DEF Shift
<1>1. /\ PathPredicted /\ FetcherBuild /\ program' = program /\ ~halted
      /\ StallTracksJump
      /\ activeList \in Seq(Entry) /\ Len(activeList) \in Nat
      /\ activeList' \in Seq(Entry) /\ Len(activeList') \in Nat
      /\ DOMAIN activeList = 1 .. Len(activeList)
  <2>1. activeList' \in Seq(Entry)
    BY ListStep DEF IInv
  <2> QED BY <2>1 DEF IInv, TypeOK, Next, Cycle
<1>2. CASE FlushRecover
  <2>1. activeList' = <<>> /\ pc' = FlushPC
    BY <1>1, <1>2, ListStep, FetchStep DEF IInv, FlushRecover, FlushFetcher
  <2>2. Retires /\ Kind(Oldest.pc) = "branch" /\ FlushPC = Successor(Oldest)
    BY <1>2 DEF FlushRecover, Mispredict, OldestIs, FlushPC, Successor
  <2> QED BY <2>1, <2>2 DEF CurrentPC
<1>3. CASE OldestIs({"jal", "jalr"})
  <2>1. OldestIs({"jal", "jalr", "halt"}) /\ FlushFetcher
    BY <1>3 DEF OldestIs, FlushFetcher
  <2>2. Len(activeList) = 1 /\ ~Accepts /\ ~FlushRecover /\ Retires
    BY <2>1, JumpRetiresAlone DEF OldestIs
  <2>3. activeList' = <<>>
    <3>1. Len(activeList') = 0
      BY <1>0, <2>2, ListStep DEF IInv
    <3> QED BY <1>1, <3>1
  <2>4. FlushPC = Successor(Oldest)
    BY <1>3 DEF OldestIs, FlushPC, Mispredict, Successor
  <2>5. pc' = FlushPC
    BY <1>1, <2>1, FetchStep
  <2> QED BY <2>2, <2>3, <2>4, <2>5 DEF CurrentPC
<1>4. CASE OldestIs({"halt"})
  BY <1>4 DEF OldestIs
<1>5. CASE ~FlushRecover /\ ~OldestIs({"jal", "jalr", "halt"})
  <2>1. ~FlushFetcher
    BY <1>5 DEF FlushFetcher, FlushRecover, OldestIs
  <2>2. /\ Shift <= Len(activeList)
        /\ \A i \in 1 .. Len(activeList) - Shift : activeList'[i].pc = activeList[i + Shift].pc
        /\ Accepts => /\ Len(activeList') = Len(activeList) - Shift + 1
                      /\ activeList'[Len(activeList) - Shift + 1] = NewEntry
        /\ ~Accepts => Len(activeList') = Len(activeList) - Shift
    BY <1>5, ListStep DEF IInv
  <2>3. Accepts => NewEntry.pc = pc
    BY DEF IInv, PortIsPC, Accepts, NewEntry
  <2>4. CASE Len(activeList) > Shift
    <3>1. CurrentPC' = activeList[1 + Shift].pc
      <4>1. 1 \in 1 .. Len(activeList) - Shift
        BY <1>0, <1>1, <2>4
      <4>2. activeList' # <<>>
        <5>1. Len(activeList') \in {Len(activeList) - Shift, Len(activeList) - Shift + 1}
          BY <2>2
        <5>2. Len(activeList) \in Nat /\ Shift \in Nat
          BY <1>0, <1>1
        <5>3. Len(activeList') # 0
          BY <2>4, <5>1, <5>2
        <5> QED BY <5>3
      <4> QED BY <2>2, <4>1, <4>2 DEF CurrentPC
    <3>2. CASE ~Retires
      <4>1. activeList # <<>> /\ Shift = 0
        BY <1>0, <1>1, <2>4, <3>2
      <4> QED BY <3>1, <3>2, <4>1 DEF CurrentPC
    <3>3. CASE Retires
      <4>1. Shift = 1 /\ 1 \in DOMAIN activeList /\ 1 + 1 \in DOMAIN activeList
        BY <1>0, <1>1, <2>4, <3>3
      <4>2. activeList[1 + 1].pc = PredictedPC(Oldest)
        BY <1>1, <4>1 DEF PathPredicted, Oldest
      <4>3. PredictedPC(Oldest) = Successor(Oldest)
        BY <1>5, <3>3 DEF PredictedPC, Successor, FlushRecover, Mispredict, OldestIs
      <4> QED BY <3>1, <3>3, <4>1, <4>2, <4>3
    <3> QED BY <3>2, <3>3
  <2>5. CASE Len(activeList) = Shift
    <3>1. CurrentPC' = pc
      <4>1. CASE Accepts
        <5>1. activeList' # <<>> /\ activeList'[1] = NewEntry
          <6>1. Len(activeList) - Shift + 1 = 1
            BY <1>0, <1>1, <2>5
          <6>2. Len(activeList') = 1 /\ activeList'[1] = NewEntry
            BY <2>2, <4>1, <6>1
          <6> QED BY <6>2
        <5> QED BY <2>3, <4>1, <5>1 DEF CurrentPC
      <4>2. CASE ~Accepts
        <5>1. activeList' = <<>>
          BY <1>0, <1>1, <2>2, <2>5, <4>2
        <5>2. pc' = pc
          BY <1>1, <2>1, <4>2, FetchStep
        <5> QED BY <5>1, <5>2 DEF CurrentPC
      <4> QED BY <4>1, <4>2
    <3>2. CASE ~Retires
      <4>1. activeList = <<>>
        BY <1>0, <1>1, <2>5, <3>2
      <4> QED BY <3>1, <3>2, <4>1 DEF CurrentPC
    <3>3. CASE Retires
      <4>1. Len(activeList) = 1 /\ activeList # <<>>
        BY <1>0, <1>1, <2>5, <3>3
      <4>2. ~stalled
        <5>1. \A i \in DOMAIN activeList : ~JumpOrHalt(activeList[i])
          BY <1>1, <1>5, <3>3, <4>1 DEF OldestIs, Oldest, JumpOrHalt
        <5> QED BY <1>1, <5>1 DEF StallTracksJump
      <4>3. pc = PredictedPC(Oldest)
        BY <1>1, <4>1, <4>2 DEF PathPredicted, Oldest
      <4>4. PredictedPC(Oldest) = Successor(Oldest)
        BY <1>5, <3>3 DEF PredictedPC, Successor, FlushRecover, Mispredict, OldestIs
      <4> QED BY <3>1, <3>3, <4>3, <4>4
    <3> QED BY <3>2, <3>3
  <2>6. Len(activeList) > Shift \/ Len(activeList) = Shift
    <3>1. Len(activeList) \in Nat /\ Shift \in Nat
      BY <1>0, <1>1
    <3> QED BY <2>2, <3>1
  <2> QED BY <2>4, <2>5, <2>6
<1> QED BY <1>2, <1>3, <1>4, <1>5 DEF OldestIs

\* Whatever the predictor says, the decoder refuses or commit redirects, instructions retire
\* in the order of the program.
THEOREM ProgramOrder == Spec => RetiresInProgramOrder
<1>1. IInv /\ [Next]_vars =>
        [IF Retires THEN OldestIs({"halt"}) \/ CurrentPC' = Successor(Oldest)
         ELSE CurrentPC' = CurrentPC]_vars
  BY ProgramOrderStep
<1> QED BY <1>1, Invariant, PTL DEF Spec, RetiresInProgramOrder
=============================================================================
