------------------------------ MODULE Frontend ------------------------------
(***************************************************************************)
(* Where instructions come from: the fetcher and its PC, the decoder's     *)
(* decision to accept an instruction, the branch predictor, the            *)
(* speculation state, and the redirections and the training that commit    *)
(* sends back.  One step is one clock cycle.                               *)
(*                                                                         *)
(* Addresses are word addresses 0 .. Words-1 and wrap.  The program is any *)
(* one of Programs; the back end is a set of entries that may finish, in   *)
(* any order, with any branch outcome and any JALR target.                 *)
(***************************************************************************)
EXTENDS Naturals, Sequences

CONSTANTS
  Words,            \* words of instruction memory
  Programs,         \* the programs considered
  ActiveListDepth,
  PredictorKind,    \* which predictor main.py's factory returns
  PredictorSize     \* entries of the BinaryPredictor

Address == 0 .. Words - 1

\* What fetch and commit distinguish: `target' is PC + imm of a branch or a JAL.
Instruction == [kind : {"plain", "branch", "jal", "jalr", "halt"}, target : Address]

ASSUME WordsAssumption == Words \in Nat \ {0}
ASSUME ProgramsAssumption == Programs \subseteq [Address -> Instruction]
ASSUME DepthAssumption == ActiveListDepth \in Nat \ {0}
ASSUME PredictorKindAssumption == PredictorKind \in {"always", "never", "binary"}
ASSUME PredictorSizeAssumption == PredictorSize \in Nat \ {0}

VARIABLES
  program,          \* the instruction memory, constant
  pc,               \* Fetcher.PC
  stalled,          \* FetcherImpl.stalled
  port,             \* Decoder.PC: the call of the previous cycle, at most one
  speculating,      \* SpeculationState.speculating
  states,           \* BinaryPredictor.states
  activeList,       \* ActiveList.queue, oldest entry first
  halted            \* the simulation has finished

vars == <<program, pc, stalled, port, speculating, states, activeList, halted>>

Entry == [pc : Address, predict : BOOLEAN, ready : BOOLEAN, actual : BOOLEAN, target : Address]

Kind(a) == program[a].kind
Following(a) == (a + 1) % Words

\* BinaryPredictState: StronglyB, WeaklyB, WeaklyNo, StronglyNo.
StronglyB == 0
WeaklyNo == 2
StronglyNo == 3

-----------------------------------------------------------------------------
(* Commit: the head of the active list. *)

Oldest == activeList[1]
Retires == activeList # <<>> /\ Oldest.ready
OldestIs(kinds) == Retires /\ Kind(Oldest.pc) \in kinds
Mispredict == OldestIs({"branch"}) /\ Oldest.predict # Oldest.actual

\* flush_recover of the queues, and the redirection of the fetcher.
FlushRecover == Mispredict
FlushFetcher == Mispredict \/ OldestIs({"jal", "jalr"})

FlushPC ==
  IF OldestIs({"jalr"}) THEN Oldest.target
  ELSE IF Mispredict /\ ~Oldest.actual THEN Following(Oldest.pc)
  ELSE program[Oldest.pc].target

-----------------------------------------------------------------------------
(* The decoder accepts the instruction it was called with. *)

\* Mutants: a full active list is ignored; a branch is accepted behind a branch.
AcceptsWhenFull == port # <<>> /\ (Kind(port[1]) = "branch" => ~speculating)
AcceptsNestedBranch == port # <<>> /\ Len(activeList) < ActiveListDepth

Accepts ==
  /\ port # <<>>
  /\ Len(activeList) < ActiveListDepth
  /\ Kind(port[1]) = "branch" => ~speculating

AcceptsKind(kinds) == Accepts /\ Kind(port[1]) \in kinds

-----------------------------------------------------------------------------
(* The predictor. *)

Index(a) == a % PredictorSize

Predict(a) ==
  CASE PredictorKind = "always" -> TRUE
    [] PredictorKind = "never"  -> FALSE
    [] PredictorKind = "binary" -> states[Index(a)] < WeaklyNo

\* commit.py passes PredictFeedback(pc, actual_branch, predict_branch), whose fields are
\* addr, predict_branch, actual_branch: what the predictor takes for the outcome is its own
\* prediction.
FeedbackActual == Oldest.predict

Trained(state) ==
  IF FeedbackActual THEN (IF state = StronglyB THEN state ELSE state - 1)
  ELSE (IF state = StronglyNo THEN state ELSE state + 1)

PredictorBuild ==
  states' = IF OldestIs({"branch"}) /\ PredictorKind = "binary"
              THEN [states EXCEPT ![Index(Oldest.pc)] = Trained(@)]
              ELSE states

-----------------------------------------------------------------------------
(* FetcherImpl. *)

\* Mutants: a jump or the terminator does not stall the fetcher; a flush does not end the stall.
NeverStalls == FALSE
StallsThroughFlush == stalled \/ AcceptsKind({"jal", "jalr", "halt"})

Stalls == (stalled \/ AcceptsKind({"jal", "jalr", "halt"})) /\ ~FlushFetcher

\* The fetcher adds the decoded instruction's offset, or 4, to its own PC.
BranchOffset == IF Predict(port[1]) THEN program[port[1]].target + Words - port[1] ELSE 1

\* Mutant: a decode failure does not hold the PC.
NextPCAlways ==
  IF FlushFetcher THEN FlushPC
  ELSE IF Stalls THEN pc
  ELSE IF AcceptsKind({"branch"}) THEN (pc + BranchOffset) % Words
  ELSE Following(pc)

NextPC ==
  IF FlushFetcher THEN FlushPC
  ELSE IF Stalls \/ ~Accepts THEN pc
  ELSE IF Kind(port[1]) = "branch" THEN (pc + BranchOffset) % Words
  ELSE Following(pc)

FetcherBuild ==
  /\ pc' = NextPC
  /\ stalled' = Stalls
  /\ port' = IF Stalls THEN <<>> ELSE <<NextPC>>

SpeculationStateBuild ==
  speculating' = ((speculating \/ AcceptsKind({"branch"})) /\ ~OldestIs({"branch"}))

-----------------------------------------------------------------------------
Unfinished == {i \in DOMAIN activeList : ~activeList[i].ready}

NewEntry ==
  [pc |-> port[1], predict |-> Kind(port[1]) = "branch" /\ Predict(port[1]),
   ready |-> Kind(port[1]) = "halt", actual |-> FALSE, target |-> program[port[1]].target]

\* set_ready with the outcome of a branch or the target of a JALR.
Finished(done, taken, target) ==
  [i \in DOMAIN activeList |->
     IF i \in done
       THEN [activeList[i] EXCEPT
               !.ready = TRUE,
               !.actual = Kind(activeList[i].pc) = "branch" /\ taken,
               !.target = IF Kind(activeList[i].pc) = "jalr" THEN target ELSE @]
       ELSE activeList[i]]

ActiveListBuild(done, taken, target) ==
  LET finished == Finished(done, taken, target)
      kept     == IF Retires THEN Tail(finished) ELSE finished
  IN  activeList' = IF FlushRecover THEN <<>>
                    ELSE IF Accepts THEN Append(kept, NewEntry)
                    ELSE kept

Cycle(done, taken, target) ==
  /\ ~halted
  /\ FetcherBuild
  /\ SpeculationStateBuild
  /\ PredictorBuild
  /\ ActiveListBuild(done, taken, target)
  /\ halted' = OldestIs({"halt"})
  /\ UNCHANGED program

Init ==
  /\ program \in Programs
  /\ pc = 0 /\ stalled = FALSE /\ port = <<>>
  /\ speculating = FALSE
  /\ states = [i \in 0 .. PredictorSize - 1 |-> WeaklyNo]
  /\ activeList = <<>>
  /\ halted = FALSE

Next ==
  \E done \in SUBSET Unfinished, taken \in BOOLEAN, target \in Address :
    Cycle(done, taken, target)

\* The oldest entry finishes in this cycle.
OldestFinishes ==
  \E done \in {d \in SUBSET Unfinished : 1 \in d}, taken \in BOOLEAN, target \in Address :
    Cycle(done, taken, target)

\* The clock never stops, and the oldest instruction, which waits for no other, is executed.
Spec == Init /\ [][Next]_vars /\ WF_vars(Next) /\ WF_vars(OldestFinishes)

-----------------------------------------------------------------------------
(* Properties. *)

TypeOK ==
  /\ program \in Programs
  /\ pc \in Address
  /\ port \in {<<>>} \cup {<<a>> : a \in Address}
  /\ {stalled, speculating, halted} \subseteq BOOLEAN
  /\ states \in [0 .. PredictorSize - 1 -> StronglyB .. StronglyNo]
  /\ activeList \in Seq(Entry) /\ Len(activeList) <= ActiveListDepth

\* Where the program goes after an entry with its outcome.
Successor(e) ==
  CASE Kind(e.pc) = "branch" /\ e.actual -> program[e.pc].target
    [] Kind(e.pc) = "jal"  -> program[e.pc].target
    [] Kind(e.pc) = "jalr" -> e.target
    [] OTHER -> Following(e.pc)

\* The next instruction to retire.
CurrentPC == IF activeList # <<>> THEN activeList[1].pc ELSE pc

\* Instructions retire in the order of the program: whatever was predicted, stalled, dropped
\* or refetched meanwhile, after an instruction comes the one its outcome leads to, and
\* without a retirement nothing is skipped.
RetiresInProgramOrder ==
  [][IF Retires THEN OldestIs({"halt"}) \/ CurrentPC' = Successor(Oldest)
     ELSE CurrentPC' = CurrentPC]_vars

JumpOrHalt(e) == Kind(e.pc) \in {"jal", "jalr", "halt"}

\* The fetcher is stalled exactly while a jump or the terminator is in flight, and then
\* nothing is fetched or decoded behind it: a stall neither outlives a flush nor ends early.
StallTracksJump ==
  /\ halted \/ (stalled <=> \E i \in DOMAIN activeList : JumpOrHalt(activeList[i]))
  /\ \A i \in DOMAIN activeList : JumpOrHalt(activeList[i]) => i = Len(activeList) /\ port = <<>>

\* speculating is set exactly while a branch is in flight, and there is never a second one
\* behind it: one snapshot of the free list and one bit of state are enough, and the bit is not
\* left set by a retirement or a flush, which would keep every later branch from decoding.
OneBranchInFlight ==
  LET branches == {i \in DOMAIN activeList : Kind(activeList[i].pc) = "branch"}
  IN  /\ \A i, j \in branches : i = j
      /\ speculating <=> branches # {}

\* Fetching goes on until the program halts: some instruction always retires later.
Progress == []<>(Retires \/ halted)

\* A retired branch moves its predictor entry towards the branch's outcome
\* (predictor.py: feed_back.actual_branch).  The code trains with the prediction instead.
TrainsOnOutcome ==
  [][OldestIs({"branch"}) =>
       LET before == states[Index(Oldest.pc)]
           after  == states'[Index(Oldest.pc)]
       IN  IF Oldest.actual THEN before > StronglyB => after < before
           ELSE before < StronglyNo => after > before]_vars
=============================================================================
