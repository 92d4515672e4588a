---------------------------- MODULE MCFrontend ----------------------------
(* Instances of Frontend for TLC. *)
EXTENDS Frontend

\* A target where there is one.
MCInstruction ==
  {i \in Instruction : i.kind \notin {"branch", "jal"} => i.target = 0}

\* All programs.
AllPrograms == [Address -> MCInstruction]

\* A loop: a branch back to the start, then the terminator.
LoopProgram ==
  {[a \in Address |-> IF a = Words - 1 THEN [kind |-> "halt", target |-> 0]
                      ELSE IF a = Words - 2 THEN [kind |-> "branch", target |-> 0]
                      ELSE [kind |-> "plain", target |-> 0]]}
=============================================================================
