---------------------------- MODULE MCRenaming ----------------------------
(* Instances of Renaming for TLC. *)
EXTENDS Renaming

\* Every instruction of the model.
AllInstructions == Instruction
=============================================================================
