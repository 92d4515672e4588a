---------------------------- MODULE MCOutOfOrder ----------------------------
(* Instruction sets for the runs of OutOfOrder. *)
EXTENDS OutOfOrder

Alu(dest, source, imm) ==
  [op |-> "alu", dest |-> dest, source |-> source, data |-> 0, imm |-> imm]
Load(dest, source, imm) ==
  [op |-> "load", dest |-> dest, source |-> source, data |-> 0, imm |-> imm]
Store(source, data, imm) ==
  [op |-> "store", dest |-> 0, source |-> source, data |-> data, imm |-> imm]
Branch(source) == [op |-> "branch", dest |-> 0, source |-> source, data |-> 0, imm |-> 0]
Unmatched == [op |-> "unmatched", dest |-> 0, source |-> 0, data |-> 0, imm |-> 0]

FromRegisters == {Alu(1, 1, 1), Load(1, 1, 0), Store(1, 1, 0), Branch(1)}
WithoutData == {Alu(1, 1, 0), Load(1, 1, 0), Store(1, 1, 0), Branch(1), Unmatched}
LoadToZero == {Alu(1, 1, 1), Store(0, 1, 0), Load(0, 0, 0)}

MaxTail == 11
FewRetirements == freeList.tail <= MaxTail
=============================================================================
