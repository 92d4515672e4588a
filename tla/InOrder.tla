------------------------------- MODULE InOrder -------------------------------
(***************************************************************************)
(* What the processor promises: instructions take effect one at a time, on *)
(* the logical registers and the memory.  Control flow is not part of it   *)
(* (Frontend): any instruction may be the next one.                        *)
(***************************************************************************)
EXTENDS Naturals

CONSTANTS
  LogicalNumber,    \* logical registers; register 0 is hard-wired to zero
  Word,             \* the number of words, 2^32 in the code; also the number of addresses
  Instructions

VARIABLES regs, memory

Logical == 0 .. LogicalNumber - 1
Words == 0 .. Word - 1

\* `source' and `data' are the operands rs1 and rs2.
Sum(ins) == (regs[ins.source] + ins.imm) % Word

Written(ins, value) == IF ins.dest = 0 THEN regs ELSE [regs EXCEPT ![ins.dest] = value]

Execute(ins) ==
  \/ /\ ins.op = "alu"
     /\ regs' = Written(ins, Sum(ins))
     /\ UNCHANGED memory
  \/ /\ ins.op = "load"
     /\ regs' = Written(ins, memory[Sum(ins)])
     /\ UNCHANGED memory
  \/ /\ ins.op = "store"
     /\ memory' = [memory EXCEPT ![Sum(ins)] = regs[ins.data]]
     /\ UNCHANGED regs
  \/ /\ ins.op = "branch"
     /\ UNCHANGED <<regs, memory>>

Init == regs = [l \in Logical |-> 0] /\ memory = [a \in Words |-> 0]
Next == \E ins \in Instructions : Execute(ins)
Spec == Init /\ [][Next]_<<regs, memory>>
=============================================================================
