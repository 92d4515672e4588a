----------------------------- MODULE DecodeTable -----------------------------
(***************************************************************************)
(* instruction.py: the patterns of the instructions, and the arguments the *)
(* decoder gets for a word.  Words are bit vectors of full width.          *)
(***************************************************************************)
EXTENDS Integers, Sequences, BitVectors

AnyField == -1           \* a field the pattern leaves open

\* default_instruction_arguments(); the immediate is named by its format.
Default ==
  [has_rd |-> FALSE, imm |-> "none", is_alu |-> FALSE, alu_op |-> "ADD", from1 |-> "RS1",
   from2 |-> "RS1", is_load |-> FALSE, is_store |-> FALSE, mem_op |-> "byte",
   is_branch |-> FALSE, branch_flip |-> FALSE, is_terminator |-> FALSE, is_jump |-> FALSE,
   is_jalr |-> FALSE]

Flags == {"has_rd", "is_alu", "is_load", "is_store", "is_branch", "branch_flip",
          "is_terminator", "is_jump", "is_jalr"}

Pattern(opcode, funct3, funct7, args) ==
  [opcode |-> opcode, funct3 |-> funct3, funct7 |-> funct7, args |-> args]

\* The constructors.
RType(alu_op, funct3, funct7) ==
  Pattern(51, funct3, funct7,
          [Default EXCEPT !.alu_op = alu_op, !.from2 = "RS2", !.has_rd = TRUE, !.is_alu = TRUE])

IArgs(alu_op) ==
  [Default EXCEPT !.alu_op = alu_op, !.from2 = "IMM", !.has_rd = TRUE, !.is_alu = TRUE, !.imm = "I"]

IType(alu_op, funct3, funct7) == Pattern(19, funct3, funct7, IArgs(alu_op))

LoadType(funct3, mem_op) ==
  Pattern(3, funct3, AnyField,
          [IArgs("ADD") EXCEPT !.is_load = TRUE, !.is_alu = FALSE, !.mem_op = mem_op])

SType(funct3, mem_op) ==
  Pattern(35, funct3, AnyField,
          [Default EXCEPT !.from2 = "IMM", !.imm = "S", !.is_store = TRUE, !.mem_op = mem_op])

BType(alu_op, funct3, branch_flip) ==
  Pattern(99, funct3, AnyField,
          [Default EXCEPT !.alu_op = alu_op, !.from2 = "RS2", !.imm = "B", !.is_alu = TRUE,
                          !.is_branch = TRUE, !.branch_flip = branch_flip])

UType(opcode, alu_op, from1) ==
  Pattern(opcode, AnyField, AnyField,
          [Default EXCEPT !.alu_op = alu_op, !.from1 = from1, !.from2 = "IMM", !.has_rd = TRUE,
                          !.imm = "U", !.is_alu = TRUE])

JType ==
  Pattern(111, AnyField, AnyField,
          [Default EXCEPT !.from1 = "PC", !.from2 = "LITERAL_FOUR", !.has_rd = TRUE, !.imm = "J",
                          !.is_alu = TRUE, !.is_jump = TRUE])

\* Mutant: the logical and the arithmetic shift share a pattern.
RTypesAnyShift ==
  <<RType("ADD", 0, 0), RType("SUB", 0, 32), RType("XOR", 4, 0), RType("OR", 6, 0),
    RType("AND", 7, 0), RType("SLL", 1, 0), RType("SRL", 5, 0), RType("SRA", 5, AnyField),
    RType("SLT", 2, 0), RType("SLTU", 3, 0)>>

RTypes ==
  <<RType("ADD", 0, 0), RType("SUB", 0, 32), RType("XOR", 4, 0), RType("OR", 6, 0),
    RType("AND", 7, 0), RType("SLL", 1, 0), RType("SRL", 5, 0), RType("SRA", 5, 32),
    RType("SLT", 2, 0), RType("SLTU", 3, 0)>>

MulDivTypes ==
  <<RType("MUL", 0, 1), RType("MULH", 1, 1), RType("MULSU", 2, 1), RType("MULU", 3, 1),
    RType("DIV", 4, 1), RType("DIVU", 5, 1), RType("REM", 6, 1), RType("REMU", 7, 1)>>

ITypes ==
  <<IType("ADD", 0, AnyField), IType("XOR", 4, AnyField), IType("OR", 6, AnyField),
    IType("AND", 7, AnyField), IType("SLL", 1, 0), IType("SRL", 5, 0),
    IType("SRA", 5, 32), IType("SLT", 2, AnyField), IType("SLTU", 3, AnyField)>>

LoadTypes ==
  <<LoadType(0, "byte"), LoadType(1, "half"), LoadType(2, "word"), LoadType(4, "byte_u"),
    LoadType(5, "half_u")>>

STypes == <<SType(0, "byte"), SType(1, "half"), SType(2, "word")>>

BTypes ==
  <<BType("SUB", 1, FALSE), BType("SLT", 4, FALSE), BType("SLTU", 6, FALSE),
    BType("SUB", 0, TRUE), BType("SLT", 5, TRUE), BType("SLTU", 7, TRUE)>>

OtherTypes ==
  <<JType, Pattern(103, 0, AnyField, [IArgs("ADD") EXCEPT !.is_jump = TRUE, !.is_jalr = TRUE]),
    UType(55, "OR", "IMM"), UType(23, "ADD", "PC"),
    Pattern(115, 0, AnyField, [IArgs("ADD") EXCEPT !.is_terminator = TRUE])>>

Instructions ==
  RTypes \o MulDivTypes \o ITypes \o LoadTypes \o STypes \o BTypes \o OtherTypes

-----------------------------------------------------------------------------
Opcode(word) == Number(Slice(word, 0, 6))
Rd(word) == Number(Slice(word, 7, 11))
Funct3(word) == Number(Slice(word, 12, 14))
Funct7(word) == Number(Slice(word, 25, 31))

Matches(pattern, word) ==
  /\ pattern.opcode = Opcode(word)
  /\ pattern.funct3 \in {AnyField, Funct3(word)}
  /\ pattern.funct7 \in {AnyField, Funct7(word)}

\* Flags only accumulate; the other arguments are those of the last pattern that matches.
SelectArgs(args, pattern) ==
  [field \in DOMAIN Default |->
     CASE field \in Flags -> args[field] \/ pattern.args[field]
       [] field = "imm" /\ pattern.args.imm = "none" -> args.imm
       [] OTHER -> pattern.args[field]]

SelectInstructionArgs(word) ==
  LET args[k \in 0 .. Len(Instructions)] ==
        IF k = 0 THEN Default
        ELSE IF Matches(Instructions[k], word) THEN SelectArgs(args[k - 1], Instructions[k])
        ELSE args[k - 1]
  IN  args[Len(Instructions)]

\* Mutant: the top bits of a branch's offset are swapped.
ImmediateSwapped(format, word) ==
  CASE format = "B" ->
         SignExtend(<<0>> \o Slice(word, 8, 11) \o Slice(word, 25, 30) \o Slice(word, 31, 31)
                      \o Slice(word, 7, 7), 32)
    [] format = "I" -> SignExtend(Slice(word, 20, 31), 32)
    [] format = "S" -> SignExtend(Slice(word, 7, 11) \o Slice(word, 25, 31), 32)
    [] format = "U" -> Repeated(0, 12) \o Slice(word, 12, 31)
    [] OTHER -> Repeated(0, 32)

\* The imm_fn of each format.
Immediate(format, word) ==
  CASE format = "I" -> SignExtend(Slice(word, 20, 31), 32)
    [] format = "S" -> SignExtend(Slice(word, 7, 11) \o Slice(word, 25, 31), 32)
    [] format = "B" ->
         SignExtend(<<0>> \o Slice(word, 8, 11) \o Slice(word, 25, 30) \o Slice(word, 7, 7)
                      \o Slice(word, 31, 31), 32)
    [] format = "U" -> Repeated(0, 12) \o Slice(word, 12, 31)
    [] format = "J" ->
         SignExtend(<<0>> \o Slice(word, 21, 30) \o Slice(word, 20, 20) \o Slice(word, 12, 19)
                      \o Slice(word, 31, 31), 32)
    [] OTHER -> Repeated(0, 32)
=============================================================================
