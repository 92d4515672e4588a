------------------------------ MODULE Encoding ------------------------------
(***************************************************************************)
(* The instructions of RV32IM and their words, as the architecture manual  *)
(* has them and the assembler writes them, but for two: FENCE, whose       *)
(* opcode the processor does not know and behind which it stops (see       *)
(* OutOfOrder!Progress), and ECALL, whose effect is the environment's; the *)
(* processor takes it for EBREAK, because that pattern leaves the upper    *)
(* bits open.                                                              *)
(***************************************************************************)
EXTENDS Integers, Sequences, BitVectors

\* An instruction at pc, with the values of the registers it reads.
Task(name, rd, rs1, rs2, imm, registers, pc) ==
  [name |-> name, rd |-> rd, rs1 |-> rs1, rs2 |-> rs2, imm |-> imm, registers |-> registers,
   pc |-> pc]

\* The opcodes, or funct3 and funct7, of each mnemonic.
RegisterCodes ==
  [add |-> <<0, 0>>, sub |-> <<0, 32>>, sll |-> <<1, 0>>, slt |-> <<2, 0>>, sltu |-> <<3, 0>>,
   xor |-> <<4, 0>>, srl |-> <<5, 0>>, sra |-> <<5, 32>>, or |-> <<6, 0>>, and |-> <<7, 0>>,
   mul |-> <<0, 1>>, mulh |-> <<1, 1>>, mulhsu |-> <<2, 1>>, mulhu |-> <<3, 1>>,
   div |-> <<4, 1>>, divu |-> <<5, 1>>, rem |-> <<6, 1>>, remu |-> <<7, 1>>]
ShiftCodes == [slli |-> <<1, 0>>, srli |-> <<5, 0>>, srai |-> <<5, 32>>]
ImmediateCodes == [addi |-> 0, slti |-> 2, sltiu |-> 3, xori |-> 4, ori |-> 6, andi |-> 7]
LoadCodes == [lb |-> 0, lh |-> 1, lw |-> 2, lbu |-> 4, lhu |-> 5]
StoreCodes == [sb |-> 0, sh |-> 1, sw |-> 2]
BranchCodes == [beq |-> 0, bne |-> 1, blt |-> 4, bge |-> 5, bltu |-> 6, bgeu |-> 7]
UpperCodes == [lui |-> 55, auipc |-> 23]

IsLoad(t) == t.name \in DOMAIN LoadCodes
IsStore(t) == t.name \in DOMAIN StoreCodes
IsBranch(t) == t.name \in DOMAIN BranchCodes

Names ==
  UNION {DOMAIN RegisterCodes, DOMAIN ShiftCodes, DOMAIN ImmediateCodes, DOMAIN LoadCodes,
         DOMAIN StoreCodes, DOMAIN BranchCodes, DOMAIN UpperCodes, {"jal", "jalr", "ebreak"}}

\* Offsets of jumps are even; a shift's amount has five bits; EBREAK is one word.
ImmediateFits(t) ==
  CASE IsBranch(t) -> t.imm \in -(2^12) .. 2^12 - 1 /\ t.imm % 2 = 0
    [] t.name = "jal" -> t.imm \in -(2^20) .. 2^20 - 1 /\ t.imm % 2 = 0
    [] t.name \in DOMAIN UpperCodes -> t.imm \in 0 .. 2^20 - 1
    [] t.name \in DOMAIN ShiftCodes -> t.imm \in 0 .. 31
    [] t.name = "ebreak" -> t.imm = 1 /\ t.rd = 0 /\ t.rs1 = 0
    [] OTHER -> t.imm \in -(2^11) .. 2^11 - 1

Encodable(t) ==
  /\ t.name \in Names
  /\ t.rd \in 0 .. 31 /\ t.rs1 \in 0 .. 31 /\ t.rs2 \in 0 .. 31
  /\ ImmediateFits(t)

\* lui and auipc name the upper 20 bits.
FullImmediate(t) ==
  IF t.name \in DOMAIN UpperCodes THEN Repeated(0, 12) \o Vector(t.imm, 20)
  ELSE SignExtend(Vector(t.imm, 21), 32)

IWord(opcode, funct3, t, imm) ==
  Vector(opcode, 7) \o Vector(t.rd, 5) \o Vector(funct3, 3) \o Vector(t.rs1, 5) \o Vector(imm, 12)

RWord(opcode, codes, t, rs2) == IWord(opcode, codes[1], t, rs2 + 32 * codes[2])

Sources(t) == Vector(t.rs1, 5) \o Vector(t.rs2, 5)

SWord(t, imm) ==
  Vector(35, 7) \o Slice(imm, 0, 4) \o Vector(StoreCodes[t.name], 3) \o Sources(t)
    \o Slice(imm, 5, 11)

BWord(t, imm) ==
  Vector(99, 7) \o Slice(imm, 11, 11) \o Slice(imm, 1, 4) \o Vector(BranchCodes[t.name], 3)
    \o Sources(t) \o Slice(imm, 5, 10) \o Slice(imm, 12, 12)

UWord(t, imm) == Vector(UpperCodes[t.name], 7) \o Vector(t.rd, 5) \o Slice(imm, 12, 31)

JWord(t, imm) ==
  Vector(111, 7) \o Vector(t.rd, 5) \o Slice(imm, 12, 19) \o Slice(imm, 11, 11)
    \o Slice(imm, 1, 10) \o Slice(imm, 20, 20)

Encode(t) ==
  CASE t.name \in DOMAIN RegisterCodes -> RWord(51, RegisterCodes[t.name], t, t.rs2)
    [] t.name \in DOMAIN ShiftCodes -> RWord(19, ShiftCodes[t.name], t, t.imm)
    [] t.name \in DOMAIN ImmediateCodes -> IWord(19, ImmediateCodes[t.name], t, t.imm)
    [] IsLoad(t) -> IWord(3, LoadCodes[t.name], t, t.imm)
    [] t.name = "jalr" -> IWord(103, 0, t, t.imm)
    [] t.name = "ebreak" -> IWord(115, 0, t, t.imm)
    [] IsStore(t) -> SWord(t, FullImmediate(t))
    [] IsBranch(t) -> BWord(t, FullImmediate(t))
    [] t.name \in DOMAIN UpperCodes -> UWord(t, FullImmediate(t))
    [] OTHER -> JWord(t, FullImmediate(t))
=============================================================================
