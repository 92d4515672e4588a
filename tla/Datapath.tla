------------------------------ MODULE Datapath ------------------------------
(***************************************************************************)
(* One instruction on its way through the machine, with its data: decoded, *)
(* executed by the ALU, the multiplier, the divider or the LSU, retired,   *)
(* and for a store written to the memory after that.  What the other       *)
(* modules know as `an entry' has its fields here; how entries interleave  *)
(* is theirs.  Registers have Bits bits, bytes a quarter of that.          *)
(* Registers of a unit that nobody reads any more go back to their first   *)
(* values.                                                                 *)
(***************************************************************************)
EXTENDS Encoding, DecodeTable, Circuits, ByteMemory, MemoryImage

CONSTANTS
  Bits,             \* 32 in the code
  Tasks,            \* the instructions, with the state each starts from: see Encoding
  Dump              \* the program's bytes: see MemoryImage

\* Immediates have 32 bits, a word has four bytes.
ASSUME BitsAssumption ==
  Bits \in 8 .. 32 /\ Bits % 4 = 0 /\ Byte = 2^(Bits \div 4) /\ AddressNumber = 2^Bits
ASSUME TasksAssumption ==
  \A t \in Tasks :
    Encodable(t) /\ t.registers \in [1 .. 31 -> 0 .. 2^Bits - 1] /\ t.pc \in 0 .. 2^Bits - 1
ASSUME DumpAssumption ==
  /\ Dump \in Seq({"at", "byte"} \X Nat)
  /\ \A k \in DOMAIN Dump : Dump[k][1] = "byte" => Dump[k][2] \in Bytes
  /\ Accepted(MergeHexBytes(Dump))

VARIABLES
  stage,            \* who acts on the instruction next
  task,             \* the instruction
  entry,            \* its entry of the queues and of the active list, list_imm the imm there,
                    \* and the value written to its register, <<>> while there is none
  addends,          \* Multiply_ALU.products, then the sum and carry of MultiplySumLevel
  divider,          \* PA, B and i of the Divider, and the signs in its ports
  outcome           \* what retired: a destination, its value, the next PC, the end

vars == <<stage, task, entry, addends, divider, outcome, lanes, dout, access>>

Word == Vectors(Bits)
Zero == Repeated(0, Bits)
Ones == Repeated(1, Bits)
Smallest == Append(Repeated(0, Bits - 1), 1)
NothingRead == [lane \in Lanes |-> 0]
NoAccess == [op |-> "word", offset |-> 0]
NoDivision ==
  [op_a |-> Zero, op_b |-> Zero, quotient_sign |-> FALSE, remainder_sign |-> FALSE,
   PA |-> Repeated(0, 2 * Bits + 1), B |-> Zero, i |-> 0]
NoOutcome == [rd |-> 0, value |-> 0, next |-> -1, stops |-> FALSE]

I == INSTANCE Isa WITH
       bytes <- FlatBytes,
       phase <- CASE stage = "idle" -> "idle" [] stage = "lsu" /\ entry.args.is_store -> "write"
                  [] OTHER -> "execute"

\* The register file and the PC, for this instruction.
Register(n) == IF n = 0 THEN Zero ELSE Vector(task.registers[n], Bits)
Pc == Vector(task.pc, Bits)
Low(immediate) == SubSeq(immediate, 1, Bits)

-----------------------------------------------------------------------------
(* Decode, and the units SchedulerDown hands the entry to. *)

HaltWord == Vector(35, 7) \o Repeated(1, 5) \o Repeated(0, 13) \o Repeated(1, 7)

MulOps == {"MUL", "MULH", "MULSU", "MULU"}
DivOps == {"DIV", "DIVU"}
RemOps == {"REM", "REMU"}

UnitOf(args) ==
  CASE args.is_store -> "retire"
    [] ~args.is_alu -> "lsu"
    [] args.alu_op \in MulOps \cup DivOps \cup RemOps -> "multiply_alu"
    [] OTHER -> "alu"

EntryOf(word, args, predict_branch) ==
  [args |-> [args EXCEPT !.is_terminator = @ \/ word = HaltWord],
   rd |-> IF args.has_rd THEN Rd(word) ELSE 0,
   rs1 |-> Number(Slice(word, 15, 19)), rs2 |-> Number(Slice(word, 20, 24)),
   imm |-> Immediate(args.imm, word), predict_branch |-> predict_branch,
   value |-> <<>>, actual_branch |-> FALSE, list_imm |-> Low(Immediate(args.imm, word))]

Issue(t) ==
  LET word == Encode(t)
      args == SelectInstructionArgs(word)
  IN  /\ stage = "idle"
      /\ task' = t
      /\ \E predict_branch \in {FALSE, args.is_branch} :
           entry' = EntryOf(word, args, predict_branch)
      /\ stage' = UnitOf(args)
      /\ outcome' = NoOutcome
      /\ UNCHANGED <<addends, divider, lanes, dout, access>>

-----------------------------------------------------------------------------
(* ALU. *)

Operand(from) ==
  CASE from = "RS1" -> Register(entry.rs1)
    [] from = "RS2" -> Register(entry.rs2)
    [] from = "IMM" -> Low(entry.imm)
    [] from = "PC" -> Pc
    [] OTHER -> Vector(4, Bits)

\* shamt is op_b[0:4] of 32 bits.
ShiftAmount(b) == Number(Slice(b, 0, Log2(Bits) - 1))

FlagWord(condition) == Vector(IF condition THEN 1 ELSE 0, Bits)

AluResult(op, a, b) ==
  CASE op = "ADD" -> Add(a, b, 0)
    [] op = "SUB" -> Add(a, Not(b), 1)
    [] op = "SLL" -> ShiftLeft(a, ShiftAmount(b))
    [] op = "SRL" -> ShiftRight(a, ShiftAmount(b), 0)
    [] op = "SRA" -> ShiftRight(a, ShiftAmount(b), Top(a))
    [] op = "AND" -> And(a, b)
    [] op = "OR" -> Or(a, b)
    [] op = "XOR" -> Xor(a, b)
    [] op = "SLT" -> FlagWord(Signed(a) < Signed(b))
    [] OTHER -> FlagWord(Number(a) < Number(b))

Sum(x, y) == Vector(Number(x) + Number(y), Bits)

Alu ==
  LET args == entry.args
      result == AluResult(args.alu_op, Operand(args.from1), Operand(args.from2))
      rd_value == IF args.is_jalr THEN Sum(Pc, Vector(4, Bits)) ELSE result
  IN  /\ stage = "alu"
      /\ entry' = [entry EXCEPT
           !.value = IF entry.rd # 0 THEN rd_value ELSE <<>>,
           !.actual_branch = args.is_branch /\ ((result # Zero) # args.branch_flip),
           !.list_imm = IF args.is_jalr THEN Sum(Register(entry.rs1), Low(entry.imm)) ELSE @]
      /\ stage' = "retire"
      /\ UNCHANGED <<task, addends, divider, outcome, lanes, dout, access>>

-----------------------------------------------------------------------------
(* Multiply_ALU and its pipeline. *)

\* update_register: the value, and the ready bit that lets the entry retire.
UpdateRegister(result) ==
  /\ entry' = [entry EXCEPT !.value = result]
  /\ stage' = "retire"

Extended(x, signed) == Append(x, IF signed THEN Top(x) ELSE 0)

Multiply ==
  LET op == entry.args.alu_op
      a == Extended(Register(entry.rs1), op \in {"MULH", "MULSU"})
      b == Extended(Register(entry.rs2), op = "MULH")
  IN  /\ op \in MulOps
      /\ addends' = Radix4PartialProducts(a, b)
      /\ stage' = "reduce"
      /\ UNCHANGED <<entry, divider>>

Absolute(x, signed) == IF signed /\ Top(x) = 1 THEN Neg(x) ELSE x

Divide ==
  LET op == entry.args.alu_op
      a == Register(entry.rs1)
      b == Register(entry.rs2)
      is_signed == op \in {"DIV", "REM"}
      is_overflow == is_signed /\ a = Smallest /\ b = Ones
  IN  /\ op \notin MulOps
      /\ \/ /\ b = Zero
            /\ UpdateRegister(IF op \in DivOps THEN Ones ELSE a)
            /\ UNCHANGED divider
         \/ /\ is_overflow
            /\ UpdateRegister(IF op = "DIV" THEN Smallest ELSE Zero)
            /\ UNCHANGED divider
         \/ /\ b # Zero /\ ~is_overflow
            /\ divider' = [divider EXCEPT
                 !.op_a = Absolute(a, is_signed), !.op_b = Absolute(b, is_signed),
                 !.quotient_sign = is_signed /\ Top(a) # Top(b),
                 !.remainder_sign = is_signed /\ Top(a) = 1]
            /\ stage' = "load"
            /\ UNCHANGED entry
      /\ UNCHANGED addends

MultiplyAlu ==
  /\ stage = "multiply_alu"
  /\ Multiply \/ Divide
  /\ UNCHANGED <<task, outcome, lanes, dout, access>>

MultiplyReduceLevel ==
  /\ stage = "reduce"
  /\ addends' = WallaceTree(addends)
  /\ stage' = "sum"
  /\ UNCHANGED <<task, entry, divider, outcome, lanes, dout, access>>

MultiplySumLevel ==
  LET summary == Add(addends[1], addends[2], 0)
  IN  /\ stage = "sum"
      /\ UpdateRegister(IF entry.args.alu_op = "MUL" THEN Slice(summary, 0, Bits - 1)
                        ELSE Slice(summary, Bits, 2 * Bits - 1))
      /\ addends' = <<>>
      /\ UNCHANGED <<task, divider, outcome, lanes, dout, access>>

-----------------------------------------------------------------------------
(* Divider: the remainder P, one bit wider than a word, above the word A, which loses a bit *)
(* of the dividend and gains one of the quotient in each step.                              *)

A_(pa) == Slice(pa, 0, Bits - 1)
P_(pa) == Slice(pa, Bits, 2 * Bits)

DividerLoad ==
  LET lzc == LeadingZeroCount(divider.op_a)
  IN  /\ stage = "load"
      /\ divider' = [divider EXCEPT
           !.PA = ZeroExtend(ShiftLeft(divider.op_a, lzc), 2 * Bits + 1),
           !.B = divider.op_b, !.i = lzc]
      /\ stage' = "divide"
      /\ UNCHANGED <<task, entry, addends, outcome, lanes, dout, access>>

\* Mutant: a remainder that turns negative still gives a quotient bit of 1.
NextPAWithoutRestore(PA, B) ==
  LET shifted == Slice(PA, Bits - 1, 2 * Bits - 1)
      new_P == Add(shifted, Not(ZeroExtend(B, Bits + 1)), 1)
  IN  <<1 - Top(new_P)>> \o Slice(PA, 0, Bits - 2) \o new_P

\* Mutant: A does not give up its top bit.
NextPAWide(PA, B) ==
  LET shifted == Slice(PA, Bits - 1, 2 * Bits - 1)
      new_P == IF Top(PA) = 1 THEN Add(shifted, ZeroExtend(B, Bits + 1), 0)
               ELSE Add(shifted, Not(ZeroExtend(B, Bits + 1)), 1)
  IN  <<1 - Top(new_P)>> \o Slice(PA, 0, Bits - 1) \o new_P

NextPA(PA, B) ==
  LET shifted == Slice(PA, Bits - 1, 2 * Bits - 1)
      new_P == IF Top(PA) = 1 THEN Add(shifted, ZeroExtend(B, Bits + 1), 0)
               ELSE Add(shifted, Not(ZeroExtend(B, Bits + 1)), 1)
  IN  <<1 - Top(new_P)>> \o Slice(PA, 0, Bits - 2) \o new_P

DividerStep ==
  /\ stage = "divide"
  /\ divider.i # Bits
  /\ divider' = [divider EXCEPT !.PA = NextPA(divider.PA, divider.B), !.i = (@ + 1) % (2 * Bits)]
  /\ UNCHANGED <<stage, task, entry, addends, outcome, lanes, dout, access>>

DividerFinish ==
  LET raw == P_(divider.PA)
      remainder == IF Top(raw) = 1 THEN Add(Slice(raw, 0, Bits - 1), divider.B, 0)
                   ELSE Slice(raw, 0, Bits - 1)
      quotient == A_(divider.PA)
  IN  /\ stage = "divide"
      /\ divider.i = Bits
      /\ UpdateRegister(
           IF entry.args.alu_op \in DivOps
             THEN IF divider.quotient_sign THEN Neg(quotient) ELSE quotient
             ELSE IF divider.remainder_sign THEN Neg(remainder) ELSE remainder)
      /\ divider' = NoDivision
      /\ UNCHANGED <<task, addends, outcome, lanes, dout, access>>

-----------------------------------------------------------------------------
(* LSU and WriteBack; a store comes here from the store buffer, after it retired. *)

FullAddress == Number(Sum(Register(entry.rs1), Low(entry.imm)))

ByteOf(x, lane) == Number(Slice(x, lane * (Bits \div 4), (lane + 1) * (Bits \div 4) - 1))
BytesOf(x) == [lane \in Lanes |-> ByteOf(x, lane)]

LsuStore ==
  /\ stage = "lsu" /\ entry.args.is_store
  /\ StoreAccess(entry.args.mem_op, FullAddress, BytesOf(Register(entry.rs2)))
  /\ stage' = "idle"
  /\ UNCHANGED <<task, entry, addends, divider, outcome>>

LsuLoad ==
  /\ stage = "lsu" /\ entry.args.is_load
  /\ LoadAccess(entry.args.mem_op, FullAddress)
  /\ stage' = "write_back"
  /\ UNCHANGED <<task, entry, addends, divider, outcome>>

WriteBack ==
  LET Part(lane) == Vector(WrittenBack[lane], Bits \div 4)
  IN  /\ stage = "write_back"
      /\ UpdateRegister(Part(0) \o Part(1) \o Part(2) \o Part(3))
      /\ dout' = NothingRead
      /\ access' = NoAccess
      /\ UNCHANGED <<task, addends, divider, outcome, lanes>>

-----------------------------------------------------------------------------
(* Commit, and the fetcher: where it already went unless it is flushed. *)

Retire ==
  LET args == entry.args
      mispredict == args.is_branch /\ entry.predict_branch # entry.actual_branch
      flush_PC == IF args.is_jalr THEN Zero ELSE Pc
      flush_offset == IF mispredict /\ ~entry.actual_branch THEN Vector(4, Bits) ELSE entry.list_imm
      offset == IF args.is_branch /\ entry.predict_branch THEN Low(entry.imm) ELSE Vector(4, Bits)
      new_PC == IF mispredict \/ args.is_jump THEN Sum(flush_PC, flush_offset) ELSE Sum(Pc, offset)
  IN  /\ stage = "retire"
      /\ outcome' = [rd |-> entry.rd, value |-> Number(entry.value), next |-> Number(new_PC),
                     stops |-> args.is_terminator]
      /\ stage' = IF args.is_store THEN "lsu" ELSE "idle"
      /\ UNCHANGED <<task, entry, addends, divider, lanes, dout, access>>

-----------------------------------------------------------------------------
Init ==
  /\ stage = "idle"
  /\ task \in Tasks
  /\ entry = EntryOf(Repeated(0, 32), Default, FALSE)
  /\ addends = <<>>
  /\ divider = NoDivision
  /\ outcome = NoOutcome
  /\ lanes = InitialLanes(Dump, Depth)
  /\ dout = NothingRead
  /\ access = NoAccess

Steps ==
  \/ Alu \/ MultiplyAlu \/ MultiplyReduceLevel \/ MultiplySumLevel
  \/ DividerLoad \/ DividerStep \/ DividerFinish
  \/ LsuStore \/ LsuLoad \/ WriteBack \/ Retire

Next == (\E t \in Tasks : Issue(t)) \/ Steps

Spec == Init /\ [][Next]_vars

-----------------------------------------------------------------------------
TypeOK ==
  /\ stage \in {"idle", "alu", "multiply_alu", "reduce", "sum", "load", "divide", "lsu",
                "write_back", "retire"}
  /\ entry.rd \in 0 .. 31 /\ entry.rs1 \in 0 .. 31 /\ entry.rs2 \in 0 .. 31
  /\ entry.imm \in Vectors(32)
  /\ entry.list_imm \in Word
  /\ entry.value \in Word \cup {<<>>}
  /\ \A k \in DOMAIN addends : addends[k] \in Vectors(2 * Bits + 2)
  /\ divider.PA \in Vectors(2 * Bits + 1)
  /\ divider.B \in Word
  /\ divider.i \in 0 .. Bits
  /\ lanes \in [Lanes -> [0 .. Depth - 1 -> Bytes]]
  /\ dout \in FullWords
  /\ access \in [op : Loads, offset : 0 .. 3]

\* The immediate the decoder assembles from a word is the one that was encoded, for every
\* format, its sign and its highest and lowest bits included; a shift's amount has five bits.
DecodesImmediate ==
  LET bits == IF task.name \in DOMAIN ShiftCodes THEN 5 ELSE 32
  IN  stage # "idle" /\ entry.args.imm # "none" =>
        SubSeq(entry.imm, 1, bits) = SubSeq(FullImmediate(task), 1, bits)

(* The multiplier: modulo 2^(2 * Bits + 2), the addends between its stages sum up to the    *)
(* product of the operands, each read with the sign its operation gives it.                 *)

FactorOf(name, n, signed) == IF name \in signed THEN I!AsSigned(n) ELSE n

\* Whatever the signs, no Booth digit, carry or dropped top bit changes the product.
CarrySaveKeepsProduct ==
  LET product == FactorOf(task.name, I!Source1(task), {"mulh", "mulhsu"})
                   * FactorOf(task.name, I!Source2(task), {"mulh"})
  IN  stage \in {"reduce", "sum"} => (Total(addends) - product) % 2^(2 * Bits + 2) = 0

\* Between two steps of the divider, i bits of the dividend are divided: they are the quotient
\* in the low bits of A times the divisor plus a remainder below the divisor, which P holds
\* after one more addition when it is negative; the high bits of A are the dividend's others.
DividerInvariant ==
  LET dividend == Number(divider.op_a)
      divisor == Number(divider.B)
      i == divider.i
      a == Number(A_(divider.PA))
      p == Signed(P_(divider.PA))
      remainder == IF p < 0 THEN p + divisor ELSE p
  IN  stage = "divide" =>
        /\ dividend \div 2^(Bits - i) = (a % 2^i) * divisor + remainder
        /\ remainder \in 0 .. divisor - 1
        /\ dividend % 2^(Bits - i) = a \div 2^i

\* Each instruction of Encoding gets the value, the memory and the next PC that RV32IM gives
\* it, through whichever units it goes and whatever was predicted; the program's bytes are
\* where the dump has them.  Not meant are FENCE and ECALL (not in Encoding), jalr to an odd
\* sum (the code keeps bit 0), and loads, multiplications and divisions into x0 (see
\* OutOfOrder!RegisterZeroIsZero): the run has no such task.  A misaligned load may return
\* anything and a misaligned store may do anything to its word.  For lb and lh it takes that
\* the framework's Sext repeats the sign.
ImplementsIsa == I!Spec
=============================================================================
