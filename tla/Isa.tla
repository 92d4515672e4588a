--------------------------------- MODULE Isa ---------------------------------
(***************************************************************************)
(* RV32IM as a program sees it (FENCE and ECALL are left out, see          *)
(* Encoding), one instruction at a time: an instruction is accepted, then  *)
(* executed; a store reaches the memory after that.  Registers and         *)
(* addresses have Bits bits, values are integers below 2^Bits;             *)
(* instruction words and immediates have their 32 bits.                    *)
(***************************************************************************)
EXTENDS Encoding, ByteArray

CONSTANTS
  Bits,             \* the width of a register
  Dump              \* the program's bytes: <<"byte", b>>, after <<"at", address>>

VARIABLES
  phase,            \* "idle", "execute" or "write"
  task,
  outcome           \* what the instruction did: see Outcome

vars == <<phase, task, outcome, bytes>>

NoOutcome == [rd |-> 0, value |-> 0, next |-> -1, stops |-> FALSE]

-----------------------------------------------------------------------------
(* Values. *)

Values == 2^Bits
Modulo(n) == n % Values
AsSigned(n) == IF 2 * n >= Values THEN n - Values ELSE n
Flag(condition) == IF condition THEN 1 ELSE 0
Bitwise(Op(_, _), a, b) == Number(Op(Vector(a, Bits), Vector(b, Bits)))

Magnitude(n) == IF n < 0 THEN -n ELSE n
\* Division truncates towards zero; by zero it gives all ones and leaves the dividend.
Quotient(x, y) ==
  IF y = 0 THEN -1
  ELSE (IF (x < 0) = (y < 0) THEN 1 ELSE -1) * (Magnitude(x) \div Magnitude(y))
Remainder(x, y) == IF y = 0 THEN x ELSE x - y * Quotient(x, y)

Operation(name, a, b) ==
  LET x == AsSigned(a)
      y == AsSigned(b)
      shift == b % Bits
  IN  CASE name \in {"add", "addi"} -> Modulo(a + b)
        [] name = "sub" -> Modulo(a - b)
        [] name \in {"sll", "slli"} -> Modulo(a * 2^shift)
        [] name \in {"srl", "srli"} -> a \div 2^shift
        [] name \in {"sra", "srai"} -> Modulo(x \div 2^shift)
        [] name \in {"slt", "slti"} -> Flag(x < y)
        [] name \in {"sltu", "sltiu"} -> Flag(a < b)
        [] name \in {"xor", "xori"} -> Bitwise(Xor, a, b)
        [] name \in {"or", "ori"} -> Bitwise(Or, a, b)
        [] name \in {"and", "andi"} -> Bitwise(And, a, b)
        [] name = "mul" -> Modulo(a * b)
        [] name = "mulh" -> Modulo((x * y) \div Values)
        [] name = "mulhsu" -> Modulo((x * b) \div Values)
        [] name = "mulhu" -> (a * b) \div Values
        [] name = "div" -> Modulo(Quotient(x, y))
        [] name = "divu" -> Modulo(Quotient(a, b))
        [] name = "rem" -> Modulo(Remainder(x, y))
        [] OTHER -> Modulo(Remainder(a, b))

Taken(name, a, b) ==
  CASE name = "beq" -> a = b
    [] name = "bne" -> a # b
    [] name = "blt" -> AsSigned(a) < AsSigned(b)
    [] name = "bge" -> AsSigned(a) >= AsSigned(b)
    [] name = "bltu" -> a < b
    [] OTHER -> a >= b

-----------------------------------------------------------------------------
(* Execution. *)

RegisterOf(t, n) == IF n = 0 THEN 0 ELSE t.registers[n]
Source1(t) == RegisterOf(t, t.rs1)
Source2(t) == RegisterOf(t, t.rs2)
ImmediateValue(t) == Number(SubSeq(FullImmediate(t), 1, Bits))

Address(t) == Modulo(Source1(t) + ImmediateValue(t)) % (4 * Depth)
AccessOf(t) ==
  CASE t.name \in {"lb", "sb"} -> "byte" [] t.name \in {"lh", "sh"} -> "half"
    [] t.name \in {"lw", "sw"} -> "word" [] t.name = "lbu" -> "byte_u" [] OTHER -> "half_u"
BytesOf(n) == [i \in 0 .. 3 |-> (n \div Byte^i) % Byte]

ValueOf(t) ==
  LET read == Loaded(AccessOf(t), Address(t))
  IN  CASE t.name \in DOMAIN RegisterCodes -> Operation(t.name, Source1(t), Source2(t))
        [] t.name \in DOMAIN ShiftCodes \cup DOMAIN ImmediateCodes ->
             Operation(t.name, Source1(t), ImmediateValue(t))
        [] IsLoad(t) -> read[0] + Byte * (read[1] + Byte * (read[2] + Byte * read[3]))
        [] t.name = "lui" -> ImmediateValue(t)
        [] t.name = "auipc" -> Modulo(t.pc + ImmediateValue(t))
        [] OTHER -> Modulo(t.pc + 4)

NextPc(t) ==
  CASE t.name = "jal" \/ (IsBranch(t) /\ Taken(t.name, Source1(t), Source2(t))) ->
         Modulo(t.pc + ImmediateValue(t))
    [] t.name = "jalr" -> Modulo(Source1(t) + ImmediateValue(t))
    [] OTHER -> Modulo(t.pc + 4)

Writes(t) == t.rd # 0 /\ ~IsBranch(t) /\ ~IsStore(t)

\* ebreak, and the store the programs end with: sb x0, -1(x0).
Stops(t) == t.name = "ebreak" \/ (t.name = "sb" /\ t.rs1 = 0 /\ t.rs2 = 0 /\ t.imm = -1)

Misaligned(t) == (IsLoad(t) \/ IsStore(t)) /\ ~Aligned(AccessOf(t), Address(t))

\* A misaligned load may return anything.
Performed(t, o) ==
  /\ o.rd = IF Writes(t) THEN t.rd ELSE 0
  /\ IF Writes(t) THEN Misaligned(t) \/ o.value = ValueOf(t) ELSE o.value = 0
  /\ o.next = NextPc(t)
  /\ o.stops = Stops(t)

-----------------------------------------------------------------------------
\* The address of the k-th line of the dump.
PlaceOf(k) ==
  LET markers == {m \in 1 .. k : Dump[m][1] = "at"}
      last == CHOOSE m \in markers : \A n \in markers : n <= m
  IN  IF markers = {} THEN k - 1 ELSE Dump[last][2] + k - last - 1

ByteAt(x) ==
  LET lines == {k \in DOMAIN Dump : Dump[k][1] = "byte" /\ PlaceOf(k) = x}
  IN  IF lines = {} THEN 0 ELSE Dump[CHOOSE k \in lines : TRUE][2]

Init ==
  /\ phase = "idle"
  /\ outcome = NoOutcome
  /\ bytes = [x \in Addresses |-> ByteAt(x)]

\* Any instruction may be next.
Accept ==
  /\ phase = "idle"
  /\ phase' = "execute"
  /\ outcome' = NoOutcome
  /\ UNCHANGED bytes

Execute ==
  /\ phase = "execute"
  /\ phase' = IF IsStore(task) THEN "write" ELSE "idle"
  /\ Performed(task, outcome')
  /\ UNCHANGED <<task, bytes>>

Write ==
  /\ phase = "write"
  /\ phase' = "idle"
  /\ Store(AccessOf(task), Address(task), BytesOf(Source2(task)))
  /\ UNCHANGED <<task, outcome>>

Next == Accept \/ Execute \/ Write

Spec == Init /\ [][Next]_vars
=============================================================================
