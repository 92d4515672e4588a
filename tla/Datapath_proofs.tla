-------------------------- MODULE Datapath_proofs --------------------------
(*************************************************************************)
(* The data of the machine at every width of a register: types, the      *)
(* decoded immediate, the multiplier's sums and the divider's steps; and *)
(* the memory, which implements an array of bytes at every size.         *)
(*************************************************************************)
EXTENDS Datapath, Circuits_proofs

-----------------------------------------------------------------------------
(* The memory. *)

\* An address splits into a word of the memory and one of its four bytes.
LEMMA AddressSplits ==
  ASSUME NEW addr \in 0 .. AddressNumber - 1
  PROVE  /\ WordAddress(addr) \in 0 .. Depth - 1
         /\ Offset(addr) \in 0 .. 3
  <1>1. addr \in Nat /\ addr \div 4 \in Nat
    BY AddressNumberAssumption
  <1>2. (addr \div 4) % Depth \in 0 .. Depth - 1
    BY <1>1, DepthAssumption
  <1> QED
    BY <1>1, <1>2 DEF WordAddress, Offset

\* A place in the array is a lane and a word.
LEMMA PlaceSplits ==
  ASSUME NEW x \in 0 .. 4 * Depth - 1
  PROVE  /\ x % 4 \in Lanes
         /\ x \div 4 \in 0 .. Depth - 1
         /\ x = 4 * (x \div 4) + (x % 4)
  BY DepthAssumption DEF Lanes

LEMMA QuotientOfPlace ==
  ASSUME NEW w \in Int, NEW o \in 0 .. 3
  PROVE  (4 * w + o) \div 4 = w /\ (4 * w + o) % 4 = o
  OBVIOUS

\* What a store puts in a lane is a byte of its data.
LEMMA WriteDataType ==
  ASSUME NEW op, NEW lane \in Lanes, NEW data \in FullWords
  PROVE  WriteData(op, lane, data) \in Bytes
  <1>1. lane % 2 \in Lanes /\ 0 \in Lanes
    BY DEF Lanes
  <1> QED
    BY <1>1 DEF WriteData, FullWords

\* What WriteBack makes of a word of bytes is a word of bytes.
LEMMA SextType ==
  ASSUME NEW byte \in Bytes
  PROVE  Sext[byte] \in Bytes
  BY SextAssumption

-----------------------------------------------------------------------------
LEMMA InitTypes == MemoryInit => MemoryTypeOK
  <1> SUFFICES ASSUME MemoryInit
               PROVE  MemoryTypeOK
    OBVIOUS
  <1>1. dout \in FullWords
    BY ByteAssumption DEF MemoryInit, FullWords, Bytes
  <1>2. access \in [op : Loads, offset : 0 .. 3]
    BY DEF MemoryInit, Loads
  <1> QED
    BY <1>1, <1>2 DEF MemoryInit, MemoryTypeOK

LEMMA StoreKeepsTypes ==
  ASSUME MemoryTypeOK, NEW addr \in 0 .. AddressNumber - 1, NEW op,
         NEW data \in FullWords, StoreAccess(op, addr, data)
  PROVE  MemoryTypeOK'
  <1>1. ASSUME NEW lane \in Lanes, NEW w \in 0 .. Depth - 1
        PROVE  WriteData(op, lane, data) \in Bytes /\ lanes[lane][w] \in Bytes
    BY <1>1, WriteDataType DEF MemoryTypeOK
  <1>2. lanes' \in [Lanes -> [0 .. Depth - 1 -> Bytes]]
    BY <1>1 DEF StoreAccess
  <1> QED
    BY <1>2 DEF StoreAccess, MemoryTypeOK, FullWords

LEMMA LoadKeepsTypes ==
  ASSUME MemoryTypeOK, NEW addr \in 0 .. AddressNumber - 1, NEW op \in Loads,
         LoadAccess(op, addr)
  PROVE  MemoryTypeOK'
  <1>1. WordAddress(addr) \in 0 .. Depth - 1 /\ Offset(addr) \in 0 .. 3
    BY AddressSplits
  <1>2. dout' \in FullWords
    BY <1>1 DEF LoadAccess, MemoryTypeOK, FullWords
  <1>3. access' \in [op : Loads, offset : 0 .. 3]
    BY <1>1 DEF LoadAccess
  <1> QED
    BY <1>2, <1>3 DEF LoadAccess, MemoryTypeOK, FullWords

\* The SRAMs, their outputs and the access in the ports of WriteBack keep their types.
THEOREM MemoryTypeCorrect == MemorySpec => []MemoryTypeOK
  <1>1. MemoryInit => MemoryTypeOK
    BY InitTypes
  <1>2. MemoryTypeOK /\ [MemoryNext]_memory => MemoryTypeOK'
    <2> SUFFICES ASSUME MemoryTypeOK, [MemoryNext]_memory
                 PROVE  MemoryTypeOK'
      OBVIOUS
    <2>1. CASE MemoryNext
      BY <2>1, StoreKeepsTypes, LoadKeepsTypes DEF MemoryNext
    <2>2. CASE UNCHANGED memory
      BY <2>2 DEF memory, MemoryTypeOK, FullWords
    <2> QED
      BY <2>1, <2>2
  <1> QED
    BY <1>1, <1>2, PTL DEF MemorySpec

-----------------------------------------------------------------------------
(* Stores. *)

\* The bytes of the array after a store, one by one.
LEMMA ByteAfterStore ==
  ASSUME MemoryTypeOK, NEW addr \in 0 .. AddressNumber - 1, NEW op \in Stores,
         NEW data \in FullWords, StoreAccess(op, addr, data), NEW x \in 0 .. 4 * Depth - 1
  PROVE  FlatBytes'[x] = IF x \div 4 = WordAddress(addr) /\ WriteEnable(op, Offset(addr), x % 4)
                           THEN WriteData(op, x % 4, data) ELSE FlatBytes[x]
  BY PlaceSplits DEF StoreAccess, FlatBytes

\* The lanes a store enables are the bytes of its width from its offset.
LEMMA EnabledLanes ==
  ASSUME NEW op \in Stores, NEW offset \in 0 .. 3, NEW lane \in Lanes,
         offset % A!Width(op) = 0
  PROVE  WriteEnable(op, offset, lane) <=> offset <= lane /\ lane < offset + A!Width(op)
  <1>1. CASE op = "byte"
    BY <1>1 DEF WriteEnable, A!Width, Lanes
  <1>2. CASE op = "half"
    BY <1>2 DEF WriteEnable, A!Width, Lanes
  <1>3. CASE op = "word"
    BY <1>3 DEF WriteEnable, A!Width, Lanes
  <1> QED
    BY <1>1, <1>2, <1>3 DEF Stores

\* Each of them gets the byte of the data that is as far from the first.
LEMMA WrittenByte ==
  ASSUME NEW op \in Stores, NEW offset \in 0 .. 3, NEW lane \in Lanes, NEW data,
         offset % A!Width(op) = 0, WriteEnable(op, offset, lane)
  PROVE  WriteData(op, lane, data) = data[lane - offset]
  <1>1. CASE op = "byte"
    BY <1>1 DEF WriteEnable, WriteData, A!Width, Lanes
  <1>2. CASE op = "half"
    BY <1>2 DEF WriteEnable, WriteData, A!Width, Lanes
  <1>3. CASE op = "word"
    BY <1>3 DEF WriteEnable, WriteData, A!Width, Lanes
  <1> QED
    BY <1>1, <1>2, <1>3 DEF Stores

\* An access is aligned when its offset is.
LEMMA AlignedOffset ==
  ASSUME NEW addr \in 0 .. AddressNumber - 1, NEW op
  PROVE  A!Aligned(op, ByteAddress(addr)) <=> Offset(addr) % A!Width(op) = 0
  <1>1. WordAddress(addr) \in Nat /\ Offset(addr) \in 0 .. 3
    BY AddressSplits, DepthAssumption
  <1>2. A!Width(op) \in {1, 2, 4}
    BY DEF A!Width
  <1>3. ASSUME NEW w \in Nat, NEW o \in 0 .. 3, NEW n \in {1, 2, 4}
        PROVE  (4 * w + o) % n = o % n
    <2>1. CASE n = 1
      BY <1>3, <2>1
    <2>2. CASE n = 2
      BY <1>3, <2>2
    <2>3. CASE n = 4
      BY <1>3, <2>3
    <2> QED
      BY <1>3, <2>1, <2>2, <2>3
  <1> QED
    BY <1>1, <1>2, <1>3 DEF A!Aligned, ByteAddress

LEMMA StoreImplements ==
  ASSUME MemoryTypeOK, NEW addr \in 0 .. AddressNumber - 1, NEW op \in Stores,
         NEW data \in FullWords, StoreAccess(op, addr, data)
  PROVE  A!Store(op, ByteAddress(addr), data)
  <1> DEFINE w == WordAddress(addr)
             o == Offset(addr)
             n == A!Width(op)
  <1>1. w \in 0 .. Depth - 1 /\ o \in 0 .. 3 /\ n \in {1, 2, 4}
    BY AddressSplits DEF A!Width
  <1>2. A!Aligned(op, ByteAddress(addr)) <=> o % n = 0
    BY AlignedOffset
  <1>3. SUFFICES ASSUME NEW x \in 0 .. 4 * Depth - 1
                 PROVE  \/ /\ o % n = 0
                           /\ 4 * w + o <= x /\ x < 4 * w + o + n
                           /\ FlatBytes'[x] = data[x - (4 * w + o)]
                        \/ /\ o % n = 0
                           /\ ~(4 * w + o <= x /\ x < 4 * w + o + n)
                           /\ FlatBytes'[x] = FlatBytes[x]
                        \/ /\ o % n # 0
                           /\ x \div 4 # (4 * w + o) \div 4 => FlatBytes'[x] = FlatBytes[x]
    BY <1>2 DEF A!Store, A!Addresses, ByteAddress
  <1> DEFINE q == x \div 4
             l == x % 4
  <1>4. q \in 0 .. Depth - 1 /\ l \in Lanes /\ x = 4 * q + l
    BY PlaceSplits
  <1>5. FlatBytes'[x] = IF q = w /\ WriteEnable(op, o, l) THEN WriteData(op, l, data)
                        ELSE FlatBytes[x]
    BY ByteAfterStore
  <1>6. w \in Int /\ q \in Int /\ l \in 0 .. 3
    BY <1>1, <1>4, DepthAssumption DEF Lanes
  <1>7. (4 * w + o) \div 4 = w
    BY <1>1, <1>6, QuotientOfPlace
  <1>8. CASE o % n # 0
    BY <1>5, <1>7, <1>8
  <1>9. CASE o % n = 0
    <2>1. o + n <= 4
      BY <1>1, <1>9
    <2>2. WriteEnable(op, o, l) <=> o <= l /\ l < o + n
      BY <1>1, <1>4, <1>9, EnabledLanes
    <2> HIDE DEF w, o, n, q, l
    <2>3. 4 * w + o <= x /\ x < 4 * w + o + n <=> q = w /\ o <= l /\ l < o + n
      BY <1>1, <1>4, <1>6, <2>1
    <2>4. CASE q = w /\ WriteEnable(op, o, l)
      <3>1. WriteData(op, l, data) = data[l - o]
        BY <1>1, <1>4, <1>9, <2>4, WrittenByte DEF n
      <3>2. l - o = x - (4 * w + o)
        BY <1>1, <1>4, <1>6, <2>4
      <3> QED
        BY <1>5, <1>9, <2>2, <2>3, <2>4, <3>1, <3>2
    <2>5. CASE ~(q = w /\ WriteEnable(op, o, l))
      BY <1>5, <1>9, <2>2, <2>3, <2>5
    <2> QED
      BY <2>4, <2>5
  <1> QED
    BY <1>8, <1>9

-----------------------------------------------------------------------------
(* Loads. *)

\* A byte of the array that lies in the word at w.
LEMMA ByteOfWord ==
  ASSUME NEW w \in 0 .. Depth - 1, NEW lane \in Lanes
  PROVE  FlatBytes[4 * w + lane] = lanes[lane][w]
  <1>1. w \in Int /\ lane \in 0 .. 3 /\ 4 * w + lane \in 0 .. 4 * Depth - 1
    BY DepthAssumption DEF Lanes
  <1>2. (4 * w + lane) \div 4 = w /\ (4 * w + lane) % 4 = lane
    BY <1>1, QuotientOfPlace
  <1> QED
    BY <1>1, <1>2 DEF FlatBytes

LEMMA LoadImplements ==
  ASSUME Sext = RepeatsSign, MemoryTypeOK, NEW addr \in 0 .. AddressNumber - 1, NEW op \in Loads,
         LoadAccess(op, addr)
  PROVE  /\ FlatBytes' = FlatBytes
         /\ A!Aligned(op, ByteAddress(addr)) =>
              WrittenBack' = A!Loaded(op, ByteAddress(addr))
  <1> DEFINE w == WordAddress(addr)
             o == Offset(addr)
             n == A!Width(op)
  <1>1. FlatBytes' = FlatBytes
    BY DEF LoadAccess, FlatBytes
  <1> SUFFICES ASSUME A!Aligned(op, ByteAddress(addr))
               PROVE  WrittenBack' = A!Loaded(op, ByteAddress(addr))
    BY <1>1
  <1>2. w \in 0 .. Depth - 1 /\ o \in 0 .. 3 /\ o % n = 0
    BY AddressSplits, AlignedOffset
  <1>3. \A lane \in 0 .. 3 : dout'[lane] = FlatBytes[4 * w + lane]
    BY <1>2, ByteOfWord DEF LoadAccess, Lanes
  <1>4. WrittenBack' = ProcessMemoryData(op, o)'
    BY DEF WrittenBack, LoadAccess
  <1>5. \A i \in 0 .. 3 : i + o <= 3 => Shifted(o, i)' = FlatBytes[4 * w + o + i]
    <2> SUFFICES ASSUME NEW i \in 0 .. 3, i + o <= 3
                 PROVE  dout'[i + o] = FlatBytes[4 * w + o + i]
      BY DEF Shifted
    <2>1. i + o \in 0 .. 3 /\ 4 * w + (i + o) = 4 * w + o + i
      BY <1>2, DepthAssumption
    <2> QED
      BY <1>3, <2>1
  <1> HIDE DEF w, o
  <1> DEFINE byte(i) == FlatBytes[4 * w + o + i]
  <1>6. 4 * w + o + 0 = 4 * w + o
    BY <1>2, DepthAssumption
  <1>7. \A i \in 0 .. 3 : i + o <= 3 => byte(i) \in Bytes
    <2> SUFFICES ASSUME NEW i \in 0 .. 3, i + o <= 3
                 PROVE  FlatBytes[4 * w + o + i] \in Bytes
      OBVIOUS
    <2>1. o + i \in Lanes /\ 4 * w + o + i = 4 * w + (o + i)
      BY <1>2, DepthAssumption DEF Lanes
    <2>2. FlatBytes[4 * w + (o + i)] = lanes[o + i][w]
      BY <1>2, <2>1, ByteOfWord
    <2>3. lanes[o + i][w] \in Bytes
      BY <1>2, <2>1 DEF MemoryTypeOK
    <2> QED BY <2>1, <2>2, <2>3
  <1>8. ProcessMemoryData(op, o)' =
          [i \in 0 .. 3 |-> IF i < n THEN byte(i) ELSE A!Extension(op, byte(n - 1))]
    <2>1. CASE op = "byte" \/ op = "byte_u"
      <3>1. n = 1
        BY <2>1 DEF A!Width
      <3>2. Shifted(o, 0)' = byte(0)
        BY <1>2, <1>5
      <3>3. Sext[byte(0)] = A!Extension("byte", byte(0))
        BY <1>2, <1>7 DEF RepeatsSign, A!Extension
      <3>4. CASE op = "byte"
        BY <3>1, <3>2, <3>3, <3>4 DEF ProcessMemoryData, Lanes, A!Extension
      <3>5. CASE op = "byte_u"
        BY <3>1, <3>2, <3>5 DEF ProcessMemoryData, Lanes, A!Extension
      <3> QED
        BY <2>1, <3>4, <3>5
    <2>2. CASE op = "half" \/ op = "half_u"
      <3>1. n = 2
        BY <2>2 DEF A!Width
      <3>2. o \in {0, 2}
        BY <1>2, <3>1
      <3>3. Shifted(o, 0)' = byte(0) /\ Shifted(o, 1)' = byte(1)
        BY <1>2, <1>5, <3>2
      <3>4. Sext[byte(1)] = A!Extension("half", byte(1))
        BY <1>7, <3>2 DEF RepeatsSign, A!Extension
      <3>5. CASE op = "half"
        BY <3>1, <3>3, <3>4, <3>5 DEF ProcessMemoryData, Lanes, A!Extension
      <3>6. CASE op = "half_u"
        BY <3>1, <3>3, <3>6 DEF ProcessMemoryData, Lanes, A!Extension
      <3> QED
        BY <2>2, <3>5, <3>6
    <2>3. CASE op = "word"
      <3>1. n = 4
        BY <2>3 DEF A!Width
      <3>2. o = 0
        BY <1>2, <3>1
      <3>3. \A i \in 0 .. 3 : dout'[i] = byte(i)
        <4> TAKE i \in 0 .. 3
        <4>1. 4 * w + o + i = 4 * w + i
          BY <1>2, <3>2, DepthAssumption
        <4> QED
          BY <1>3, <4>1
      <3> QED
        BY <2>3, <3>1, <3>3 DEF ProcessMemoryData, Lanes
    <2> QED
      BY <2>1, <2>2, <2>3 DEF Loads
  <1>9. A!Loaded(op, ByteAddress(addr)) =
          [i \in 0 .. 3 |-> IF i < n THEN byte(i) ELSE A!Extension(op, byte(n - 1))]
    <2>1. ByteAddress(addr) = 4 * w + o
      BY DEF ByteAddress, w, o
    <2>2. n \in {1, 2, 4}
      BY DEF A!Width
    <2>3. (4 * w + o) + n - 1 = 4 * w + o + (n - 1)
      BY <1>2, <2>2, DepthAssumption
    <2> QED
      BY <2>1, <2>3 DEF A!Loaded
  <1> QED
    BY <1>4, <1>8, <1>9

-----------------------------------------------------------------------------
\* Behind its lanes, write enables, shifts and extensions the memory is an array of bytes: an
\* aligned access writes and reads the bytes it names, a misaligned one stays in its word.
\* The framework's sext, which writeback.py calls for lb and lh, is taken at its word.
THEOREM MemoryImplementsByteArray ==
  ASSUME Sext = RepeatsSign
  PROVE  MemorySpec => ImplementsByteArray
  <1> DEFINE Implements ==
        \A addr \in 0 .. AddressNumber - 1 :
          /\ \A op \in Stores, data \in FullWords :
               StoreAccess(op, addr, data) => A!Store(op, ByteAddress(addr), data)
          /\ \A op \in Loads :
               LoadAccess(op, addr) =>
                 /\ FlatBytes' = FlatBytes
                 /\ A!Aligned(op, ByteAddress(addr)) =>
                      WrittenBack' = A!Loaded(op, ByteAddress(addr))
  <1>1. MemoryTypeOK /\ [MemoryNext]_memory => [Implements]_memory
    BY StoreImplements, LoadImplements
  <1> QED
    BY <1>1, MemoryTypeCorrect, PTL DEF MemorySpec, ImplementsByteArray

-----------------------------------------------------------------------------
(* Words and what the ALU makes of them. *)
LEMMA BitsIs == Bits \in Nat /\ Bits >= 8 /\ Bits <= 32 /\ Bits % 4 = 0
BY BitsAssumption

LEMMA WordIs == Word = Vectors(Bits)
BY DEF Word

LEMMA WordConstants == Zero \in Word /\ Ones \in Word /\ Smallest \in Word
<1>1. Zero \in Word /\ Ones \in Word
  BY BitsIs, WordIs, RepeatedType DEF Zero, Ones
<1>2. Bits - 1 \in Nat /\ (Bits - 1) + 1 = Bits
  BY BitsIs
<1>3. Repeated(0, Bits - 1) \in Vectors(Bits - 1)
  BY <1>2, RepeatedType
<1>4. Append(Repeated(0, Bits - 1), 1) \in Vectors((Bits - 1) + 1)
  BY <1>2, <1>3, AppendIs
<1> QED BY <1>1, <1>2, <1>4, WordIs DEF Smallest

LEMMA NumberOfWord == ASSUME NEW x \in Word PROVE Number(x) \in Nat /\ Number(x) < 2^Bits
BY BitsIs, WordIs, NumberBound

LEMMA SumType == ASSUME NEW x \in Word, NEW y \in Word PROVE Sum(x, y) \in Word
<1>1. Number(x) + Number(y) \in Int
  BY NumberOfWord
<1> QED BY <1>1, BitsIs, WordIs, VectorType DEF Sum

LEMMA TopType == ASSUME NEW x \in Word PROVE Top(x) \in {0, 1}
<1>1. x \in Vectors(Bits)
  BY WordIs
<1>2. Bits \in Nat /\ Bits \in 1 .. Bits
  BY BitsIs
<1>3. Len(x) = Bits /\ x[Bits] \in {0, 1}
  BY <1>1, <1>2, VectorIs
<1> QED BY <1>3 DEF Top

LEMMA AbsoluteType == ASSUME NEW x \in Word, NEW s \in BOOLEAN PROVE Absolute(x, s) \in Word
BY BitsIs, WordIs, NegIs DEF Absolute

LEMMA AluResultType ==
  ASSUME NEW op, NEW a \in Word, NEW b \in Word
  PROVE  AluResult(op, a, b) \in Word
<1>1. a \in Vectors(Bits) /\ b \in Vectors(Bits) /\ Bits \in Nat
  BY BitsIs, WordIs
<1>2. Not(b) \in Vectors(Bits)
  BY <1>1, NotIs
<1>3. Add(a, b, 0) \in Word /\ Add(a, Not(b), 1) \in Word
  BY <1>1, <1>2, AddIs, WordIs
<1>4. And(a, b) \in Word /\ Or(a, b) \in Word /\ Xor(a, b) \in Word
  BY <1>1, BitwiseType, WordIs
<1>5. ShiftAmount(b) \in Nat
  <2>1. Log2(Bits) \in 0 .. Bits
    BY <1>1, Log2Is
  <2>2. PICK l : l = Log2(Bits) - 1
    OBVIOUS
  <2>3. 0 \in 0 .. Bits /\ l \in 0 - 1 .. Bits - 1 /\ l - 0 + 1 \in Nat
    BY <1>1, <2>1, <2>2
  <2>4. Slice(b, 0, l) \in Vectors(l - 0 + 1)
    BY <1>1, <2>3, SliceIs
  <2> QED BY <2>2, <2>3, <2>4, NumberBound DEF ShiftAmount
<1>6. Top(a) \in {0, 1}
  BY TopType
<1>7. /\ ShiftLeft(a, ShiftAmount(b)) \in Word
      /\ ShiftRight(a, ShiftAmount(b), 0) \in Word
      /\ ShiftRight(a, ShiftAmount(b), Top(a)) \in Word
  BY <1>1, <1>5, <1>6, ShiftTypes, WordIs
<1>8. Vector(1, Bits) \in Word /\ Vector(0, Bits) \in Word
  <2>1. 1 \in Int /\ 0 \in Int
    OBVIOUS
  <2> QED BY <1>1, <2>1, VectorType, WordIs
<1>9. FlagWord(Signed(a) < Signed(b)) \in Word /\ FlagWord(Number(a) < Number(b)) \in Word
  BY <1>8 DEF FlagWord
<1> QED BY <1>3, <1>4, <1>7, <1>9 DEF AluResult

-----------------------------------------------------------------------------
(* The table of instructions. *)
Formats == {"none", "I", "S", "B", "U", "J"}

AluOps == {"ADD", "SUB", "SLL", "SRL", "SRA", "AND", "OR", "XOR", "SLT", "SLTU"}

Arguments ==
  [has_rd : BOOLEAN, imm : Formats, is_alu : BOOLEAN, alu_op : AluOps \cup MulOps \cup DivOps \cup RemOps,
   from1 : {"RS1", "PC", "IMM"}, from2 : {"RS1", "RS2", "IMM", "LITERAL_FOUR"}, is_load : BOOLEAN, is_store : BOOLEAN,
   mem_op : Loads, is_branch : BOOLEAN, branch_flip : BOOLEAN, is_terminator : BOOLEAN,
   is_jump : BOOLEAN, is_jalr : BOOLEAN]

\* The format an opcode implies, and funct3 of the multiplications.
FormatOf(opcode) ==
  CASE opcode \in {3, 19, 103, 115} -> "I" [] opcode = 35 -> "S" [] opcode = 99 -> "B"
    [] opcode \in {23, 55} -> "U" [] opcode = 111 -> "J" [] OTHER -> "none"

MulCode(alu_op) == CASE alu_op = "MUL" -> 0 [] alu_op = "MULH" -> 1 [] alu_op = "MULSU" -> 2 [] OTHER -> 3

\* The patterns that have the format of their opcode, and multiply as their functions say.
Patterns ==
  {p \in [opcode : Int, funct3 : Int, funct7 : Int, args : Arguments] :
     /\ p.args.imm = FormatOf(p.opcode)
     /\ p.args.alu_op \in MulOps =>
          p.opcode = 51 /\ p.funct3 = MulCode(p.args.alu_op) /\ p.funct7 = 1}

LEMMA DefaultType == Default \in Arguments
BY DEF Default, Arguments, Formats, Loads, AluOps

LEMMA PatternIs ==
  ASSUME NEW opcode \in Int, NEW f3 \in Int, NEW f7 \in Int, NEW args \in Arguments,
         args.imm = FormatOf(opcode),
         args.alu_op \in MulOps => opcode = 51 /\ f3 = MulCode(args.alu_op) /\ f7 = 1
  PROVE  Pattern(opcode, f3, f7, args) \in Patterns
<1>1. PICK p : p = Pattern(opcode, f3, f7, args)
  OBVIOUS
<1>2. p.opcode = opcode /\ p.funct3 = f3 /\ p.funct7 = f7 /\ p.args = args
  BY <1>1 DEF Pattern
<1>3. p \in [opcode : Int, funct3 : Int, funct7 : Int, args : Arguments]
  BY <1>1 DEF Pattern
<1> QED BY <1>1, <1>2, <1>3 DEF Patterns

LEMMA FormatsOfOpcodes ==
  /\ FormatOf(3) = "I" /\ FormatOf(19) = "I" /\ FormatOf(103) = "I" /\ FormatOf(115) = "I"
  /\ FormatOf(35) = "S" /\ FormatOf(99) = "B" /\ FormatOf(23) = "U" /\ FormatOf(55) = "U"
  /\ FormatOf(111) = "J" /\ FormatOf(51) = "none"
BY DEF FormatOf

LEMMA IArgsType ==
  ASSUME NEW op \in AluOps
  PROVE  IArgs(op) \in Arguments /\ IArgs(op).imm = "I" /\ IArgs(op).alu_op = op
BY DEF IArgs, Default, Arguments, Formats, Loads, AluOps

LEMMA AluOpsAreNoMulOps == \A op \in AluOps : op \notin MulOps
BY DEF AluOps, MulOps

LEMMA RTypePattern ==
  ASSUME NEW op \in AluOps \cup MulOps \cup DivOps \cup RemOps, NEW f3 \in Int, NEW f7 \in Int,
         op \in MulOps => f3 = MulCode(op) /\ f7 = 1
  PROVE  RType(op, f3, f7) \in Patterns
<1>1. PICK args : args = [Default EXCEPT !.alu_op = op, !.from2 = "RS2", !.has_rd = TRUE, !.is_alu = TRUE]
  OBVIOUS
<1>2. args \in Arguments /\ args.imm = "none" /\ args.alu_op = op
  BY <1>1 DEF Default, Arguments, Formats, Loads
<1>3. RType(op, f3, f7) = Pattern(51, f3, f7, args)
  BY <1>1 DEF RType
<1>4. Pattern(51, f3, f7, args) \in Patterns
  BY <1>2, PatternIs, FormatsOfOpcodes
<1> QED BY <1>3, <1>4

LEMMA ITypePattern ==
  ASSUME NEW op \in AluOps, NEW f3 \in Int, NEW f7 \in Int
  PROVE  IType(op, f3, f7) \in Patterns
BY IArgsType, PatternIs, FormatsOfOpcodes, AluOpsAreNoMulOps DEF IType

LEMMA LoadTypePattern ==
  ASSUME NEW f3 \in Int, NEW op \in Loads
  PROVE  LoadType(f3, op) \in Patterns
<1>0. "ADD" \in AluOps /\ AnyField \in Int
  BY DEF AluOps, AnyField
<1>1. PICK args : args = [IArgs("ADD") EXCEPT !.is_load = TRUE, !.is_alu = FALSE, !.mem_op = op]
  OBVIOUS
<1>2. args \in Arguments /\ args.imm = "I" /\ args.alu_op = "ADD"
  <2>1. PICK i : i = IArgs("ADD") /\ i \in Arguments /\ i.imm = "I" /\ i.alu_op = "ADD"
    BY <1>0, IArgsType
  <2>2. args = [i EXCEPT !.is_load = TRUE, !.is_alu = FALSE, !.mem_op = op]
    BY <1>1, <2>1
  <2> QED BY <2>1, <2>2 DEF Arguments
<1>3. Pattern(3, f3, AnyField, args) \in Patterns
  BY <1>0, <1>2, PatternIs, FormatsOfOpcodes, AluOpsAreNoMulOps
<1> QED BY <1>1, <1>3 DEF LoadType

LEMMA STypePattern ==
  ASSUME NEW f3 \in Int, NEW op \in Loads
  PROVE  SType(f3, op) \in Patterns
<1>0. "ADD" \in AluOps /\ AnyField \in Int
  BY DEF AluOps, AnyField
<1>1. PICK args : args = [Default EXCEPT !.from2 = "IMM", !.imm = "S", !.is_store = TRUE, !.mem_op = op]
  OBVIOUS
<1>2. args \in Arguments /\ args.imm = "S" /\ args.alu_op = "ADD"
  BY <1>1 DEF Default, Arguments, Formats, AluOps
<1>3. Pattern(35, f3, AnyField, args) \in Patterns
  BY <1>0, <1>2, PatternIs, FormatsOfOpcodes, AluOpsAreNoMulOps
<1> QED BY <1>1, <1>3 DEF SType

LEMMA BTypePattern ==
  ASSUME NEW op \in AluOps, NEW f3 \in Int, NEW flip \in BOOLEAN
  PROVE  BType(op, f3, flip) \in Patterns
<1>0. AnyField \in Int
  BY DEF AnyField
<1>1. PICK args : args = [Default EXCEPT !.alu_op = op, !.from2 = "RS2", !.imm = "B", !.is_alu = TRUE,
                                        !.is_branch = TRUE, !.branch_flip = flip]
  OBVIOUS
<1>2. args \in Arguments /\ args.imm = "B" /\ args.alu_op = op
  BY <1>1 DEF Default, Arguments, Formats, Loads
<1>3. Pattern(99, f3, AnyField, args) \in Patterns
  BY <1>0, <1>2, PatternIs, FormatsOfOpcodes, AluOpsAreNoMulOps
<1> QED BY <1>1, <1>3 DEF BType

LEMMA UTypePattern ==
  ASSUME NEW opcode \in {23, 55}, NEW op \in AluOps, NEW from1 \in {"PC", "IMM"}
  PROVE  UType(opcode, op, from1) \in Patterns
<1>0. AnyField \in Int
  BY DEF AnyField
<1>1. PICK args : args = [Default EXCEPT !.alu_op = op, !.from1 = from1, !.from2 = "IMM", !.has_rd = TRUE,
                                        !.imm = "U", !.is_alu = TRUE]
  OBVIOUS
<1>2. args \in Arguments /\ args.imm = "U" /\ args.alu_op = op
  BY <1>1 DEF Default, Arguments, Formats, Loads
<1>3. Pattern(opcode, AnyField, AnyField, args) \in Patterns
  BY <1>0, <1>2, PatternIs, FormatsOfOpcodes, AluOpsAreNoMulOps
<1> QED BY <1>1, <1>3 DEF UType

LEMMA OtherPatterns ==
  /\ JType \in Patterns
  /\ Pattern(103, 0, AnyField, [IArgs("ADD") EXCEPT !.is_jump = TRUE, !.is_jalr = TRUE]) \in Patterns
  /\ UType(55, "OR", "IMM") \in Patterns /\ UType(23, "ADD", "PC") \in Patterns
  /\ Pattern(115, 0, AnyField, [IArgs("ADD") EXCEPT !.is_terminator = TRUE]) \in Patterns
<1>0. "ADD" \in AluOps /\ "OR" \in AluOps /\ AnyField \in Int /\ 0 \in Int
  BY DEF AluOps, AnyField
<1>1. JType \in Patterns
  <2>1. PICK args : args = [Default EXCEPT !.from1 = "PC", !.from2 = "LITERAL_FOUR", !.has_rd = TRUE,
                                          !.imm = "J", !.is_alu = TRUE, !.is_jump = TRUE]
    OBVIOUS
  <2>2. args \in Arguments /\ args.imm = "J" /\ args.alu_op = "ADD"
    BY <2>1 DEF Default, Arguments, Formats, Loads, AluOps
  <2>3. Pattern(111, AnyField, AnyField, args) \in Patterns
    BY <1>0, <2>2, PatternIs, FormatsOfOpcodes, AluOpsAreNoMulOps
  <2> QED BY <2>1, <2>3 DEF JType
<1>2. ASSUME NEW opcode \in {103, 115}, NEW args, args \in Arguments, args.imm = "I", args.alu_op = "ADD"
      PROVE  Pattern(opcode, 0, AnyField, args) \in Patterns
  BY <1>0, <1>2, PatternIs, FormatsOfOpcodes, AluOpsAreNoMulOps
<1>3. PICK a, b : /\ a = [IArgs("ADD") EXCEPT !.is_jump = TRUE, !.is_jalr = TRUE]
                  /\ b = [IArgs("ADD") EXCEPT !.is_terminator = TRUE]
  OBVIOUS
<1>4. a \in Arguments /\ a.imm = "I" /\ a.alu_op = "ADD" /\ b \in Arguments /\ b.imm = "I" /\ b.alu_op = "ADD"
  <2>1. PICK i : i = IArgs("ADD") /\ i \in Arguments /\ i.imm = "I" /\ i.alu_op = "ADD"
    BY <1>0, IArgsType
  <2>2. a = [i EXCEPT !.is_jump = TRUE, !.is_jalr = TRUE] /\ b = [i EXCEPT !.is_terminator = TRUE]
    BY <1>3, <2>1
  <2>3. a \in Arguments /\ a.imm = "I" /\ a.alu_op = "ADD"
    BY <2>1, <2>2 DEF Arguments
  <2>4. b \in Arguments /\ b.imm = "I" /\ b.alu_op = "ADD"
    BY <2>1, <2>2 DEF Arguments
  <2> QED BY <2>3, <2>4
<1>5. Pattern(103, 0, AnyField, a) \in Patterns /\ Pattern(115, 0, AnyField, b) \in Patterns
  BY <1>2, <1>4
<1>6. UType(55, "OR", "IMM") \in Patterns /\ UType(23, "ADD", "PC") \in Patterns
  BY <1>0, UTypePattern
<1> QED BY <1>1, <1>3, <1>5, <1>6

LEMMA InstructionsType == Instructions \in Seq(Patterns)
<1>1. RTypes \in Seq(Patterns)
  <2>1. RType("ADD", 0, 0) \in Patterns
    BY RTypePattern DEF AluOps, MulOps
  <2>2. RType("SUB", 0, 32) \in Patterns
    BY RTypePattern DEF AluOps, MulOps
  <2>3. RType("XOR", 4, 0) \in Patterns
    BY RTypePattern DEF AluOps, MulOps
  <2>4. RType("OR", 6, 0) \in Patterns
    BY RTypePattern DEF AluOps, MulOps
  <2>5. RType("AND", 7, 0) \in Patterns
    BY RTypePattern DEF AluOps, MulOps
  <2>6. RType("SLL", 1, 0) \in Patterns
    BY RTypePattern DEF AluOps, MulOps
  <2>7. RType("SRL", 5, 0) \in Patterns
    BY RTypePattern DEF AluOps, MulOps
  <2>8. RType("SRA", 5, 32) \in Patterns
    BY RTypePattern DEF AluOps, MulOps
  <2>9. RType("SLT", 2, 0) \in Patterns
    BY RTypePattern DEF AluOps, MulOps
  <2>10. RType("SLTU", 3, 0) \in Patterns
    BY RTypePattern DEF AluOps, MulOps
  <2> QED BY <2>1, <2>2, <2>3, <2>4, <2>5, <2>6, <2>7, <2>8, <2>9, <2>10 DEF RTypes
<1>2. MulDivTypes \in Seq(Patterns)
  <2>1. RType("MUL", 0, 1) \in Patterns
    <3>1. "MUL" \in AluOps \cup MulOps \cup DivOps \cup RemOps /\ 0 = MulCode("MUL")
      BY DEF MulOps, MulCode
    <3> QED BY <3>1, RTypePattern
  <2>2. RType("MULH", 1, 1) \in Patterns
    <3>1. "MULH" \in AluOps \cup MulOps \cup DivOps \cup RemOps /\ 1 = MulCode("MULH")
      BY DEF MulOps, MulCode
    <3> QED BY <3>1, RTypePattern
  <2>3. RType("MULSU", 2, 1) \in Patterns
    <3>1. "MULSU" \in AluOps \cup MulOps \cup DivOps \cup RemOps /\ 2 = MulCode("MULSU")
      BY DEF MulOps, MulCode
    <3> QED BY <3>1, RTypePattern
  <2>4. RType("MULU", 3, 1) \in Patterns
    <3>1. "MULU" \in AluOps \cup MulOps \cup DivOps \cup RemOps /\ 3 = MulCode("MULU")
      BY DEF MulOps, MulCode
    <3> QED BY <3>1, RTypePattern
  <2>5. RType("DIV", 4, 1) \in Patterns
    <3>1. "DIV" \notin MulOps /\ "DIV" \in AluOps \cup MulOps \cup DivOps \cup RemOps
      BY DEF MulOps, DivOps, RemOps
    <3> QED BY <3>1, RTypePattern
  <2>6. RType("DIVU", 5, 1) \in Patterns
    <3>1. "DIVU" \notin MulOps /\ "DIVU" \in AluOps \cup MulOps \cup DivOps \cup RemOps
      BY DEF MulOps, DivOps, RemOps
    <3> QED BY <3>1, RTypePattern
  <2>7. RType("REM", 6, 1) \in Patterns
    <3>1. "REM" \notin MulOps /\ "REM" \in AluOps \cup MulOps \cup DivOps \cup RemOps
      BY DEF MulOps, DivOps, RemOps
    <3> QED BY <3>1, RTypePattern
  <2>8. RType("REMU", 7, 1) \in Patterns
    <3>1. "REMU" \notin MulOps /\ "REMU" \in AluOps \cup MulOps \cup DivOps \cup RemOps
      BY DEF MulOps, DivOps, RemOps
    <3> QED BY <3>1, RTypePattern
  <2> QED BY <2>1, <2>2, <2>3, <2>4, <2>5, <2>6, <2>7, <2>8 DEF MulDivTypes
<1>3. ITypes \in Seq(Patterns)
  BY ITypePattern DEF ITypes, AluOps, AnyField
<1>4. LoadTypes \in Seq(Patterns) /\ STypes \in Seq(Patterns)
  BY LoadTypePattern, STypePattern DEF LoadTypes, STypes, Loads
<1>5. BTypes \in Seq(Patterns)
  <2>0. /\ "SUB" \in AluOps /\ "SLT" \in AluOps /\ "SLTU" \in AluOps
        /\ 0 \in Int /\ 1 \in Int /\ 4 \in Int /\ 5 \in Int /\ 6 \in Int /\ 7 \in Int
    BY DEF AluOps
  <2>1. /\ BType("SUB", 1, FALSE) \in Patterns
        /\ BType("SLT", 4, FALSE) \in Patterns
        /\ BType("SLTU", 6, FALSE) \in Patterns
        /\ BType("SUB", 0, TRUE) \in Patterns
        /\ BType("SLT", 5, TRUE) \in Patterns
        /\ BType("SLTU", 7, TRUE) \in Patterns
    BY <2>0, BTypePattern, Zenon
  <2>2. PICK p1, p2, p3, p4, p5, p6 :
          /\ p1 = BType("SUB", 1, FALSE)
          /\ p2 = BType("SLT", 4, FALSE)
          /\ p3 = BType("SLTU", 6, FALSE)
          /\ p4 = BType("SUB", 0, TRUE)
          /\ p5 = BType("SLT", 5, TRUE)
          /\ p6 = BType("SLTU", 7, TRUE)
    BY Zenon
  <2>3. BTypes = <<p1, p2, p3, p4, p5, p6>>
    BY <2>2, Zenon DEF BTypes
  <2>4. p1 \in Patterns /\ p2 \in Patterns /\ p3 \in Patterns /\ p4 \in Patterns /\ p5 \in Patterns /\ p6 \in Patterns
    BY <2>1, <2>2, Zenon
  <2> QED BY <2>3, <2>4
<1>6. OtherTypes \in Seq(Patterns)
  BY OtherPatterns DEF OtherTypes
<1> QED BY <1>1, <1>2, <1>3, <1>4, <1>5, <1>6 DEF Instructions

\* The arguments a word can get: the immediate has the format of its opcode, and a word
\* multiplies only if it is a multiplication.
Selected(word) ==
  {a \in Arguments :
     /\ a.imm \in {"none", FormatOf(Opcode(word))}
     /\ a.alu_op \in MulOps =>
          Opcode(word) = 51 /\ Funct3(word) = MulCode(a.alu_op) /\ Funct7(word) = 1}

LEMMA SelectArgsType ==
  ASSUME NEW a \in Arguments, NEW q \in Arguments, NEW p, p.args = q
  PROVE  /\ SelectArgs(a, p) \in Arguments
         /\ SelectArgs(a, p).imm \in {a.imm, q.imm}
         /\ SelectArgs(a, p).alu_op = q.alu_op
<1>1. PICK r : r = SelectArgs(a, p)
  OBVIOUS
<1>2. r = [field \in DOMAIN Default |->
             CASE field \in Flags -> a[field] \/ q[field]
               [] field = "imm" /\ q.imm = "none" -> a.imm
               [] OTHER -> q[field]]
  BY <1>1 DEF SelectArgs
<1>3. DOMAIN Default = {"has_rd", "imm", "is_alu", "alu_op", "from1", "from2", "is_load", "is_store",
                        "mem_op", "is_branch", "branch_flip", "is_terminator", "is_jump", "is_jalr"}
  BY DEF Default
<1>4. /\ r.imm = (IF q.imm = "none" THEN a.imm ELSE q.imm) /\ r.alu_op = q.alu_op
      /\ r.from1 = q.from1 /\ r.from2 = q.from2 /\ r.mem_op = q.mem_op
  BY <1>2, <1>3 DEF Flags
<1>5. /\ r.has_rd = (a.has_rd \/ q.has_rd) /\ r.is_alu = (a.is_alu \/ q.is_alu)
      /\ r.is_load = (a.is_load \/ q.is_load) /\ r.is_store = (a.is_store \/ q.is_store)
      /\ r.is_branch = (a.is_branch \/ q.is_branch) /\ r.branch_flip = (a.branch_flip \/ q.branch_flip)
      /\ r.is_terminator = (a.is_terminator \/ q.is_terminator)
      /\ r.is_jump = (a.is_jump \/ q.is_jump) /\ r.is_jalr = (a.is_jalr \/ q.is_jalr)
  BY <1>2, <1>3 DEF Flags
<1>6. r = [has_rd |-> r.has_rd, imm |-> r.imm, is_alu |-> r.is_alu, alu_op |-> r.alu_op,
           from1 |-> r.from1, from2 |-> r.from2, is_load |-> r.is_load, is_store |-> r.is_store,
           mem_op |-> r.mem_op, is_branch |-> r.is_branch, branch_flip |-> r.branch_flip,
           is_terminator |-> r.is_terminator, is_jump |-> r.is_jump, is_jalr |-> r.is_jalr]
  BY <1>2, <1>3
<1>7. r \in Arguments
  BY <1>4, <1>5, <1>6 DEF Arguments
<1> QED BY <1>1, <1>4, <1>7

LEMMA SelectArgsSelected ==
  ASSUME NEW word, NEW a \in Selected(word), NEW p \in Patterns, Matches(p, word)
  PROVE  SelectArgs(a, p) \in Selected(word)
<1>1. PICK q : q = p.args /\ q \in Arguments /\ q.imm = FormatOf(p.opcode)
               /\ (q.alu_op \in MulOps => p.opcode = 51 /\ p.funct3 = MulCode(q.alu_op) /\ p.funct7 = 1)
  BY DEF Patterns
<1>2. /\ a \in Arguments /\ a.imm \in {"none", FormatOf(Opcode(word))}
  BY DEF Selected
<1>3. PICK r : r = SelectArgs(a, p) /\ r \in Arguments /\ r.imm \in {a.imm, q.imm} /\ r.alu_op = q.alu_op
  BY <1>1, <1>2, SelectArgsType
<1>4. p.opcode = Opcode(word)
  BY DEF Matches
<1>5. ASSUME q.alu_op \in MulOps
      PROVE  Opcode(word) = 51 /\ Funct3(word) = MulCode(q.alu_op) /\ Funct7(word) = 1
  <2>1. MulCode(q.alu_op) # AnyField /\ 1 # AnyField
    BY DEF MulCode, AnyField
  <2> QED BY <1>1, <1>4, <1>5, <2>1 DEF Matches
<1> QED BY <1>1, <1>2, <1>3, <1>4, <1>5 DEF Selected

LEMMA SelectedArgs == ASSUME NEW word PROVE SelectInstructionArgs(word) \in Selected(word)
<1>1. PICK N \in Nat : N = Len(Instructions)
  BY InstructionsType
<1>2. ASSUME NEW k \in 1 .. N PROVE Instructions[k] \in Patterns
  BY <1>1, <1>2, InstructionsType
<1> DEFINE V == [k \in 0 .. N |-> Selected(word)]
           Selects(a, k) == IF Matches(Instructions[k], word) THEN SelectArgs(a, Instructions[k]) ELSE a
           step == [k \in 1 .. N |-> [a \in Selected(word) |-> Selects(a, k)]]
           Layers(f) == [k \in 0 .. N |-> IF k = 0 THEN Default ELSE Selects(f[k - 1], k)]
<1>3. Default \in Selected(word)
  <2>1. Default.imm = "none" /\ Default.alu_op = "ADD" /\ "ADD" \notin MulOps
    BY DEF Default, MulOps
  <2> QED BY <2>1, DefaultType DEF Selected
<1>4. ASSUME NEW k \in 1 .. N, NEW a \in Selected(word) PROVE Selects(a, k) \in Selected(word)
  <2>1. CASE Matches(Instructions[k], word)
    <3>1. SelectArgs(a, Instructions[k]) \in Selected(word)
      BY <1>2, <2>1, SelectArgsSelected
    <3> QED BY <2>1, <3>1
  <2>2. CASE ~Matches(Instructions[k], word)
    BY <2>2
  <2> QED BY <2>1, <2>2
<1> HIDE DEF Selects
<1>5. StepsOn(N, Selected(word), V, Default, step)
  <2>1. V \in [0 .. N -> SUBSET Selected(word)] /\ Default \in V[0]
    BY <1>3
  <2>2. ASSUME NEW k \in 1 .. N, NEW a \in V[k - 1] PROVE step[k][a] \in V[k]
    <3>1. k \in 0 .. N /\ k - 1 \in 0 .. N
      OBVIOUS
    <3>2. a \in Selected(word)
      BY <3>1
    <3> QED BY <1>4, <3>1, <3>2
  <2> QED BY <2>1, <2>2 DEF StepsOn
<1>6. PICK f : IsRecursive(f, N, Selected(word), V, Default, step)
  BY <1>5, RecursiveFunction
<1>7. f = Layers(f)
  <2>1. f \in [0 .. N -> Selected(word)] /\ f[0] = Default /\ \A k \in 1 .. N : f[k] = step[k][f[k - 1]]
    BY <1>6 DEF IsRecursive
  <2>2. ASSUME NEW k \in 0 .. N PROVE f[k] = IF k = 0 THEN Default ELSE Selects(f[k - 1], k)
    <3>1. CASE k = 0
      BY <2>1, <3>1
    <3>2. CASE k # 0
      <4>1. k \in 1 .. N /\ k - 1 \in 0 .. N
        BY <3>2
      <4>2. f[k - 1] \in Selected(word)
        BY <2>1, <4>1
      <4> QED BY <2>1, <3>2, <4>1, <4>2
    <3> QED BY <3>1, <3>2
  <2>3. f = [k \in 0 .. N |-> f[k]]
    BY <2>1
  <2> QED BY <2>2, <2>3
<1>8. PICK v : v = Layers(v) /\ v = CHOOSE args : args = Layers(args)
  <2> HIDE DEF Layers
  <2> QED BY <1>7
<1>9. SelectInstructionArgs(word) = v[N]
  <2>1. SelectInstructionArgs(word)
          = (CHOOSE args : args = [k \in 0 .. Len(Instructions) |->
                                     IF k = 0 THEN Default ELSE Selects(args[k - 1], k)])[Len(Instructions)]
    BY DEF SelectInstructionArgs, Selects
  <2> QED BY <1>1, <1>8, <2>1
<1>10. \A k \in 0 .. N : v[k] \in V[k]
  <2>0. \A k \in 0 .. N : v[k] = IF k = 0 THEN Default ELSE Selects(v[k - 1], k)
    BY <1>8
  <2>1. v[0] \in V[0]
    BY <1>3, <2>0
  <2>2. ASSUME NEW k \in 1 .. N, v[k - 1] \in V[k - 1] PROVE v[k] \in V[k]
    <3>1. k \in 0 .. N /\ k - 1 \in 0 .. N /\ k # 0
      OBVIOUS
    <3>2. v[k - 1] \in Selected(word) /\ v[k] = Selects(v[k - 1], k)
      BY <2>0, <2>2, <3>1
    <3> QED BY <1>4, <3>1, <3>2
  <2> QED BY <2>1, <2>2, RecursiveValues
<1> QED BY <1>9, <1>10

\* The registers and the operation of a word that has them.
HasCodes(w, opcode, f3, rs1) ==
  w \in Vectors(32) /\ Opcode(w) = opcode /\ Funct3(w) = f3 /\ Number(Slice(w, 15, 19)) = rs1

\* w is the word of an instruction with these fields, the last of them k, from r and f7.
IFields(w, opcode, f3, t, k, r, f7) ==
  /\ opcode \in 0 .. 127 /\ f3 \in 0 .. 7 /\ t.rd \in 0 .. 31 /\ t.rs1 \in 0 .. 31 /\ k \in Int
  /\ w = IWord(opcode, f3, t, k)
  /\ r = k % 32
  /\ f7 = (k % 4096) \div 32

LEMMA IWordIs ==
  ASSUME NEW w, NEW opcode, NEW f3, NEW t, NEW k, NEW r, NEW f7, IFields(w, opcode, f3, t, k, r, f7)
  PROVE  /\ HasCodes(w, opcode, f3, t.rs1)
         /\ Slice(w, 20, 31) = Vector(k, 12)
         /\ Number(Slice(w, 20, 24)) = r
         /\ Funct7(w) = f7
<1>0. /\ opcode \in 0 .. 127 /\ f3 \in 0 .. 7 /\ t.rd \in 0 .. 31 /\ t.rs1 \in 0 .. 31 /\ k \in Int
  BY DEF IFields
<1>k. k \in Int
  BY DEF IFields
<1>w. w = IWord(opcode, f3, t, k)
  BY DEF IFields
<1>r. r = k % 32 /\ f7 = (k % 4096) \div 32
  BY DEF IFields
<1>1. PICK a, b, c, d, e : /\ a = Vector(opcode, 7) /\ b = Vector(t.rd, 5) /\ c = Vector(f3, 3)
                           /\ d = Vector(t.rs1, 5) /\ e = Vector(k, 12)
  OBVIOUS
<1>2. /\ a \in Vectors(7) /\ b \in Vectors(5) /\ c \in Vectors(3) /\ d \in Vectors(5) /\ e \in Vectors(12)
      /\ Number(a) = opcode /\ Number(c) = f3 /\ Number(d) = t.rs1
  <2>1. 12 \in Nat
    OBVIOUS
  <2>2. e \in Vectors(12)
    BY <1>k, <1>1, <2>1, VectorType
  <2>3. /\ a \in Vectors(7) /\ b \in Vectors(5) /\ c \in Vectors(3) /\ d \in Vectors(5)
        /\ Number(a) = opcode /\ Number(c) = f3 /\ Number(d) = t.rs1
    BY <1>0, <1>1, CodeVectors
  <2> QED BY <2>2, <2>3
<1>3. w = a \o b \o c \o d \o e
  BY <1>w, <1>1 DEF IWord
<1>4. Cut5(w, 7, 5, 3, 5, 12, a, b, c, d, e)
  BY <1>2, <1>3 DEF Cut5
<1>5. /\ w \in Vectors(7 + 5 + 3 + 5 + 12) /\ Field(w, 0, a, 7) /\ Field(w, 7 + 5, c, 3)
      /\ Field(w, 7 + 5 + 3, d, 5) /\ Field(w, 7 + 5 + 3 + 5, e, 12)
  BY <1>4, Fields5
<1>6. w \in Vectors(32) /\ Field(w, 0, a, 7) /\ Field(w, 12, c, 3) /\ Field(w, 15, d, 5) /\ Field(w, 20, e, 12)
  BY <1>5
<1>7. Slice(w, 0, 0 + 7 - 1) = a /\ Slice(w, 12, 12 + 3 - 1) = c /\ Slice(w, 15, 15 + 5 - 1) = d
      /\ Slice(w, 20, 20 + 12 - 1) = e
  <2>1. /\ 32 \in Nat /\ 0 \in Nat /\ 12 \in Nat /\ 15 \in Nat /\ 20 \in Nat /\ 7 \in Nat /\ 3 \in Nat /\ 5 \in Nat
        /\ 0 + 7 <= 32 /\ 12 + 3 <= 32 /\ 15 + 5 <= 32 /\ 20 + 12 <= 32
    OBVIOUS
  <2> QED BY <1>2, <1>6, <2>1, FieldSlice
<1>8. Slice(w, 0, 6) = a /\ Slice(w, 12, 14) = c /\ Slice(w, 15, 19) = d /\ Slice(w, 20, 31) = e
  BY <1>7
<1>9. Slice(w, 20, 24) = SubSeq(e, 1, 5) /\ Slice(w, 25, 31) = SubSeq(e, 6, 12)
  <2>1. SubSeq(e, 1, 5) \in Vectors(5) /\ \A i \in 1 .. 5 : SubSeq(e, 1, 5)[i] = e[i]
    <3>1. 12 \in Nat /\ 1 \in 1 .. 12 + 1 /\ 5 \in 1 - 1 .. 12 /\ 5 - 1 + 1 = 5 /\ \A i \in 1 .. 5 : 1 + i - 1 = i
      OBVIOUS
    <3>2. SubSeq(e, 1, 5) \in Vectors(5 - 1 + 1) /\ \A i \in 1 .. 5 - 1 + 1 : SubSeq(e, 1, 5)[i] = e[1 + i - 1]
      BY <1>2, <3>1, SubSeqIs
    <3> QED BY <3>1, <3>2
  <2>2. SubSeq(e, 6, 12) \in Vectors(7) /\ \A i \in 1 .. 7 : SubSeq(e, 6, 12)[i] = e[5 + i]
    <3>1. 12 \in Nat /\ 6 \in 1 .. 12 + 1 /\ 12 \in 6 - 1 .. 12 /\ 12 - 6 + 1 = 7 /\ \A i \in 1 .. 7 : 6 + i - 1 = 5 + i
      OBVIOUS
    <3>2. SubSeq(e, 6, 12) \in Vectors(12 - 6 + 1) /\ \A i \in 1 .. 12 - 6 + 1 : SubSeq(e, 6, 12)[i] = e[6 + i - 1]
      BY <1>2, <3>1, SubSeqIs
    <3> QED BY <3>1, <3>2
  <2>3. Field(w, 20, SubSeq(e, 1, 5), 5)
    <3>1. \A i \in 1 .. 5 : i \in 1 .. 12
      OBVIOUS
    <3> QED BY <1>6, <2>1, <3>1 DEF Field
  <2>4. Field(w, 25, SubSeq(e, 6, 12), 7)
    <3>1. \A i \in 1 .. 7 : 5 + i \in 1 .. 12 /\ 20 + (5 + i) = 25 + i
      OBVIOUS
    <3>2. \A i \in 1 .. 7 : w[20 + (5 + i)] = e[5 + i]
      BY <1>6, <3>1 DEF Field
    <3> QED BY <2>2, <3>1, <3>2 DEF Field
  <2>5. /\ 32 \in Nat /\ 20 \in Nat /\ 25 \in Nat /\ 5 \in Nat /\ 7 \in Nat /\ 20 + 5 <= 32 /\ 25 + 7 <= 32
        /\ 20 + 5 - 1 = 24 /\ 25 + 7 - 1 = 31
    OBVIOUS
  <2>6. Slice(w, 20, 20 + 5 - 1) = SubSeq(e, 1, 5) /\ Slice(w, 25, 25 + 7 - 1) = SubSeq(e, 6, 12)
    BY ZenonT(60), <1>6, <2>1, <2>2, <2>3, <2>4, <2>5, FieldSlice
  <2> QED BY <2>5, <2>6
<1>10. Number(SubSeq(e, 1, 5)) = r /\ Number(SubSeq(e, 6, 12)) = f7
  <2>1. Number(e) = k % 4096
    <3>1. 12 \in Nat
      OBVIOUS
    <3>2. Number(Vector(k, 12)) = k % 2^12
      BY <1>k, <3>1, NumberVector
    <3>3. 2^12 = 4096
      BY Powers
    <3> QED BY <1>r, <1>1, <3>2, <3>3
  <2>2. Number(SubSeq(e, 5 + 1, 12)) = Number(e) \div 2^5
    <3>1. 12 \in Nat /\ 5 \in 0 .. 12
      OBVIOUS
    <3> QED BY <1>2, <3>1, NumberParts
  <2>3. SubSeq(e, 1, 5) = Vector(k, 5)
    <3>1. 5 \in Nat /\ 12 \in Nat /\ 5 <= 12
      OBVIOUS
    <3> QED BY <1>k, <1>1, <3>1, LowVector
  <2>4. Number(Vector(k, 5)) = r
    <3>1. 5 \in Nat
      OBVIOUS
    <3>2. Number(Vector(k, 5)) = k % 2^5
      BY <1>k, <3>1, NumberVector
    <3>3. 2^5 = 32
      BY Powers
    <3> QED BY <1>r, <3>2, <3>3
  <2>5. 5 + 1 = 6
    OBVIOUS
  <2>6. Number(SubSeq(e, 6, 12)) = Number(e) \div 2^5
    BY <2>2, <2>5
  <2>7. Number(e) \div 2^5 = f7
    <3>1. 2^5 = 32
      BY Powers
    <3> QED BY <1>r, <2>1, <3>1
  <2> QED BY <2>3, <2>4, <2>6, <2>7, Zenon
<1>11. HasCodes(w, opcode, f3, t.rs1)
  BY <1>2, <1>6, <1>8 DEF HasCodes, Opcode, Funct3
<1>12. Funct7(w) = f7
  BY <1>9, <1>10, Zenon DEF Funct7
<1>13. Number(Slice(w, 20, 24)) = r
  BY <1>9, <1>10, Zenon
<1>14. Slice(w, 20, 31) = Vector(k, 12)
  BY <1>1, <1>8
<1> QED BY <1>11, <1>12, <1>13, <1>14

LEMMA FullImmediateIs ==
  ASSUME NEW t, t.name \notin DOMAIN UpperCodes, t.imm \in Int, -(2^20) <= t.imm, t.imm < 2^20
  PROVE  FullImmediate(t) = Vector(t.imm, 32)
<1>1. FullImmediate(t) = SignExtend(Vector(t.imm, 20 + 1), 32)
  BY DEF FullImmediate
<1>2. 20 \in Nat /\ 32 \in Nat /\ 20 + 1 <= 32
  OBVIOUS
<1>3. SignExtend(Vector(t.imm, 20 + 1), 32) = Vector(t.imm, 32)
  BY <1>2, SignExtendVector
<1> QED BY <1>1, <1>3

-----------------------------------------------------------------------------
(* The words of the instructions, class by class. *)
ImmediateNames == DOMAIN ImmediateCodes \cup DOMAIN LoadCodes \cup {"jalr", "ebreak"}

LEMMA CodeNames ==
  /\ DOMAIN RegisterCodes = {"add", "sub", "sll", "slt", "sltu", "xor", "srl", "sra", "or", "and",
                             "mul", "mulh", "mulhsu", "mulhu", "div", "divu", "rem", "remu"}
  /\ DOMAIN ShiftCodes = {"slli", "srli", "srai"}
  /\ DOMAIN ImmediateCodes = {"addi", "slti", "sltiu", "xori", "ori", "andi"}
  /\ DOMAIN LoadCodes = {"lb", "lh", "lw", "lbu", "lhu"}
  /\ DOMAIN StoreCodes = {"sb", "sh", "sw"}
  /\ DOMAIN BranchCodes = {"beq", "bne", "blt", "bge", "bltu", "bgeu"}
  /\ DOMAIN UpperCodes = {"lui", "auipc"}
BY DEF RegisterCodes, ShiftCodes, ImmediateCodes, LoadCodes, StoreCodes, BranchCodes, UpperCodes

LEMMA CodeValues ==
  /\ \A name \in DOMAIN RegisterCodes :
       RegisterCodes[name][1] \in 0 .. 7 /\ RegisterCodes[name][2] \in {0, 1, 32}
  /\ \A name \in DOMAIN ShiftCodes : ShiftCodes[name][1] \in 0 .. 7 /\ ShiftCodes[name][2] \in {0, 32}
  /\ \A name \in DOMAIN ImmediateCodes : ImmediateCodes[name] \in 0 .. 7
  /\ \A name \in DOMAIN LoadCodes : LoadCodes[name] \in 0 .. 7
  /\ \A name \in DOMAIN StoreCodes : StoreCodes[name] \in 0 .. 7
  /\ \A name \in DOMAIN BranchCodes : BranchCodes[name] \in 0 .. 7
  /\ \A name \in DOMAIN UpperCodes : UpperCodes[name] \in {23, 55}
<1>1. \A name \in DOMAIN RegisterCodes :
        RegisterCodes[name][1] \in 0 .. 7 /\ RegisterCodes[name][2] \in {0, 1, 32}
  BY DEF RegisterCodes
<1>2. \A name \in DOMAIN ShiftCodes : ShiftCodes[name][1] \in 0 .. 7 /\ ShiftCodes[name][2] \in {0, 32}
  BY DEF ShiftCodes
<1> QED BY <1>1, <1>2 DEF ImmediateCodes, LoadCodes, StoreCodes, BranchCodes, UpperCodes

LEMMA NameClasses ==
  ASSUME NEW name \in Names
  PROVE  \/ name \in DOMAIN RegisterCodes
         \/ name \in DOMAIN ShiftCodes
         \/ name \in ImmediateNames
         \/ name \in DOMAIN StoreCodes
         \/ name \in DOMAIN BranchCodes
         \/ name \in DOMAIN UpperCodes
         \/ name = "jal"
BY DEF Names, ImmediateNames

LEMMA EncodeIs ==
  ASSUME NEW t
  PROVE  /\ t.name \in DOMAIN RegisterCodes => Encode(t) = RWord(51, RegisterCodes[t.name], t, t.rs2)
         /\ t.name \in DOMAIN ShiftCodes => Encode(t) = RWord(19, ShiftCodes[t.name], t, t.imm)
         /\ t.name \in DOMAIN ImmediateCodes => Encode(t) = IWord(19, ImmediateCodes[t.name], t, t.imm)
         /\ t.name \in DOMAIN LoadCodes => Encode(t) = IWord(3, LoadCodes[t.name], t, t.imm)
         /\ t.name = "jalr" => Encode(t) = IWord(103, 0, t, t.imm)
         /\ t.name = "ebreak" => Encode(t) = IWord(115, 0, t, t.imm)
         /\ t.name \in DOMAIN StoreCodes => Encode(t) = SWord(t, FullImmediate(t))
         /\ t.name \in DOMAIN BranchCodes => Encode(t) = BWord(t, FullImmediate(t))
         /\ t.name \in DOMAIN UpperCodes => Encode(t) = UWord(t, FullImmediate(t))
         /\ t.name = "jal" => Encode(t) = JWord(t, FullImmediate(t))
<1> USE CodeNames DEF Encode, IsLoad, IsStore, IsBranch
<1>1. CASE t.name \in DOMAIN RegisterCodes
  <2>1. /\ t.name \notin DOMAIN ShiftCodes /\ t.name \notin DOMAIN ImmediateCodes
        /\ t.name \notin DOMAIN LoadCodes /\ t.name # "jalr" /\ t.name # "ebreak"
    BY ONLY <1>1, CodeNames
  <2>2. /\ t.name \notin DOMAIN StoreCodes /\ t.name \notin DOMAIN BranchCodes
        /\ t.name \notin DOMAIN UpperCodes /\ t.name # "jal"
    BY ONLY <1>1, CodeNames
  <2>3. Encode(t) = RWord(51, RegisterCodes[t.name], t, t.rs2)
    BY ONLY <1>1, <2>1, <2>2 DEF Encode, IsLoad, IsStore, IsBranch
  <2> QED BY ONLY <1>1, <2>1, <2>2, <2>3, Zenon
<1>2. CASE t.name \in DOMAIN ShiftCodes
  BY <1>2, SMT
<1>3. CASE t.name \in DOMAIN ImmediateCodes
  BY <1>3, SMT
<1>4. CASE t.name \in DOMAIN LoadCodes
  BY <1>4, SMT
<1>5. CASE t.name = "jalr"
  BY <1>5, SMT
<1>6. CASE t.name = "ebreak"
  BY <1>6, SMT
<1>7. CASE t.name \in DOMAIN StoreCodes
  BY <1>7, SMT
<1>8. CASE t.name \in DOMAIN BranchCodes
  BY <1>8, SMT
<1>9. CASE t.name \in DOMAIN UpperCodes
  BY <1>9, SMT
<1>10. CASE t.name = "jal"
  BY <1>10, SMT
<1> QED BY ONLY <1>1, <1>2, <1>3, <1>4, <1>5, <1>6, <1>7, <1>8, <1>9, <1>10, Zenon

\* What a task's word decodes to: the format of its opcode, and the low bits of its immediate.
Decodes(t, w, format, bits) ==
  /\ w \in Vectors(32)
  /\ FormatOf(Opcode(w)) = format
  /\ format # "none" => SubSeq(Immediate(format, w), 1, bits) = SubSeq(FullImmediate(t), 1, bits)

LEMMA RegisterWord ==
  ASSUME NEW t, Encodable(t), t.name \in DOMAIN RegisterCodes
  PROVE  /\ HasCodes(Encode(t), 51, RegisterCodes[t.name][1], t.rs1)
         /\ Number(Slice(Encode(t), 20, 24)) = t.rs2
         /\ Funct7(Encode(t)) = RegisterCodes[t.name][2]
<1>1. PICK f3, f7 : f3 = RegisterCodes[t.name][1] /\ f7 = RegisterCodes[t.name][2]
  OBVIOUS
<1>2. f3 \in 0 .. 7 /\ f7 \in {0, 1, 32}
  BY <1>1, CodeValues
<1>3. t.rd \in 0 .. 31 /\ t.rs1 \in 0 .. 31 /\ t.rs2 \in 0 .. 31
  BY DEF Encodable
<1>4. PICK k : k = t.rs2 + 32 * f7
  OBVIOUS
<1>5. k \in Int /\ t.rs2 = k % 32 /\ f7 = (k % 4096) \div 32 /\ 51 \in 0 .. 127
  BY <1>2, <1>3, <1>4
<1>6. Encode(t) = IWord(51, f3, t, k)
  <2>1. Encode(t) = RWord(51, RegisterCodes[t.name], t, t.rs2)
    BY EncodeIs
  <2> QED BY <1>1, <1>4, <2>1, Zenon DEF RWord
<1>7. /\ HasCodes(Encode(t), 51, f3, t.rs1) /\ Number(Slice(Encode(t), 20, 24)) = t.rs2
      /\ Funct7(Encode(t)) = f7
  <2>1. IFields(Encode(t), 51, f3, t, k, t.rs2, f7)
    BY <1>2, <1>3, <1>5, <1>6 DEF IFields
  <2> QED BY <2>1, IWordIs
<1> QED BY <1>1, <1>7

LEMMA ShiftWord ==
  ASSUME NEW t, Encodable(t), t.name \in DOMAIN ShiftCodes
  PROVE  Decodes(t, Encode(t), "I", 5)
<1>1. PICK f3, f7 : f3 = ShiftCodes[t.name][1] /\ f7 = ShiftCodes[t.name][2]
  OBVIOUS
<1>2. f3 \in 0 .. 7 /\ f7 \in {0, 32}
  BY <1>1, CodeValues
<1>3. t.rd \in 0 .. 31 /\ t.rs1 \in 0 .. 31 /\ t.imm \in 0 .. 31
  BY CodeNames DEF Encodable, ImmediateFits, IsBranch
<1>4. PICK k : k = t.imm + 32 * f7
  OBVIOUS
<1>5. k \in Int /\ t.imm = k % 32 /\ 19 \in 0 .. 127 /\ t.imm \in Int /\ t.imm % 32 = k % 32
  BY <1>2, <1>3, <1>4
<1>6. PICK w : w = Encode(t)
  OBVIOUS
<1>7. w = IWord(19, f3, t, k)
  <2>1. w = RWord(19, ShiftCodes[t.name], t, t.imm)
    BY <1>6, EncodeIs
  <2> QED BY <1>1, <1>4, <2>1, Zenon DEF RWord
<1>8. HasCodes(w, 19, f3, t.rs1) /\ Slice(w, 20, 31) = Vector(k, 12)
  <2>1. PICK f, r : f = (k % 4096) \div 32 /\ r = k % 32
    OBVIOUS
  <2>2. IFields(w, 19, f3, t, k, r, f)
    BY <1>2, <1>3, <1>5, <1>7, <2>1 DEF IFields
  <2> QED BY <2>2, IWordIs
<1>9. w \in Vectors(32) /\ FormatOf(Opcode(w)) = "I"
  BY <1>8, FormatsOfOpcodes DEF HasCodes
<1>10. Immediate("I", w) = SignExtend(Vector(k, 12), 32)
  BY <1>8 DEF Immediate
<1>11. SubSeq(SignExtend(Vector(k, 12), 32), 1, 5) = Vector(k, 5)
  <2>1. PICK x : x = Vector(k, 12) /\ x \in Vectors(12)
    <3>1. 12 \in Nat
      OBVIOUS
    <3> QED BY <1>5, <3>1, VectorType
  <2>2. PICK y : y = SignExtend(x, 32) /\ y \in Vectors(32) /\ \A i \in 1 .. 12 : y[i] = x[i]
    <3>1. PICK n : n = 11
      OBVIOUS
    <3>2. n \in Nat /\ n + 1 = 12 /\ 32 \in Nat /\ n + 1 <= 32 /\ x \in Vectors(n + 1)
      BY <2>1, <3>1
    <3>3. SignExtend(x, 32) \in Vectors(32) /\ \A i \in 1 .. n + 1 : SignExtend(x, 32)[i] = x[i]
      BY <3>2, NumberSignExtend
    <3> QED BY <3>2, <3>3
  <2>3. /\ 32 \in Nat /\ 12 \in Nat /\ 1 \in 1 .. 32 + 1 /\ 5 \in 1 - 1 .. 32 /\ 1 \in 1 .. 12 + 1 /\ 5 \in 1 - 1 .. 12
        /\ 5 - 1 + 1 = 5 /\ \A i \in 1 .. 5 : 1 + i - 1 = i /\ i \in 1 .. 12
    OBVIOUS
  <2>4. /\ SubSeq(y, 1, 5) \in Vectors(5 - 1 + 1) /\ \A i \in 1 .. 5 - 1 + 1 : SubSeq(y, 1, 5)[i] = y[1 + i - 1]
        /\ SubSeq(x, 1, 5) \in Vectors(5 - 1 + 1) /\ \A i \in 1 .. 5 - 1 + 1 : SubSeq(x, 1, 5)[i] = x[1 + i - 1]
    BY <2>1, <2>2, <2>3, SubSeqIs
  <2>5. SubSeq(y, 1, 5) = SubSeq(x, 1, 5)
    <3>1. SubSeq(y, 1, 5) \in Vectors(5) /\ SubSeq(x, 1, 5) \in Vectors(5)
      BY <2>3, <2>4
    <3>2. \A i \in 1 .. 5 : SubSeq(y, 1, 5)[i] = SubSeq(x, 1, 5)[i]
      BY <2>2, <2>3, <2>4
    <3> QED BY <3>1, <3>2, VectorsEqual
  <2>6. SubSeq(x, 1, 5) = Vector(k, 5)
    <3>1. 5 \in Nat /\ 12 \in Nat /\ 5 <= 12
      OBVIOUS
    <3> QED BY <1>5, <2>1, <3>1, LowVector
  <2> QED BY <2>1, <2>2, <2>5, <2>6
<1>12. SubSeq(FullImmediate(t), 1, 5) = Vector(t.imm, 5)
  <2>1. FullImmediate(t) = Vector(t.imm, 32)
    <3>1. t.name \notin DOMAIN UpperCodes
      BY CodeNames
    <3>2. -(2^20) <= t.imm /\ t.imm < 2^20
      BY <1>3, PowerOfTwenty, SMT
    <3> QED BY <1>5, <3>1, <3>2, FullImmediateIs
  <2>2. 5 \in Nat /\ 32 \in Nat /\ 5 <= 32
    OBVIOUS
  <2> QED BY ZenonT(60), <1>5, <2>1, <2>2, LowVector
<1>13. Vector(t.imm, 5) = Vector(k, 5)
  <2>1. 5 \in Nat
    OBVIOUS
  <2>2. /\ Vector(t.imm, 5) \in Vectors(5) /\ Vector(k, 5) \in Vectors(5)
        /\ Number(Vector(t.imm, 5)) = t.imm % 2^5 /\ Number(Vector(k, 5)) = k % 2^5
    BY <1>5, <2>1, VectorType, NumberVector
  <2>3. Number(Vector(t.imm, 5)) = Number(Vector(k, 5))
    BY <1>5, <2>2, Powers
  <2> QED BY <2>1, <2>2, <2>3, NumberInjective
<1> QED BY <1>6, <1>9, <1>10, <1>11, <1>12, <1>13 DEF Decodes

LEMMA SmallImmediate ==
  ASSUME NEW t, t.name \notin DOMAIN UpperCodes, t.imm \in -(2^11) .. 2^11 - 1
  PROVE  t.imm \in Int /\ FullImmediate(t) = Vector(t.imm, 32)
<1>1. t.imm \in Int
  BY Powers
<1>2. -(2^20) <= t.imm /\ t.imm < 2^20
  BY Powers, PowerOfTwenty, SMT
<1> QED BY <1>1, <1>2, FullImmediateIs

LEMMA ImmediateWord ==
  ASSUME NEW t, Encodable(t), t.name \in ImmediateNames
  PROVE  Decodes(t, Encode(t), "I", 32)
<1>1. PICK w, k, r, f7 : w = Encode(t) /\ k = t.imm /\ r = k % 32 /\ f7 = (k % 4096) \div 32
  OBVIOUS
<1>2. t.rd \in 0 .. 31 /\ t.rs1 \in 0 .. 31 /\ t.imm \in -(2^11) .. 2^11 - 1 /\ t.name \notin DOMAIN UpperCodes
  <2>1. /\ t.name # "jal" /\ t.name \notin DOMAIN BranchCodes /\ t.name \notin DOMAIN UpperCodes
        /\ t.name \notin DOMAIN ShiftCodes
    BY CodeNames DEF ImmediateNames
  <2> QED BY <2>1 DEF Encodable, ImmediateFits, IsBranch
<1>3. k \in Int /\ FullImmediate(t) = Vector(k, 32)
  BY <1>1, <1>2, SmallImmediate
<1>4. PICK opcode, f3 : opcode \in {3, 19, 103, 115} /\ f3 \in 0 .. 7 /\ w = IWord(opcode, f3, t, k)
  <2>1. CASE t.name \in DOMAIN ImmediateCodes
    <3>1. w = IWord(19, ImmediateCodes[t.name], t, k) /\ ImmediateCodes[t.name] \in 0 .. 7
      BY <1>1, <2>1, EncodeIs, CodeValues
    <3> QED BY <3>1
  <2>2. CASE t.name \in DOMAIN LoadCodes
    <3>1. w = IWord(3, LoadCodes[t.name], t, k) /\ LoadCodes[t.name] \in 0 .. 7
      BY <1>1, <2>2, EncodeIs, CodeValues
    <3> QED BY <3>1
  <2>3. CASE t.name = "jalr"
    <3>1. w = IWord(103, 0, t, k) /\ 0 \in 0 .. 7
      BY <1>1, <2>3, EncodeIs
    <3> QED BY <3>1
  <2>4. CASE t.name = "ebreak"
    <3>1. w = IWord(115, 0, t, k) /\ 0 \in 0 .. 7
      BY <1>1, <2>4, EncodeIs
    <3> QED BY <3>1
  <2> QED BY <2>1, <2>2, <2>3, <2>4 DEF ImmediateNames
<1>5. IFields(w, opcode, f3, t, k, r, f7)
  BY <1>1, <1>2, <1>3, <1>4 DEF IFields
<1>6. HasCodes(w, opcode, f3, t.rs1) /\ Slice(w, 20, 31) = Vector(k, 12)
  BY <1>5, IWordIs
<1>7. w \in Vectors(32) /\ FormatOf(Opcode(w)) = "I"
  BY <1>4, <1>6, FormatsOfOpcodes DEF HasCodes
<1>8. Immediate("I", w) = SignExtend(Vector(k, 12), 32)
  BY <1>6 DEF Immediate
<1>9. SignExtend(Vector(k, 12), 32) = Vector(k, 32)
  BY <1>1, <1>2, Rejoined11
<1> QED BY <1>1, <1>3, <1>7, <1>8, <1>9 DEF Decodes

LEMMA SourcesType ==
  ASSUME NEW t, Encodable(t)
  PROVE  Sources(t) \in Vectors(10)
<1>1. t.rs1 \in 0 .. 31 /\ t.rs2 \in 0 .. 31
  BY DEF Encodable
<1>2. Vector(t.rs1, 5) \in Vectors(5) /\ Vector(t.rs2, 5) \in Vectors(5)
  BY <1>1, CodeVectors
<1>3. Vector(t.rs1, 5) \o Vector(t.rs2, 5) \in Vectors(5 + 5)
  BY <1>2, ConcatIs
<1> QED BY <1>3 DEF Sources

LEMMA StoreWord ==
  ASSUME NEW t, Encodable(t), t.name \in DOMAIN StoreCodes
  PROVE  Decodes(t, Encode(t), "S", 32)
<1>1. PICK w, imm : w = Encode(t) /\ imm = FullImmediate(t)
  OBVIOUS
<1>2. t.imm \in -(2^11) .. 2^11 - 1 /\ t.name \notin DOMAIN UpperCodes
  <2>1. /\ t.name # "jal" /\ t.name \notin DOMAIN BranchCodes /\ t.name \notin DOMAIN UpperCodes
        /\ t.name \notin DOMAIN ShiftCodes
    BY CodeNames
  <2> QED BY <2>1 DEF Encodable, ImmediateFits, IsBranch
<1>3. t.imm \in Int /\ imm = Vector(t.imm, 32) /\ imm \in Vectors(32)
  BY <1>1, <1>2, SmallImmediate, VectorType
<1>4. PICK a, b, c, d, e : /\ a = Vector(35, 7) /\ b = Slice(imm, 0, 4) /\ c = Vector(StoreCodes[t.name], 3)
                           /\ d = Sources(t) /\ e = Slice(imm, 5, 11)
  OBVIOUS
<1>5. a \in Vectors(7) /\ Number(a) = 35 /\ c \in Vectors(3)
  <2>1. 35 \in 0 .. 127 /\ StoreCodes[t.name] \in 0 .. 7
    BY CodeValues
  <2> QED BY <1>4, <2>1, CodeVectors
<1>6. b \in Vectors(5) /\ d \in Vectors(10) /\ e \in Vectors(7)
  BY <1>3, <1>4, SourcesType, ImmediateSlices
<1>7. w = a \o b \o c \o d \o e
  <2>1. w = SWord(t, imm)
    BY <1>1, EncodeIs
  <2> QED BY <1>4, <2>1, Zenon DEF SWord
<1>8. Cut5(w, 7, 5, 3, 10, 7, a, b, c, d, e)
  BY <1>5, <1>6, <1>7 DEF Cut5
<1>9. w \in Vectors(32) /\ Field(w, 0, a, 7) /\ Field(w, 7, b, 5) /\ Field(w, 25, e, 7)
  <2>1. /\ w \in Vectors(7 + 5 + 3 + 10 + 7) /\ Field(w, 0, a, 7) /\ Field(w, 7, b, 5)
        /\ Field(w, 7 + 5 + 3 + 10, e, 7)
    BY <1>8, Fields5
  <2> QED BY <2>1
<1>10. Slice(w, 0, 6) = a /\ Slice(w, 7, 11) = b /\ Slice(w, 25, 31) = e
  <2>1. /\ 32 \in Nat /\ 0 \in Nat /\ 7 \in Nat /\ 25 \in Nat /\ 5 \in Nat /\ 0 + 7 <= 32 /\ 7 + 5 <= 32 /\ 25 + 7 <= 32
        /\ 0 + 7 - 1 = 6 /\ 7 + 5 - 1 = 11 /\ 25 + 7 - 1 = 31
    OBVIOUS
  <2>2. Slice(w, 0, 0 + 7 - 1) = a /\ Slice(w, 7, 7 + 5 - 1) = b /\ Slice(w, 25, 25 + 7 - 1) = e
    BY <1>5, <1>6, <1>9, <2>1, FieldSlice
  <2> QED BY <2>1, <2>2
<1>11. FormatOf(Opcode(w)) = "S"
  BY <1>5, <1>10, FormatsOfOpcodes DEF Opcode
<1>12. Immediate("S", w) = SignExtend(b \o e, 32)
  BY <1>10 DEF Immediate
<1>13. SignExtend(b \o e, 32) = imm
  <2>1. b \o e = Slice(imm, 0, 11)
    BY <1>3, <1>4, SlicesRejoined
  <2> QED BY <1>2, <1>3, <2>1, Rejoined11
<1> QED BY <1>1, <1>9, <1>11, <1>12, <1>13 DEF Decodes

LEMMA BranchWord ==
  ASSUME NEW t, Encodable(t), t.name \in DOMAIN BranchCodes
  PROVE  Decodes(t, Encode(t), "B", 32)
<1>1. PICK w, imm : w = Encode(t) /\ imm = FullImmediate(t)
  OBVIOUS
<1>2. t.imm \in -(2^12) .. 2^12 - 1 /\ t.imm % 2 = 0 /\ t.name \notin DOMAIN UpperCodes
  <2>1. /\ t.name # "jal" /\ t.name # "ebreak"
        /\ t.name \notin DOMAIN UpperCodes /\ t.name \notin DOMAIN ShiftCodes
    BY CodeNames
  <2>2. IsBranch(t)
    BY DEF IsBranch
  <2>3. ImmediateFits(t)
    BY DEF Encodable
  <2>4. t.imm \in -(2^12) .. 2^12 - 1 /\ t.imm % 2 = 0
    BY <2>1, <2>2, <2>3, Zenon DEF ImmediateFits
  <2> QED BY <2>1, <2>4
<1>3. t.imm \in Int /\ imm = Vector(t.imm, 32) /\ imm \in Vectors(32)
  <2>1. t.imm \in Int
    BY <1>2, Powers
  <2>2. -(2^20) <= t.imm /\ t.imm < 2^20
    BY <1>2, Powers, PowerOfTwenty, SMT
  <2> QED BY <1>1, <1>2, <2>1, <2>2, FullImmediateIs, VectorType
<1>4. PICK a, b, c, d, e, f, g :
         /\ a = Vector(99, 7) /\ b = Slice(imm, 11, 11) /\ c = Slice(imm, 1, 4)
         /\ d = Vector(BranchCodes[t.name], 3) /\ e = Sources(t) /\ f = Slice(imm, 5, 10)
         /\ g = Slice(imm, 12, 12)
  OBVIOUS
<1>5. a \in Vectors(7) /\ Number(a) = 99 /\ d \in Vectors(3)
  <2>1. 99 \in 0 .. 127 /\ BranchCodes[t.name] \in 0 .. 7
    BY CodeValues
  <2> QED BY <1>4, <2>1, CodeVectors
<1>6. b \in Vectors(1) /\ c \in Vectors(4) /\ e \in Vectors(10) /\ f \in Vectors(6) /\ g \in Vectors(1)
  BY <1>3, <1>4, SourcesType, ImmediateSlices
<1>7. w = a \o b \o c \o d \o e \o f \o g
  <2>1. w = BWord(t, imm)
    BY <1>1, EncodeIs
  <2> QED BY <1>4, <2>1, Zenon DEF BWord
<1>8. Cut7(w, 7, 1, 4, 3, 10, 6, 1, a, b, c, d, e, f, g)
  BY <1>5, <1>6, <1>7 DEF Cut7
<1>9. /\ w \in Vectors(32) /\ Field(w, 0, a, 7) /\ Field(w, 7, b, 1) /\ Field(w, 8, c, 4) /\ Field(w, 25, f, 6)
      /\ Field(w, 31, g, 1)
  <2>1. /\ w \in Vectors(7 + 1 + 4 + 3 + 10 + 6 + 1) /\ Field(w, 0, a, 7) /\ Field(w, 7, b, 1)
        /\ Field(w, 7 + 1, c, 4) /\ Field(w, 7 + 1 + 4 + 3 + 10, f, 6) /\ Field(w, 7 + 1 + 4 + 3 + 10 + 6, g, 1)
    BY <1>8, Fields7
  <2> QED BY <2>1
<1>10. /\ Slice(w, 0, 6) = a /\ Slice(w, 7, 7) = b /\ Slice(w, 8, 11) = c /\ Slice(w, 25, 30) = f
       /\ Slice(w, 31, 31) = g
  <2>1. /\ 32 \in Nat /\ 0 \in Nat /\ 7 \in Nat /\ 1 \in Nat /\ 8 \in Nat /\ 4 \in Nat /\ 25 \in Nat /\ 6 \in Nat
        /\ 31 \in Nat
        /\ 0 + 7 <= 32 /\ 7 + 1 <= 32 /\ 8 + 4 <= 32 /\ 25 + 6 <= 32 /\ 31 + 1 <= 32
        /\ 0 + 7 - 1 = 6 /\ 7 + 1 - 1 = 7 /\ 8 + 4 - 1 = 11 /\ 25 + 6 - 1 = 30 /\ 31 + 1 - 1 = 31
    OBVIOUS
  <2>2. /\ Slice(w, 0, 0 + 7 - 1) = a /\ Slice(w, 7, 7 + 1 - 1) = b /\ Slice(w, 8, 8 + 4 - 1) = c
        /\ Slice(w, 25, 25 + 6 - 1) = f /\ Slice(w, 31, 31 + 1 - 1) = g
    BY <1>5, <1>6, <1>9, <2>1, FieldSlice
  <2> QED BY <2>1, <2>2
<1>11. FormatOf(Opcode(w)) = "B"
  BY <1>5, <1>10, FormatsOfOpcodes DEF Opcode
<1>12. Immediate("B", w) = SignExtend(<< 0 >> \o c \o f \o b \o g, 32)
  BY <1>10 DEF Immediate
<1>13. SignExtend(<< 0 >> \o c \o f \o b \o g, 32) = imm
  <2>1. << 0 >> = Slice(imm, 0, 0)
    BY <1>2, <1>3, EvenVector
  <2>2. Slice(imm, 0, 0) \o c \o f \o b \o g = Slice(imm, 0, 12)
    BY <1>3, <1>4, SlicesRejoined
  <2>3. SignExtend(Slice(imm, 0, 12), 32) = imm
    <3>1. PICK n : n = 12
      OBVIOUS
    <3>2. n \in Nat /\ n <= 31 /\ -(2^n) <= t.imm /\ t.imm < 2^n
      BY <1>2, <3>1, Powers
    <3>3. SignExtend(Slice(Vector(t.imm, 32), 0, n), 32) = Vector(t.imm, 32)
      BY <1>3, <3>2, Rejoined
    <3> QED BY <1>3, <3>1, <3>3
  <2> QED BY <2>1, <2>2, <2>3
<1> QED BY <1>1, <1>9, <1>11, <1>12, <1>13 DEF Decodes

LEMMA UpperWord ==
  ASSUME NEW t, Encodable(t), t.name \in DOMAIN UpperCodes
  PROVE  Decodes(t, Encode(t), "U", 32)
<1>1. PICK w, imm, k : w = Encode(t) /\ imm = FullImmediate(t) /\ k = t.imm
  OBVIOUS
<1>2. t.rd \in 0 .. 31 /\ k \in Int
  <2>1. /\ t.name # "jal" /\ t.name \notin DOMAIN BranchCodes /\ t.name \notin DOMAIN ShiftCodes
    BY CodeNames
  <2>2. k \in 0 .. 2^20 - 1
    BY <1>1, <2>1 DEF Encodable, ImmediateFits, IsBranch
  <2>3. 2^20 \in Nat
    <3>1. 20 \in Nat
      OBVIOUS
    <3> QED BY <3>1, PowerPositive
  <2>4. k \in Int
    BY <2>2, <2>3
  <2> QED BY <2>4 DEF Encodable
<1>3. PICK z, y : z = Repeated(0, 12) /\ y = Vector(k, 20) /\ imm = z \o y
  BY <1>1 DEF FullImmediate
<1>4. z \in Vectors(12) /\ y \in Vectors(20)
  <2>1. 12 \in Nat /\ 20 \in Nat
    OBVIOUS
  <2> QED BY <1>2, <1>3, <2>1, VectorType, RepeatedType
<1>5. imm \in Vectors(32) /\ Slice(imm, 12, 31) = y
  <2>1. 12 \in Nat /\ 20 \in Nat /\ 12 + 20 = 32 /\ 12 + 20 - 1 = 31 /\ 32 \in Nat /\ 12 + 20 <= 32
    OBVIOUS
  <2>2. imm \in Vectors(12 + 20) /\ Field(imm, 12, y, 20)
    BY <1>3, <1>4, <2>1, FieldLast
  <2>3. imm \in Vectors(32)
    BY <2>1, <2>2
  <2>4. Slice(imm, 12, 12 + 20 - 1) = y
    BY <1>4, <2>1, <2>2, <2>3, FieldSlice
  <2> QED BY <2>1, <2>3, <2>4
<1>6. PICK a, b : /\ a = Vector(UpperCodes[t.name], 7) /\ b = Vector(t.rd, 5)
  OBVIOUS
<1>7. a \in Vectors(7) /\ Number(a) \in {23, 55} /\ b \in Vectors(5)
  <2>1. UpperCodes[t.name] \in {23, 55} /\ UpperCodes[t.name] \in 0 .. 127
    BY CodeValues
  <2> QED BY <1>2, <1>6, <2>1, CodeVectors
<1>8. w = a \o b \o y
  <2>1. w = UWord(t, imm)
    BY <1>1, EncodeIs
  <2> QED BY <1>5, <1>6, <2>1, Zenon DEF UWord
<1>9. w \in Vectors(32) /\ Field(w, 0, a, 7) /\ Field(w, 12, y, 20)
  <2>1. 7 \in Nat /\ 5 \in Nat /\ 20 \in Nat
    OBVIOUS
  <2>2. w \in Vectors(7 + 5 + 20) /\ Field(w, 0, a, 7) /\ Field(w, 7 + 5, y, 20)
    BY <1>4, <1>7, <1>8, <2>1, Fields3
  <2> QED BY <2>2
<1>10. Slice(w, 0, 6) = a /\ Slice(w, 12, 31) = y
  <2>1. /\ 32 \in Nat /\ 0 \in Nat /\ 7 \in Nat /\ 12 \in Nat /\ 20 \in Nat /\ 0 + 7 <= 32 /\ 12 + 20 <= 32
        /\ 0 + 7 - 1 = 6 /\ 12 + 20 - 1 = 31
    OBVIOUS
  <2>2. Slice(w, 0, 0 + 7 - 1) = a /\ Slice(w, 12, 12 + 20 - 1) = y
    BY <1>4, <1>7, <1>9, <2>1, FieldSlice
  <2> QED BY <2>1, <2>2
<1>11. FormatOf(Opcode(w)) = "U"
  BY <1>7, <1>10, FormatsOfOpcodes DEF Opcode
<1>12. Immediate("U", w) = imm
  BY <1>3, <1>10 DEF Immediate
<1> QED BY <1>1, <1>9, <1>11, <1>12 DEF Decodes

LEMMA JumpWord ==
  ASSUME NEW t, Encodable(t), t.name = "jal"
  PROVE  Decodes(t, Encode(t), "J", 32)
<1>1. PICK w, imm : w = Encode(t) /\ imm = FullImmediate(t)
  OBVIOUS
<1>2. /\ t.imm \in -(2^20) .. 2^20 - 1 /\ t.imm % 2 = 0 /\ t.name \notin DOMAIN UpperCodes
      /\ t.rd \in 0 .. 31
  <2>1. t.name \notin DOMAIN BranchCodes /\ t.name \notin DOMAIN UpperCodes /\ t.name \notin DOMAIN ShiftCodes
    BY CodeNames
  <2> QED BY <2>1 DEF Encodable, ImmediateFits, IsBranch
<1>3. t.imm \in Int /\ -(2^20) <= t.imm /\ t.imm < 2^20
  <2>1. PICK p : p = 2^20 /\ p \in Nat
    <3>1. 20 \in Nat
      OBVIOUS
    <3> QED BY <3>1, PowerPositive
  <2> QED BY <1>2, <2>1
<1>4. imm = Vector(t.imm, 32) /\ imm \in Vectors(32)
  <2>1. 32 \in Nat
    OBVIOUS
  <2>2. imm = Vector(t.imm, 32)
    BY <1>1, <1>2, <1>3, FullImmediateIs
  <2>3. Vector(t.imm, 32) \in Vectors(32)
    BY <1>3, <2>1, VectorType
  <2> QED BY <2>2, <2>3
<1>5. PICK a, b, c, d, e, f : /\ a = Vector(111, 7) /\ b = Vector(t.rd, 5) /\ c = Slice(imm, 12, 19)
                              /\ d = Slice(imm, 11, 11) /\ e = Slice(imm, 1, 10) /\ f = Slice(imm, 20, 20)
  OBVIOUS
<1>6. a \in Vectors(7) /\ Number(a) = 111 /\ b \in Vectors(5)
  <2>1. 111 \in 0 .. 127
    OBVIOUS
  <2> QED BY <1>2, <1>5, <2>1, CodeVectors
<1>7. c \in Vectors(8) /\ d \in Vectors(1) /\ e \in Vectors(10) /\ f \in Vectors(1)
  BY <1>4, <1>5, ImmediateSlices
<1>8. w = a \o b \o c \o d \o e \o f
  <2>1. w = JWord(t, imm)
    BY <1>1, EncodeIs
  <2> QED BY <1>5, <2>1, Zenon DEF JWord
<1>9. PICK h : h = a \o b /\ h \in Vectors(12) /\ Field(h, 0, a, 7)
  <2>1. 7 \in Nat /\ 5 \in Nat /\ 0 \in Nat /\ 0 + 7 <= 7
    OBVIOUS
  <2>2. a \o b \in Vectors(7 + 5)
    BY <1>6, <2>1, FieldLast
  <2>3. Field(a, 0, a, 7)
    BY <2>1, FieldFirst
  <2>4. Field(a \o b, 0, a, 7)
    BY <1>6, <2>1, <2>3, FieldKept
  <2>5. a \o b \in Vectors(12)
    BY <2>2
  <2> QED BY <2>4, <2>5
<1>10. Cut5(w, 12, 8, 1, 10, 1, h, c, d, e, f)
  BY <1>7, <1>8, <1>9 DEF Cut5
<1>11. /\ w \in Vectors(32) /\ Field(w, 0, h, 12) /\ Field(w, 12, c, 8) /\ Field(w, 20, d, 1)
       /\ Field(w, 21, e, 10) /\ Field(w, 31, f, 1)
  <2>1. /\ w \in Vectors(12 + 8 + 1 + 10 + 1) /\ Field(w, 0, h, 12) /\ Field(w, 12, c, 8)
        /\ Field(w, 12 + 8, d, 1) /\ Field(w, 12 + 8 + 1, e, 10) /\ Field(w, 12 + 8 + 1 + 10, f, 1)
    BY <1>10, Fields5
  <2> QED BY <2>1
<1>12. Field(w, 0, a, 7)
  <2>1. \A k \in 1 .. 7 : k \in 1 .. 12 /\ 0 + k = k
    OBVIOUS
  <2> QED BY <1>9, <1>11, <2>1 DEF Field
<1>13. /\ Slice(w, 0, 6) = a /\ Slice(w, 12, 19) = c /\ Slice(w, 20, 20) = d /\ Slice(w, 21, 30) = e
       /\ Slice(w, 31, 31) = f
  <2>1. /\ 32 \in Nat /\ 0 \in Nat /\ 7 \in Nat /\ 12 \in Nat /\ 8 \in Nat /\ 20 \in Nat /\ 1 \in Nat /\ 21 \in Nat
        /\ 10 \in Nat /\ 31 \in Nat
        /\ 0 + 7 <= 32 /\ 12 + 8 <= 32 /\ 20 + 1 <= 32 /\ 21 + 10 <= 32 /\ 31 + 1 <= 32
        /\ 0 + 7 - 1 = 6 /\ 12 + 8 - 1 = 19 /\ 20 + 1 - 1 = 20 /\ 21 + 10 - 1 = 30 /\ 31 + 1 - 1 = 31
    OBVIOUS
  <2>2. /\ Slice(w, 0, 0 + 7 - 1) = a /\ Slice(w, 12, 12 + 8 - 1) = c /\ Slice(w, 20, 20 + 1 - 1) = d
        /\ Slice(w, 21, 21 + 10 - 1) = e /\ Slice(w, 31, 31 + 1 - 1) = f
    BY <1>6, <1>7, <1>11, <1>12, <2>1, FieldSlice
  <2> QED BY <2>1, <2>2
<1>14. FormatOf(Opcode(w)) = "J"
  BY <1>6, <1>13, FormatsOfOpcodes DEF Opcode
<1>15. Immediate("J", w) = SignExtend(<< 0 >> \o e \o d \o c \o f, 32)
  BY <1>13 DEF Immediate
<1>16. SignExtend(<< 0 >> \o e \o d \o c \o f, 32) = imm
  <2>1. << 0 >> = Slice(imm, 0, 0)
    BY <1>2, <1>3, <1>4, EvenVector
  <2>2. Slice(imm, 0, 0) \o e \o d \o c \o f = Slice(imm, 0, 20)
    BY <1>4, <1>5, SlicesRejoined
  <2>3. SignExtend(Slice(imm, 0, 20), 32) = imm
    <3>1. 20 \in Nat /\ 20 <= 31
      OBVIOUS
    <3> QED BY <1>3, <1>4, <3>1, Rejoined
  <2> QED BY <2>1, <2>2, <2>3
<1> QED BY <1>1, <1>11, <1>14, <1>15, <1>16 DEF Decodes

\* The decoder finds the format an instruction was encoded in, and its immediate.
LEMMA WordDecodes ==
  ASSUME NEW t, Encodable(t)
  PROVE  /\ Encode(t) \in Vectors(32)
         /\ FormatOf(Opcode(Encode(t))) # "none" =>
              LET bits == IF t.name \in DOMAIN ShiftCodes THEN 5 ELSE 32
              IN  SubSeq(Immediate(FormatOf(Opcode(Encode(t))), Encode(t)), 1, bits)
                    = SubSeq(FullImmediate(t), 1, bits)
<1> DEFINE w == Encode(t)
<1>1. t.name \in Names
  BY DEF Encodable
<1>2. CASE t.name \in DOMAIN RegisterCodes
  <2>1. w \in Vectors(32) /\ Opcode(w) = 51
    BY <1>2, RegisterWord DEF HasCodes
  <2> QED BY <2>1, FormatsOfOpcodes
<1>3. CASE t.name \in DOMAIN ShiftCodes
  BY <1>3, ShiftWord DEF Decodes
<1>4. ASSUME NEW format, Decodes(t, w, format, 32), t.name \notin DOMAIN ShiftCodes
      PROVE  /\ w \in Vectors(32)
             /\ FormatOf(Opcode(w)) # "none" =>
                  SubSeq(Immediate(FormatOf(Opcode(w)), w), 1, 32) = SubSeq(FullImmediate(t), 1, 32)
  BY <1>4 DEF Decodes
<1>5. CASE t.name \in ImmediateNames
  <2>1. t.name \notin DOMAIN ShiftCodes
    BY <1>5, CodeNames DEF ImmediateNames
  <2> QED BY <1>4, <1>5, <2>1, ImmediateWord
<1>6. CASE t.name \in DOMAIN StoreCodes
  <2>1. t.name \notin DOMAIN ShiftCodes
    BY <1>6, CodeNames
  <2> QED BY <1>4, <1>6, <2>1, StoreWord
<1>7. CASE t.name \in DOMAIN BranchCodes
  <2>1. t.name \notin DOMAIN ShiftCodes
    BY <1>7, CodeNames
  <2> QED BY <1>4, <1>7, <2>1, BranchWord
<1>8. CASE t.name \in DOMAIN UpperCodes
  <2>1. t.name \notin DOMAIN ShiftCodes
    BY <1>8, CodeNames
  <2> QED BY <1>4, <1>8, <2>1, UpperWord
<1>9. CASE t.name = "jal"
  <2>1. t.name \notin DOMAIN ShiftCodes
    BY <1>9, CodeNames
  <2> QED BY <1>4, <1>9, <2>1, JumpWord
<1> QED BY <1>1, <1>2, <1>3, <1>5, <1>6, <1>7, <1>8, <1>9, NameClasses

-----------------------------------------------------------------------------
(* The memory image. *)
Halves == [0 .. 3 -> Bytes]

DumpLines == ({"at", "byte"}) \X Nat

WordLines == (({"at"}) \X Nat) \cup (({"word"}) \X Halves)

ByteLines == (({"at"}) \X Nat) \cup (({"byte"}) \X Bytes)

Buffers == [lines : Seq(WordLines), buffer : Seq(Bytes)]

LEMMA ZeroIsByte == 0 \in Bytes
BY ByteAssumption DEF Bytes

LEMMA FlushBufferType ==
  ASSUME NEW buffer \in Seq(Bytes)
  PROVE  FlushBuffer(buffer) \in Seq(WordLines)
<1>1. PICK n \in Nat : n = Len(buffer)
  OBVIOUS
<1>2. \A k \in Nat, i \in 0 .. 3 :
        (IF 4 * k - 3 + i <= n THEN buffer[4 * k - 3 + i] ELSE 0) \in Bytes
     \/ 4 * k - 3 + i < 1
  BY <1>1, ZeroIsByte
<1>3. PICK m \in Nat : m = (n + 3) \div 4
  BY <1>1
<1> DEFINE Word4(k) == [i \in 0 .. 3 |-> IF 4 * k - 3 + i <= n THEN buffer[4 * k - 3 + i] ELSE 0]
<1>4. ASSUME NEW k \in 1 .. m PROVE Word4(k) \in Halves
  <2>1. k \in Nat /\ \A i \in 0 .. 3 : ~(4 * k - 3 + i < 1)
    OBVIOUS
  <2>2. \A i \in 0 .. 3 : (IF 4 * k - 3 + i <= n THEN buffer[4 * k - 3 + i] ELSE 0) \in Bytes
    BY <1>2, <2>1
  <2> QED BY <2>2 DEF Halves
<1>5. FlushBuffer(buffer) = [k \in 1 .. m |-> <<"word", Word4(k)>>]
  BY <1>1, <1>3, Zenon DEF FlushBuffer
<1> HIDE DEF Word4
<1>6. \A k \in 1 .. m : <<"word", Word4(k)>> \in WordLines
  BY <1>4 DEF WordLines
<1> QED BY <1>3, <1>5, <1>6

LEMMA MergeLineType ==
  ASSUME NEW r \in Buffers, NEW line \in DumpLines, line[1] = "byte" => line[2] \in Bytes
  PROVE  MergeLine(r, line) \in Buffers
<1>1. r.lines \in Seq(WordLines) /\ r.buffer \in Seq(Bytes)
  BY DEF Buffers
<1>2. CASE line[1] = "at"
  <2>1. line = <<"at", line[2]>> /\ line[2] \in Nat
    BY <1>2 DEF DumpLines
  <2>2. line \in WordLines
    BY <2>1 DEF WordLines
  <2>3. FlushBuffer(r.buffer) \in Seq(WordLines)
    BY <1>1, FlushBufferType
  <2>4. r.lines \o FlushBuffer(r.buffer) \o <<line>> \in Seq(WordLines)
    BY <1>1, <2>2, <2>3
  <2>5. <<>> \in Seq(Bytes)
    OBVIOUS
  <2> QED BY <1>2, <2>4, <2>5 DEF MergeLine, Buffers
<1>3. CASE line[1] # "at"
  <2>1. line[2] \in Bytes
    BY <1>3 DEF DumpLines
  <2>2. Append(r.buffer, line[2]) \in Seq(Bytes)
    BY <1>1, <2>1
  <2>3. MergeLine(r, line) = [r EXCEPT !.buffer = Append(r.buffer, line[2])]
    BY <1>3 DEF MergeLine
  <2> QED BY <1>1, <2>2, <2>3 DEF Buffers
<1> QED BY <1>2, <1>3

LEMMA MergeHexBytesType == MergeHexBytes(Dump) \in Seq(WordLines)
<1>1. PICK N \in Nat : N = Len(Dump)
  BY DumpAssumption
<1>2. ASSUME NEW k \in 1 .. N
      PROVE  Dump[k] \in DumpLines /\ (Dump[k][1] = "byte" => Dump[k][2] \in Bytes)
  <2>1. Dump \in Seq(DumpLines)
    BY DumpAssumption DEF DumpLines
  <2>2. k \in DOMAIN Dump
    BY <1>1, <2>1
  <2> QED BY <2>1, <2>2, DumpAssumption
<1> DEFINE first == [lines |-> <<>>, buffer |-> <<>>]
           V == [k \in 0 .. N |-> Buffers]
           Merges(r, k) == MergeLine(r, Dump[k])
           step == [k \in 1 .. N |-> [r \in Buffers |-> Merges(r, k)]]
           Layers(f) == [k \in 0 .. N |-> IF k = 0 THEN first ELSE Merges(f[k - 1], k)]
<1>3. first \in Buffers
  BY DEF Buffers
<1>4. ASSUME NEW k \in 1 .. N, NEW r \in Buffers PROVE Merges(r, k) \in Buffers
  BY <1>2, MergeLineType
<1> HIDE DEF Merges, first
<1>5. StepsOn(N, Buffers, V, first, step)
  <2>1. V \in [0 .. N -> SUBSET Buffers] /\ first \in V[0]
    BY <1>3
  <2>2. ASSUME NEW k \in 1 .. N, NEW r \in V[k - 1] PROVE step[k][r] \in V[k]
    <3>1. k \in 0 .. N /\ k - 1 \in 0 .. N
      OBVIOUS
    <3>2. r \in Buffers
      BY <3>1
    <3> QED BY <1>4, <3>1, <3>2
  <2> QED BY <2>1, <2>2 DEF StepsOn
<1>6. PICK f : IsRecursive(f, N, Buffers, V, first, step)
  BY <1>5, RecursiveFunction
<1>7. f = Layers(f)
  <2>1. f \in [0 .. N -> Buffers] /\ f[0] = first /\ \A k \in 1 .. N : f[k] = step[k][f[k - 1]]
    BY <1>6 DEF IsRecursive
  <2>2. ASSUME NEW k \in 0 .. N PROVE f[k] = IF k = 0 THEN first ELSE Merges(f[k - 1], k)
    <3>1. CASE k = 0
      BY <2>1, <3>1
    <3>2. CASE k # 0
      <4>1. k \in 1 .. N /\ k - 1 \in 0 .. N
        BY <3>2
      <4>2. f[k - 1] \in Buffers
        BY <2>1, <4>1
      <4> QED BY <2>1, <3>2, <4>1, <4>2
    <3> QED BY <3>1, <3>2
  <2>3. f = [k \in 0 .. N |-> f[k]]
    BY <2>1
  <2> QED BY <2>2, <2>3
<1>8. PICK v : v = Layers(v) /\ v = CHOOSE merged : merged = Layers(merged)
  <2> HIDE DEF Layers
  <2> QED BY <1>7
<1>9. MergeHexBytes(Dump) = v[N].lines \o FlushBuffer(v[N].buffer)
  <2>1. LET m == CHOOSE merged : merged = [k \in 0 .. Len(Dump) |->
                                            IF k = 0 THEN first ELSE Merges(merged[k - 1], k)]
        IN  MergeHexBytes(Dump) = m[Len(Dump)].lines \o FlushBuffer(m[Len(Dump)].buffer)
    BY Zenon DEF MergeHexBytes, Merges, first
  <2> QED BY <1>1, <1>8, <2>1
<1>10. \A k \in 0 .. N : v[k] \in V[k]
  <2>0. \A k \in 0 .. N : v[k] = IF k = 0 THEN first ELSE Merges(v[k - 1], k)
    BY <1>8
  <2>1. v[0] \in V[0]
    BY <1>3, <2>0
  <2>2. ASSUME NEW k \in 1 .. N, v[k - 1] \in V[k - 1] PROVE v[k] \in V[k]
    <3>1. k \in 0 .. N /\ k - 1 \in 0 .. N /\ k # 0
      OBVIOUS
    <3>2. v[k - 1] \in Buffers /\ v[k] = Merges(v[k - 1], k)
      BY <2>0, <2>2, <3>1
    <3> QED BY <1>4, <3>1, <3>2
  <2> QED BY <2>1, <2>2, RecursiveValues
<1>11. v[N] \in Buffers
  BY <1>10
<1>12. v[N].lines \in Seq(WordLines) /\ v[N].buffer \in Seq(Bytes)
  BY <1>11 DEF Buffers
<1>13. FlushBuffer(v[N].buffer) \in Seq(WordLines)
  BY <1>12, FlushBufferType
<1> QED BY <1>9, <1>12, <1>13

Memories == [place : Nat, cells : [0 .. Depth - 1 -> Bytes]]

LEMMA ByteFileType ==
  ASSUME NEW lines \in Seq(WordLines), NEW lane \in Lanes
  PROVE  ByteFile(lines, lane) \in Seq(ByteLines)
<1>1. PICK n \in Nat : n = Len(lines) /\ DOMAIN lines = 1 .. n
  OBVIOUS
<1> DEFINE Cell(k) == IF lines[k][1] = "at" THEN <<"at", lines[k][2] \div 4>> ELSE <<"byte", lines[k][2][lane]>>
<1>2. ASSUME NEW k \in 1 .. n PROVE Cell(k) \in ByteLines
  <2>1. lines[k] \in WordLines
    BY <1>1
  <2>2. CASE lines[k] \in ({"at"}) \X Nat
    <3>1. lines[k][1] = "at" /\ lines[k][2] \in Nat
      BY <2>2
    <3>2. lines[k][2] \div 4 \in Nat
      BY <3>1
    <3> QED BY <3>1, <3>2 DEF ByteLines
  <2>3. CASE lines[k] \in ({"word"}) \X Halves
    <3>1. lines[k][1] = "word" /\ lines[k][2] \in Halves
      BY <2>3
    <3>2. lines[k][2][lane] \in Bytes
      BY <3>1 DEF Halves, Lanes
    <3> QED BY <3>1, <3>2 DEF ByteLines
  <2> QED BY <2>1, <2>2, <2>3 DEF WordLines
<1>3. ByteFile(lines, lane) = [k \in 1 .. n |-> Cell(k)]
  BY <1>1, Zenon DEF ByteFile
<1> HIDE DEF Cell
<1> QED BY <1>1, <1>2, <1>3

LEMMA LoadLineType ==
  ASSUME NEW m \in Memories, NEW line \in ByteLines
  PROVE  LoadLine(m, line) \in Memories
<1>1. m.place \in Nat /\ m.cells \in [0 .. Depth - 1 -> Bytes]
  BY DEF Memories
<1>2. CASE line \in ({"at"}) \X Nat
  <2>1. line[1] = "at" /\ line[2] \in Nat
    BY <1>2
  <2>2. LoadLine(m, line) = [m EXCEPT !.place = line[2]]
    BY <2>1 DEF LoadLine
  <2> QED BY <2>1, <2>2 DEF Memories
<1>3. CASE line \in ({"byte"}) \X Bytes
  <2>1. line[1] = "byte" /\ line[2] \in Bytes
    BY <1>3
  <2>2. PICK c : c = [m.cells EXCEPT ![m.place] = line[2]] /\ c \in [0 .. Depth - 1 -> Bytes]
    BY <1>1, <2>1
  <2>3. LoadLine(m, line) = [place |-> m.place + 1, cells |-> c]
    BY <2>1, <2>2 DEF LoadLine
  <2>4. m.place + 1 \in Nat
    BY <1>1
  <2> QED BY <2>2, <2>3, <2>4 DEF Memories
<1> QED BY <1>2, <1>3 DEF ByteLines

LEMMA LoadFileType ==
  ASSUME NEW file \in Seq(ByteLines)
  PROVE  LoadFile(file, Depth) \in [0 .. Depth - 1 -> Bytes]
<1>1. PICK N \in Nat : N = Len(file)
  OBVIOUS
<1>2. ASSUME NEW k \in 1 .. N PROVE file[k] \in ByteLines
  BY <1>1
<1> DEFINE first == [place |-> 0, cells |-> [w \in 0 .. Depth - 1 |-> 0]]
           V == [k \in 0 .. N |-> Memories]
           Loads1(r, k) == LoadLine(r, file[k])
           step == [k \in 1 .. N |-> [r \in Memories |-> Loads1(r, k)]]
           Layers(f) == [k \in 0 .. N |-> IF k = 0 THEN first ELSE Loads1(f[k - 1], k)]
<1>3. first \in Memories
  BY ZeroIsByte DEF Memories
<1>4. ASSUME NEW k \in 1 .. N, NEW r \in Memories PROVE Loads1(r, k) \in Memories
  BY <1>2, LoadLineType
<1> HIDE DEF Loads1, first
<1>5. StepsOn(N, Memories, V, first, step)
  <2>1. V \in [0 .. N -> SUBSET Memories] /\ first \in V[0]
    BY <1>3
  <2>2. ASSUME NEW k \in 1 .. N, NEW r \in V[k - 1] PROVE step[k][r] \in V[k]
    <3>1. k \in 0 .. N /\ k - 1 \in 0 .. N
      OBVIOUS
    <3>2. r \in Memories
      BY <3>1
    <3> QED BY <1>4, <3>1, <3>2
  <2> QED BY <2>1, <2>2 DEF StepsOn
<1>6. PICK f : IsRecursive(f, N, Memories, V, first, step)
  BY <1>5, RecursiveFunction
<1>7. f = Layers(f)
  <2>1. f \in [0 .. N -> Memories] /\ f[0] = first /\ \A k \in 1 .. N : f[k] = step[k][f[k - 1]]
    BY <1>6 DEF IsRecursive
  <2>2. ASSUME NEW k \in 0 .. N PROVE f[k] = IF k = 0 THEN first ELSE Loads1(f[k - 1], k)
    <3>1. CASE k = 0
      BY <2>1, <3>1
    <3>2. CASE k # 0
      <4>1. k \in 1 .. N /\ k - 1 \in 0 .. N
        BY <3>2
      <4>2. f[k - 1] \in Memories
        BY <2>1, <4>1
      <4> QED BY <2>1, <3>2, <4>1, <4>2
    <3> QED BY <3>1, <3>2
  <2>3. f = [k \in 0 .. N |-> f[k]]
    BY <2>1
  <2> QED BY <2>2, <2>3
<1>8. PICK v : v = Layers(v) /\ v = CHOOSE loaded : loaded = Layers(loaded)
  <2> HIDE DEF Layers
  <2> QED BY <1>7
<1>9. LoadFile(file, Depth) = v[N].cells
  <2>1. LoadFile(file, Depth)
          = (CHOOSE loaded : loaded = [k \in 0 .. Len(file) |->
                                         IF k = 0 THEN first ELSE Loads1(loaded[k - 1], k)])[Len(file)].cells
    BY Zenon DEF LoadFile, Loads1, first
  <2> QED BY <1>1, <1>8, <2>1
<1>10. \A k \in 0 .. N : v[k] \in V[k]
  <2>0. \A k \in 0 .. N : v[k] = IF k = 0 THEN first ELSE Loads1(v[k - 1], k)
    BY <1>8
  <2>1. v[0] \in V[0]
    BY <1>3, <2>0
  <2>2. ASSUME NEW k \in 1 .. N, v[k - 1] \in V[k - 1] PROVE v[k] \in V[k]
    <3>1. k \in 0 .. N /\ k - 1 \in 0 .. N /\ k # 0
      OBVIOUS
    <3>2. v[k - 1] \in Memories /\ v[k] = Loads1(v[k - 1], k)
      BY <2>0, <2>2, <3>1
    <3> QED BY <1>4, <3>1, <3>2
  <2> QED BY <2>1, <2>2, RecursiveValues
<1>11. v[N] \in Memories
  BY <1>10
<1> QED BY <1>9, <1>11 DEF Memories

LEMMA InitialLanesType == InitialLanes(Dump, Depth) \in [Lanes -> [0 .. Depth - 1 -> Bytes]]
<1>1. ASSUME NEW lane \in Lanes
      PROVE  LoadFile(ByteFile(MergeHexBytes(Dump), lane), Depth) \in [0 .. Depth - 1 -> Bytes]
  BY MergeHexBytesType, ByteFileType, LoadFileType
<1> QED BY <1>1 DEF InitialLanes, Lanes

LEMMA RegisterType ==
  ASSUME task \in Tasks, NEW n \in 0 .. 31
  PROVE  /\ Register(n) \in Word
         /\ n # 0 => Register(n) = Vector(task.registers[n], Bits) /\ task.registers[n] \in 0 .. 2^Bits - 1
         /\ n = 0 => Register(n) = Zero
<1>1. CASE n = 0
  BY <1>1, WordConstants DEF Register
<1>2. CASE n # 0
  <2>1. task.registers \in [1 .. 31 -> 0 .. 2^Bits - 1]
    BY TasksAssumption
  <2>2. n \in 1 .. 31
    BY <1>2
  <2>3. PICK v : v = task.registers[n]
    OBVIOUS
  <2>4. v \in 0 .. 2^Bits - 1
    BY <2>1, <2>2, <2>3
  <2>5. v \in Int
    BY <2>4
  <2>6. Vector(v, Bits) \in Word
    BY <2>5, BitsIs, WordIs, VectorType
  <2> QED BY <1>2, <2>3, <2>4, <2>6 DEF Register
<1> QED BY <1>1, <1>2

LEMMA PcType == ASSUME task \in Tasks PROVE Pc \in Word
<1>1. task.pc \in 0 .. 2^Bits - 1
  BY TasksAssumption
<1>2. task.pc \in Int
  BY <1>1
<1> QED BY <1>2, BitsIs, WordIs, VectorType DEF Pc

LEMMA SmallWord == ASSUME NEW k \in Int PROVE Vector(k, Bits) \in Word
BY BitsIs, WordIs, VectorType

LEMMA LowType == ASSUME NEW imm \in Vectors(32) PROVE Low(imm) \in Word
<1>1. 1 \in 1 .. 32 + 1 /\ Bits \in 1 - 1 .. 32 /\ Bits - 1 + 1 = Bits
  BY BitsIs
<1>2. SubSeq(imm, 1, Bits) \in Vectors(Bits - 1 + 1)
  BY ONLY imm \in Vectors(32), <1>1, 32 \in Nat, SubSeqIs
<1> QED BY <1>1, <1>2, WordIs DEF Low

\* A word with the sign that an operation gives it, one bit wider.
LEMMA ExtendedIs ==
  ASSUME NEW x \in Word, NEW signed \in BOOLEAN
  PROVE  /\ Extended(x, signed) \in Vectors(Bits + 1)
         /\ Signed(Extended(x, signed)) \in Int
         /\ Signed(Extended(x, signed)) > -(2^Bits)
         /\ Signed(Extended(x, signed)) = IF signed THEN Signed(x) ELSE Number(x)
<1>1. PICK n : n + 1 = Bits /\ n \in Nat
  <2>1. (Bits - 1) + 1 = Bits /\ Bits - 1 \in Nat
    BY BitsIs
  <2> QED BY <2>1
<1>2. x \in Vectors(n + 1) /\ x \in Vectors(Bits) /\ Bits \in Nat
  BY <1>1, WordIs, BitsIs
<1>3. PICK p, a, s, t : p = 2^n /\ a = Number(x) /\ s = Signed(x) /\ t = Top(x)
  OBVIOUS
<1>4. p \in Nat /\ p > 0 /\ 2^Bits = 2 * p
  BY <1>1, <1>3, PowerPositive, PowerStep
<1>5. a \in Nat /\ a < 2 * p /\ t \in {0, 1} /\ s = a - t * (2 * p) /\ s \in Int /\ -p <= s /\ s < p
  BY <1>2, <1>1, <1>3, <1>4, NumberBound, SignedIs
<1>6. PICK b, y : b = (IF signed THEN Top(x) ELSE 0) /\ y = Append(x, b)
  OBVIOUS
<1>7. b \in {0, 1} /\ Extended(x, signed) = y
  BY <1>3, <1>5, <1>6 DEF Extended
<1>8. y \in Vectors(Bits + 1) /\ y[Bits + 1] = b /\ Number(y) = a + b * (2 * p)
  <2>1. PICK h : h = Bits
    OBVIOUS
  <2>2. h \in Nat /\ x \in Vectors(h)
    BY <1>2, <2>1
  <2>3. Append(x, b) \in Vectors(h + 1) /\ Append(x, b)[h + 1] = b
    BY ONLY <1>7, <2>2, AppendIs
  <2>4. Number(Append(x, b)) = Number(x) + b * 2^h
    BY ONLY <1>7, <2>2, NumberAppend
  <2> QED BY <1>3, <1>4, <1>6, <2>1, <2>3, <2>4
<1>9. Top(y) = b /\ Signed(y) = Number(y) - Top(y) * (2 * 2^Bits)
  BY <1>2, <1>8, SignedIs
<1>10. Signed(y) = a - b * (2 * p)
  <2>1. CASE b = 0
    BY <1>4, <1>5, <1>8, <1>9, <2>1
  <2>2. CASE b = 1
    BY <1>4, <1>5, <1>8, <1>9, <2>2
  <2> QED BY <1>7, <2>1, <2>2
<1>11. CASE signed
  <2>1. Signed(y) = s
    BY <1>3, <1>5, <1>6, <1>10, <1>11
  <2> QED BY <1>3, <1>4, <1>5, <1>7, <1>8, <1>11, <2>1
<1>12. CASE ~signed
  <2>1. Signed(y) = a
    BY <1>4, <1>5, <1>6, <1>10, <1>12
  <2> QED BY <1>3, <1>4, <1>5, <1>7, <1>8, <1>12, <2>1
<1> QED BY <1>11, <1>12

LEMMA BytesOfType == ASSUME NEW x \in Word PROVE BytesOf(x) \in FullWords
<1>1. PICK q : q = Bits \div 4 /\ q \in Nat /\ 4 * q = Bits /\ q > 0
  BY BitsIs
<1>2. ASSUME NEW lane \in Lanes PROVE ByteOf(x, lane) \in Bytes
  <2>1. PICK i, j : i = lane * q /\ j = (lane + 1) * q - 1
    OBVIOUS
  <2>2. i \in 0 .. Bits /\ j \in i - 1 .. Bits - 1 /\ j - i + 1 = q
    <3>1. lane = 0 \/ lane = 1 \/ lane = 2 \/ lane = 3
      BY DEF Lanes
    <3> QED BY <1>1, <2>1, <3>1
  <2>3. Slice(x, i, j) \in Vectors(q)
    BY <2>2, BitsIs, WordIs, SliceIs
  <2>4. Number(Slice(x, i, j)) \in 0 .. 2^q - 1
    BY <1>1, <2>3, NumberBound
  <2>5. Byte = 2^q
    BY <1>1, BitsAssumption
  <2>6. ByteOf(x, lane) = Number(Slice(x, i, j))
    BY <1>1, <2>1 DEF ByteOf
  <2> QED BY <2>4, <2>5, <2>6 DEF Bytes
<1> QED BY <1>2 DEF BytesOf, FullWords

LEMMA FullAddressType ==
  ASSUME task \in Tasks, entry.rs1 \in 0 .. 31, entry.imm \in Vectors(32)
  PROVE  FullAddress \in 0 .. AddressNumber - 1
<1>1. Register(entry.rs1) \in Word /\ Low(entry.imm) \in Word
  BY RegisterType, LowType
<1>2. Sum(Register(entry.rs1), Low(entry.imm)) \in Vectors(Bits)
  BY <1>1, SumType, WordIs
<1>3. Number(Sum(Register(entry.rs1), Low(entry.imm))) \in 0 .. 2^Bits - 1
  BY <1>2, BitsIs, NumberBound
<1> QED BY <1>3, BitsAssumption DEF FullAddress

LEMMA WrittenBackType ==
  ASSUME MemoryTypeOK
  PROVE  \A lane \in Lanes : WrittenBack[lane] \in Bytes
<1>1. dout \in FullWords /\ access.offset \in 0 .. 3 /\ \A l \in Lanes : dout[l] \in Bytes
  BY DEF MemoryTypeOK, FullWords
<1>2. 0 \in Bytes
  BY ZeroIsByte
<1>3. ASSUME NEW o \in 0 .. 3, NEW lane \in Lanes PROVE Shifted(o, lane) \in Bytes /\ Sext[Shifted(o, lane)] \in Bytes
  <2>1. lane + o <= 3 => lane + o \in Lanes
    BY DEF Lanes
  <2>2. Shifted(o, lane) \in Bytes
    BY <1>1, <1>2, <2>1 DEF Shifted
  <2> QED BY <2>2, SextType
<1>4. 0 \in Lanes /\ 1 \in Lanes
  BY DEF Lanes
<1>5. ASSUME NEW lane \in Lanes PROVE WrittenBack[lane] \in Bytes
  <2>1. PICK op, o : op = access.op /\ o = access.offset
    OBVIOUS
  <2>2. o \in 0 .. 3
    BY <1>1, <2>1
  <2>3. /\ Shifted(o, lane) \in Bytes /\ Shifted(o, 0) \in Bytes /\ Sext[Shifted(o, 0)] \in Bytes
        /\ Sext[Shifted(o, 1)] \in Bytes /\ dout[lane] \in Bytes
    BY <1>1, <1>3, <1>4, <2>2
  <2>4. WrittenBack[lane] =
          CASE op = "word" -> dout[lane]
            [] op = "byte" -> IF lane = 0 THEN Shifted(o, 0) ELSE Sext[Shifted(o, 0)]
            [] op = "half" -> IF lane <= 1 THEN Shifted(o, lane) ELSE Sext[Shifted(o, 1)]
            [] op = "byte_u" -> IF lane = 0 THEN Shifted(o, 0) ELSE 0
            [] OTHER -> IF lane <= 1 THEN Shifted(o, lane) ELSE 0
    BY <2>1 DEF WrittenBack, ProcessMemoryData
  <2> QED BY <1>2, <2>3, <2>4
<1> QED BY <1>5

LEMMA WriteBackWord ==
  ASSUME MemoryTypeOK
  PROVE  Vector(WrittenBack[0], Bits \div 4) \o Vector(WrittenBack[1], Bits \div 4)
           \o Vector(WrittenBack[2], Bits \div 4) \o Vector(WrittenBack[3], Bits \div 4) \in Word
<1>1. PICK q : q = Bits \div 4 /\ q \in Nat /\ q + q + q + q = Bits
  BY BitsIs
<1>q. q \in Nat /\ q + q \in Nat /\ (q + q) + q \in Nat
  <2>1. q \in Nat
    BY <1>1
  <2> QED BY ONLY <2>1
<1>2. \A lane \in Lanes : WrittenBack[lane] \in Int
  BY WrittenBackType DEF Bytes
<1>3. 0 \in Lanes /\ 1 \in Lanes /\ 2 \in Lanes /\ 3 \in Lanes
  BY DEF Lanes
<1>4. PICK a, b, c, d : a = Vector(WrittenBack[0], q) /\ b = Vector(WrittenBack[1], q)
                        /\ c = Vector(WrittenBack[2], q) /\ d = Vector(WrittenBack[3], q)
  OBVIOUS
<1>5. a \in Vectors(q) /\ b \in Vectors(q) /\ c \in Vectors(q) /\ d \in Vectors(q)
  BY <1>1, <1>2, <1>3, <1>4, VectorType
<1>6. a \o b \in Vectors(q + q)
  BY <1>1, <1>5, ConcatIs
<1>7. (a \o b) \o c \in Vectors((q + q) + q)
  <2>1. q + q \in Nat
    BY <1>q
  <2> QED BY <1>1, <1>5, <1>6, <2>1, ConcatIs
<1>8. ((a \o b) \o c) \o d \in Vectors(((q + q) + q) + q)
  <2>1. (q + q) + q \in Nat
    BY <1>q
  <2> QED BY <1>1, <1>5, <1>7, <2>1, ConcatIs
<1> QED BY <1>1, <1>4, <1>8, WordIs

LEMMA SignExtended ==
  ASSUME NEW n, n \in 1 .. 32, NEW x \in Vectors(n)
  PROVE  SignExtend(x, 32) \in Vectors(32)
<1>1. PICK h : h + 1 = n /\ h \in Nat /\ h + 1 <= 32
  <2>1. (n - 1) + 1 = n /\ n - 1 \in Nat /\ (n - 1) + 1 <= 32
    OBVIOUS
  <2> QED BY <2>1
<1> QED BY <1>1, NumberSignExtend

LEMMA ImmediateType ==
  ASSUME NEW format, NEW word \in Vectors(32)
  PROVE  Immediate(format, word) \in Vectors(32)
<1>1. /\ Slice(word, 20, 31) \in Vectors(12)
      /\ Slice(word, 7, 11) \in Vectors(5) /\ Slice(word, 25, 31) \in Vectors(7)
      /\ Slice(word, 8, 11) \in Vectors(4) /\ Slice(word, 25, 30) \in Vectors(6)
      /\ Slice(word, 7, 7) \in Vectors(1) /\ Slice(word, 31, 31) \in Vectors(1)
      /\ Slice(word, 12, 31) \in Vectors(20) /\ Slice(word, 21, 30) \in Vectors(10)
      /\ Slice(word, 20, 20) \in Vectors(1) /\ Slice(word, 12, 19) \in Vectors(8)
  <2>1. ASSUME NEW i \in 0 .. 31, NEW j \in i .. 31, NEW n, n = j - i + 1
        PROVE  Slice(word, i, j) \in Vectors(n)
    <3>1. PICK N : N = 32 /\ N \in Nat
      OBVIOUS
    <3>2. i \in 0 .. N /\ j \in i - 1 .. N - 1
      BY <3>1
    <3> QED BY <2>1, <3>1, <3>2, SliceIs
  <2>2. /\ Slice(word, 20, 31) \in Vectors(12) /\ Slice(word, 7, 11) \in Vectors(5)
        /\ Slice(word, 25, 31) \in Vectors(7) /\ Slice(word, 8, 11) \in Vectors(4)
    BY <2>1
  <2>3. /\ Slice(word, 25, 30) \in Vectors(6) /\ Slice(word, 7, 7) \in Vectors(1)
        /\ Slice(word, 31, 31) \in Vectors(1) /\ Slice(word, 12, 31) \in Vectors(20)
    BY <2>1
  <2>4. /\ Slice(word, 21, 30) \in Vectors(10) /\ Slice(word, 20, 20) \in Vectors(1)
        /\ Slice(word, 12, 19) \in Vectors(8)
    BY <2>1
  <2> QED BY <2>2, <2>3, <2>4
<1>2. << 0 >> \in Vectors(1)
  BY OneIs
<1>3. Repeated(0, 12) \in Vectors(12) /\ Repeated(0, 32) \in Vectors(32)
  BY RepeatedType
<1>i. SignExtend(Slice(word, 20, 31), 32) \in Vectors(32)
  <2>1. 12 \in 1 .. 32
    OBVIOUS
  <2> QED BY <1>1, <2>1, SignExtended
<1>s. SignExtend(Slice(word, 7, 11) \o Slice(word, 25, 31), 32) \in Vectors(32)
  <2>1. Slice(word, 7, 11) \o Slice(word, 25, 31) \in Vectors(12)
    <3>1. PICK m, n : m = 5 /\ n = 7
      OBVIOUS
    <3>2. m \in Nat /\ n \in Nat /\ m + n = 12
      BY <3>1
    <3> QED BY <1>1, <3>1, <3>2, ConcatIs
  <2>2. 12 \in 1 .. 32
    OBVIOUS
  <2> QED BY <2>1, <2>2, SignExtended
<1>b. SignExtend(<< 0 >> \o Slice(word, 8, 11) \o Slice(word, 25, 30) \o Slice(word, 7, 7)
                   \o Slice(word, 31, 31), 32) \in Vectors(32)
  <2>1. PICK w : w = << 0 >> \o Slice(word, 8, 11) \o Slice(word, 25, 30) \o Slice(word, 7, 7) \o Slice(word, 31, 31)
    OBVIOUS
  <2>2. Cut5(w, 1, 4, 6, 1, 1, << 0 >>, Slice(word, 8, 11), Slice(word, 25, 30), Slice(word, 7, 7), Slice(word, 31, 31))
    BY <1>1, <1>2, <2>1 DEF Cut5
  <2>3. w \in Vectors(1 + 4 + 6 + 1 + 1)
    BY <2>2, Fields5
  <2>4. w \in Vectors(13) /\ 13 \in 1 .. 32
    BY <2>3
  <2> QED BY <2>1, <2>4, SignExtended
<1>j. SignExtend(<< 0 >> \o Slice(word, 21, 30) \o Slice(word, 20, 20) \o Slice(word, 12, 19)
                   \o Slice(word, 31, 31), 32) \in Vectors(32)
  <2>1. PICK w : w = << 0 >> \o Slice(word, 21, 30) \o Slice(word, 20, 20) \o Slice(word, 12, 19) \o Slice(word, 31, 31)
    OBVIOUS
  <2>2. Cut5(w, 1, 10, 1, 8, 1, << 0 >>, Slice(word, 21, 30), Slice(word, 20, 20), Slice(word, 12, 19), Slice(word, 31, 31))
    BY <1>1, <1>2, <2>1 DEF Cut5
  <2>3. w \in Vectors(1 + 10 + 1 + 8 + 1)
    BY <2>2, Fields5
  <2>4. w \in Vectors(21) /\ 21 \in 1 .. 32
    BY <2>3
  <2> QED BY <2>1, <2>4, SignExtended
<1>u. Repeated(0, 12) \o Slice(word, 12, 31) \in Vectors(32)
  <2>1. PICK m, n : m = 12 /\ n = 20
    OBVIOUS
  <2>2. m \in Nat /\ n \in Nat /\ m + n = 32
    BY <2>1
  <2> QED BY <1>1, <1>3, <2>1, <2>2, ConcatIs
<1> QED BY <1>3, <1>i, <1>s, <1>b, <1>j, <1>u DEF Immediate

-----------------------------------------------------------------------------
(* The invariant. *)
Stages == {"idle", "alu", "multiply_alu", "reduce", "sum", "load", "divide", "lsu", "write_back",
           "retire"}

Entries ==
  [args : Arguments, rd : 0 .. 31, rs1 : 0 .. 31, rs2 : 0 .. 31, imm : Vectors(32),
   predict_branch : BOOLEAN, value : Word \cup {<<>>}, actual_branch : BOOLEAN, list_imm : Word]

Dividers ==
  [op_a : Word, op_b : Word, quotient_sign : BOOLEAN, remainder_sign : BOOLEAN,
   PA : Vectors(2 * Bits + 1), B : Word, i : 0 .. Bits]

TypeInv ==
  /\ stage \in Stages
  /\ task \in Tasks
  /\ entry \in Entries
  /\ addends \in Seq(Vectors(2 * Bits + 2))
  /\ divider \in Dividers
  /\ MemoryTypeOK

\* The entry is the one that was decoded from the instruction's word.
DecodedInv ==
  stage # "idle" =>
    /\ entry.args \in Selected(Encode(task))
    /\ entry.imm = Immediate(entry.args.imm, Encode(task))
    /\ entry.rs1 = Number(Slice(Encode(task), 15, 19))
    /\ entry.rs2 = Number(Slice(Encode(task), 20, 24))

LEMMA TaskWord == ASSUME NEW t \in Tasks PROVE Encode(t) \in Vectors(32) /\ Encodable(t)
<1>1. Encodable(t)
  BY TasksAssumption
<1> QED BY <1>1, WordDecodes

LEMMA FieldTypes ==
  ASSUME NEW word \in Vectors(32)
  PROVE  Rd(word) \in 0 .. 31 /\ Number(Slice(word, 15, 19)) \in 0 .. 31 /\ Number(Slice(word, 20, 24)) \in 0 .. 31
<1>1. ASSUME NEW i \in 0 .. 25 PROVE Number(Slice(word, i, i + 4)) \in 0 .. 31
  <2>1. PICK N, n : N = 32 /\ N \in Nat /\ n = 5 /\ n \in Nat
    OBVIOUS
  <2>2. i \in 0 .. N /\ i + 4 \in i - 1 .. N - 1 /\ (i + 4) - i + 1 = n
    BY <2>1
  <2>3. Slice(word, i, i + 4) \in Vectors(n)
    BY ZenonT(60), <2>1, <2>2, SliceIs
  <2>4. Number(Slice(word, i, i + 4)) \in 0 .. 2^n - 1
    BY <2>1, <2>3, NumberBound
  <2>5. 2^n = 32
    BY <2>1, Powers
  <2> QED BY <2>4, <2>5
<1>2. Number(Slice(word, 7, 7 + 4)) \in 0 .. 31 /\ Number(Slice(word, 15, 15 + 4)) \in 0 .. 31 /\ Number(Slice(word, 20, 20 + 4)) \in 0 .. 31
  BY <1>1
<1> QED BY <1>2 DEF Rd

\* The entry of a decoded word.
LEMMA EntryType ==
  ASSUME NEW word \in Vectors(32), NEW args \in Arguments, NEW branch \in BOOLEAN
  PROVE  EntryOf(word, args, branch) \in Entries
<1>1. Immediate(args.imm, word) \in Vectors(32) /\ Low(Immediate(args.imm, word)) \in Word
  BY ImmediateType, LowType
<1>2. [args EXCEPT !.is_terminator = @ \/ word = HaltWord] \in Arguments
  <2>1. PICK e : e = (args.is_terminator \/ word = HaltWord) /\ e \in BOOLEAN
    OBVIOUS
  <2>2. [args EXCEPT !.is_terminator = e] \in Arguments
    BY <2>1 DEF Arguments
  <2> QED BY <2>1, <2>2
<1>3. (IF args.has_rd THEN Rd(word) ELSE 0) \in 0 .. 31
  BY FieldTypes
<1>4. Number(Slice(word, 15, 19)) \in 0 .. 31 /\ Number(Slice(word, 20, 24)) \in 0 .. 31
  BY FieldTypes
<1>5. <<>> \in Word \cup {<<>>} /\ FALSE \in BOOLEAN
  OBVIOUS
<1> QED BY <1>1, <1>2, <1>3, <1>4, <1>5, Zenon DEF EntryOf, Entries

LEMMA NoDivisionType == NoDivision \in Dividers
<1>1. Zero \in Word /\ 0 \in 0 .. Bits
  BY WordConstants, BitsIs
<1>2. Repeated(0, 2 * Bits + 1) \in Vectors(2 * Bits + 1)
  <2>1. 2 * Bits + 1 \in Nat
    BY BitsIs
  <2> QED BY <2>1, RepeatedType
<1> QED BY <1>1, <1>2 DEF NoDivision, Dividers

LEMMA InitTypeInv == Init => TypeInv /\ DecodedInv
<1> SUFFICES ASSUME Init PROVE TypeInv /\ DecodedInv
  OBVIOUS
<1>1. Repeated(0, 32) \in Vectors(32)
  BY RepeatedType
<1>2. entry \in Entries
  BY <1>1, DefaultType, EntryType DEF Init
<1>3. MemoryTypeOK
  <2>1. lanes \in [Lanes -> [0 .. Depth - 1 -> Bytes]]
    BY InitialLanesType DEF Init
  <2>2. dout \in FullWords
    BY ZeroIsByte DEF Init, NothingRead, FullWords
  <2>3. access \in [op : Loads, offset : 0 .. 3]
    BY DEF Init, NoAccess, Loads
  <2> QED BY <2>1, <2>2, <2>3 DEF MemoryTypeOK
<1>4. addends \in Seq(Vectors(2 * Bits + 2))
  BY DEF Init
<1>5. divider \in Dividers
  BY NoDivisionType DEF Init
<1>6. stage \in Stages /\ task \in Tasks /\ stage = "idle"
  BY DEF Init, Stages
<1> QED BY <1>2, <1>3, <1>4, <1>5, <1>6 DEF TypeInv, DecodedInv

LEMMA IssueKeeps ==
  ASSUME TypeInv, NEW t \in Tasks, Issue(t)
  PROVE  TypeInv' /\ DecodedInv'
<1>1. PICK word, args : word = Encode(t) /\ args = SelectInstructionArgs(word)
  OBVIOUS
<1>2. word \in Vectors(32) /\ args \in Selected(word) /\ args \in Arguments
  BY <1>1, TaskWord, SelectedArgs DEF Selected
<1>3. PICK branch \in {FALSE, args.is_branch} : entry' = EntryOf(word, args, branch)
  BY <1>1 DEF Issue
<1>4. branch \in BOOLEAN
  BY <1>2, <1>3 DEF Arguments
<1>5. entry' \in Entries
  BY <1>2, <1>3, <1>4, EntryType
<1>6. UnitOf(args) \in Stages
  BY DEF UnitOf, Stages
<1>7. task' = t /\ stage' = UnitOf(args) /\ UNCHANGED <<addends, divider, lanes, dout, access>>
  BY <1>1 DEF Issue
<1>8. TypeInv'
  BY <1>5, <1>6, <1>7 DEF TypeInv, MemoryTypeOK
<1>9. /\ entry'.imm = Immediate(args.imm, word) /\ entry'.rs1 = Number(Slice(word, 15, 19))
      /\ entry'.rs2 = Number(Slice(word, 20, 24))
      /\ entry'.args = [args EXCEPT !.is_terminator = @ \/ word = HaltWord]
  BY <1>3 DEF EntryOf
<1>10. entry'.args.imm = args.imm /\ entry'.args.alu_op = args.alu_op /\ entry'.args \in Arguments
  <2>1. entry'.args \in Arguments
    BY <1>5 DEF Entries
  <2> QED BY <1>2, <1>9, <2>1 DEF Arguments
<1>11. entry'.args \in Selected(word)
  BY <1>2, <1>10 DEF Selected
<1> QED BY <1>1, <1>7, <1>8, <1>9, <1>10, <1>11 DEF DecodedInv

LEMMA OperandType ==
  ASSUME TypeInv, NEW from
  PROVE  Operand(from) \in Word
<1>1. task \in Tasks /\ entry.rs1 \in 0 .. 31 /\ entry.rs2 \in 0 .. 31 /\ entry.imm \in Vectors(32)
  BY DEF TypeInv, Entries
<1>2. Register(entry.rs1) \in Word /\ Register(entry.rs2) \in Word
  BY <1>1, RegisterType
<1> QED BY <1>1, <1>2, LowType, PcType, SmallWord DEF Operand

LEMMA AluKeeps ==
  ASSUME TypeInv, DecodedInv, Alu
  PROVE  TypeInv' /\ DecodedInv'
<1>1. entry \in Entries /\ entry.args \in Arguments /\ entry.rs1 \in 0 .. 31 /\ entry.imm \in Vectors(32)
      /\ task \in Tasks
  BY DEF TypeInv, Entries
<1>2. PICK result : result = AluResult(entry.args.alu_op, Operand(entry.args.from1), Operand(entry.args.from2))
  OBVIOUS
<1>3. result \in Word
  BY <1>2, OperandType, AluResultType
<1>4. PICK value, branch, list :
        /\ value = IF entry.rd # 0 THEN IF entry.args.is_jalr THEN Sum(Pc, Vector(4, Bits)) ELSE result ELSE <<>>
        /\ branch = (entry.args.is_branch /\ ((result # Zero) # entry.args.branch_flip))
        /\ list = IF entry.args.is_jalr THEN Sum(Register(entry.rs1), Low(entry.imm)) ELSE entry.list_imm
  OBVIOUS
<1>5. value \in Word \cup {<<>>}
  <2>1. Sum(Pc, Vector(4, Bits)) \in Word
    BY <1>1, PcType, SmallWord, SumType
  <2> QED BY <1>3, <1>4, <2>1
<1>6. branch \in BOOLEAN
  BY <1>1, <1>4 DEF Arguments
<1>7. list \in Word
  <2>1. Sum(Register(entry.rs1), Low(entry.imm)) \in Word
    BY <1>1, RegisterType, LowType, SumType
  <2>2. entry.list_imm \in Word
    BY <1>1 DEF Entries
  <2> QED BY <1>4, <2>1, <2>2
<1>8. entry' = [entry EXCEPT !.value = value, !.actual_branch = branch, !.list_imm = list]
  BY <1>2, <1>4 DEF Alu
<1>9. entry' \in Entries /\ entry'.args = entry.args /\ entry'.imm = entry.imm /\ entry'.rs1 = entry.rs1
      /\ entry'.rs2 = entry.rs2
  BY <1>1, <1>5, <1>6, <1>7, <1>8 DEF Entries
<1>10. stage = "alu" /\ stage' = "retire" /\ UNCHANGED <<task, addends, divider, lanes, dout, access>>
  BY DEF Alu
<1>11. TypeInv'
  BY <1>9, <1>10 DEF TypeInv, MemoryTypeOK, Stages
<1> QED BY <1>9, <1>10, <1>11 DEF DecodedInv

\* update_register only changes the value.
LEMMA UpdateKeeps ==
  ASSUME TypeInv, DecodedInv, stage # "idle", NEW result \in Word, UpdateRegister(result), task' = task
  PROVE  entry' \in Entries /\ stage' \in Stages /\ DecodedInv'
<1>1. entry \in Entries
  BY DEF TypeInv
<1>2. entry' = [entry EXCEPT !.value = result] /\ stage' = "retire"
  BY DEF UpdateRegister
<1>3. entry' \in Entries /\ entry'.args = entry.args /\ entry'.imm = entry.imm /\ entry'.rs1 = entry.rs1
      /\ entry'.rs2 = entry.rs2
  BY <1>1, <1>2 DEF Entries
<1> QED BY <1>2, <1>3 DEF DecodedInv, Stages

LEMMA MultiplyKeeps ==
  ASSUME TypeInv, DecodedInv, MultiplyAlu, Multiply
  PROVE  TypeInv' /\ DecodedInv'
<1>1. task \in Tasks /\ entry.rs1 \in 0 .. 31 /\ entry.rs2 \in 0 .. 31
  BY DEF TypeInv, Entries
<1>2. PICK s1, s2, a, b :
        /\ s1 = (entry.args.alu_op \in {"MULH", "MULSU"}) /\ s2 = (entry.args.alu_op = "MULH")
        /\ a = Extended(Register(entry.rs1), s1) /\ b = Extended(Register(entry.rs2), s2)
  OBVIOUS
<1>3. s1 \in BOOLEAN /\ s2 \in BOOLEAN
  BY <1>2
<1>4. a \in Vectors(Bits + 1) /\ b \in Vectors(Bits + 1) /\ Signed(b) > -(2^Bits)
  BY <1>1, <1>2, <1>3, RegisterType, ExtendedIs
<1>5. Bits \in Nat /\ Bits % 2 = 0 /\ Bits > 0
  BY BitsIs
<1>6. Radix4PartialProducts(a, b) \in Sums(2 * Bits + 2, Signed(a) * Signed(b))
  BY <1>4, <1>5, ProductsSum
<1>7. addends' = Radix4PartialProducts(a, b) /\ stage' = "reduce" /\ UNCHANGED <<entry, divider>>
  BY <1>2 DEF Multiply
<1>8. addends' \in Seq(Vectors(2 * Bits + 2))
  BY <1>6, <1>7 DEF Sums
<1>9. stage = "multiply_alu" /\ UNCHANGED <<task, lanes, dout, access>>
  BY DEF MultiplyAlu
<1> QED BY <1>7, <1>8, <1>9 DEF TypeInv, DecodedInv, MemoryTypeOK, Stages

LEMMA DivideKeeps ==
  ASSUME TypeInv, DecodedInv, MultiplyAlu, Divide
  PROVE  TypeInv' /\ DecodedInv'
<1>1. /\ task \in Tasks /\ entry.rs1 \in 0 .. 31 /\ entry.rs2 \in 0 .. 31 /\ divider \in Dividers
      /\ stage = "multiply_alu" /\ UNCHANGED <<task, lanes, dout, access>>
  BY DEF TypeInv, Entries, MultiplyAlu
<1>2. PICK op, a, b, signed, overflow :
        /\ op = entry.args.alu_op /\ a = Register(entry.rs1) /\ b = Register(entry.rs2)
        /\ signed = (op \in {"DIV", "REM"}) /\ overflow = (signed /\ a = Smallest /\ b = Ones)
  OBVIOUS
<1>3. a \in Word /\ b \in Word /\ signed \in BOOLEAN
  BY <1>1, <1>2, RegisterType
<1>u. UNCHANGED addends
  BY DEF Divide
<1>4. CASE b = Zero /\ UpdateRegister(IF op \in DivOps THEN Ones ELSE a) /\ UNCHANGED divider
  <2>1. (IF op \in DivOps THEN Ones ELSE a) \in Word
    BY <1>3, WordConstants
  <2>2. entry' \in Entries /\ stage' \in Stages /\ DecodedInv'
    BY <1>1, <1>4, <2>1, UpdateKeeps
  <2> QED BY <1>1, <1>4, <1>u, <2>2 DEF TypeInv, MemoryTypeOK
<1>5. CASE overflow /\ UpdateRegister(IF op = "DIV" THEN Smallest ELSE Zero) /\ UNCHANGED divider
  <2>1. (IF op = "DIV" THEN Smallest ELSE Zero) \in Word
    BY WordConstants
  <2>2. entry' \in Entries /\ stage' \in Stages /\ DecodedInv'
    BY <1>1, <1>5, <2>1, UpdateKeeps
  <2> QED BY <1>1, <1>5, <1>u, <2>2 DEF TypeInv, MemoryTypeOK
<1>6. CASE /\ divider' = [divider EXCEPT
                !.op_a = Absolute(a, signed), !.op_b = Absolute(b, signed),
                !.quotient_sign = signed /\ Top(a) # Top(b),
                !.remainder_sign = signed /\ Top(a) = 1]
           /\ stage' = "load"
           /\ UNCHANGED entry
  <2>1. PICK qs, rs : qs = (signed /\ Top(a) # Top(b)) /\ rs = (signed /\ Top(a) = 1)
    OBVIOUS
  <2>2. qs \in BOOLEAN /\ rs \in BOOLEAN /\ Absolute(a, signed) \in Word /\ Absolute(b, signed) \in Word
    BY <1>3, <2>1, AbsoluteType
  <2>3. divider' \in Dividers
    BY <1>1, <1>6, <2>1, <2>2 DEF Dividers
  <2> QED BY <1>1, <1>6, <1>u, <2>3 DEF TypeInv, DecodedInv, MemoryTypeOK, Stages
<1> QED BY <1>2, <1>4, <1>5, <1>6 DEF Divide

Product ==
  LET op == entry.args.alu_op
  IN  Signed(Extended(Register(entry.rs1), op \in {"MULH", "MULSU"}))
        * Signed(Extended(Register(entry.rs2), op = "MULH"))

\* What the addends between the multiplier's stages sum up to.
ProductInv ==
  stage \in {"reduce", "sum"} =>
    /\ entry.args.alu_op \in MulOps
    /\ addends \in Sums(2 * Bits + 2, Product)
    /\ stage = "sum" => Len(addends) = 2

LEMMA ReduceKeeps ==
  ASSUME TypeInv, DecodedInv, ProductInv, MultiplyReduceLevel
  PROVE  TypeInv' /\ DecodedInv'
<1>1. /\ stage = "reduce" /\ addends' = WallaceTree(addends) /\ stage' = "sum"
      /\ UNCHANGED <<task, entry, divider, lanes, dout, access>>
  BY DEF MultiplyReduceLevel
<1>2. PICK d, m : d = 2 * Bits + 1 /\ m = 2 * Bits + 2
  OBVIOUS
<1>3. d \in Nat /\ m = d + 1
  BY <1>2, BitsIs
<1>4. addends \in Sums(m, Product)
  BY <1>1, <1>2 DEF ProductInv
<1>5. addends' \in Sums(m, Product)
  BY <1>1, <1>3, <1>4, WallaceTreeSums
<1>6. addends' \in Seq(Vectors(2 * Bits + 2))
  BY <1>2, <1>5 DEF Sums
<1> QED BY <1>1, <1>6 DEF TypeInv, DecodedInv, MemoryTypeOK, Stages

LEMMA SumKeeps ==
  ASSUME TypeInv, DecodedInv, ProductInv, MultiplySumLevel
  PROVE  TypeInv' /\ DecodedInv'
<1>1. /\ stage = "sum" /\ addends' = <<>> /\ UNCHANGED <<task, divider, lanes, dout, access>>
  BY DEF MultiplySumLevel
<1>2. PICK m, s : m = 2 * Bits + 2 /\ s = Add(addends[1], addends[2], 0)
  OBVIOUS
<1>3. m \in Nat /\ Bits \in 1 .. m /\ 0 \in 0 .. m /\ Bits - 1 \in 0 - 1 .. m - 1 /\ 2 * Bits - 1 \in Bits - 1 .. m - 1
      /\ Bits \in 0 .. m /\ (Bits - 1) - 0 + 1 = Bits /\ (2 * Bits - 1) - Bits + 1 = Bits
  BY <1>2, BitsIs
<1>4. addends \in Seq(Vectors(m)) /\ Len(addends) = 2
  BY <1>1, <1>2 DEF ProductInv, TypeInv
<1>5. addends[1] \in Vectors(m) /\ addends[2] \in Vectors(m)
  BY <1>4
<1>6. s \in Vectors(m)
  BY <1>2, <1>3, <1>5, AddIs
<1>7. Slice(s, 0, Bits - 1) \in Word
  <2>1. Slice(s, 0, Bits - 1) \in Vectors((Bits - 1) - 0 + 1)
    BY ONLY <1>3, <1>6, SliceIs
  <2> QED BY <1>3, <2>1, WordIs
<1>8. Slice(s, Bits, 2 * Bits - 1) \in Word
  <2>1. Slice(s, Bits, 2 * Bits - 1) \in Vectors((2 * Bits - 1) - Bits + 1)
    BY ONLY <1>3, <1>6, SliceIs
  <2> QED BY <1>3, <2>1, WordIs
<1>9. PICK v : v = IF entry.args.alu_op = "MUL" THEN Slice(s, 0, Bits - 1) ELSE Slice(s, Bits, 2 * Bits - 1)
  OBVIOUS
<1>10. UpdateRegister(v) /\ v \in Word
  BY <1>2, <1>7, <1>8, <1>9 DEF MultiplySumLevel
<1>11. entry' \in Entries /\ stage' \in Stages /\ DecodedInv'
  BY <1>1, <1>10, UpdateKeeps
<1>12. addends' \in Seq(Vectors(2 * Bits + 2))
  BY <1>1
<1> QED BY <1>1, <1>11, <1>12 DEF TypeInv, MemoryTypeOK

-----------------------------------------------------------------------------
(* Parts of the divider's registers. *)
LEMMA DividerBits ==
  /\ Bits \in Nat /\ 2 * Bits + 1 \in Nat /\ Bits + 1 \in Nat /\ Bits - 1 \in Nat
  /\ Bits <= Bits + 1 /\ Bits <= 2 * Bits + 1
BY BitsIs

LEMMA PartsType ==
  ASSUME NEW PA \in Vectors(2 * Bits + 1)
  PROVE  /\ A_(PA) \in Word /\ A_(PA) = SubSeq(PA, 1, Bits)
         /\ P_(PA) \in Vectors(Bits + 1) /\ P_(PA) = SubSeq(PA, Bits + 1, 2 * Bits + 1)
         /\ Slice(PA, Bits - 1, 2 * Bits - 1) \in Vectors(Bits + 1)
         /\ Slice(PA, 0, Bits - 2) \in Vectors(Bits - 1)
<1>1. PICK N : N = 2 * Bits + 1
  OBVIOUS
<1>2. /\ N \in Nat
      /\ 0 \in 0 .. N /\ Bits - 1 \in 0 - 1 .. N - 1 /\ (Bits - 1) - 0 + 1 = Bits
      /\ Bits \in 0 .. N /\ 2 * Bits \in Bits - 1 .. N - 1 /\ 2 * Bits - Bits + 1 = Bits + 1
      /\ Bits - 1 \in 0 .. N /\ 2 * Bits - 1 \in (Bits - 1) - 1 .. N - 1
      /\ (2 * Bits - 1) - (Bits - 1) + 1 = Bits + 1
      /\ Bits - 2 \in 0 - 1 .. N - 1 /\ (Bits - 2) - 0 + 1 = Bits - 1
      /\ 0 + 1 = 1 /\ (Bits - 1) + 1 = Bits /\ 2 * Bits + 1 = N
  BY <1>1, BitsIs
<1>3. PA \in Vectors(N)
  BY <1>1
<1>4. Slice(PA, 0, Bits - 1) \in Vectors((Bits - 1) - 0 + 1) /\ Slice(PA, 0, Bits - 1) = SubSeq(PA, 0 + 1, (Bits - 1) + 1)
  BY ONLY <1>2, <1>3, SliceIs
<1>5. Slice(PA, Bits, 2 * Bits) \in Vectors(2 * Bits - Bits + 1) /\ Slice(PA, Bits, 2 * Bits) = SubSeq(PA, Bits + 1, 2 * Bits + 1)
  BY ONLY <1>2, <1>3, SliceIs
<1>6. Slice(PA, Bits - 1, 2 * Bits - 1) \in Vectors((2 * Bits - 1) - (Bits - 1) + 1)
  BY ONLY <1>2, <1>3, SliceIs
<1>7. Slice(PA, 0, Bits - 2) \in Vectors((Bits - 2) - 0 + 1)
  BY ONLY <1>2, <1>3, SliceIs
<1> QED BY <1>2, <1>4, <1>5, <1>6, <1>7, WordIs DEF A_, P_

\* The next remainder, and the register it is put into.
NextP(PA, B) ==
  IF Top(PA) = 1 THEN Add(Slice(PA, Bits - 1, 2 * Bits - 1), ZeroExtend(B, Bits + 1), 0)
  ELSE Add(Slice(PA, Bits - 1, 2 * Bits - 1), Not(ZeroExtend(B, Bits + 1)), 1)

LEMMA NextPAType ==
  ASSUME NEW PA \in Vectors(2 * Bits + 1), NEW B \in Word
  PROVE  /\ NextP(PA, B) \in Vectors(Bits + 1)
         /\ 1 - Top(NextP(PA, B)) \in {0, 1}
         /\ NextPA(PA, B) = <<1 - Top(NextP(PA, B))>> \o Slice(PA, 0, Bits - 2) \o NextP(PA, B)
         /\ <<1 - Top(NextP(PA, B))>> \o Slice(PA, 0, Bits - 2) \in Word
         /\ NextPA(PA, B) \in Vectors(2 * Bits + 1)
<1>1. PICK x, y, z, h : x = Slice(PA, Bits - 1, 2 * Bits - 1) /\ y = ZeroExtend(B, Bits + 1) /\ z = Not(y) /\ h = Bits + 1
  OBVIOUS
<1>2. h \in Nat /\ Bits \in Nat /\ Bits <= h
  BY <1>1, BitsIs
<1>3. x \in Vectors(h)
  BY <1>1, PartsType
<1>4. B \in Vectors(Bits)
  BY WordIs
<1>5. y \in Vectors(h)
  BY <1>1, <1>2, <1>4, NumberZeroExtend
<1>6. z \in Vectors(h)
  BY <1>1, <1>2, <1>5, NotIs
<1>7. Add(x, y, 0) \in Vectors(h) /\ Add(x, z, 1) \in Vectors(h)
  BY <1>2, <1>3, <1>5, <1>6, AddIs
<1>8. NextP(PA, B) = IF Top(PA) = 1 THEN Add(x, y, 0) ELSE Add(x, z, 1)
  BY <1>1 DEF NextP
<1>9. PICK p : p = NextP(PA, B)
  OBVIOUS
<1>10. p \in Vectors(h)
  BY <1>7, <1>8, <1>9
<1>11. Top(p) \in {0, 1} /\ 1 - Top(p) \in {0, 1}
  <2>1. p \in Vectors(Bits + 1) /\ Bits \in Nat
    BY <1>1, <1>2, <1>10
  <2>2. Top(p) \in {0, 1}
    BY <2>1, SignedIs
  <2> QED BY <2>2
<1>12. NextPA(PA, B) = <<1 - Top(p)>> \o Slice(PA, 0, Bits - 2) \o p
  BY <1>9 DEF NextPA, NextP
<1>13. PICK q, l : q = <<1 - Top(p)>> /\ l = Slice(PA, 0, Bits - 2)
  OBVIOUS
<1>14. q \in Vectors(1) /\ l \in Vectors(Bits - 1)
  BY <1>11, <1>13, OneIs, PartsType
<1>15. Bits - 1 \in Nat /\ 1 + (Bits - 1) = Bits /\ Bits + h = 2 * Bits + 1
  BY <1>1, BitsIs
<1>16. q \o l \in Vectors(Bits)
  <2>1. q \o l \in Vectors(1 + (Bits - 1))
    BY <1>14, <1>15, ConcatIs
  <2> QED BY <1>15, <2>1
<1>17. (q \o l) \o p \in Vectors(Bits + h)
  BY <1>2, <1>10, <1>16, ConcatIs
<1> QED BY <1>1, <1>9, <1>10, <1>11, <1>12, <1>13, <1>15, <1>16, <1>17, WordIs

LEMMA DividerLoadKeeps ==
  ASSUME TypeInv, DecodedInv, DividerLoad
  PROVE  TypeInv' /\ DecodedInv'
<1>1. PICK lzc : lzc = LeadingZeroCount(divider.op_a)
  OBVIOUS
<1>2. divider \in Dividers /\ divider.op_a \in Word /\ divider.op_b \in Word
  BY DEF TypeInv, Dividers
<1>3. lzc \in 0 .. Bits
  BY <1>1, <1>2, BitsIs, WordIs, LeadingZeroCountIs
<1>4. ShiftLeft(divider.op_a, lzc) \in Vectors(Bits)
  BY <1>2, <1>3, BitsIs, WordIs, ShiftLeftIs
<1>5. PICK PA : PA = ZeroExtend(ShiftLeft(divider.op_a, lzc), 2 * Bits + 1)
  OBVIOUS
<1>6. PA \in Vectors(2 * Bits + 1)
  BY <1>4, <1>5, DividerBits, NumberZeroExtend
<1>7. /\ divider' = [divider EXCEPT !.PA = PA, !.B = divider.op_b, !.i = lzc]
      /\ stage = "load" /\ stage' = "divide"
      /\ UNCHANGED <<task, entry, addends, lanes, dout, access>>
  BY <1>1, <1>5 DEF DividerLoad
<1>8. divider' \in Dividers
  BY <1>2, <1>3, <1>6, <1>7 DEF Dividers
<1> QED BY <1>7, <1>8 DEF TypeInv, DecodedInv, MemoryTypeOK, Stages

LEMMA DividerStepKeeps ==
  ASSUME TypeInv, DecodedInv, DividerStep
  PROVE  TypeInv' /\ DecodedInv'
<1>1. divider \in Dividers /\ divider.PA \in Vectors(2 * Bits + 1) /\ divider.B \in Word
      /\ divider.i \in 0 .. Bits /\ divider.i # Bits
  BY DEF TypeInv, Dividers, DividerStep
<1>2. PICK PA, i : PA = NextPA(divider.PA, divider.B) /\ i = (divider.i + 1) % (2 * Bits)
  OBVIOUS
<1>3. PA \in Vectors(2 * Bits + 1)
  BY <1>1, <1>2, NextPAType
<1>4. i \in 0 .. Bits
  <2>1. PICK N : N = 2 * Bits /\ N \in Nat /\ N > Bits
    BY BitsIs
  <2>2. divider.i + 1 \in 0 .. Bits /\ divider.i + 1 < N /\ divider.i + 1 >= 0
    BY <1>1, <2>1, BitsIs
  <2>3. (divider.i + 1) % N = divider.i + 1
    <3>1. PICK k : k = divider.i + 1 /\ k \in Nat /\ k < N
      BY <2>2
    <3>2. Divided(k, N, 0, k)
      BY <2>1, <3>1 DEF Divided
    <3>3. k % N = k
      BY <3>2, DivModUnique
    <3> QED BY <3>1, <3>3
  <2> QED BY <1>2, <2>1, <2>2, <2>3
<1>5. /\ divider' = [divider EXCEPT !.PA = PA, !.i = i]
      /\ stage = "divide"
      /\ UNCHANGED <<stage, task, entry, addends, lanes, dout, access>>
  BY <1>2 DEF DividerStep
<1>6. divider' \in Dividers
  BY <1>1, <1>3, <1>4, <1>5 DEF Dividers
<1> QED BY <1>5, <1>6 DEF TypeInv, DecodedInv, MemoryTypeOK

LEMMA NegType == ASSUME NEW x \in Word PROVE Neg(x) \in Word
BY BitsIs, WordIs, NegIs

LEMMA DividerFinishKeeps ==
  ASSUME TypeInv, DecodedInv, DividerFinish
  PROVE  TypeInv' /\ DecodedInv'
<1>1. divider \in Dividers /\ divider.PA \in Vectors(2 * Bits + 1) /\ divider.B \in Word
  BY DEF TypeInv, Dividers
<1>2. PICK raw, quotient, low : raw = P_(divider.PA) /\ quotient = A_(divider.PA) /\ low = Slice(raw, 0, Bits - 1)
  OBVIOUS
<1>3. quotient \in Word /\ raw \in Vectors(Bits + 1)
  BY <1>1, <1>2, PartsType
<1>4. low \in Word
  <2>1. PICK h : h = Bits + 1 /\ h \in Nat /\ 0 \in 0 .. h /\ Bits - 1 \in 0 - 1 .. h - 1 /\ (Bits - 1) - 0 + 1 = Bits
    BY BitsIs
  <2>2. raw \in Vectors(h)
    BY <1>3, <2>1
  <2>3. Slice(raw, 0, Bits - 1) \in Vectors((Bits - 1) - 0 + 1)
    BY ONLY <2>1, <2>2, SliceIs
  <2> QED BY <1>2, <2>1, <2>3, WordIs
<1>5. PICK remainder : remainder = IF Top(raw) = 1 THEN Add(low, divider.B, 0) ELSE low
  OBVIOUS
<1>6. remainder \in Word
  <2>1. Add(low, divider.B, 0) \in Word
    BY <1>1, <1>4, BitsIs, WordIs, AddIs
  <2> QED BY <1>4, <1>5, <2>1
<1>7. Neg(quotient) \in Word /\ Neg(remainder) \in Word
  BY <1>3, <1>6, NegType
<1>8. PICK result :
        result = IF entry.args.alu_op \in DivOps
                   THEN IF divider.quotient_sign THEN Neg(quotient) ELSE quotient
                   ELSE IF divider.remainder_sign THEN Neg(remainder) ELSE remainder
  OBVIOUS
<1>9. result \in Word
  BY <1>3, <1>6, <1>7, <1>8
<1>10. /\ UpdateRegister(result) /\ stage = "divide" /\ divider' = NoDivision
       /\ UNCHANGED <<task, addends, lanes, dout, access>>
  BY <1>2, <1>5, <1>8 DEF DividerFinish
<1>11. entry' \in Entries /\ stage' \in Stages /\ DecodedInv'
  BY <1>9, <1>10, UpdateKeeps
<1> QED BY <1>10, <1>11, NoDivisionType DEF TypeInv, MemoryTypeOK

-----------------------------------------------------------------------------
LEMMA LsuKeeps ==
  ASSUME TypeInv, DecodedInv, LsuStore \/ LsuLoad
  PROVE  TypeInv' /\ DecodedInv'
<1>1. task \in Tasks /\ entry.rs1 \in 0 .. 31 /\ entry.rs2 \in 0 .. 31 /\ entry.imm \in Vectors(32)
      /\ entry.args \in Arguments /\ MemoryTypeOK
  BY DEF TypeInv, Entries
<1>2. FullAddress \in 0 .. AddressNumber - 1
  BY <1>1, FullAddressType
<1>3. stage = "lsu" /\ UNCHANGED <<task, entry, addends, divider>>
  BY DEF LsuStore, LsuLoad
<1>4. CASE LsuStore
  <2>1. BytesOf(Register(entry.rs2)) \in FullWords
    BY <1>1, RegisterType, BytesOfType
  <2>2. StoreAccess(entry.args.mem_op, FullAddress, BytesOf(Register(entry.rs2))) /\ stage' = "idle"
    BY <1>4 DEF LsuStore
  <2>3. MemoryTypeOK'
    BY <1>1, <1>2, <2>1, <2>2, StoreKeepsTypes
  <2> QED BY <1>3, <2>2, <2>3 DEF TypeInv, DecodedInv, Stages
<1>5. CASE LsuLoad
  <2>1. LoadAccess(entry.args.mem_op, FullAddress) /\ stage' = "write_back"
    BY <1>5 DEF LsuLoad
  <2>2. entry.args.mem_op \in Loads
    BY <1>1 DEF Arguments
  <2>3. MemoryTypeOK'
    BY <1>1, <1>2, <2>1, <2>2, LoadKeepsTypes
  <2> QED BY <1>3, <2>1, <2>3 DEF TypeInv, DecodedInv, Stages
<1> QED BY <1>4, <1>5

LEMMA WriteBackKeeps ==
  ASSUME TypeInv, DecodedInv, WriteBack
  PROVE  TypeInv' /\ DecodedInv'
<1>1. PICK v : v = Vector(WrittenBack[0], Bits \div 4) \o Vector(WrittenBack[1], Bits \div 4)
                     \o Vector(WrittenBack[2], Bits \div 4) \o Vector(WrittenBack[3], Bits \div 4)
  OBVIOUS
<1>2. v \in Word
  BY <1>1, WriteBackWord DEF TypeInv
<1>3. /\ UpdateRegister(v) /\ stage = "write_back" /\ dout' = NothingRead /\ access' = NoAccess
      /\ UNCHANGED <<task, addends, divider, lanes>>
  BY <1>1 DEF WriteBack
<1>4. entry' \in Entries /\ stage' \in Stages /\ DecodedInv'
  BY <1>2, <1>3, UpdateKeeps
<1>5. MemoryTypeOK'
  <2>1. dout' \in FullWords
    BY <1>3, ZeroIsByte DEF NothingRead, FullWords
  <2>2. access' \in [op : Loads, offset : 0 .. 3]
    BY <1>3 DEF NoAccess, Loads
  <2> QED BY <1>3, <2>1, <2>2 DEF TypeInv, MemoryTypeOK
<1> QED BY <1>3, <1>4, <1>5 DEF TypeInv

LEMMA RetireKeeps ==
  ASSUME TypeInv, DecodedInv, Retire
  PROVE  TypeInv' /\ DecodedInv'
<1>1. /\ stage = "retire" /\ stage' = (IF entry.args.is_store THEN "lsu" ELSE "idle")
      /\ UNCHANGED <<task, entry, addends, divider, lanes, dout, access>>
  BY DEF Retire
<1>2. stage' \in Stages
  BY <1>1 DEF Stages
<1> QED BY <1>1, <1>2 DEF TypeInv, DecodedInv, MemoryTypeOK

-----------------------------------------------------------------------------
(* The numbers of the divider. *)
Rest(p, d) == IF p < 0 THEN p + d ELSE p

\* D has been divided by d as far as its upper bits go: T is 2^i, Q the rest of the word.
Dividing(D, d, Q, T, a, p) ==
  /\ D \div Q = (a % T) * d + Rest(p, d)
  /\ Rest(p, d) \in 0 .. d - 1
  /\ D % Q = a \div T

\* The same with l the quotient so far and e the bits to come.
DividedSoFar(D, d, Q, T, a, p, l, e) ==
  /\ D \in Nat /\ d \in Nat /\ Q \in Nat /\ T \in Nat /\ p \in Int
  /\ l \in 0 .. T - 1 /\ e \in 0 .. Q - 1
  /\ a = e * T + l
  /\ Rest(p, d) \in 0 .. d - 1
  /\ D = (l * d + Rest(p, d)) * Q + e

LEMMA SoFarFrom ==
  ASSUME NEW D \in Nat, NEW d \in Nat, NEW Q \in Nat, NEW T \in Nat, NEW a \in Nat, NEW p \in Int,
         Q > 0, T > 0, Dividing(D, d, Q, T, a, p)
  PROVE  \E l, e : DividedSoFar(D, d, Q, T, a, p, l, e)
<1>1. PICK l, e, r : l = a % T /\ e = a \div T /\ r = Rest(p, d)
  OBVIOUS
<1>2. e \in Int /\ l \in 0 .. T - 1 /\ a = e * T + l
  BY <1>1, DivMod
<1>3. D \div Q \in Int /\ D % Q \in 0 .. Q - 1 /\ D = (D \div Q) * Q + (D % Q)
  BY DivMod
<1>4. D \div Q = l * d + r /\ r \in 0 .. d - 1 /\ D % Q = e
  BY <1>1 DEF Dividing
<1>5. e \in 0 .. Q - 1 /\ D = (l * d + r) * Q + e
  BY <1>3, <1>4
<1> QED BY <1>1, <1>2, <1>4, <1>5 DEF DividedSoFar

LEMMA SoFarTo ==
  ASSUME NEW D, NEW d, NEW Q, NEW T, NEW a, NEW p, NEW l, NEW e, DividedSoFar(D, d, Q, T, a, p, l, e)
  PROVE  Dividing(D, d, Q, T, a, p)
<1>1. PICK r : r = Rest(p, d)
  OBVIOUS
<1>2. /\ D \in Nat /\ d \in Nat /\ Q \in Nat /\ T \in Nat /\ l \in 0 .. T - 1 /\ e \in 0 .. Q - 1
      /\ a = e * T + l /\ r \in 0 .. d - 1 /\ D = (l * d + r) * Q + e
  BY <1>1 DEF DividedSoFar
<1>3. Divided(a, T, e, l)
  BY <1>2 DEF Divided
<1>4. PICK u : u = l * d + r /\ u \in Int
  <2>1. l \in Int /\ r \in Int /\ d \in Int
    BY <1>2
  <2>2. l * d + r \in Int
    BY <2>1
  <2> QED BY <2>2
<1>5. Divided(D, Q, u, e)
  BY <1>2, <1>4 DEF Divided
<1>6. a \div T = e /\ a % T = l /\ D \div Q = u /\ D % Q = e
  BY <1>3, <1>5, DivModUnique
<1> QED BY <1>1, <1>2, <1>4, <1>6 DEF Dividing

\* What a step does: c is the next bit of the dividend, f the other bits of A below it.
StepOf(D, d, Q, H, T, a, p, c, f) ==
  /\ H \in Nat /\ Q = 2 * H /\ H > 0 /\ T > 0
  /\ c \in {0, 1} /\ f \in 0 .. T * H - 1
  /\ a = f + (T * H) * c
  /\ d > 0

LEMMA NextBitOf ==
  ASSUME NEW D, NEW d, NEW Q, NEW H, NEW T, NEW a, NEW p, NEW l, NEW e, NEW c, NEW f,
         DividedSoFar(D, d, Q, T, a, p, l, e), StepOf(D, d, Q, H, T, a, p, c, f)
  PROVE  \E m \in 0 .. H - 1 : f = m * T + l /\ e = c * H + m
<1>1. /\ T \in Nat /\ T > 0 /\ H \in Nat /\ H > 0 /\ c \in {0, 1} /\ f \in Nat /\ f < T * H
      /\ a = f + (T * H) * c /\ a = e * T + l /\ l \in 0 .. T - 1 /\ e \in Int
  <2>1. T * H \in Int
    BY DEF DividedSoFar, StepOf
  <2> QED BY <2>1 DEF DividedSoFar, StepOf
<1>2. PICK m, k : m = f \div T /\ k = f % T /\ m \in Int /\ k \in 0 .. T - 1 /\ f = m * T + k
  <2>1. f \in Int /\ T \in Nat /\ T > 0
    BY <1>1
  <2>2. f \div T \in Int /\ f % T \in 0 .. T - 1 /\ f = (f \div T) * T + (f % T)
    BY ONLY <2>1, DivMod
  <2> QED BY <2>2
<1>3. m >= 0
  <2> SUFFICES ASSUME m < 0 PROVE FALSE
    BY <1>2
  <2>1. m * T + T <= 0 * T
    BY <1>1, <1>2, MultiplesDiffer
  <2>2. PICK x : x = m * T /\ x \in Int /\ x + T <= 0
    BY <1>1, <1>2, <2>1
  <2> QED BY <1>1, <1>2, <2>2
<1>4. m < H
  <2> SUFFICES ASSUME ~ (m < H) PROVE FALSE
    OBVIOUS
  <2>1. H * T <= m * T
    <3>1. CASE m = H
      <4>1. m * T \in Int
        BY <1>1, <1>2
      <4> QED BY <3>1, <4>1
    <3>2. CASE H < m
      <4>1. H * T + T <= m * T
        BY <1>1, <1>2, <3>2, MultiplesDiffer
      <4>2. H * T \in Int /\ m * T \in Int
        BY <1>1, <1>2
      <4> QED BY <1>1, <4>1, <4>2
    <3> QED BY <1>1, <1>2, <3>1, <3>2
  <2>2. PICK x, y : x = m * T /\ y = H * T /\ x \in Int /\ y \in Int
    BY <1>1, <1>2
  <2>3. T * H = y
    BY <1>1, <2>2
  <2> QED BY <1>1, <1>2, <2>1, <2>2, <2>3
<1>5. a = (c * H + m) * T + k
  <2>1. (T * H) * c = c * H * T /\ (c * H + m) * T = c * H * T + m * T
    BY <1>1, <1>2
  <2>2. c * H * T \in Int /\ m * T \in Int
    BY <1>1, <1>2
  <2> QED BY <1>1, <1>2, <2>1, <2>2
<1>6. PICK g : g = c * H + m /\ g \in Int
  <2>1. c * H + m \in Int
    BY <1>1, <1>2
  <2> QED BY <2>1
<1>7. Divided(a, T, g, k) /\ Divided(a, T, e, l)
  BY <1>1, <1>2, <1>5, <1>6 DEF Divided
<1>8. g = e /\ k = l
  BY <1>7, DivModUnique
<1> QED BY <1>1, <1>2, <1>3, <1>4, <1>6, <1>8

LEMMA StepDivides ==
  ASSUME NEW D, NEW d, NEW Q, NEW H, NEW T, NEW a, NEW p, NEW l, NEW e, NEW c, NEW f,
         DividedSoFar(D, d, Q, T, a, p, l, e), StepOf(D, d, Q, H, T, a, p, c, f),
         NEW v, v = IF p < 0 THEN 2 * p + c + d ELSE 2 * p + c - d,
         NEW q, q = IF v < 0 THEN 0 ELSE 1
  PROVE  /\ v \in Int /\ -d <= v /\ v < d
         /\ \E g, m : DividedSoFar(D, d, H, 2 * T, q + 2 * f, v, g, m)
<1>1. PICK m \in 0 .. H - 1 : f = m * T + l /\ e = c * H + m
  BY NextBitOf
<1>2. PICK r : r = Rest(p, d)
  OBVIOUS
<1>3. /\ D \in Nat /\ d \in Nat /\ d > 0 /\ T \in Nat /\ T > 0 /\ H \in Nat /\ H > 0 /\ p \in Int
      /\ l \in 0 .. T - 1 /\ c \in {0, 1} /\ r \in 0 .. d - 1 /\ Q = 2 * H
      /\ D = (l * d + r) * Q + e
  BY <1>2 DEF DividedSoFar, StepOf
<1>4. v = 2 * r + c - d
  BY <1>2, <1>3 DEF Rest
<1>5. v \in Int /\ -d <= v /\ v < d
  BY <1>3, <1>4
<1>6. PICK s : s = Rest(v, d)
  OBVIOUS
<1>7. q \in {0, 1} /\ s \in 0 .. d - 1 /\ 2 * r + c = q * d + s
  BY <1>3, <1>4, <1>5, <1>6 DEF Rest
<1>8. PICK g, U : g = q + 2 * l /\ U = 2 * T
  OBVIOUS
<1>9. g \in 0 .. U - 1 /\ U \in Nat
  BY <1>3, <1>7, <1>8
<1>10. q + 2 * f = m * U + g
  <2>1. m * (2 * T) = 2 * (m * T) /\ m * T \in Int
    BY <1>3
  <2> QED BY <1>1, <1>3, <1>7, <1>8, <2>1
<1>11. D = (g * d + s) * H + m
  <2>1. l \in Int /\ d \in Int /\ r \in Int /\ H \in Int /\ c \in Int /\ m \in Int /\ q \in Int /\ s \in Int
    BY <1>3, <1>7
  <2>2. D = (l * d + r) * (2 * H) + (c * H + m)
    BY <1>1, <1>3
  <2>3. (l * d + r) * (2 * H) + (c * H + m) = (2 * (l * d) + (2 * r + c)) * H + m
    BY ONLY <2>1
  <2>4. g * d = 2 * (l * d) + q * d
    <3>1. (q + 2 * l) * d = 2 * (l * d) + q * d
      BY ONLY <2>1
    <3> QED BY <1>8, <3>1
  <2>5. PICK x, y : x = l * d /\ y = q * d /\ x \in Int /\ y \in Int
    BY <2>1
  <2>6. g * d + s = 2 * (l * d) + (2 * r + c)
    BY <1>7, <2>1, <2>4, <2>5
  <2> QED BY <2>2, <2>3, <2>6
<1>12. DividedSoFar(D, d, H, U, q + 2 * f, v, g, m)
  BY <1>3, <1>5, <1>6, <1>7, <1>9, <1>10, <1>11 DEF DividedSoFar
<1> QED BY <1>5, <1>8, <1>12

LEMMA BitsPowers ==
  /\ 2^Bits \in Nat /\ 2^Bits > 0 /\ 2^(Bits - 1) \in Nat /\ 2^(Bits - 1) > 0
  /\ 2^Bits = 2 * 2^(Bits - 1) /\ 2^(Bits + 1) = 2 * 2^Bits
<1>1. PICK n : n = Bits - 1 /\ n \in Nat /\ n + 1 = Bits /\ Bits \in Nat
  BY BitsIs
<1> QED BY <1>1, PowerPositive, PowerStep

\* The parts of PA: f below the top bit c of A, and the remainder P with its sign t.
PAIs(PA, a, p, c, f, t, shifted) ==
  /\ a = Number(A_(PA)) /\ p = Signed(P_(PA)) /\ p \in Int
  /\ c \in {0, 1} /\ t \in {0, 1} /\ t = Top(PA)
  /\ f = Number(Slice(PA, 0, Bits - 2)) /\ f \in 0 .. 2^(Bits - 1) - 1
  /\ a = f + 2^(Bits - 1) * c
  /\ t = (IF p < 0 THEN 1 ELSE 0)
  /\ shifted = Number(Slice(PA, Bits - 1, 2 * Bits - 1))
  /\ shifted = c + 2 * p + t * (2 * 2^Bits)

LEMMA PAParts ==
  ASSUME NEW PA \in Vectors(2 * Bits + 1)
  PROVE  \E a, p, c, f, t, shifted : PAIs(PA, a, p, c, f, t, shifted)
<1>1. PICK N, h : N = 2 * Bits + 1 /\ h = Bits - 1
  OBVIOUS
<1>2. /\ N \in Nat /\ h \in Nat /\ Bits \in Nat /\ Bits + 1 \in Nat
      /\ 0 \in 0 .. N /\ h \in 0 .. N /\ Bits \in 0 .. N /\ 2 * Bits \in 0 .. N
      /\ h + 1 = Bits /\ h + Bits <= N
  BY <1>1, BitsIs
<1>3. PA \in Vectors(N)
  BY <1>1
<1>4. PICK a, p, c, f, t, s, u :
        /\ a = Number(A_(PA)) /\ p = Signed(P_(PA)) /\ c = PA[Bits] /\ t = Top(PA)
        /\ f = Number(Slice(PA, 0, Bits - 2)) /\ s = Number(Slice(PA, Bits - 1, 2 * Bits - 1))
        /\ u = Part(PA, Bits, Bits)
  OBVIOUS
<1>5. a = Part(PA, 0, h + 1) /\ f = Part(PA, 0, h) /\ s = Part(PA, h, 1 + Bits) /\ Number(P_(PA)) = Part(PA, Bits, Bits + 1)
  <2>1. A_(PA) = SubSeq(PA, 0 + 1, 0 + (h + 1))
    <3>1. 0 + 1 = 1 /\ 0 + (h + 1) = Bits
      BY <1>2
    <3> QED BY <3>1, PartsType
  <2>2. P_(PA) = SubSeq(PA, Bits + 1, Bits + (Bits + 1))
    <3>1. Bits + (Bits + 1) = 2 * Bits + 1
      BY <1>2
    <3> QED BY <3>1, PartsType
  <2>3. Slice(PA, 0, Bits - 2) = SubSeq(PA, 0 + 1, 0 + h)
    <3>1. (Bits - 2) + 1 = 0 + h
      BY <1>1, <1>2
    <3> QED BY <3>1 DEF Slice
  <2>4. Slice(PA, Bits - 1, 2 * Bits - 1) = SubSeq(PA, h + 1, h + (1 + Bits))
    <3>1. (2 * Bits - 1) + 1 = h + (1 + Bits) /\ (Bits - 1) + 1 = h + 1
      BY <1>1, <1>2
    <3> QED BY <3>1 DEF Slice
  <2> QED BY <1>4, <2>1, <2>2, <2>3, <2>4 DEF Part
<1>6. Part(PA, h, 1) = c /\ c \in {0, 1}
  <2>1. h \in 0 .. N - 1
    BY <1>1, <1>2
  <2>2. PA[h + 1] \in {0, 1} /\ Part(PA, h, 1) = PA[h + 1]
    BY <1>2, <1>3, <2>1, PartOne
  <2> QED BY <1>2, <1>4, <2>2
<1>7. Part(PA, 2 * Bits, 1) = t /\ t \in {0, 1}
  <2>1. PICK i : i = 2 * Bits /\ i \in 0 .. N - 1 /\ i + 1 = N
    BY <1>1, <1>2
  <2>2. PA[i + 1] \in {0, 1} /\ Part(PA, i, 1) = PA[i + 1]
    BY <1>2, <1>3, <2>1, PartOne
  <2>3. Top(PA) = PA[N]
    <3>1. Len(PA) = N
      BY <1>2, <1>3, VectorIs
    <3> QED BY <3>1 DEF Top
  <2> QED BY <1>4, <2>1, <2>2, <2>3
<1>8. u \in Nat
  <2>1. Bits \in 0 .. N - Bits
    BY <1>1, <1>2
  <2> QED BY <1>2, <1>3, <1>4, <2>1, PartType
<1>9. a = f + 2^h * c
  <2>1. 0 + h + 1 <= N /\ 0 + h = h /\ 1 \in Nat
    BY <1>2
  <2>2. Part(PA, 0, h + 1) = Part(PA, 0, h) + 2^h * Part(PA, 0 + h, 1)
    BY ONLY <1>2, <1>3, <2>1, PartsJoin
  <2> QED BY <1>5, <1>6, <2>1, <2>2
<1>10. s = c + 2 * u
  <2>1. PICK one : one = 1
    OBVIOUS
  <2>2. h + one + Bits <= N /\ one \in Nat /\ h + one = Bits
    BY <1>1, <1>2, <2>1
  <2>3. Part(PA, h, one + Bits) = Part(PA, h, one) + 2^one * Part(PA, h + one, Bits)
    BY ONLY <1>2, <1>3, <2>2, PartsJoin
  <2>4. Part(PA, h, 1 + Bits) = Part(PA, h, 1) + 2 * Part(PA, Bits, Bits)
    BY <2>1, <2>2, <2>3, PowerOfOne
  <2> QED BY <1>4, <1>5, <1>6, <2>4
<1>11. Number(P_(PA)) = u + 2^Bits * t
  <2>1. Bits + Bits + 1 <= N /\ 1 \in Nat /\ Bits + Bits = 2 * Bits
    BY <1>1, <1>2
  <2>2. Part(PA, Bits, Bits + 1) = Part(PA, Bits, Bits) + 2^Bits * Part(PA, Bits + Bits, 1)
    BY ONLY <1>2, <1>3, <2>1, PartsJoin
  <2> QED BY <1>4, <1>5, <1>7, <2>1, <2>2
<1>12. f \in 0 .. 2^h - 1
  <2>1. Slice(PA, 0, Bits - 2) \in Vectors(h)
    BY <1>1, PartsType
  <2> QED BY <1>2, <1>4, <2>1, NumberBound
<1>13. PICK M, T : M = 2^Bits /\ T = Top(P_(PA)) /\ M \in Nat /\ M > 0
  BY BitsPowers
<1>14. /\ T \in {0, 1} /\ p = Number(P_(PA)) - T * (2 * M) /\ p \in Int /\ -M <= p /\ p < M
       /\ (T = 1 <=> Number(P_(PA)) >= M)
  <2>1. P_(PA) \in Vectors(Bits + 1)
    BY PartsType
  <2> QED BY <1>2, <1>4, <1>13, <2>1, SignedIs
<1>15. T = t
  <2>1. PICK x : x = P_(PA) /\ x \in Vectors(Bits + 1) /\ x = SubSeq(PA, Bits + 1, 2 * Bits + 1)
    BY PartsType
  <2>2. T = x[Bits + 1]
    BY <1>2, <1>13, <2>1, SignedIs
  <2>3. 2 * Bits \in Bits - 1 .. N - 1 /\ 2 * Bits - Bits + 1 = Bits + 1 /\ Bits + 1 \in 1 .. Bits + 1
        /\ Bits + (Bits + 1) = N
    BY <1>1, <1>2
  <2>4. \A k \in 1 .. 2 * Bits - Bits + 1 : Slice(PA, Bits, 2 * Bits)[k] = PA[Bits + k]
    BY ONLY <1>2, <1>3, <2>3, SliceIs
  <2>5. x[Bits + 1] = PA[Bits + (Bits + 1)]
    BY <2>1, <2>3, <2>4 DEF P_
  <2>6. Len(PA) = N
    BY <1>2, <1>3, VectorIs
  <2> QED BY <1>4, <2>2, <2>3, <2>5, <2>6 DEF Top
<1>16. p = u - t * M /\ t = (IF p < 0 THEN 1 ELSE 0)
  <2>1. CASE t = 0
    BY <1>8, <1>11, <1>13, <1>14, <1>15, <2>1
  <2>2. CASE t = 1
    <3>1. 2^Bits * t = M /\ T * (2 * M) = 2 * M /\ t * M = M
      BY <1>13, <1>15, <2>2
    <3>2. PICK x : x = Number(P_(PA)) /\ x = u + M /\ p = x - 2 * M
      BY <1>11, <1>14, <3>1
    <3>3. p = u - M /\ p < 0
      <4>1. x >= M /\ p < M /\ -M <= p
        BY <1>14, <1>15, <2>2, <3>2
      <4>2. p = u - M
        BY <1>8, <1>13, <3>2
      <4>3. u < M
        <5>1. Bits \in 0 .. N - Bits
          BY <1>1, <1>2
        <5>2. SubSeq(PA, Bits + 1, Bits + Bits) \in Vectors(Bits)
          BY <1>2, <1>3, <5>1, PartType
        <5> QED BY <1>2, <1>4, <1>13, <5>2, NumberBound DEF Part
      <4> QED BY <1>8, <1>13, <4>2, <4>3
    <3> QED BY <2>2, <3>1, <3>3
  <2> QED BY <1>7, <2>1, <2>2
<1>17. s = c + 2 * p + t * (2 * M)
  <2>1. CASE t = 0
    BY <1>6, <1>8, <1>10, <1>13, <1>16, <2>1
  <2>2. CASE t = 1
    <3>1. t * (2 * M) = 2 * M /\ t * M = M
      BY <1>13, <2>2
    <3> QED BY <1>6, <1>8, <1>10, <1>13, <1>16, <2>2, <3>1
  <2> QED BY <1>7, <2>1, <2>2
<1>18. PAIs(PA, a, p, c, f, t, s)
  BY <1>1, <1>4, <1>6, <1>7, <1>9, <1>12, <1>13, <1>14, <1>16, <1>17 DEF PAIs
<1> QED BY <1>18

\* What the next remainder has to be: 2p + c, plus or minus the divisor.
Stepped(p, c, d) == IF p < 0 THEN 2 * p + c + d ELSE 2 * p + c - d

LEMMA NextPIs ==
  ASSUME NEW PA \in Vectors(2 * Bits + 1), NEW B \in Word,
         NEW a, NEW p, NEW c, NEW f, NEW t, NEW s, PAIs(PA, a, p, c, f, t, s),
         NEW d, d = Number(B), d > 0, NEW v, v = Stepped(p, c, d), -d <= v, v < d
  PROVE  Signed(NextP(PA, B)) = v
<1>1. PICK x, y, z, h, M :
        x = Slice(PA, Bits - 1, 2 * Bits - 1) /\ y = ZeroExtend(B, Bits + 1) /\ z = Not(y)
        /\ h = Bits + 1 /\ M = 2^Bits
  OBVIOUS
<1>2. h \in Nat /\ Bits \in Nat /\ Bits <= h /\ M \in Nat /\ M > 0 /\ 2^h = 2 * M
  BY <1>1, BitsIs, BitsPowers
<1>3. x \in Vectors(h) /\ Number(x) = s
  BY <1>1, PartsType DEF PAIs
<1>4. B \in Vectors(Bits) /\ d \in Nat /\ d < M
  BY <1>1, WordIs, NumberOfWord
<1>5. y \in Vectors(h) /\ Number(y) = d
  BY <1>1, <1>2, <1>4, NumberZeroExtend
<1>6. z \in Vectors(h) /\ Number(z) = 2 * M - 1 - d
  BY <1>1, <1>2, <1>5, NotIs, NumberNot
<1>7. /\ p \in Int /\ c \in {0, 1} /\ t \in {0, 1} /\ t = Top(PA) /\ t = (IF p < 0 THEN 1 ELSE 0)
      /\ s = c + 2 * p + t * (2 * M)
  BY <1>1 DEF PAIs
<1>8. v \in Int
  BY <1>4, <1>7 DEF Stepped
<1>9. PICK w : w = NextP(PA, B) /\ w \in Vectors(h)
  BY <1>1, NextPAType
<1>10. PICK u : u = v + 2 * M /\ Number(w) = u % (2 * M)
  <2>1. CASE t = 1
    <3>1. w = Add(x, y, 0)
      BY <1>1, <1>7, <1>9, <2>1 DEF NextP
    <3>2. Number(w) = (Number(x) + Number(y) + 0) % 2^h
      BY <1>2, <1>3, <1>5, <3>1, AddIs
    <3>3. t * (2 * M) = 2 * M
      BY <1>2, <2>1
    <3>4. Number(x) + Number(y) + 0 = v + 2 * M
      <4>1. s + d + 0 = v + 2 * M
        BY <1>2, <1>4, <1>7, <2>1, <3>3 DEF Stepped
      <4> QED BY <1>3, <1>5, <4>1
    <3> QED BY <1>2, <3>2, <3>4
  <2>2. CASE t = 0
    <3>1. w = Add(x, z, 1)
      <4>1. Top(PA) # 1
        BY <1>7, <2>2
      <4>2. NextP(PA, B) = Add(Slice(PA, Bits - 1, 2 * Bits - 1), Not(ZeroExtend(B, Bits + 1)), 1)
        BY <4>1 DEF NextP
      <4> QED BY <1>1, <1>9, <4>2
    <3>2. Number(w) = (Number(x) + Number(z) + 1) % 2^h
      BY <1>2, <1>3, <1>6, <3>1, AddIs
    <3>3. t * (2 * M) = 0
      BY <1>2, <2>2
    <3>4. Number(x) + Number(z) + 1 = v + 2 * M
      <4>1. s + (2 * M - 1 - d) + 1 = v + 2 * M
        BY <1>2, <1>4, <1>7, <2>2, <3>3 DEF Stepped
      <4> QED BY <1>3, <1>6, <4>1
    <3> QED BY <1>2, <3>2, <3>4
  <2> QED BY <1>7, <2>1, <2>2
<1>11. PICK m : m = 2 * M /\ m \in Nat /\ m > 0 /\ m \in Int
  BY <1>2
<1>12. u % m = v % m
  <2>1. u \in Int /\ u = v + 1 * m /\ 1 \in Int
    BY <1>2, <1>8, <1>10, <1>11
  <2>2. Congruent(u, v, m)
    BY ONLY <1>8, <1>11, <2>1, CongruentBy
  <2> QED BY <1>11, <2>2, CongruentModEqual
<1>13. Number(w) = v % (2 * 2^Bits)
  BY <1>1, <1>10, <1>11, <1>12
<1>14. -(2^Bits) <= v /\ v < 2^Bits
  BY <1>1, <1>2, <1>4, <1>8
<1>15. Signed(w) = v
  <2>1. w \in Vectors(Bits + 1)
    BY <1>1, <1>9
  <2> QED BY ONLY <1>2, <1>8, <1>13, <1>14, <2>1, SignedUnique
<1> QED BY <1>9, <1>15

LEMMA NextPAParts ==
  ASSUME NEW PA \in Vectors(2 * Bits + 1), NEW B \in Word, NEW f, f = Number(Slice(PA, 0, Bits - 2)),
         NEW q, q = IF Signed(NextP(PA, B)) < 0 THEN 0 ELSE 1
  PROVE  /\ Number(A_(NextPA(PA, B))) = q + 2 * f
         /\ P_(NextPA(PA, B)) = NextP(PA, B)
<1>1. PICK w, l, z : w = NextP(PA, B) /\ l = Slice(PA, 0, Bits - 2) /\ z = NextPA(PA, B)
  OBVIOUS
<1>2. /\ w \in Vectors(Bits + 1) /\ 1 - Top(w) \in {0, 1} /\ z = <<1 - Top(w)>> \o l \o w
      /\ <<1 - Top(w)>> \o l \in Word /\ z \in Vectors(2 * Bits + 1)
  BY <1>1, NextPAType
<1>3. l \in Vectors(Bits - 1) /\ Bits - 1 \in Nat
  BY <1>1, DividerBits, PartsType
<1>4. q = 1 - Top(w)
  <2>1. PICK k, n, T : k = Number(w) /\ n = 2^Bits /\ T = Top(w)
    OBVIOUS
  <2>2. Bits \in Nat /\ n \in Nat /\ n > 0
    BY <2>1, DividerBits, BitsPowers
  <2>3. T \in {0, 1} /\ (T = 1 <=> k >= n) /\ Signed(w) = k - T * (2 * n) /\ Signed(w) \in Int
        /\ -n <= Signed(w) /\ Signed(w) < n
    BY <1>2, <2>1, <2>2, SignedIs
  <2>4. k \in Nat
    BY <1>2, DividerBits, <2>1, NumberBound
  <2>5. k < 2 * n
    BY <1>2, DividerBits, <2>1, NumberBound, BitsPowers
  <2>6. CASE T = 1
    <3>1. T * (2 * n) = 2 * n
      BY <2>2, <2>6
    <3>2. Signed(w) < 0
      BY <2>2, <2>3, <2>4, <2>5, <3>1
    <3> QED BY <1>1, <2>1, <2>6, <3>2
  <2>7. CASE T = 0
    <3>1. T * (2 * n) = 0
      BY <2>2, <2>7
    <3>2. ~(Signed(w) < 0)
      BY <2>3, <2>4, <3>1
    <3> QED BY <1>1, <2>1, <2>7, <3>2
  <2> QED BY <2>3, <2>6, <2>7
<1>5. PICK y : y = <<1 - Top(w)>> \o l
  OBVIOUS
<1>6. y \in Vectors(Bits) /\ z = y \o w
  BY <1>2, <1>5, WordIs
<1>7. Number(y) = q + 2 * f
  BY <1>1, <1>2, <1>3, <1>4, <1>5, NumberCons
<1>8. SubSeq(y \o w, 1, Bits) = y /\ SubSeq(y \o w, Bits + 1, Bits + (Bits + 1)) = w
  <2>1. Bits \in Nat /\ Bits + 1 \in Nat
    BY DividerBits
  <2>2. w \in Vectors(Bits + 1) /\ y \in Vectors(Bits)
    BY <1>2, <1>6
  <2> QED BY ONLY <2>1, <2>2, PartsOfJoined
<1>9. Bits + (Bits + 1) = 2 * Bits + 1
  BY BitsIs
<1>10. A_(z) = y /\ P_(z) = w
  BY <1>2, <1>6, <1>8, <1>9, PartsType
<1> QED BY <1>1, <1>7, <1>10

\* The quotient in A and the remainder in P, for the divider's registers r.
DivisionOf(r) ==
  Dividing(Number(r.op_a), Number(r.B), 2^(Bits - r.i), 2^r.i, Number(A_(r.PA)), Signed(P_(r.PA)))

DivisionInv ==
  /\ stage = "load" => Number(divider.op_b) > 0
  /\ stage = "divide" => Number(divider.B) > 0 /\ DivisionOf(divider)

LEMMA StartsDivision ==
  ASSUME NEW x \in Word, NEW B \in Word, Number(B) > 0, NEW r,
         r.op_a = x, r.B = B, r.i = LeadingZeroCount(x),
         r.PA = ZeroExtend(ShiftLeft(x, LeadingZeroCount(x)), 2 * Bits + 1)
  PROVE  DivisionOf(r)
<1>1. PICK k, y, PA, N, n :
        /\ k = LeadingZeroCount(x) /\ y = ShiftLeft(x, k) /\ PA = ZeroExtend(y, 2 * Bits + 1)
        /\ N = 2 * Bits + 1 /\ n = Bits
  OBVIOUS
<1>2. n \in Nat /\ N \in Nat /\ n <= N /\ x \in Vectors(n)
  BY <1>1, BitsIs, WordIs
<1>3. k \in 0 .. n /\ \A i \in 0 .. k - 1 : x[n - i] = 0
  BY <1>1, <1>2, LeadingZeroCountIs
<1>4. Number(SubSeq(x, 1, n - k)) = Number(x)
  BY <1>2, <1>3, NumberTopZeros
<1>5. y \in Vectors(n) /\ Number(y) = 2^k * Number(SubSeq(x, 1, n - k))
  BY <1>1, <1>2, <1>3, ShiftLeftIs
<1>6. PA \in Vectors(N) /\ Number(PA) = Number(y)
  BY <1>1, <1>2, <1>5, NumberZeroExtend
<1>7. PICK D, T, Q, M, z : D = Number(x) /\ T = 2^k /\ Q = 2^(n - k) /\ M = 2^n /\ z = Number(y)
  OBVIOUS
<1>8. k \in Nat /\ n - k \in Nat /\ k + (n - k) = n
  BY <1>2, <1>3
<1>9. T \in Nat /\ T > 0 /\ Q \in Nat /\ Q > 0 /\ M \in Nat /\ M > 0 /\ M = T * Q
  BY <1>2, <1>7, <1>8, PowerPositive, PowerAdds
<1>10. z \in Nat /\ z < M /\ D \in Nat /\ z = T * D
  BY <1>2, <1>4, <1>5, <1>7, NumberBound
<1>11. D < Q
  <2>1. SubSeq(x, 1, n - k) \in Vectors(n - k)
    BY <1>2, <1>8, ConcatParts
  <2> QED BY <1>4, <1>7, <1>8, <2>1, NumberBound
<1>12. Divided(z, M, 0, z) /\ Divided(z, T, D, 0) /\ Divided(D, Q, 0, D)
  <2>1. 0 * M = 0 /\ 0 * Q = 0 /\ T * D = D * T /\ D * T \in Int
    BY <1>9, <1>10
  <2> QED BY <1>9, <1>10, <1>11, <2>1 DEF Divided
<1>13. z \div M = 0 /\ z % M = z /\ z \div T = D /\ z % T = 0 /\ D \div Q = 0 /\ D % Q = D
  BY <1>12, DivModUnique
<1>14. A_(PA) = SubSeq(PA, 1, n) /\ P_(PA) = SubSeq(PA, n + 1, N) /\ P_(PA) \in Vectors(n + 1)
  BY <1>1, <1>6, PartsType
<1>15. Number(A_(PA)) = z /\ Number(P_(PA)) = 0
  <2>1. n \in 0 .. N
    BY <1>2
  <2>2. Number(SubSeq(PA, 1, n)) = Number(PA) % 2^n /\ Number(SubSeq(PA, n + 1, N)) = Number(PA) \div 2^n
    BY <1>2, <1>6, <2>1, NumberParts
  <2> QED BY <1>6, <1>7, <1>13, <1>14, <2>2
<1>16. Signed(P_(PA)) = 0
  <2>1. 0 \in Int /\ -(2^n) <= 0 /\ 0 < 2^n
    BY <1>7, <1>9
  <2>2. 0 % (2 * 2^n) = 0
    <3>1. PICK m : m = 2 * 2^n /\ m \in Nat /\ m > 0
      BY <1>7, <1>9
    <3>2. Divided(0, m, 0, 0)
      BY <3>1 DEF Divided
    <3> QED BY <3>1, <3>2, DivModUnique
  <2> QED BY <1>2, <1>14, <1>15, <2>1, <2>2, SignedUnique
<1>17. Number(B) \in Nat
  BY NumberOfWord
<1>18. PICK d : d = Number(B) /\ d \in Nat /\ d > 0
  BY <1>17
<1>19. Dividing(D, d, Q, T, z, 0)
  <2>1. Rest(0, d) = 0 /\ 0 * d = 0
    BY <1>18 DEF Rest
  <2> QED BY <1>13, <1>18, <2>1 DEF Dividing
<1> QED BY <1>1, <1>7, <1>15, <1>16, <1>18, <1>19 DEF DivisionOf

LEMMA KeepsDivision ==
  ASSUME NEW r, r.op_a \in Word, r.B \in Word, Number(r.B) > 0, r.PA \in Vectors(2 * Bits + 1),
         r.i \in 0 .. Bits - 1, DivisionOf(r),
         NEW s, s.op_a = r.op_a, s.B = r.B, s.i = r.i + 1, s.PA = NextPA(r.PA, r.B)
  PROVE  DivisionOf(s)
<1>1. PICK D, d, n, i, j, PA, B :
        /\ D = Number(r.op_a) /\ d = Number(r.B) /\ n = Bits /\ i = r.i /\ j = i + 1
        /\ PA = r.PA /\ B = r.B
  OBVIOUS
<1>2. D \in Nat /\ d \in Nat /\ d > 0 /\ n \in Nat /\ i \in Nat /\ j \in Nat /\ n - i \in Nat /\ n - j \in Nat
      /\ PA \in Vectors(2 * Bits + 1) /\ B \in Word /\ (n - j) + 1 = n - i /\ i + (n - j) = n - 1 /\ n - 1 \in Nat
  BY <1>1, BitsIs, NumberOfWord
<1>3. PICK T, Q, H : T = 2^i /\ Q = 2^(n - i) /\ H = 2^(n - j)
  OBVIOUS
<1>4. /\ T \in Nat /\ T > 0 /\ Q \in Nat /\ Q > 0 /\ H \in Nat /\ H > 0 /\ 2^j = 2 * T /\ Q = 2 * H
      /\ 2^(n - 1) = T * H
  <2>1. T \in Nat /\ T > 0 /\ Q \in Nat /\ Q > 0 /\ H \in Nat /\ H > 0
    BY <1>2, <1>3, PowerPositive
  <2>2. 2^(i + 1) = 2 * 2^i /\ 2^((n - j) + 1) = 2 * 2^(n - j)
    BY <1>2, PowerStep
  <2>3. 2^(i + (n - j)) = 2^i * 2^(n - j)
    BY <1>2, PowerAdds
  <2>4. 2^j = 2 * T
    BY <1>1, <1>3, <2>2
  <2>5. Q = 2 * H
    BY <1>2, <1>3, <2>2
  <2>6. 2^(n - 1) = T * H
    BY <1>2, <1>3, <2>3
  <2> QED BY <2>1, <2>4, <2>5, <2>6
<1>5. PICK a, p, c, f, t, x : PAIs(PA, a, p, c, f, t, x)
  BY <1>2, PAParts
<1>6. /\ a = Number(A_(PA)) /\ p = Signed(P_(PA)) /\ p \in Int
      /\ c \in {0, 1} /\ f = Number(Slice(PA, 0, Bits - 2)) /\ f \in 0 .. 2^(n - 1) - 1
      /\ a = f + 2^(n - 1) * c
  BY <1>1, <1>5 DEF PAIs
<1>7. a \in Nat
  BY <1>2, <1>6, NumberOfWord, PartsType
<1>8. Dividing(D, d, Q, T, a, p)
  BY <1>1, <1>3, <1>6 DEF DivisionOf
<1>9. PICK l, e : DividedSoFar(D, d, Q, T, a, p, l, e)
  BY <1>2, <1>4, <1>6, <1>7, <1>8, SoFarFrom
<1>10. StepOf(D, d, Q, H, T, a, p, c, f)
  BY <1>2, <1>4, <1>6 DEF StepOf
<1>11. PICK v : v = Stepped(p, c, d)
  OBVIOUS
<1>12. PICK q : q = IF v < 0 THEN 0 ELSE 1
  OBVIOUS
<1>13. /\ v \in Int /\ -d <= v /\ v < d
       /\ \E g, m : DividedSoFar(D, d, H, 2 * T, q + 2 * f, v, g, m)
  <2>1. v = IF p < 0 THEN 2 * p + c + d ELSE 2 * p + c - d
    BY <1>11 DEF Stepped
  <2> QED BY ONLY <1>9, <1>10, <1>12, <2>1, StepDivides
<1>14. Dividing(D, d, H, 2 * T, q + 2 * f, v)
  BY <1>13, SoFarTo
<1>15. Signed(NextP(PA, B)) = v
  BY <1>1, <1>2, <1>5, <1>11, <1>13, NextPIs
<1>16. Number(A_(NextPA(PA, B))) = q + 2 * f /\ P_(NextPA(PA, B)) = NextP(PA, B)
  BY <1>2, <1>6, <1>12, <1>15, NextPAParts
<1>17. s.PA = NextPA(PA, B) /\ s.i = j /\ Number(s.op_a) = D /\ Number(s.B) = d
  BY <1>1
<1> QED BY <1>1, <1>3, <1>4, <1>14, <1>15, <1>16, <1>17 DEF DivisionOf

LEMMA AbsolutePositive ==
  ASSUME NEW x \in Word, NEW s \in BOOLEAN, x # Zero
  PROVE  Number(Absolute(x, s)) > 0
<1>1. PICK n : n = Bits /\ n \in Nat /\ x \in Vectors(n) /\ Zero \in Vectors(n)
  BY BitsIs, WordIs, WordConstants
<1>2. Number(Zero) = 0
  BY <1>1, NumberZeros DEF Zero
<1>3. Number(x) \in Nat /\ Number(x) < 2^n /\ Number(x) # 0
  BY <1>1, <1>2, NumberBound, NumberInjective
<1>4. Number(Neg(x)) = 2^n - Number(x)
  BY <1>1, <1>3, NegIs
<1>5. 2^n \in Nat
  BY <1>1, PowerPositive
<1> QED BY <1>3, <1>4, <1>5 DEF Absolute

LEMMA DivideStarts ==
  ASSUME TypeInv, stage = "multiply_alu", Divide
  PROVE  DivisionInv'
<1>1. task \in Tasks /\ entry.rs1 \in 0 .. 31 /\ entry.rs2 \in 0 .. 31 /\ divider \in Dividers
  BY DEF TypeInv, Entries
<1>2. PICK op, a, b, signed :
        /\ op = entry.args.alu_op /\ a = Register(entry.rs1) /\ b = Register(entry.rs2)
        /\ signed = (op \in {"DIV", "REM"})
  OBVIOUS
<1>3. a \in Word /\ b \in Word /\ signed \in BOOLEAN
  BY <1>1, <1>2, RegisterType
<1>4. \/ stage' = "retire"
      \/ /\ b # Zero
         /\ divider' = [divider EXCEPT
              !.op_a = Absolute(a, signed), !.op_b = Absolute(b, signed),
              !.quotient_sign = signed /\ Top(a) # Top(b),
              !.remainder_sign = signed /\ Top(a) = 1]
         /\ stage' = "load"
  BY <1>2 DEF Divide, UpdateRegister
<1>5. CASE stage' = "retire"
  BY <1>5 DEF DivisionInv
<1>6. CASE /\ b # Zero
           /\ divider' = [divider EXCEPT
                !.op_a = Absolute(a, signed), !.op_b = Absolute(b, signed),
                !.quotient_sign = signed /\ Top(a) # Top(b),
                !.remainder_sign = signed /\ Top(a) = 1]
           /\ stage' = "load"
  <2>1. divider'.op_b = Absolute(b, signed)
    BY <1>1, <1>6 DEF Dividers
  <2>2. Number(Absolute(b, signed)) > 0
    BY <1>3, <1>6, AbsolutePositive
  <2> QED BY <1>6, <2>1, <2>2 DEF DivisionInv
<1> QED BY <1>4, <1>5, <1>6

LEMMA LoadDivides ==
  ASSUME TypeInv, DivisionInv, DividerLoad
  PROVE  DivisionInv'
<1>1. PICK lzc, PA : lzc = LeadingZeroCount(divider.op_a)
                     /\ PA = ZeroExtend(ShiftLeft(divider.op_a, lzc), 2 * Bits + 1)
  OBVIOUS
<1>2. divider \in Dividers /\ divider.op_a \in Word /\ divider.op_b \in Word
  BY DEF TypeInv, Dividers
<1>3. /\ divider' = [divider EXCEPT !.PA = PA, !.B = divider.op_b, !.i = lzc]
      /\ stage = "load" /\ stage' = "divide"
  BY <1>1 DEF DividerLoad
<1>4. Number(divider.op_b) > 0
  BY <1>3 DEF DivisionInv
<1>5. PICK r : r = divider'
  OBVIOUS
<1>6. r.op_a = divider.op_a /\ r.B = divider.op_b /\ r.i = lzc /\ r.PA = PA
  BY <1>2, <1>3, <1>5 DEF Dividers
<1>7. DivisionOf(r)
  BY <1>1, <1>2, <1>4, <1>6, StartsDivision
<1>8. Number(divider'.B) > 0 /\ DivisionOf(divider')
  BY <1>4, <1>5, <1>6, <1>7
<1> QED BY <1>3, <1>8 DEF DivisionInv, DivisionOf

LEMMA StepDividesOn ==
  ASSUME TypeInv, DivisionInv, DividerStep
  PROVE  DivisionInv'
<1>1. divider \in Dividers /\ divider.op_a \in Word /\ divider.PA \in Vectors(2 * Bits + 1) /\ divider.B \in Word
      /\ divider.i \in 0 .. Bits /\ divider.i # Bits
  BY DEF TypeInv, Dividers, DividerStep
<1>2. PICK r, s : r = divider /\ s = divider'
  OBVIOUS
<1>3. stage = "divide" /\ stage' = "divide"
      /\ divider' = [divider EXCEPT !.PA = NextPA(divider.PA, divider.B), !.i = (@ + 1) % (2 * Bits)]
  BY DEF DividerStep
<1>4. Number(r.B) > 0 /\ DivisionOf(r)
  BY <1>2, <1>3 DEF DivisionInv
<1>5. r.i \in 0 .. Bits - 1
  BY <1>1, <1>2, BitsIs
<1>6. (r.i + 1) % (2 * Bits) = r.i + 1
  <2>1. PICK k, N : k = r.i + 1 /\ N = 2 * Bits /\ k \in Nat /\ N \in Nat /\ k < N
    BY <1>5, BitsIs
  <2>2. Divided(k, N, 0, k)
    BY <2>1 DEF Divided
  <2> QED BY <2>1, <2>2, DivModUnique
<1>7. s.op_a = r.op_a /\ s.B = r.B /\ s.i = r.i + 1 /\ s.PA = NextPA(r.PA, r.B)
  BY <1>1, <1>2, <1>3, <1>6 DEF Dividers
<1>8. DivisionOf(s)
  <2>1. r.op_a \in Word /\ r.B \in Word /\ r.PA \in Vectors(2 * Bits + 1)
    BY <1>1, <1>2
  <2> QED BY <1>4, <1>5, <1>7, <2>1, KeepsDivision
<1>9. Number(divider'.B) > 0 /\ DivisionOf(divider')
  BY <1>2, <1>4, <1>7, <1>8
<1> QED BY <1>3, <1>9 DEF DivisionInv, DivisionOf

-----------------------------------------------------------------------------
LEMMA MultiplyStarts ==
  ASSUME TypeInv, stage = "multiply_alu", Multiply, task' = task
  PROVE  ProductInv'
<1>1. task \in Tasks /\ entry.rs1 \in 0 .. 31 /\ entry.rs2 \in 0 .. 31
  BY DEF TypeInv, Entries
<1>2. PICK s1, s2, a, b :
        /\ s1 = (entry.args.alu_op \in {"MULH", "MULSU"}) /\ s2 = (entry.args.alu_op = "MULH")
        /\ a = Extended(Register(entry.rs1), s1) /\ b = Extended(Register(entry.rs2), s2)
  OBVIOUS
<1>3. s1 \in BOOLEAN /\ s2 \in BOOLEAN
  BY <1>2
<1>4. a \in Vectors(Bits + 1) /\ b \in Vectors(Bits + 1) /\ Signed(b) > -(2^Bits)
  BY <1>1, <1>2, <1>3, RegisterType, ExtendedIs
<1>5. Bits \in Nat /\ Bits % 2 = 0 /\ Bits > 0
  BY BitsIs
<1>6. Radix4PartialProducts(a, b) \in Sums(2 * Bits + 2, Signed(a) * Signed(b))
  BY <1>4, <1>5, ProductsSum
<1>7. /\ addends' = Radix4PartialProducts(a, b) /\ stage' = "reduce" /\ UNCHANGED entry
      /\ entry.args.alu_op \in MulOps
  BY <1>2 DEF Multiply
<1>8. Product = Signed(a) * Signed(b)
  BY <1>2 DEF Product
<1>9. Product' = Product
  BY <1>7 DEF Product, Register
<1> QED BY <1>6, <1>7, <1>8, <1>9 DEF ProductInv

LEMMA ReduceKeepsProduct ==
  ASSUME TypeInv, ProductInv, MultiplyReduceLevel
  PROVE  ProductInv'
<1>1. stage = "reduce" /\ addends' = WallaceTree(addends) /\ stage' = "sum" /\ UNCHANGED <<task, entry>>
  BY DEF MultiplyReduceLevel
<1>2. PICK d, m : d = 2 * Bits + 1 /\ m = 2 * Bits + 2
  OBVIOUS
<1>3. d \in Nat /\ m = d + 1
  BY <1>2, BitsIs
<1>4. addends \in Sums(m, Product) /\ entry.args.alu_op \in MulOps
  BY <1>1, <1>2 DEF ProductInv
<1>5. addends' \in Sums(m, Product) /\ Len(addends') = 2
  BY <1>1, <1>3, <1>4, WallaceTreeSums
<1>6. Product' = Product
  BY <1>1 DEF Product, Register
<1> QED BY <1>1, <1>2, <1>4, <1>5, <1>6 DEF ProductInv

-----------------------------------------------------------------------------
(* The product, as the ISA names it. *)
MulName(op) == CASE op = "MUL" -> "mul" [] op = "MULH" -> "mulh" [] op = "MULSU" -> "mulhsu" [] OTHER -> "mulhu"

LEMMA OnlyRegisterWords ==
  ASSUME NEW t, Encodable(t), Opcode(Encode(t)) = 51
  PROVE  t.name \in DOMAIN RegisterCodes
<1>1. FormatOf(Opcode(Encode(t))) = "none"
  BY FormatsOfOpcodes
<1>2. t.name \in Names
  BY DEF Encodable
<1>3. ASSUME NEW format, NEW bits, Decodes(t, Encode(t), format, bits) PROVE format = "none"
  BY <1>1, <1>3 DEF Decodes
<1>4. t.name \notin DOMAIN ShiftCodes
  BY <1>3, ShiftWord
<1>5. t.name \notin ImmediateNames
  BY <1>3, ImmediateWord
<1>6. t.name \notin DOMAIN StoreCodes
  BY <1>3, StoreWord
<1>7. t.name \notin DOMAIN BranchCodes
  BY <1>3, BranchWord
<1>8. t.name \notin DOMAIN UpperCodes
  BY <1>3, UpperWord
<1>9. t.name # "jal"
  BY <1>3, JumpWord
<1> QED BY <1>2, <1>4, <1>5, <1>6, <1>7, <1>8, <1>9, NameClasses

LEMMA MulNames ==
  ASSUME NEW name \in DOMAIN RegisterCodes, NEW op \in MulOps,
         RegisterCodes[name][1] = MulCode(op), RegisterCodes[name][2] = 1
  PROVE  name = MulName(op)
<1>1. op \in {"MUL", "MULH", "MULSU", "MULU"}
  BY DEF MulOps
<1>2. MulCode(op) \in 0 .. 3 /\ (MulCode(op) = 0 => op = "MUL") /\ (MulCode(op) = 1 => op = "MULH")
      /\ (MulCode(op) = 2 => op = "MULSU") /\ (MulCode(op) = 3 => op = "MULU")
  BY <1>1 DEF MulCode
<1>3. \A n \in DOMAIN RegisterCodes : RegisterCodes[n][2] = 1 =>
        \/ n = "mul" /\ RegisterCodes[n][1] = 0
        \/ n = "mulh" /\ RegisterCodes[n][1] = 1
        \/ n = "mulhsu" /\ RegisterCodes[n][1] = 2
        \/ n = "mulhu" /\ RegisterCodes[n][1] = 3
        \/ RegisterCodes[n][1] > 3
  BY SMT DEF RegisterCodes
<1>4. \/ name = "mul" /\ op = "MUL"
      \/ name = "mulh" /\ op = "MULH"
      \/ name = "mulhsu" /\ op = "MULSU"
      \/ name = "mulhu" /\ op = "MULU"
  BY <1>2, <1>3
<1> QED BY <1>4 DEF MulName

\* A register with the sign an operation gives it.
LEMMA FactorIs ==
  ASSUME task \in Tasks, NEW r \in 0 .. 31, NEW signed \in BOOLEAN
  PROVE  /\ Signed(Extended(Register(r), signed)) \in Int
         /\ Signed(Extended(Register(r), signed))
              = IF signed THEN I!AsSigned(I!RegisterOf(task, r)) ELSE I!RegisterOf(task, r)
<1>1. PICK v : v = I!RegisterOf(task, r)
  OBVIOUS
<1>2. Register(r) \in Word
  BY RegisterType
<1>3. v \in 0 .. 2^Bits - 1 /\ Number(Register(r)) = v
  <2>1. CASE r = 0
    <3>1. v = 0
      BY <1>1, <2>1 DEF I!RegisterOf
    <3>2. Register(r) = Repeated(0, Bits)
      BY <2>1 DEF Register, Zero
    <3> QED BY <3>1, <3>2, BitsIs, BitsPowers, NumberZeros
  <2>2. CASE r # 0
    <3>1. v = task.registers[r]
      BY <1>1, <2>2 DEF I!RegisterOf
    <3>2. Register(r) = Vector(v, Bits) /\ v \in 0 .. 2^Bits - 1
      BY <2>2, <3>1, RegisterType
    <3> QED BY <3>2, BitsIs, SmallVector
  <2> QED BY <2>1, <2>2
<1>4. PICK n, x, T, p : n + 1 = Bits /\ n \in Nat /\ x = Register(r) /\ T = Top(x) /\ p = 2^n /\ p \in Nat /\ 2^Bits = 2 * p
  <2>1. (Bits - 1) + 1 = Bits /\ Bits - 1 \in Nat
    BY BitsIs
  <2> QED BY <2>1, BitsPowers
<1>5. Signed(x) = I!AsSigned(v)
  <2>1. x \in Vectors(n + 1)
    BY <1>2, <1>4, WordIs
  <2>2. T \in {0, 1} /\ (T = 1 <=> v >= p) /\ Signed(x) = v - T * (2 * p)
    BY <1>3, <1>4, <2>1, SignedIs
  <2>3. CASE T = 1
    <3>1. T * (2 * p) = 2 * p
      BY <1>4, <2>3
    <3>2. 2 * v >= 2 * p /\ Signed(x) = v - 2 * p
      BY <1>3, <1>4, <2>2, <2>3, <3>1
    <3> QED BY <1>4, <3>2 DEF I!AsSigned, I!Values
  <2>4. CASE T = 0
    <3>1. T * (2 * p) = 0
      BY <1>4, <2>4
    <3>2. ~(2 * v >= 2 * p) /\ Signed(x) = v
      BY <1>3, <1>4, <2>2, <2>4, <3>1
    <3> QED BY <1>4, <3>2 DEF I!AsSigned, I!Values
  <2> QED BY <2>2, <2>3, <2>4
<1> QED BY <1>1, <1>2, <1>3, <1>4, <1>5, ExtendedIs

LEMMA ProductOfTask ==
  ASSUME TypeInv, DecodedInv, stage # "idle", entry.args.alu_op \in MulOps
  PROVE  Product = FactorOf(task.name, I!Source1(task), {"mulh", "mulhsu"})
                     * FactorOf(task.name, I!Source2(task), {"mulh"})
<1>1. task \in Tasks /\ entry.args \in Selected(Encode(task)) /\ Encodable(task)
      /\ entry.rs1 = Number(Slice(Encode(task), 15, 19)) /\ entry.rs2 = Number(Slice(Encode(task), 20, 24))
  BY TaskWord DEF TypeInv, DecodedInv
<1>2. PICK t, w, op : t = task /\ w = Encode(t) /\ op = entry.args.alu_op /\ op \in MulOps
  OBVIOUS
<1>3. Opcode(w) = 51 /\ Funct3(w) = MulCode(op) /\ Funct7(w) = 1
  BY <1>1, <1>2 DEF Selected
<1>4. t.name \in DOMAIN RegisterCodes
  BY <1>1, <1>2, <1>3, OnlyRegisterWords
<1>5. HasCodes(w, 51, RegisterCodes[t.name][1], t.rs1) /\ entry.rs2 = t.rs2 /\ Funct7(w) = RegisterCodes[t.name][2]
  BY <1>1, <1>2, <1>4, RegisterWord
<1>6. entry.rs1 = t.rs1 /\ t.rs1 \in 0 .. 31 /\ t.rs2 \in 0 .. 31
  BY <1>1, <1>2, <1>5 DEF HasCodes, Encodable
<1>7. t.name = MulName(op)
  <2>1. RegisterCodes[t.name][1] = MulCode(op) /\ RegisterCodes[t.name][2] = 1
    BY <1>3, <1>5 DEF HasCodes
  <2> QED BY <1>2, <1>4, <2>1, MulNames
<1>8. PICK s1 \in BOOLEAN, s2 \in BOOLEAN : s1 = (op \in {"MULH", "MULSU"}) /\ s2 = (op = "MULH")
  <2>1. (op \in {"MULH", "MULSU"}) \in BOOLEAN /\ (op = "MULH") \in BOOLEAN
    OBVIOUS
  <2> QED BY <2>1, Zenon
<1>9. (s1 <=> t.name \in {"mulh", "mulhsu"}) /\ (s2 <=> t.name \in {"mulh"})
  BY <1>2, <1>7, <1>8 DEF MulName, MulOps
<1>10. /\ Signed(Extended(Register(t.rs1), s1))
            = IF s1 THEN I!AsSigned(I!RegisterOf(task, t.rs1)) ELSE I!RegisterOf(task, t.rs1)
       /\ Signed(Extended(Register(t.rs2), s2))
            = IF s2 THEN I!AsSigned(I!RegisterOf(task, t.rs2)) ELSE I!RegisterOf(task, t.rs2)
  BY <1>1, <1>6, <1>8, FactorIs
<1>11. /\ Signed(Extended(Register(t.rs1), s1)) = FactorOf(t.name, I!Source1(task), {"mulh", "mulhsu"})
       /\ Signed(Extended(Register(t.rs2), s2)) = FactorOf(t.name, I!Source2(task), {"mulh"})
  BY <1>2, <1>9, <1>10 DEF FactorOf, I!Source1, I!Source2
<1>12. Product = Signed(Extended(Register(t.rs1), s1)) * Signed(Extended(Register(t.rs2), s2))
  BY <1>2, <1>5, <1>6, <1>8 DEF Product
<1> QED BY <1>2, <1>11, <1>12

IInv == TypeInv /\ DecodedInv /\ ProductInv /\ DivisionInv

LEMMA InitInvariant == Init => IInv
<1> SUFFICES ASSUME Init PROVE IInv
  OBVIOUS
<1>1. stage = "idle"
  BY DEF Init
<1> QED BY <1>1, InitTypeInv DEF IInv, ProductInv, DivisionInv

\* An action that leaves the multiplier and the divider alone.
LEMMA ElsewhereKeeps ==
  ASSUME stage' \in {"idle", "alu", "multiply_alu", "lsu", "write_back", "retire"}
  PROVE  ProductInv' /\ DivisionInv'
BY DEF ProductInv, DivisionInv

LEMMA IssueInvariant ==
  ASSUME IInv, NEW t \in Tasks, Issue(t)
  PROVE  IInv'
<1>1. TypeInv' /\ DecodedInv'
  BY IssueKeeps DEF IInv
<1>2. stage' \in {"idle", "alu", "multiply_alu", "lsu", "write_back", "retire"}
  BY DEF Issue, UnitOf
<1> QED BY <1>1, <1>2, ElsewhereKeeps DEF IInv

LEMMA MultiplyInvariant ==
  ASSUME IInv, MultiplyAlu
  PROVE  IInv'
<1>1. stage = "multiply_alu" /\ task' = task
  BY DEF MultiplyAlu
<1>2. CASE Multiply
  <2>1. stage' = "reduce"
    BY <1>2 DEF Multiply
  <2>2. DivisionInv'
    BY <2>1 DEF DivisionInv
  <2> QED BY <1>1, <1>2, <2>2, MultiplyKeeps, MultiplyStarts DEF IInv
<1>3. CASE Divide
  <2>1. stage' \in {"retire", "load"}
    BY <1>3 DEF Divide, UpdateRegister
  <2>2. ProductInv'
    BY <2>1 DEF ProductInv
  <2> QED BY <1>1, <1>3, <2>2, DivideKeeps, DivideStarts DEF IInv
<1> QED BY <1>2, <1>3 DEF MultiplyAlu

LEMMA StepsInvariant ==
  ASSUME IInv, Steps
  PROVE  IInv'
<1>1. CASE Alu
  <2>1. stage' \in {"idle", "alu", "multiply_alu", "lsu", "write_back", "retire"}
    BY <1>1 DEF Alu
  <2> QED BY <1>1, <2>1, AluKeeps, ElsewhereKeeps DEF IInv
<1>2. CASE MultiplyAlu
  BY <1>2, MultiplyInvariant
<1>3. CASE MultiplyReduceLevel
  <2>1. stage' = "sum"
    BY <1>3 DEF MultiplyReduceLevel
  <2>2. DivisionInv'
    BY <2>1 DEF DivisionInv
  <2> QED BY <1>3, <2>2, ReduceKeeps, ReduceKeepsProduct DEF IInv
<1>4. CASE MultiplySumLevel
  <2>1. stage' \in {"idle", "alu", "multiply_alu", "lsu", "write_back", "retire"}
    BY <1>4 DEF MultiplySumLevel, UpdateRegister
  <2> QED BY <1>4, <2>1, SumKeeps, ElsewhereKeeps DEF IInv
<1>5. CASE DividerLoad
  <2>1. stage' = "divide"
    BY <1>5 DEF DividerLoad
  <2>2. ProductInv'
    BY <2>1 DEF ProductInv
  <2> QED BY <1>5, <2>2, DividerLoadKeeps, LoadDivides DEF IInv
<1>6. CASE DividerStep
  <2>1. stage' = "divide"
    BY <1>6 DEF DividerStep
  <2>2. ProductInv'
    BY <2>1 DEF ProductInv
  <2> QED BY <1>6, <2>2, DividerStepKeeps, StepDividesOn DEF IInv
<1>7. CASE DividerFinish
  <2>1. stage' \in {"idle", "alu", "multiply_alu", "lsu", "write_back", "retire"}
    BY <1>7 DEF DividerFinish, UpdateRegister
  <2> QED BY <1>7, <2>1, DividerFinishKeeps, ElsewhereKeeps DEF IInv
<1>8. CASE LsuStore \/ LsuLoad
  <2>1. stage' \in {"idle", "alu", "multiply_alu", "lsu", "write_back", "retire"}
    BY <1>8 DEF LsuStore, LsuLoad
  <2> QED BY <1>8, <2>1, LsuKeeps, ElsewhereKeeps DEF IInv
<1>9. CASE WriteBack
  <2>1. stage' \in {"idle", "alu", "multiply_alu", "lsu", "write_back", "retire"}
    BY <1>9 DEF WriteBack, UpdateRegister
  <2> QED BY <1>9, <2>1, WriteBackKeeps, ElsewhereKeeps DEF IInv
<1>10. CASE Retire
  <2>1. stage' \in {"idle", "alu", "multiply_alu", "lsu", "write_back", "retire"}
    BY <1>10 DEF Retire
  <2> QED BY <1>10, <2>1, RetireKeeps, ElsewhereKeeps DEF IInv
<1> QED BY <1>1, <1>2, <1>3, <1>4, <1>5, <1>6, <1>7, <1>8, <1>9, <1>10 DEF Steps

LEMMA StutterInvariant == IInv /\ UNCHANGED vars => IInv'
<1> SUFFICES ASSUME IInv, UNCHANGED vars PROVE IInv'
  OBVIOUS
<1>1. UNCHANGED <<stage, task, entry, addends, divider, lanes, dout, access>>
  BY DEF vars
<1>2. TypeInv' /\ DecodedInv'
  BY <1>1 DEF IInv, TypeInv, DecodedInv, MemoryTypeOK
<1>3. Product' = Product
  BY <1>1 DEF Product, Register
<1>4. ProductInv'
  BY <1>1, <1>3 DEF IInv, ProductInv
<1>5. DivisionInv'
  BY <1>1 DEF IInv, DivisionInv, DivisionOf
<1> QED BY <1>2, <1>4, <1>5 DEF IInv

LEMMA NextInvariant == IInv /\ [Next]_vars => IInv'
BY IssueInvariant, StepsInvariant, StutterInvariant DEF Next

LEMMA Invariant == Spec => []IInv
BY InitInvariant, NextInvariant, PTL DEF Spec

-----------------------------------------------------------------------------
LEMMA InvariantTypes == IInv => TypeOK
<1> SUFFICES ASSUME IInv PROVE TypeOK
  OBVIOUS
<1>1. TypeInv
  BY DEF IInv
<1>2. /\ entry.rd \in 0 .. 31 /\ entry.rs1 \in 0 .. 31 /\ entry.rs2 \in 0 .. 31
      /\ entry.imm \in Vectors(32) /\ entry.list_imm \in Word /\ entry.value \in Word \cup {<<>>}
  BY <1>1 DEF TypeInv, Entries
<1>3. divider.PA \in Vectors(2 * Bits + 1) /\ divider.B \in Word /\ divider.i \in 0 .. Bits
  BY <1>1 DEF TypeInv, Dividers
<1>4. \A k \in DOMAIN addends : addends[k] \in Vectors(2 * Bits + 2)
  <2>1. PICK S : S = Vectors(2 * Bits + 2)
    OBVIOUS
  <2>2. addends \in Seq(S)
    BY <1>1, <2>1 DEF TypeInv
  <2>3. \A k \in DOMAIN addends : addends[k] \in S
    BY <2>2
  <2> QED BY <2>1, <2>3
<1> QED BY <1>1, <1>2, <1>3, <1>4 DEF TypeInv, TypeOK, MemoryTypeOK, Stages

LEMMA InvariantDecodes == IInv => DecodesImmediate
<1> SUFFICES ASSUME IInv, stage # "idle", entry.args.imm # "none"
             PROVE  LET bits == IF task.name \in DOMAIN ShiftCodes THEN 5 ELSE 32
                    IN  SubSeq(entry.imm, 1, bits) = SubSeq(FullImmediate(task), 1, bits)
  BY DEF DecodesImmediate
<1>1. /\ task \in Tasks /\ entry.args \in Selected(Encode(task))
      /\ entry.imm = Immediate(entry.args.imm, Encode(task))
  BY DEF IInv, TypeInv, DecodedInv
<1>2. entry.args.imm = FormatOf(Opcode(Encode(task)))
  BY <1>1 DEF Selected
<1> QED BY <1>1, <1>2, TaskWord, WordDecodes

LEMMA InvariantSums == IInv => CarrySaveKeepsProduct
<1> SUFFICES ASSUME IInv, stage \in {"reduce", "sum"} PROVE CarrySaveKeepsProduct
  BY DEF CarrySaveKeepsProduct
<1>1. entry.args.alu_op \in MulOps /\ addends \in Sums(2 * Bits + 2, Product)
  BY DEF IInv, ProductInv
<1>2. PICK p : p = FactorOf(task.name, I!Source1(task), {"mulh", "mulhsu"})
                     * FactorOf(task.name, I!Source2(task), {"mulh"})
  OBVIOUS
<1>3. Product = p
  BY <1>1, <1>2, ProductOfTask DEF IInv
<1>4. PICK M : M = 2^(2 * Bits + 2) /\ M \in Nat /\ M > 0
  <2>1. 2 * Bits + 2 \in Nat
    BY BitsIs
  <2> QED BY <2>1, PowerPositive
<1>5. Congruent(Total(addends), p, M)
  BY <1>1, <1>3, <1>4 DEF Sums
<1>6. (Total(addends) - p) % M = 0
  BY <1>4, <1>5, CongruentDifference
<1> QED BY <1>2, <1>4, <1>6 DEF CarrySaveKeepsProduct

LEMMA InvariantDivides == IInv => DividerInvariant
<1> SUFFICES ASSUME IInv, stage = "divide" PROVE DividerInvariant
  BY DEF DividerInvariant
<1>1. DivisionOf(divider)
  BY DEF IInv, DivisionInv
<1> QED BY <1>1 DEF DivisionOf, Dividing, Rest, DividerInvariant

\* Whatever the width, an entry, the registers of the multiplier and the divider, and the memory
\* keep the widths the code gives them, from decoding to the store after commit.
THEOREM TypeCorrect == Spec => []TypeOK
BY Invariant, InvariantTypes, PTL

\* The immediate every instruction is decoded with is the one it was encoded with, for every
\* format, by instruction.py's slices.
THEOREM ImmediatesDecode == Spec => []DecodesImmediate
BY Invariant, InvariantDecodes, PTL

\* Booth's digits and the carry-save levels keep the product of the operands, signed or not.
THEOREM KeepsProduct == Spec => []CarrySaveKeepsProduct
BY Invariant, InvariantSums, PTL

\* The divider's registers hold the quotient and the remainder of what it has consumed.
THEOREM DividesSoFar == Spec => []DividerInvariant
BY Invariant, InvariantDivides, PTL
=============================================================================
