------------------------------ MODULE ByteMemory ------------------------------
(***************************************************************************)
(* The data memory: four SRAMs, one for each byte of a word, behind the    *)
(* LSU, which splits an address into a word and an offset, and WriteBack,  *)
(* which shifts and extends what was read.  One step is one access.        *)
(***************************************************************************)
EXTENDS Integers

CONSTANTS
  Depth,            \* words; 2^20 in the code, while addresses have 32 bits
  Byte,             \* values of a byte, 2^8
  AddressNumber,    \* addresses, 2^32
  Sext              \* the framework's Value.sext: the byte it puts above a value whose last
                    \* byte is given

ASSUME DepthAssumption == Depth \in Nat \ {0}
ASSUME ByteAssumption == Byte \in Nat /\ Byte > 1
ASSUME AddressNumberAssumption == AddressNumber \in Nat

Bytes == 0 .. Byte - 1

\* The framework is not in the repository, and utils.py says that it extends incorrectly and
\* has a sext of its own; writeback.py calls the framework's.  Nothing is assumed of the bytes.
ASSUME SextAssumption == Sext \in [Bytes -> Bytes]

\* What the name promises: the top bit is repeated.
RepeatsSign == [byte \in Bytes |-> IF 2 * byte >= Byte THEN Byte - 1 ELSE 0]

VARIABLES
  lanes,            \* byte0 .. byte3
  dout,             \* their outputs, registered by the last load
  access            \* op_type and byte offset in the ports of WriteBack

memory == <<lanes, dout, access>>

Lanes == 0 .. 3
FullWords == [Lanes -> Bytes]
Loads == {"byte", "half", "word", "byte_u", "half_u"}
Stores == {"byte", "half", "word"}

-----------------------------------------------------------------------------
(* LSU: word_addr[0:19] and byte_offset. *)

WordAddress(addr) == (addr \div 4) % Depth
Offset(addr) == addr % 4

(* ByteAddressableMemory. *)

\* we0 .. we3: no lane is written by a half-word at an odd offset, and a word's offset
\* does not matter.
WriteEnable(op, offset, lane) ==
  \/ op = "word"
  \/ op = "half" /\ offset = 0 /\ lane \in {0, 1}
  \/ op = "half" /\ offset = 2 /\ lane \in {2, 3}
  \/ op = "byte" /\ offset = lane

\* wdata0 .. wdata3 where the lane is enabled.
WriteData(op, lane, data) ==
  CASE op = "word" -> data[lane]
    [] op = "half" -> data[lane % 2]
    [] OTHER -> data[0]

StoreAccess(op, addr, data) ==
  /\ lanes' = [lane \in Lanes |->
       [w \in 0 .. Depth - 1 |->
          IF w = WordAddress(addr) /\ WriteEnable(op, Offset(addr), lane)
            THEN WriteData(op, lane, data) ELSE lanes[lane][w]]]
  /\ UNCHANGED <<dout, access>>

LoadAccess(op, addr) ==
  /\ dout' = [lane \in Lanes |-> lanes[lane][WordAddress(addr)]]
  /\ access' = [op |-> op, offset |-> Offset(addr)]
  /\ UNCHANGED lanes

-----------------------------------------------------------------------------
(* WriteBack. *)

\* The word shifted right by the offset; zeros come in.
Shifted(offset, lane) == IF lane + offset <= 3 THEN dout[lane + offset] ELSE 0

ProcessMemoryData(op, offset) ==
  [lane \in Lanes |->
     CASE op = "word" -> dout[lane]
       [] op = "byte" -> IF lane = 0 THEN Shifted(offset, 0) ELSE Sext[Shifted(offset, 0)]
       [] op = "half" -> IF lane <= 1 THEN Shifted(offset, lane) ELSE Sext[Shifted(offset, 1)]
       [] op = "byte_u" -> IF lane = 0 THEN Shifted(offset, 0) ELSE 0
       [] OTHER -> IF lane <= 1 THEN Shifted(offset, lane) ELSE 0]

WrittenBack == ProcessMemoryData(access.op, access.offset)

-----------------------------------------------------------------------------
MemoryInit ==
  /\ lanes \in [Lanes -> [0 .. Depth - 1 -> Bytes]]
  /\ dout = [lane \in Lanes |-> 0]
  /\ access = [op |-> "word", offset |-> 0]

MemoryNext ==
  \E addr \in 0 .. AddressNumber - 1 :
    \/ \E op \in Stores, data \in FullWords : StoreAccess(op, addr, data)
    \/ \E op \in Loads : LoadAccess(op, addr)

MemorySpec == MemoryInit /\ [][MemoryNext]_memory

-----------------------------------------------------------------------------
MemoryTypeOK ==
  /\ lanes \in [Lanes -> [0 .. Depth - 1 -> Bytes]]
  /\ dout \in FullWords
  /\ access \in [op : Loads, offset : 0 .. 3]

FlatBytes == [x \in 0 .. 4 * Depth - 1 |-> lanes[x % 4][x \div 4]]

A == INSTANCE ByteArray WITH bytes <- FlatBytes

\* The byte an address stands for: addresses repeat every 4 * Depth.
ByteAddress(addr) == 4 * WordAddress(addr) + Offset(addr)

\* Whatever the width and the offset, an aligned access writes and reads the bytes it names,
\* and a misaligned one does not leave its word; of signed loads only if Sext repeats the sign.
ImplementsByteArray ==
  [][\A addr \in 0 .. AddressNumber - 1 :
       /\ \A op \in Stores, data \in FullWords :
            StoreAccess(op, addr, data) => A!Store(op, ByteAddress(addr), data)
       /\ \A op \in Loads :
            LoadAccess(op, addr) =>
              /\ FlatBytes' = FlatBytes
              /\ A!Aligned(op, ByteAddress(addr)) =>
                   WrittenBack' = A!Loaded(op, ByteAddress(addr))]_memory
=============================================================================
