------------------------------ MODULE ByteArray ------------------------------
(***************************************************************************)
(* What the data memory promises: an array of bytes, little-endian, with   *)
(* sign or zero extension on loads.  A half-word or word that is not       *)
(* aligned is only promised to stay within its word.                       *)
(***************************************************************************)
EXTENDS Integers

CONSTANTS
  Depth,            \* words of four bytes
  Byte              \* values of a byte, 2^8

VARIABLE bytes

Addresses == 0 .. 4 * Depth - 1

Width(op) == CASE op \in {"byte", "byte_u"} -> 1 [] op \in {"half", "half_u"} -> 2 [] OTHER -> 4
Aligned(op, a) == a % Width(op) = 0

\* A load's upper bytes repeat the sign of its last byte, unless it is unsigned.
Extension(op, last) == IF op \in {"byte", "half"} /\ 2 * last >= Byte THEN Byte - 1 ELSE 0

\* The four bytes a load from a returns.
Loaded(op, a) ==
  [i \in 0 .. 3 |-> IF i < Width(op) THEN bytes[a + i]
                    ELSE Extension(op, bytes[a + Width(op) - 1])]

Store(op, a, data) ==
  \A x \in Addresses :
    \/ Aligned(op, a) /\ a <= x /\ x < a + Width(op) /\ bytes'[x] = data[x - a]
    \/ Aligned(op, a) /\ ~(a <= x /\ x < a + Width(op)) /\ bytes'[x] = bytes[x]
    \/ ~Aligned(op, a) /\ (x \div 4 # a \div 4 => bytes'[x] = bytes[x])
=============================================================================
