------------------------------ MODULE BitVectors ------------------------------
(***************************************************************************)
(* Bit vectors as sequences of 0 and 1, lowest bit first: what Bits(n) and *)
(* its operators are in the source.  x[i:j] of the source is Slice(x, i, j),*)
(* and a.concat(b), with b the low bits, is b \o a.                        *)
(***************************************************************************)
LOCAL INSTANCE Integers
LOCAL INSTANCE Sequences

Vectors(n) == [1 .. n -> {0, 1}]

Slice(x, i, j) == SubSeq(x, i + 1, j + 1)
BitOf(x, i) == x[i + 1]
Top(x) == x[Len(x)]

Repeated(bit, n) == [i \in 1 .. n |-> bit]
ZeroExtend(x, n) == x \o Repeated(0, n - Len(x))
SignExtend(x, n) == x \o Repeated(Top(x), n - Len(x))

\* The integer x stands for, read without and with a sign.
Number(x) ==
  LET value[n \in 0 .. Len(x)] == IF n = 0 THEN 0 ELSE value[n - 1] + x[n] * 2^(n - 1)
  IN  value[Len(x)]
Signed(x) == Number(x) - (IF Top(x) = 1 THEN 2^Len(x) ELSE 0)
Vector(k, n) == [i \in 1 .. n |-> (k \div 2^(i - 1)) % 2]

Not(x) == [i \in DOMAIN x |-> 1 - x[i]]
And(x, y) == [i \in DOMAIN x |-> x[i] * y[i]]
Or(x, y) == [i \in DOMAIN x |-> IF x[i] + y[i] = 0 THEN 0 ELSE 1]
Xor(x, y) == [i \in DOMAIN x |-> (x[i] + y[i]) % 2]

\* << and >> keep the width; the shift of a signed value repeats its top bit.
ShiftLeft(x, n) == [i \in DOMAIN x |-> IF i > n THEN x[i - n] ELSE 0]
ShiftRight(x, n, fill) == [i \in DOMAIN x |-> IF i + n <= Len(x) THEN x[i + n] ELSE fill]
=============================================================================
