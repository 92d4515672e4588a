-------------------------- MODULE Circuits_proofs --------------------------
(*************************************************************************)
(* What the circuits of algorithms/ and utils.py compute, for operands   *)
(* of every width: the carry-lookahead adder adds, the leading zeros are *)
(* counted, and Booth's products and the levels of the Wallace tree keep *)
(* the product.                                                          *)
(*************************************************************************)
EXTENDS Circuits, Recursion, SequenceTheorems

(* Sequences of a length as functions. *)
Tuples(S, n) == [1 .. n -> S]

LEMMA TupleIs ==
  ASSUME NEW S, NEW n \in Nat, NEW x \in Tuples(S, n)
  PROVE  x \in Seq(S) /\ Len(x) = n /\ DOMAIN x = 1 .. n /\ \A i \in 1 .. n : x[i] \in S
<1>1. x \in Seq(S)
  BY SeqDef DEF Tuples
<1>2. Len(x) \in Nat /\ DOMAIN x = 1 .. Len(x)
  BY <1>1, LenProperties
<1> QED BY <1>1, <1>2 DEF Tuples

LEMMA SequenceIs ==
  ASSUME NEW S, NEW x \in Seq(S), NEW n \in Nat, Len(x) = n
  PROVE  x \in Tuples(S, n)
BY LenProperties DEF Tuples

LEMMA TuplesEqual ==
  ASSUME NEW S, NEW n, NEW x \in Tuples(S, n), NEW y \in Tuples(S, n),
         \A i \in 1 .. n : x[i] = y[i]
  PROVE  x = y
<1>1. x = [i \in 1 .. n |-> x[i]] /\ y = [i \in 1 .. n |-> y[i]]
  BY DEF Tuples
<1>2. [i \in 1 .. n |-> x[i]] = [i \in 1 .. n |-> y[i]]
  OBVIOUS
<1> QED BY <1>1, <1>2

LEMMA AppendTuple ==
  ASSUME NEW S, NEW n \in Nat, NEW x \in Tuples(S, n), NEW b \in S
  PROVE  /\ Append(x, b) \in Tuples(S, n + 1)
         /\ \A i \in 1 .. n : Append(x, b)[i] = x[i]
         /\ Append(x, b)[n + 1] = b
<1>1. x \in Seq(S) /\ Len(x) = n
  BY TupleIs
<1>2. /\ Append(x, b) \in Seq(S) /\ Len(Append(x, b)) = n + 1
      /\ \A i \in 1 .. n : Append(x, b)[i] = x[i]
      /\ Append(x, b)[n + 1] = b
  BY <1>1, AppendProperties
<1>3. n + 1 \in Nat
  OBVIOUS
<1> QED BY <1>2, <1>3, SequenceIs

LEMMA ConcatTuple ==
  ASSUME NEW S, NEW m \in Nat, NEW n \in Nat, NEW x \in Tuples(S, m), NEW y \in Tuples(S, n)
  PROVE  /\ x \o y \in Tuples(S, m + n)
         /\ \A i \in 1 .. m : (x \o y)[i] = x[i]
         /\ \A i \in 1 .. n : (x \o y)[m + i] = y[i]
         /\ \A i \in m + 1 .. m + n : (x \o y)[i] = y[i - m]
<1>1. x \in Seq(S) /\ Len(x) = m /\ y \in Seq(S) /\ Len(y) = n
  BY TupleIs
<1>2. /\ x \o y \in Seq(S) /\ Len(x \o y) = m + n
      /\ \A i \in 1 .. m + n : (x \o y)[i] = IF i <= m THEN x[i] ELSE y[i - m]
  BY <1>1, ConcatProperties
<1>0. m + n \in Nat
  OBVIOUS
<1>3. x \o y \in Tuples(S, m + n)
  BY <1>0, <1>2, SequenceIs
<1>4. \A i \in 1 .. m : (x \o y)[i] = x[i]
  BY SMTT(30), <1>2
<1>5. \A i \in m + 1 .. m + n : (x \o y)[i] = y[i - m]
  BY <1>2
<1>6. ASSUME NEW i \in 1 .. n PROVE (x \o y)[m + i] = y[i]
  <2>1. m + i \in m + 1 .. m + n /\ (m + i) - m = i
    OBVIOUS
  <2> QED BY <1>5, <2>1
<1> QED BY <1>3, <1>4, <1>5, <1>6

LEMMA SubSeqTuple ==
  ASSUME NEW S, NEW n \in Nat, NEW x \in Tuples(S, n), NEW i \in 1 .. n + 1, NEW j \in i - 1 .. n
  PROVE  /\ SubSeq(x, i, j) \in Tuples(S, j - i + 1)
         /\ \A k \in 1 .. j - i + 1 : SubSeq(x, i, j)[k] = x[i + k - 1]
<1>1. i \in Int /\ j \in Int /\ \A k \in i .. j : x[k] \in S
  <2>1. \A k \in i .. j : k \in 1 .. n
    OBVIOUS
  <2> QED BY <2>1, TupleIs
<1>2. /\ SubSeq(x, i, j) \in Seq(S)
      /\ Len(SubSeq(x, i, j)) = IF i <= j THEN j - i + 1 ELSE 0
      /\ \A k \in 1 .. j - i + 1 : SubSeq(x, i, j)[k] = x[i + k - 1]
  BY <1>1, SubSeqProperties
<1>3. Len(SubSeq(x, i, j)) = j - i + 1 /\ j - i + 1 \in Nat
  BY <1>2
<1> QED BY <1>2, <1>3, SequenceIs

-----------------------------------------------------------------------------
(* Bit vectors. *)
Bit == {0, 1}

LEMMA VectorsIs == \A n : Vectors(n) = Tuples(Bit, n)
BY DEF Vectors, Tuples, Bit

LEMMA VectorIs ==
  ASSUME NEW n \in Nat, NEW x \in Vectors(n)
  PROVE  /\ x \in Seq({0, 1}) /\ Len(x) = n /\ DOMAIN x = 1 .. n
         /\ \A i \in 1 .. n : x[i] \in {0, 1} /\ x[i] \in Nat
<1>1. x \in Tuples(Bit, n)
  BY VectorsIs
<1>2. \A b \in Bit : b \in Nat
  BY DEF Bit
<1> QED BY <1>1, <1>2, TupleIs DEF Bit

LEMMA VectorsEqual ==
  ASSUME NEW n, NEW x \in Vectors(n), NEW y \in Vectors(n), \A i \in 1 .. n : x[i] = y[i]
  PROVE  x = y
BY VectorsIs, TuplesEqual

LEMMA AppendIs ==
  ASSUME NEW n \in Nat, NEW x \in Vectors(n), NEW b \in {0, 1}
  PROVE  /\ Append(x, b) \in Vectors(n + 1)
         /\ \A i \in 1 .. n : Append(x, b)[i] = x[i]
         /\ Append(x, b)[n + 1] = b
<1>1. x \in Tuples(Bit, n) /\ Vectors(n + 1) = Tuples(Bit, n + 1)
  BY VectorsIs
<1>2. b \in Bit
  BY DEF Bit
<1>3. Append(x, b) \in Tuples(Bit, n + 1)
  BY <1>1, <1>2, AppendTuple
<1>4. (\A i \in 1 .. n : Append(x, b)[i] = x[i]) /\ Append(x, b)[n + 1] = b
  BY <1>1, TupleIs
<1> QED BY <1>1, <1>3, <1>4

LEMMA ConcatIs ==
  ASSUME NEW m \in Nat, NEW n \in Nat, NEW x \in Vectors(m), NEW y \in Vectors(n)
  PROVE  /\ x \o y \in Vectors(m + n)
         /\ \A i \in 1 .. m : (x \o y)[i] = x[i]
         /\ \A i \in 1 .. n : (x \o y)[m + i] = y[i]
         /\ \A i \in m + 1 .. m + n : (x \o y)[i] = y[i - m]
<1>1. x \in Tuples(Bit, m) /\ y \in Tuples(Bit, n)
      /\ Vectors(m + n) = Tuples(Bit, m + n)
  BY VectorsIs
<1>2. x \o y \in Tuples(Bit, m + n)
  BY <1>1, ConcatTuple
<1>3. /\ \A i \in 1 .. m : (x \o y)[i] = x[i]
      /\ \A i \in 1 .. n : (x \o y)[m + i] = y[i]
      /\ \A i \in m + 1 .. m + n : (x \o y)[i] = y[i - m]
  BY <1>1, TupleIs
<1> QED BY <1>1, <1>2, <1>3

LEMMA SubSeqIs ==
  ASSUME NEW n \in Nat, NEW x \in Vectors(n), NEW i \in 1 .. n + 1, NEW j \in i - 1 .. n
  PROVE  /\ SubSeq(x, i, j) \in Vectors(j - i + 1)
         /\ \A k \in 1 .. j - i + 1 : SubSeq(x, i, j)[k] = x[i + k - 1]
<1>1. x \in Tuples(Bit, n)
  BY VectorsIs
<1> QED BY <1>1, VectorsIs, SubSeqTuple

LEMMA EmptyIs == <<>> \in Vectors(0) /\ \A x \in Vectors(0) : x = <<>>
<1>1. <<>> \in Vectors(0)
  <2>1. <<>> \in Seq(Bit) /\ Len(<<>>) = 0
    BY EmptySeq
  <2> QED BY <2>1, VectorsIs, SequenceIs
<1> QED BY <1>1, VectorsEqual

LEMMA OneIs ==
  ASSUME NEW b \in {0, 1}
  PROVE  <<b>> \in Vectors(1) /\ <<b>>[1] = b
<1>1. <<b>> \in Seq(Bit) /\ Len(<<b>>) = 1
  BY DEF Bit
<1> QED BY <1>1, VectorsIs, SequenceIs

\* The last bit and the others.
LEMMA LastBit ==
  ASSUME NEW n \in Nat, NEW x \in Vectors(n + 1)
  PROVE  /\ SubSeq(x, 1, n) \in Vectors(n)
         /\ \A k \in 1 .. n : SubSeq(x, 1, n)[k] = x[k]
         /\ x[n + 1] \in {0, 1}
         /\ x = Append(SubSeq(x, 1, n), x[n + 1])
<1>0. 1 \in 1 .. (n + 1) + 1 /\ n \in 1 - 1 .. n + 1 /\ n - 1 + 1 = n
  OBVIOUS
<1>1. SubSeq(x, 1, n) \in Vectors(n) /\ \A k \in 1 .. n : SubSeq(x, 1, n)[k] = x[k]
  BY <1>0, SubSeqIs
<1>2. x[n + 1] \in {0, 1}
  BY VectorIs
<1> DEFINE y == SubSeq(x, 1, n)
           b == x[n + 1]
<1> HIDE DEF y, b
<1>3. y \in Vectors(n) /\ b \in {0, 1} /\ (\A k \in 1 .. n : y[k] = x[k]) /\ b = x[n + 1]
  BY <1>1, <1>2 DEF y, b
<1>4. Append(y, b) \in Vectors(n + 1)
  BY <1>3, AppendIs
<1>5. \A i \in 1 .. n + 1 : Append(y, b)[i] = x[i]
  <2>1. \A i \in 1 .. n + 1 : i \in 1 .. n \/ i = n + 1
    OBVIOUS
  <2>2. (\A i \in 1 .. n : Append(y, b)[i] = y[i]) /\ Append(y, b)[n + 1] = b
    BY <1>3, AppendIs
  <2> QED BY <1>3, <2>1, <2>2
<1>6. x = Append(y, b)
  BY <1>4, <1>5, VectorsEqual
<1> QED BY <1>1, <1>2, <1>6 DEF y, b

-----------------------------------------------------------------------------
(* The number a vector stands for. *)

\* v has the numbers of the prefixes of x.
PrefixValues(v, x, n) ==
  /\ v[0] = 0
  /\ \A k \in 1 .. n : v[k] = v[k - 1] + x[k] * 2^(k - 1)
  /\ \A k \in 0 .. n : v[k] \in 0 .. 2^k - 1

\* One more bit at the top.
LEMMA PrefixGrows ==
  ASSUME NEW k \in Nat, NEW u \in 0 .. 2^k - 1, NEW b \in {0, 1}
  PROVE  u + b * 2^k \in 0 .. 2^(k + 1) - 1
<1>1. PICK p : p = 2^k
  OBVIOUS
<1>2. p \in Nat /\ p > 0 /\ 2^(k + 1) = 2 * p
  BY <1>1, PowerPositive, PowerStep
<1>3. u \in 0 .. p - 1
  BY <1>1
<1>4. b * p = IF b = 0 THEN 0 ELSE p
  BY <1>2
<1>5. u + b * p \in 0 .. 2 * p - 1
  BY <1>2, <1>3, <1>4
<1> QED BY <1>1, <1>2, <1>5

LEMMA NumberValues ==
  ASSUME NEW n \in Nat, NEW x \in Vectors(n)
  PROVE  \E v : PrefixValues(v, x, n) /\ Number(x) = v[n]
<1> DEFINE V == [k \in 0 .. n |-> 0 .. 2^k - 1]
           step == [k \in 1 .. n |-> [u \in Nat |-> u + x[k] * 2^(k - 1)]]
           Layers(f) == [k \in 0 .. n |-> IF k = 0 THEN 0 ELSE f[k - 1] + x[k] * 2^(k - 1)]
<1>1. Len(x) = n /\ \A k \in 1 .. n : x[k] \in {0, 1}
  BY VectorIs
<1>2. \A k \in 0 .. n : 2^k \in Nat /\ 2^k > 0
  BY PowerPositive
<1>3. \A k \in 0 .. n : V[k] = 0 .. 2^k - 1
  OBVIOUS
<1>4. V \in [0 .. n -> SUBSET Nat]
  BY <1>2
<1>5. 0 \in V[0]
  BY <1>2
<1>6. ASSUME NEW k \in 1 .. n, NEW u \in V[k - 1]
      PROVE  step[k][u] = u + x[k] * 2^(k - 1) /\ step[k][u] \in V[k]
  <2>1. k - 1 \in Nat /\ k - 1 \in 0 .. n /\ k \in 0 .. n /\ (k - 1) + 1 = k
    OBVIOUS
  <2>2. u \in 0 .. 2^(k - 1) - 1 /\ u \in Nat
    BY <1>2, <1>3, <2>1
  <2>3. step[k][u] = u + x[k] * 2^(k - 1)
    BY <2>2
  <2>4. u + x[k] * 2^(k - 1) \in 0 .. 2^((k - 1) + 1) - 1
    BY <1>1, <2>1, <2>2, PrefixGrows
  <2> QED BY <1>3, <2>1, <2>3, <2>4
<1> HIDE DEF V, step
<1>7. StepsOn(n, Nat, V, 0, step)
  BY <1>4, <1>5, <1>6 DEF StepsOn
<1>8. PICK f : IsRecursive(f, n, Nat, V, 0, step)
  BY <1>7, RecursiveFunction
<1>9. f = Layers(f)
  <2>1. f \in [0 .. n -> Nat] /\ f[0] = 0 /\ (\A k \in 0 .. n : f[k] \in V[k])
        /\ \A k \in 1 .. n : f[k] = step[k][f[k - 1]]
    BY <1>8 DEF IsRecursive
  <2>2. ASSUME NEW k \in 0 .. n
        PROVE  f[k] = IF k = 0 THEN 0 ELSE f[k - 1] + x[k] * 2^(k - 1)
    <3>1. CASE k = 0
      BY <2>1, <3>1
    <3>2. CASE k # 0
      <4>1. k \in 1 .. n /\ k - 1 \in 0 .. n
        BY <3>2
      <4> QED BY <1>6, <2>1, <3>2, <4>1
    <3> QED BY <3>1, <3>2
  <2>3. f = [k \in 0 .. n |-> f[k]]
    BY <2>1
  <2> QED BY <2>2, <2>3
<1>10. PICK v : v = Layers(v) /\ v = CHOOSE value : value = Layers(value)
  <2> HIDE DEF Layers
  <2> QED BY <1>9
<1>11. Number(x) = v[n]
  BY <1>1, <1>10 DEF Number
<1>12. v[0] = 0 /\ \A k \in 1 .. n : v[k] = v[k - 1] + x[k] * 2^(k - 1)
  <2>1. \A k \in 1 .. n : k \in 0 .. n /\ k # 0
    OBVIOUS
  <2>2. 0 \in 0 .. n
    OBVIOUS
  <2>3. \A k \in 0 .. n : v[k] = IF k = 0 THEN 0 ELSE v[k - 1] + x[k] * 2^(k - 1)
    BY <1>10
  <2> QED BY <2>1, <2>2, <2>3
<1>13. \A k \in 0 .. n : v[k] \in V[k]
  <2>1. ASSUME NEW k \in 1 .. n, v[k - 1] \in V[k - 1] PROVE v[k] \in V[k]
    BY <1>6, <1>12, <2>1
  <2> QED BY <1>5, <1>12, <2>1, RecursiveValues
<1> QED BY <1>3, <1>11, <1>12, <1>13 DEF PrefixValues

LEMMA NumberBound ==
  ASSUME NEW n \in Nat, NEW x \in Vectors(n)
  PROVE  Number(x) \in 0 .. 2^n - 1 /\ Number(x) \in Nat /\ Number(x) < 2^n
<1>1. PICK v : PrefixValues(v, x, n) /\ Number(x) = v[n]
  BY NumberValues
<1>2. v[n] \in 0 .. 2^n - 1
  BY <1>1 DEF PrefixValues
<1> QED BY <1>1, <1>2, PowerPositive

\* What the prefix functions of two vectors with the same beginning have in common.
LEMMA PrefixesAgree ==
  ASSUME NEW m \in Nat, NEW n \in Nat, NEW x, NEW y, NEW v, NEW w, NEW k \in Nat,
         PrefixValues(v, x, m), PrefixValues(w, y, n), k <= m, k <= n,
         \A i \in 1 .. k : x[i] = y[i]
  PROVE  v[k] = w[k]
<1> DEFINE S == {i \in Nat : i <= k => v[i] = w[i]}
<1>1. 0 \in S
  BY DEF PrefixValues
<1>2. ASSUME NEW i \in Nat, i \in S PROVE i + 1 \in S
  <2> SUFFICES ASSUME i + 1 <= k PROVE v[i + 1] = w[i + 1]
    OBVIOUS
  <2>1. i + 1 \in 1 .. m /\ i + 1 \in 1 .. n /\ i + 1 \in 1 .. k /\ (i + 1) - 1 = i /\ v[i] = w[i]
    BY <1>2
  <2> QED BY <2>1 DEF PrefixValues
<1> HIDE DEF S
<1>3. k \in S
  BY <1>1, <1>2, Induction
<1> QED BY <1>3 DEF S

LEMMA NumberAppend ==
  ASSUME NEW n \in Nat, NEW x \in Vectors(n), NEW b \in {0, 1}
  PROVE  Number(Append(x, b)) = Number(x) + b * 2^n
<1> DEFINE y == Append(x, b)
<1>1. /\ y \in Vectors(n + 1)
      /\ \A i \in 1 .. n : x[i] = y[i]
      /\ y[n + 1] = b
  BY AppendIs
<1> HIDE DEF y
<1>2. PICK v : PrefixValues(v, x, n) /\ Number(x) = v[n]
  BY NumberValues
<1>3. PICK w : PrefixValues(w, y, n + 1) /\ Number(y) = w[n + 1]
  <2>1. n + 1 \in Nat
    OBVIOUS
  <2> QED BY <1>1, <2>1, NumberValues
<1>4. v[n] = w[n]
  <2>1. n + 1 \in Nat /\ n <= n /\ n <= n + 1
    OBVIOUS
  <2> QED BY <1>1, <1>2, <1>3, <2>1, PrefixesAgree
<1>5. w[n + 1] = w[n] + b * 2^n
  <2>1. n + 1 \in 1 .. n + 1 /\ (n + 1) - 1 = n
    OBVIOUS
  <2> QED BY <1>1, <1>3, <2>1 DEF PrefixValues
<1> QED BY <1>2, <1>3, <1>4, <1>5 DEF y

LEMMA NumberEmpty == Number(<<>>) = 0
<1>1. Number(<<>>) \in 0 .. 2^0 - 1
  BY EmptyIs, NumberBound
<1> QED BY <1>1, PowerOfZero

-----------------------------------------------------------------------------
(* Division by a number that is not known. *)
LEMMA DivMod ==
  ASSUME NEW k \in Int, NEW p \in Nat, p > 0
  PROVE  k \div p \in Int /\ k % p \in 0 .. p - 1 /\ k = (k \div p) * p + (k % p)
OBVIOUS

LEMMA MultiplesDiffer ==
  ASSUME NEW p \in Nat, NEW i \in Int, NEW j \in Int, i < j
  PROVE  i * p + p <= j * p
<1>1. PICK d \in Nat : j = i + 1 + d
  <2>1. j - i - 1 \in Nat /\ j = i + 1 + (j - i - 1)
    OBVIOUS
  <2> QED BY <2>1
<1>2. j * p = i * p + p + d * p
  BY <1>1
<1>3. d * p >= 0
  OBVIOUS
<1> QED BY <1>2, <1>3

\* k is q times p and a remainder r.
Divided(k, p, q, r) == p \in Nat /\ q \in Int /\ r \in 0 .. p - 1 /\ k = q * p + r

LEMMA DivModUnique ==
  ASSUME NEW k, NEW p, NEW q, NEW r, Divided(k, p, q, r)
  PROVE  k \div p = q /\ k % p = r
<1>0. p \in Nat /\ q \in Int /\ r \in 0 .. p - 1 /\ k = q * p + r
  BY DEF Divided
<1>1. p > 0 /\ k \in Int
  BY <1>0
<1>2. PICK d \in Int, e \in 0 .. p - 1 : d = k \div p /\ e = k % p /\ k = d * p + e
  BY <1>0, <1>1, DivMod
<1>3. ~ (d < q)
  <2> SUFFICES ASSUME d < q PROVE FALSE
    OBVIOUS
  <2>1. d * p + p <= q * p
    BY <1>0, <1>2, MultiplesDiffer
  <2>2. PICK x \in Int, y \in Int : x = d * p /\ y = q * p
    BY <1>0
  <2> QED BY <1>0, <1>2, <2>1, <2>2
<1>4. ~ (q < d)
  <2> SUFFICES ASSUME q < d PROVE FALSE
    OBVIOUS
  <2>1. q * p + p <= d * p
    BY <1>0, <1>2, MultiplesDiffer
  <2>2. PICK x \in Int, y \in Int : x = d * p /\ y = q * p
    BY <1>0
  <2> QED BY <1>0, <1>2, <2>1, <2>2
<1>5. d = q
  BY <1>0, <1>2, <1>3, <1>4
<1> QED BY <1>0, <1>2, <1>5

\* One more binary digit.
LEMMA HalfWay ==
  ASSUME NEW k \in Int, NEW p \in Nat, p > 0
  PROVE  /\ k % (2 * p) = (k % p) + ((k \div p) % 2) * p
         /\ k \div (2 * p) = (k \div p) \div 2
<1>1. PICK d \in Int, e \in 0 .. p - 1 : d = k \div p /\ e = k % p /\ k = d * p + e
  BY DivMod
<1>2. PICK h \in Int, b \in {0, 1} : d = 2 * h + b /\ h = d \div 2 /\ b = d % 2
  OBVIOUS
<1>3. PICK q \in Nat : q = 2 * p
  OBVIOUS
<1>4. b * p + e \in 0 .. q - 1
  <2>1. b * p = IF b = 0 THEN 0 ELSE p
    OBVIOUS
  <2> QED BY <1>3, <2>1
<1>5. k = h * q + (b * p + e)
  <2>1. h * q = 2 * (h * p)
    BY <1>3
  <2>2. (2 * h + b) * p = 2 * (h * p) + b * p
    OBVIOUS
  <2>3. k = (2 * h + b) * p + e
    BY <1>1, <1>2
  <2>4. PICK x \in Int, y \in Int : x = h * p /\ y = b * p
    OBVIOUS
  <2>5. h * q = 2 * x /\ k = 2 * x + y + e
    BY <2>1, <2>2, <2>3, <2>4
  <2> QED BY <2>4, <2>5
<1>6. k \div q = h /\ k % q = b * p + e
  <2>1. Divided(k, q, h, b * p + e)
    BY <1>4, <1>5 DEF Divided
  <2> QED BY <2>1, DivModUnique
<1> QED BY <1>1, <1>2, <1>3, <1>6

-----------------------------------------------------------------------------
LEMMA VectorType ==
  ASSUME NEW n \in Nat, NEW k \in Int
  PROVE  Vector(k, n) \in Vectors(n) /\ \A i \in 1 .. n : Vector(k, n)[i] = (k \div 2^(i - 1)) % 2
<1>1. ASSUME NEW i \in 1 .. n PROVE (k \div 2^(i - 1)) % 2 \in {0, 1}
  <2>1. PICK p \in Nat : p = 2^(i - 1) /\ p > 0
    <3>1. i - 1 \in Nat
      OBVIOUS
    <3> QED BY <3>1, PowerPositive
  <2>2. PICK d \in Int : d = k \div p
    BY <2>1, DivMod
  <2>3. d % 2 \in {0, 1}
    OBVIOUS
  <2> QED BY <2>1, <2>2, <2>3
<1> QED BY <1>1 DEF Vector, Vectors

LEMMA NumberVector ==
  ASSUME NEW n \in Nat, NEW k \in Int
  PROVE  Number(Vector(k, n)) = k % 2^n
<1> DEFINE S == {m \in Nat : Number(Vector(k, m)) = k % 2^m}
<1>1. 0 \in S
  <2>1. Vector(k, 0) = <<>>
    BY VectorType, EmptyIs
  <2>2. k % 2^0 = 0
    BY PowerOfZero
  <2> QED BY <2>1, <2>2, NumberEmpty
<1>2. ASSUME NEW m \in Nat, m \in S PROVE m + 1 \in S
  <2>0. m + 1 \in Nat
    OBVIOUS
  <2>1. PICK p \in Nat : p = 2^m /\ p > 0
    BY PowerPositive
  <2>2. PICK b : b = (k \div p) % 2
    OBVIOUS
  <2>3. b \in {0, 1}
    <3>1. k \div p \in Int
      BY <2>1, DivMod
    <3> QED BY <2>2, <3>1
  <2>4. Vector(k, m + 1) = Append(Vector(k, m), b)
    <3> DEFINE x == Vector(k, m)
               y == Vector(k, m + 1)
    <3>1. x \in Vectors(m) /\ \A i \in 1 .. m : x[i] = (k \div 2^(i - 1)) % 2
      BY VectorType
    <3>2. y \in Vectors(m + 1) /\ \A i \in 1 .. m + 1 : y[i] = (k \div 2^(i - 1)) % 2
      BY <2>0, VectorType
    <3> HIDE DEF x, y
    <3>3. Append(x, b) \in Vectors(m + 1) /\ (\A i \in 1 .. m : Append(x, b)[i] = x[i])
          /\ Append(x, b)[m + 1] = b
      BY <2>3, <3>1, AppendIs
    <3>4. ASSUME NEW i \in 1 .. m + 1 PROVE y[i] = Append(x, b)[i]
      <4>1. CASE i = m + 1
        <5>1. i - 1 = m
          BY <4>1
        <5> QED BY <2>1, <2>2, <3>2, <3>3, <4>1, <5>1
      <4>2. CASE i # m + 1
        <5>1. i \in 1 .. m
          BY <4>2
        <5> QED BY <3>1, <3>2, <3>3, <5>1
      <4> QED BY <4>1, <4>2
    <3> QED BY <3>2, <3>3, <3>4, VectorsEqual DEF x, y
  <2>5. Vector(k, m) \in Vectors(m)
    BY VectorType
  <2>6. Number(Vector(k, m + 1)) = (k % p) + b * p
    BY <1>2, <2>1, <2>3, <2>4, <2>5, NumberAppend
  <2>7. k % (2 * p) = (k % p) + b * p
    BY <2>1, <2>2, HalfWay
  <2>8. 2^(m + 1) = 2 * p
    BY <2>1, PowerStep
  <2> QED BY <2>0, <2>6, <2>7, <2>8
<1> HIDE DEF S
<1>3. n \in S
  BY <1>1, <1>2, Induction
<1> QED BY <1>3 DEF S

-----------------------------------------------------------------------------
(* Numbers of the parts of a vector. *)
LEMMA ConcatAppend ==
  ASSUME NEW m \in Nat, NEW n \in Nat, NEW x \in Vectors(m), NEW z \in Vectors(n), NEW b \in {0, 1}
  PROVE  x \o Append(z, b) = Append(x \o z, b)
<1>1. /\ Append(z, b) \in Vectors(n + 1)
      /\ \A i \in 1 .. n : Append(z, b)[i] = z[i]
      /\ Append(z, b)[n + 1] = b
  BY AppendIs
<1>2. /\ x \o z \in Vectors(m + n)
      /\ \A i \in 1 .. m : (x \o z)[i] = x[i]
      /\ \A i \in 1 .. n : (x \o z)[m + i] = z[i]
  BY ConcatIs
<1> DEFINE u == x \o Append(z, b)
           v == Append(x \o z, b)
<1>3. /\ u \in Vectors(m + (n + 1))
      /\ \A i \in 1 .. m : u[i] = x[i]
      /\ \A i \in 1 .. n + 1 : u[m + i] = Append(z, b)[i]
  <2>1. n + 1 \in Nat
    OBVIOUS
  <2> QED BY ZenonT(60), <1>1, <2>1, ConcatIs
<1>4. /\ v \in Vectors((m + n) + 1)
      /\ \A i \in 1 .. m + n : v[i] = (x \o z)[i]
      /\ v[(m + n) + 1] = b
  <2>1. m + n \in Nat
    OBVIOUS
  <2> QED BY <1>2, <2>1, AppendIs
<1> HIDE DEF u, v
<1>5. m + (n + 1) = (m + n) + 1
  OBVIOUS
<1>6. ASSUME NEW i \in 1 .. (m + n) + 1 PROVE u[i] = v[i]
  <2>1. CASE i \in 1 .. m
    <3>1. i \in 1 .. m + n
      BY <2>1
    <3> QED BY <1>2, <1>3, <1>4, <2>1, <3>1
  <2>2. CASE i \in m + 1 .. m + n
    <3>1. i - m \in 1 .. n /\ m + (i - m) = i /\ i - m \in 1 .. n + 1 /\ i \in 1 .. m + n
      BY <2>2
    <3>2. v[i] = (x \o z)[m + (i - m)]
      BY <1>4, <3>1
    <3>3. u[m + (i - m)] = Append(z, b)[i - m]
      BY <1>3, <3>1
    <3> QED BY <1>1, <1>2, <3>1, <3>2, <3>3
  <2>3. CASE i = (m + n) + 1
    <3>1. n + 1 \in 1 .. n + 1 /\ m + (n + 1) = i
      BY <2>3
    <3> QED BY <1>1, <1>3, <1>4, <2>3, <3>1
  <2>4. i \in 1 .. m \/ i \in m + 1 .. m + n \/ i = (m + n) + 1
    OBVIOUS
  <2> QED BY <2>1, <2>2, <2>3, <2>4
<1>7. u \in Vectors((m + n) + 1)
  BY <1>3, <1>5
<1> QED BY <1>4, <1>6, <1>7, VectorsEqual DEF u, v

LEMMA NumberConcat ==
  ASSUME NEW m \in Nat, NEW n \in Nat, NEW x \in Vectors(m), NEW y \in Vectors(n)
  PROVE  Number(x \o y) = Number(x) + 2^m * Number(y)
<1> DEFINE S == {k \in Nat : \A z \in Vectors(k) : Number(x \o z) = Number(x) + 2^m * Number(z)}
<1>p. 2^m \in Nat
  BY PowerPositive
<1>x. Number(x) \in Nat
  BY NumberBound
<1>1. 0 \in S
  <2>1. ASSUME NEW z \in Vectors(0) PROVE Number(x \o z) = Number(x) + 2^m * Number(z)
    <3>1. z = <<>>
      BY EmptyIs
    <3>2. x \in Seq({0, 1})
      BY VectorIs
    <3>3. x \o z = x
      BY <3>1, <3>2, ConcatEmptySeq
    <3>4. Number(z) = 0
      BY <3>1, NumberEmpty
    <3> QED BY <1>p, <1>x, <3>3, <3>4
  <2> QED BY <2>1
<1>2. ASSUME NEW k \in Nat, k \in S PROVE k + 1 \in S
  <2>1. ASSUME NEW w \in Vectors(k + 1) PROVE Number(x \o w) = Number(x) + 2^m * Number(w)
    <3>1. PICK z, b : z \in Vectors(k) /\ b \in {0, 1} /\ w = Append(z, b)
      <4>1. SubSeq(w, 1, k) \in Vectors(k) /\ w[k + 1] \in {0, 1}
            /\ w = Append(SubSeq(w, 1, k), w[k + 1])
        BY LastBit
      <4> QED BY <4>1
    <3>2. x \o w = Append(x \o z, b)
      BY SMTT(30), <3>1, ConcatAppend
    <3>3. x \o z \in Vectors(m + k) /\ m + k \in Nat
      BY <3>1, ConcatIs
    <3>4. Number(x \o w) = Number(x \o z) + b * 2^(m + k)
      BY <3>1, <3>2, <3>3, NumberAppend
    <3>5. Number(w) = Number(z) + b * 2^k
      BY <3>1, NumberAppend
    <3>6. Number(x \o z) = Number(x) + 2^m * Number(z)
      BY <1>2, <3>1
    <3>7. 2^(m + k) = 2^m * 2^k /\ 2^k \in Nat
      BY PowerAdds, PowerPositive
    <3>8. Number(z) \in Nat
      BY <3>1, NumberBound
    <3>9. PICK p \in Nat, q \in Nat, s \in Nat : p = 2^m /\ q = 2^k /\ s = Number(z)
      BY <1>p, <3>7, <3>8
    <3>10. p * (s + b * q) = p * s + b * (p * q)
      BY <3>1
    <3>11. Number(x \o w) = Number(x) + p * s + b * (p * q)
      BY <3>4, <3>6, <3>7, <3>9
    <3>12. 2^m * Number(w) = p * (s + b * q)
      BY <3>5, <3>9
    <3>13. PICK t \in Int, u \in Int : t = p * s /\ u = b * (p * q)
      BY <3>1
    <3> QED BY <1>x, <3>10, <3>11, <3>12, <3>13
  <2> QED BY <2>1
<1> HIDE DEF S
<1>3. n \in S
  BY <1>1, <1>2, Induction
<1> QED BY <1>3 DEF S

LEMMA ConcatParts ==
  ASSUME NEW n \in Nat, NEW x \in Vectors(n), NEW k \in 0 .. n
  PROVE  /\ SubSeq(x, 1, k) \in Vectors(k) /\ SubSeq(x, k + 1, n) \in Vectors(n - k)
         /\ x = SubSeq(x, 1, k) \o SubSeq(x, k + 1, n)
<1>1. SubSeq(x, 1, k) \in Vectors(k)
  <2>1. 1 \in 1 .. n + 1 /\ k \in 1 - 1 .. n /\ k - 1 + 1 = k
    OBVIOUS
  <2> QED BY <2>1, SubSeqIs
<1>2. SubSeq(x, k + 1, n) \in Vectors(n - k)
  <2>1. k + 1 \in 1 .. n + 1 /\ n \in (k + 1) - 1 .. n /\ n - (k + 1) + 1 = n - k
    OBVIOUS
  <2> QED BY <2>1, SubSeqIs
<1>3. x \in Seq({0, 1}) /\ Len(x) = n
  BY VectorIs
<1>4. SubSeq(x, 1, k) \o SubSeq(x, k + 1, n) = SubSeq(x, 1, n)
  <2>1. 1 \in 1 .. Len(x) + 1 /\ k \in 1 - 1 .. Len(x) /\ n \in k .. Len(x)
    BY <1>3
  <2> QED BY <1>3, <2>1, ConcatAdjacentSubSeq
<1>5. SubSeq(x, 1, n) = x
  BY <1>3, SubSeqFull
<1> QED BY <1>1, <1>2, <1>4, <1>5

\* The number of a vector, cut at bit k.
LEMMA NumberParts ==
  ASSUME NEW n \in Nat, NEW x \in Vectors(n), NEW k \in 0 .. n
  PROVE  /\ Number(SubSeq(x, 1, k)) = Number(x) % 2^k
         /\ Number(SubSeq(x, k + 1, n)) = Number(x) \div 2^k
         /\ Number(x) = Number(SubSeq(x, 1, k)) + 2^k * Number(SubSeq(x, k + 1, n))
<1>0. k \in Nat /\ n - k \in Nat
  OBVIOUS
<1>1. PICK y, z : /\ y = SubSeq(x, 1, k) /\ z = SubSeq(x, k + 1, n)
                  /\ y \in Vectors(k) /\ z \in Vectors(n - k) /\ x = y \o z
  <2>1. /\ SubSeq(x, 1, k) \in Vectors(k) /\ SubSeq(x, k + 1, n) \in Vectors(n - k)
        /\ x = SubSeq(x, 1, k) \o SubSeq(x, k + 1, n)
    BY ConcatParts
  <2> QED BY <2>1
<1>2. Number(x) = Number(y) + 2^k * Number(z)
  <2>1. Number(y \o z) = Number(y) + 2^k * Number(z)
    BY <1>0, <1>1, NumberConcat
  <2> QED BY <1>1, <2>1
<1>3. PICK p \in Nat, s \in Nat, t \in Nat : p = 2^k /\ s = Number(y) /\ t = Number(z) /\ s < p
  BY <1>0, <1>1, NumberBound, PowerPositive
<1>4. Divided(Number(x), p, t, s)
  <2>1. p * t = t * p
    OBVIOUS
  <2> QED BY <1>2, <1>3, <2>1 DEF Divided
<1>5. Number(x) \div p = t /\ Number(x) % p = s
  BY <1>4, DivModUnique
<1> QED BY <1>1, <1>2, <1>3, <1>5

LEMMA NumberOne ==
  ASSUME NEW b \in {0, 1}
  PROVE  Number(<<b>>) = b
<1>1. Append(<<>>, b) = <<b>>
  OBVIOUS
<1>2. Number(Append(<<>>, b)) = Number(<<>>) + b * 2^0
  <2>1. 0 \in Nat
    OBVIOUS
  <2> QED BY <2>1, EmptyIs, NumberAppend
<1> QED BY <1>1, <1>2, NumberEmpty, PowerOfZero

\* A vector is the bits of its number.
LEMMA VectorOfNumber ==
  ASSUME NEW n \in Nat, NEW x \in Vectors(n)
  PROVE  Vector(Number(x), n) = x
<1>k. PICK k : k = Number(x)
  OBVIOUS
<1>1. k \in Nat
  BY <1>k, NumberBound
<1>2. Vector(k, n) \in Vectors(n) /\ \A i \in 1 .. n : Vector(k, n)[i] = (k \div 2^(i - 1)) % 2
  BY <1>1, VectorType
<1>3. ASSUME NEW i \in 1 .. n PROVE (k \div 2^(i - 1)) % 2 = x[i]
  <2>1. i - 1 \in 0 .. n /\ i - 1 \in Nat /\ n - (i - 1) = (n - i) + 1 /\ n - i \in Nat
        /\ (i - 1) + 1 = i
    OBVIOUS
  <2>2. PICK z : z = SubSeq(x, i, n)
    OBVIOUS
  <2>3. k \div 2^(i - 1) = Number(z)
    BY <1>k, <2>1, <2>2, NumberParts
  <2>4. z \in Vectors((n - i) + 1)
    BY <2>1, <2>2, ConcatParts
  <2>5. z[1] = x[i]
    <3>1. i \in 1 .. n + 1 /\ n \in i - 1 .. n /\ 1 \in 1 .. n - i + 1 /\ i + 1 - 1 = i
      OBVIOUS
    <3>2. SubSeq(x, i, n)[1] = x[i + 1 - 1]
      BY <3>1, SubSeqIs
    <3> QED BY <2>2, <3>1, <3>2
  <2>6. Number(z) % 2 = z[1]
    <3>1. 1 \in 0 .. (n - i) + 1 /\ (n - i) + 1 \in Nat
      BY <2>1
    <3>2. Number(SubSeq(z, 1, 1)) = Number(z) % 2^1
      BY <2>4, <3>1, NumberParts
    <3>3. 2^1 = 2
      <4>1. 0 \in Nat /\ 0 + 1 = 1
        OBVIOUS
      <4> QED BY <4>1, PowerOfZero, PowerStep
    <3>4. SubSeq(z, 1, 1) = <<z[1]>> /\ z[1] \in {0, 1}
      <4>1. 1 \in 1 .. ((n - i) + 1) + 1 /\ 1 \in 1 - 1 .. (n - i) + 1 /\ 1 \in 1 .. (n - i) + 1
            /\ 1 - 1 + 1 = 1 /\ 1 \in 1 .. 1
        BY <2>1
      <4>2. SubSeq(z, 1, 1) \in Vectors(1) /\ \A j \in 1 .. 1 : SubSeq(z, 1, 1)[j] = z[1 + j - 1]
        BY <2>4, <3>1, <4>1, SubSeqIs
      <4>3. SubSeq(z, 1, 1)[1] = z[1]
        BY <4>1, <4>2
      <4>4. z[1] \in {0, 1}
        BY <2>4, <3>1, <4>1, VectorIs
      <4>5. <<z[1]>> \in Vectors(1) /\ <<z[1]>>[1] = z[1]
        BY <4>4, OneIs
      <4>6. \A j \in 1 .. 1 : SubSeq(z, 1, 1)[j] = <<z[1]>>[j]
        BY <4>3, <4>5
      <4> QED BY <4>2, <4>4, <4>5, <4>6, VectorsEqual
    <3>6. Number(SubSeq(z, 1, 1)) = z[1]
      BY <3>4, NumberOne
    <3> QED BY <3>2, <3>3, <3>6
  <2> QED BY <2>3, <2>5, <2>6
<1>4. \A i \in 1 .. n : Vector(k, n)[i] = x[i]
  BY <1>2, <1>3
<1> QED BY <1>k, <1>2, <1>4, VectorsEqual

LEMMA NumberInjective ==
  ASSUME NEW n \in Nat, NEW x \in Vectors(n), NEW y \in Vectors(n), Number(x) = Number(y)
  PROVE  x = y
BY VectorOfNumber

-----------------------------------------------------------------------------
(* Numbers of repeated, negated and extended vectors. *)
LEMMA RepeatedType ==
  ASSUME NEW n \in Nat, NEW b \in {0, 1}
  PROVE  Repeated(b, n) \in Vectors(n) /\ \A i \in 1 .. n : Repeated(b, n)[i] = b
BY DEF Repeated, Vectors

LEMMA NumberZeros ==
  ASSUME NEW n \in Nat
  PROVE  Number(Repeated(0, n)) = 0
<1>1. Vector(0, n) \in Vectors(n) /\ \A i \in 1 .. n : Vector(0, n)[i] = (0 \div 2^(i - 1)) % 2
  <2>1. 0 \in Int
    OBVIOUS
  <2> QED BY <2>1, VectorType
<1>2. Repeated(0, n) \in Vectors(n) /\ \A i \in 1 .. n : Repeated(0, n)[i] = 0
  BY RepeatedType
<1>3. ASSUME NEW i \in 1 .. n PROVE (0 \div 2^(i - 1)) % 2 = 0
  <2>1. PICK p \in Nat : p = 2^(i - 1) /\ p > 0
    <3>1. i - 1 \in Nat
      OBVIOUS
    <3> QED BY <3>1, PowerPositive
  <2>2. 0 \div p = 0
    BY <2>1
  <2> QED BY <2>1, <2>2
<1>4. Repeated(0, n) = Vector(0, n)
  BY <1>1, <1>2, <1>3, VectorsEqual
<1>5. Number(Vector(0, n)) = 0 % 2^n
  <2>1. 0 \in Int
    OBVIOUS
  <2> QED BY <2>1, NumberVector
<1>6. PICK p \in Nat : p = 2^n /\ p > 0
  BY PowerPositive
<1>7. 0 % p = 0
  BY <1>6
<1> QED BY <1>4, <1>5, <1>6, <1>7

LEMMA NotIs ==
  ASSUME NEW n \in Nat, NEW x \in Vectors(n)
  PROVE  Not(x) \in Vectors(n) /\ \A i \in 1 .. n : Not(x)[i] = 1 - x[i]
<1>1. DOMAIN x = 1 .. n /\ \A i \in 1 .. n : x[i] \in {0, 1}
  BY VectorIs
<1>2. \A i \in 1 .. n : 1 - x[i] \in {0, 1}
  BY <1>1
<1> QED BY <1>1, <1>2 DEF Not, Vectors

LEMMA NumberNot ==
  ASSUME NEW n \in Nat, NEW x \in Vectors(n)
  PROVE  Number(Not(x)) = 2^n - 1 - Number(x)
<1> DEFINE S == {k \in Nat : \A z \in Vectors(k) : Number(Not(z)) = 2^k - 1 - Number(z)}
<1>1. 0 \in S
  <2>1. ASSUME NEW z \in Vectors(0) PROVE Number(Not(z)) = 2^0 - 1 - Number(z)
    <3>1. z = <<>> /\ Not(z) = <<>>
      BY EmptyIs, NotIs
    <3> QED BY <3>1, NumberEmpty, PowerOfZero
  <2> QED BY <2>1
<1>2. ASSUME NEW k \in Nat, k \in S PROVE k + 1 \in S
  <2>1. ASSUME NEW w \in Vectors(k + 1) PROVE Number(Not(w)) = 2^(k + 1) - 1 - Number(w)
    <3>0. k + 1 \in Nat
      OBVIOUS
    <3>1. PICK z, b : /\ z \in Vectors(k) /\ b \in {0, 1} /\ w = Append(z, b)
                      /\ \A i \in 1 .. k : z[i] = w[i]
                      /\ b = w[k + 1]
      <4>1. SubSeq(w, 1, k) \in Vectors(k) /\ w[k + 1] \in {0, 1}
            /\ w = Append(SubSeq(w, 1, k), w[k + 1])
            /\ \A i \in 1 .. k : SubSeq(w, 1, k)[i] = w[i]
        BY LastBit
      <4> QED BY <4>1
    <3>2. Not(z) \in Vectors(k) /\ \A i \in 1 .. k : Not(z)[i] = 1 - z[i]
      BY <3>1, NotIs
    <3>3. Not(w) \in Vectors(k + 1) /\ \A i \in 1 .. k + 1 : Not(w)[i] = 1 - w[i]
      BY <3>0, NotIs
    <3>4. 1 - b \in {0, 1}
      <4>1. b = 0 \/ b = 1
        BY <3>1
      <4>2. CASE b = 0
        BY <4>2
      <4>3. CASE b = 1
        BY <4>3
      <4> QED BY <4>1, <4>2, <4>3
    <3>5. PICK y : y = Append(Not(z), 1 - b)
      OBVIOUS
    <3>6. y \in Vectors(k + 1) /\ (\A i \in 1 .. k : y[i] = Not(z)[i]) /\ y[k + 1] = 1 - b
      BY <3>2, <3>4, <3>5, AppendIs
    <3>7. \A i \in 1 .. k + 1 : i \in 1 .. k \/ i = k + 1
      OBVIOUS
    <3>8. \A i \in 1 .. k + 1 : Not(w)[i] = y[i]
      BY <3>1, <3>2, <3>3, <3>6, <3>7
    <3>9. Not(w) = y
      BY <3>3, <3>6, <3>8, VectorsEqual
    <3>10. Number(y) = Number(Not(z)) + (1 - b) * 2^k
      BY <3>2, <3>4, <3>5, NumberAppend
    <3>11. Number(w) = Number(z) + b * 2^k
      BY <3>1, NumberAppend
    <3>12. Number(Not(z)) = 2^k - 1 - Number(z)
      BY <1>2, <3>1
    <3>13. PICK p \in Nat, s \in Nat : p = 2^k /\ s = Number(z)
      BY <3>1, NumberBound, PowerPositive
    <3>14. 2^(k + 1) = 2 * p
      BY <3>13, PowerStep
    <3>15. Number(w) = s + b * p /\ Number(Not(w)) = p - 1 - s + (1 - b) * p
      BY <3>9, <3>10, <3>11, <3>12, <3>13
    <3>16. (1 - b) * p = p - b * p /\ b * p \in Int
      <4>1. b = 0 \/ b = 1
        BY <3>1
      <4>2. CASE b = 0
        BY <4>2
      <4>3. CASE b = 1
        BY <4>3
      <4> QED BY <4>1, <4>2, <4>3
    <3> QED BY <3>13, <3>14, <3>15, <3>16
  <2> QED BY <2>1
<1> HIDE DEF S
<1>3. n \in S
  BY <1>1, <1>2, Induction
<1> QED BY <1>3 DEF S

LEMMA NumberOnes ==
  ASSUME NEW n \in Nat
  PROVE  Number(Repeated(1, n)) = 2^n - 1
<1>1. Repeated(0, n) \in Vectors(n) /\ \A i \in 1 .. n : Repeated(0, n)[i] = 0
  BY RepeatedType
<1>2. Repeated(1, n) \in Vectors(n) /\ \A i \in 1 .. n : Repeated(1, n)[i] = 1
  BY RepeatedType
<1>3. PICK z : z = Repeated(0, n)
  OBVIOUS
<1>4. Not(z) \in Vectors(n) /\ \A i \in 1 .. n : Not(z)[i] = 1 - z[i]
  BY <1>1, <1>3, NotIs
<1>5. \A i \in 1 .. n : Repeated(1, n)[i] = Not(z)[i]
  BY <1>1, <1>2, <1>3, <1>4
<1>6. Repeated(1, n) = Not(z)
  BY <1>2, <1>4, <1>5, VectorsEqual
<1>7. Number(Not(z)) = 2^n - 1 - 0
  BY <1>1, <1>3, NumberNot, NumberZeros
<1>8. 2^n \in Nat
  BY PowerPositive
<1> QED BY <1>6, <1>7, <1>8

LEMMA PowerOfOne == 2^1 = 2
<1>1. 0 \in Nat /\ 0 + 1 = 1
  OBVIOUS
<1> QED BY <1>1, PowerOfZero, PowerStep

LEMMA NumberCons ==
  ASSUME NEW n \in Nat, NEW x \in Vectors(n), NEW b \in {0, 1}
  PROVE  <<b>> \o x \in Vectors(1 + n) /\ Number(<<b>> \o x) = b + 2 * Number(x)
<1>1. <<b>> \in Vectors(1) /\ 1 \in Nat /\ Number(<<b>>) = b
  BY OneIs, NumberOne
<1>2. Number(<<b>> \o x) = Number(<<b>>) + 2^1 * Number(x)
  BY <1>1, NumberConcat
<1>3. <<b>> \o x \in Vectors(1 + n)
  BY <1>1, ConcatIs
<1> QED BY <1>1, <1>2, <1>3, PowerOfOne

LEMMA NumberZeroExtend ==
  ASSUME NEW n \in Nat, NEW x \in Vectors(n), NEW m \in Nat, n <= m
  PROVE  ZeroExtend(x, m) \in Vectors(m) /\ Number(ZeroExtend(x, m)) = Number(x)
<1>1. m - n \in Nat /\ n + (m - n) = m
  OBVIOUS
<1>2. PICK z : z = Repeated(0, m - n) /\ z \in Vectors(m - n) /\ Number(z) = 0
  BY <1>1, RepeatedType, NumberZeros
<1>3. ZeroExtend(x, m) = x \o z
  BY <1>2, VectorIs DEF ZeroExtend
<1>4. x \o z \in Vectors(n + (m - n))
  BY <1>1, <1>2, ConcatIs
<1>5. Number(x \o z) = Number(x) + 2^n * Number(z)
  BY <1>1, <1>2, NumberConcat
<1>6. 2^n \in Nat /\ Number(x) \in Nat
  BY NumberBound, PowerPositive
<1>7. Number(x \o z) = Number(x)
  BY <1>2, <1>5, <1>6
<1> QED BY <1>1, <1>3, <1>4, <1>7

-----------------------------------------------------------------------------
(* Signs. *)

\* The top bit weighs half of the range.
LEMMA SignedIs ==
  ASSUME NEW n \in Nat, NEW x \in Vectors(n + 1)
  PROVE  /\ Top(x) \in {0, 1} /\ Top(x) = x[n + 1]
         /\ Top(x) = 1 <=> Number(x) >= 2^n
         /\ Signed(x) = Number(x) - Top(x) * (2 * 2^n)
         /\ Signed(x) \in Int /\ -(2^n) <= Signed(x) /\ Signed(x) < 2^n
<1>1. PICK z, b : z \in Vectors(n) /\ b \in {0, 1} /\ x = Append(z, b) /\ b = x[n + 1]
  <2>1. SubSeq(x, 1, n) \in Vectors(n) /\ x[n + 1] \in {0, 1}
        /\ x = Append(SubSeq(x, 1, n), x[n + 1])
    BY LastBit
  <2> QED BY <2>1
<1>2. Len(x) = n + 1
  <2>1. n + 1 \in Nat
    OBVIOUS
  <2> QED BY <2>1, VectorIs
<1>3. Top(x) = b
  BY <1>1, <1>2 DEF Top
<1>4. Number(x) = Number(z) + b * 2^n
  BY <1>1, NumberAppend
<1>5. PICK p \in Nat, s \in Nat : p = 2^n /\ s = Number(z) /\ s < p /\ 2^(n + 1) = 2 * p
  BY <1>1, NumberBound, PowerPositive, PowerStep
<1>6. Number(x) = IF b = 1 THEN s + p ELSE s
  <2>0. b = 0 \/ b = 1
    BY <1>1
  <2>1. CASE b = 0
    BY <1>4, <1>5, <2>1
  <2>2. CASE b = 1
    BY <1>4, <1>5, <2>2
  <2> QED BY <2>0, <2>1, <2>2
<1>7. Signed(x) = Number(x) - (IF b = 1 THEN 2 * p ELSE 0)
  BY <1>2, <1>3, <1>5 DEF Signed
<1>0. b = 0 \/ b = 1
  BY <1>1
<1>8. CASE b = 0
  <2>1. Top(x) = 0 /\ Number(x) = s /\ Signed(x) = s
    BY <1>3, <1>5, <1>6, <1>7, <1>8
  <2>2. Top(x) * (2 * p) = 0
    BY <2>1
  <2>3. Signed(x) = Number(x) - Top(x) * (2 * p)
    BY <2>1, <2>2
  <2>4. Signed(x) \in Int /\ -p <= Signed(x) /\ Signed(x) < p
    BY <1>5, <2>1
  <2>5. Top(x) = 1 <=> Number(x) >= p
    BY <1>5, <2>1
  <2> QED BY <1>1, <1>3, <1>5, <2>1, <2>3, <2>4, <2>5
<1>9. CASE b = 1
  <2>1. Top(x) = 1 /\ Number(x) = s + p /\ Signed(x) = s - p
    BY <1>3, <1>5, <1>6, <1>7, <1>9
  <2>2. Top(x) * (2 * p) = 2 * p
    BY <2>1
  <2>3. Signed(x) = Number(x) - Top(x) * (2 * p)
    BY <2>1, <2>2
  <2>4. Signed(x) \in Int /\ -p <= Signed(x) /\ Signed(x) < p
    BY <1>5, <2>1
  <2>5. Top(x) = 1 <=> Number(x) >= p
    BY <1>5, <2>1
  <2> QED BY <1>1, <1>3, <1>5, <2>1, <2>3, <2>4, <2>5
<1> QED BY <1>0, <1>8, <1>9

\* A vector stands for the signed number in range that it is congruent to.
LEMMA SignedUnique ==
  ASSUME NEW n \in Nat, NEW x \in Vectors(n + 1), NEW v \in Int,
         -(2^n) <= v, v < 2^n, Number(x) = v % (2 * 2^n)
  PROVE  Signed(x) = v
<1>1. PICK p \in Nat : p = 2^n /\ p > 0
  BY PowerPositive
<1>2. PICK q : q = 2 * p /\ q \in Nat
  OBVIOUS
<1>3. v % q = IF v >= 0 THEN v ELSE v + q
  <2>1. CASE v >= 0
    <3>1. Divided(v, q, 0, v)
      BY <1>1, <1>2, <2>1 DEF Divided
    <3> QED BY <2>1, <3>1, DivModUnique
  <2>2. CASE v < 0
    <3>1. Divided(v, q, -1, v + q)
      BY <1>1, <1>2, <2>2 DEF Divided
    <3> QED BY <2>2, <3>1, DivModUnique
  <2> QED BY <2>1, <2>2
<1>4. Number(x) = IF v >= 0 THEN v ELSE v + q
  BY <1>1, <1>2, <1>3
<1>5. /\ Top(x) \in {0, 1}
      /\ Top(x) = 1 <=> Number(x) >= p
      /\ Signed(x) = Number(x) - Top(x) * q
  BY <1>1, <1>2, SignedIs
<1>6. Top(x) * q = IF Top(x) = 1 THEN q ELSE 0
  BY <1>2, <1>5
<1> QED BY <1>1, <1>2, <1>4, <1>5, <1>6

LEMMA NumberSignExtend ==
  ASSUME NEW n \in Nat, NEW x \in Vectors(n + 1), NEW m \in Nat, n + 1 <= m
  PROVE  /\ SignExtend(x, m) \in Vectors(m)
         /\ Number(SignExtend(x, m)) = Signed(x) + Top(x) * 2^m
         /\ \A i \in 1 .. n + 1 : SignExtend(x, m)[i] = x[i]
         /\ \A i \in n + 2 .. m : SignExtend(x, m)[i] = x[n + 1]
<1>1. n + 1 \in Nat /\ m - (n + 1) \in Nat /\ (n + 1) + (m - (n + 1)) = m
  OBVIOUS
<1>2. /\ Len(x) = n + 1
      /\ Top(x) \in {0, 1} /\ Top(x) = x[n + 1]
      /\ Signed(x) = Number(x) - Top(x) * (2 * 2^n) /\ Signed(x) \in Int
  BY <1>1, SignedIs, VectorIs
<1>3. PICK z : /\ z = Repeated(Top(x), m - (n + 1)) /\ z \in Vectors(m - (n + 1))
               /\ \A i \in 1 .. m - (n + 1) : z[i] = Top(x)
  BY <1>1, <1>2, RepeatedType
<1>4. Number(z) = Top(x) * (2^(m - (n + 1)) - 1)
  <2>1. PICK p \in Nat : p = 2^(m - (n + 1))
    BY <1>1, PowerPositive
  <2>2. Number(z) = IF Top(x) = 0 THEN 0 ELSE p - 1
    BY <1>1, <1>2, <1>3, <2>1, NumberZeros, NumberOnes
  <2>3. Top(x) * (p - 1) = IF Top(x) = 0 THEN 0 ELSE p - 1
    BY <1>2, <2>1
  <2> QED BY <2>1, <2>2, <2>3
<1>5. SignExtend(x, m) = x \o z
  BY <1>2, <1>3 DEF SignExtend
<1>6. /\ x \o z \in Vectors((n + 1) + (m - (n + 1)))
      /\ \A i \in 1 .. n + 1 : (x \o z)[i] = x[i]
      /\ \A i \in 1 .. m - (n + 1) : (x \o z)[(n + 1) + i] = z[i]
  <2>1. PICK k \in Nat, h \in Nat : k = n + 1 /\ h = m - (n + 1)
    BY <1>1
  <2>2. x \in Vectors(k) /\ z \in Vectors(h)
    BY <1>3, <2>1
  <2>3. /\ x \o z \in Vectors(k + h)
        /\ \A i \in 1 .. k : (x \o z)[i] = x[i]
        /\ \A i \in 1 .. h : (x \o z)[k + i] = z[i]
    BY ZenonT(60), <2>2, ConcatIs
  <2> QED BY <2>1, <2>3
<1>7. \A i \in n + 2 .. m : (x \o z)[i] = x[n + 1]
  <2>1. ASSUME NEW i \in n + 2 .. m PROVE (x \o z)[i] = x[n + 1]
    <3>1. i - (n + 1) \in 1 .. m - (n + 1) /\ (n + 1) + (i - (n + 1)) = i
      OBVIOUS
    <3>2. (x \o z)[(n + 1) + (i - (n + 1))] = z[i - (n + 1)]
      BY <1>6, <3>1
    <3> QED BY <1>2, <1>3, <3>1, <3>2
  <2> QED BY <2>1
<1>8. Number(x \o z) = Number(x) + 2^(n + 1) * Number(z)
  BY <1>1, <1>3, NumberConcat
<1>9. 2^m = 2^(n + 1) * 2^(m - (n + 1))
  <2>1. 2^((n + 1) + (m - (n + 1))) = 2^(n + 1) * 2^(m - (n + 1))
    BY <1>1, PowerAdds
  <2> QED BY <1>1, <2>1
<1>10. PICK p \in Nat, q \in Nat, t \in {0, 1}, s \in Nat :
         p = 2^(n + 1) /\ q = 2^(m - (n + 1)) /\ t = Top(x) /\ s = Number(x) /\ p = 2 * 2^n
  BY <1>1, <1>2, NumberBound, PowerPositive, PowerStep
<1>11. Number(x \o z) = s + p * (t * (q - 1)) /\ Signed(x) = s - t * p /\ 2^m = p * q
  BY <1>2, <1>4, <1>8, <1>9, <1>10
<1>12. s + p * (t * (q - 1)) = (s - t * p) + t * (p * q)
  <2>1. CASE t = 0
    BY <2>1
  <2>2. CASE t = 1
    BY <2>2
  <2> QED BY <2>1, <2>2
<1>13. Number(x \o z) = Signed(x) + Top(x) * 2^m
  BY <1>10, <1>11, <1>12
<1> QED BY <1>1, <1>5, <1>6, <1>7, <1>13

-----------------------------------------------------------------------------
(* Parts of a vector. *)

\* The number of the n bits from position lo on.
Part(x, lo, n) == Number(SubSeq(x, lo + 1, lo + n))

LEMMA PartType ==
  ASSUME NEW N \in Nat, NEW x \in Vectors(N), NEW lo \in 0 .. N, NEW n \in 0 .. N - lo
  PROVE  SubSeq(x, lo + 1, lo + n) \in Vectors(n) /\ Part(x, lo, n) \in Nat
<1>1. /\ lo + 1 \in 1 .. N + 1 /\ lo + n \in (lo + 1) - 1 .. N
      /\ (lo + n) - (lo + 1) + 1 = n /\ n \in Nat
  OBVIOUS
<1>2. SubSeq(x, lo + 1, lo + n) \in Vectors(n)
  BY <1>1, SubSeqIs
<1> QED BY <1>1, <1>2, NumberBound DEF Part

LEMMA PartEmpty ==
  ASSUME NEW N \in Nat, NEW x \in Vectors(N), NEW lo \in 0 .. N
  PROVE  Part(x, lo, 0) = 0
<1>1. 0 \in 0 .. N - lo
  OBVIOUS
<1>2. SubSeq(x, lo + 1, lo + 0) \in Vectors(0)
  BY <1>1, PartType
<1>3. SubSeq(x, lo + 1, lo + 0) = <<>>
  BY <1>2, EmptyIs
<1> QED BY <1>3, NumberEmpty DEF Part

LEMMA PartWhole ==
  ASSUME NEW N \in Nat, NEW x \in Vectors(N)
  PROVE  Part(x, 0, N) = Number(x)
<1>1. x \in Seq({0, 1}) /\ Len(x) = N
  BY VectorIs
<1>2. SubSeq(x, 1, N) = x
  BY <1>1, SubSeqFull
<1>3. 0 + 1 = 1 /\ 0 + N = N
  OBVIOUS
<1> QED BY <1>2, <1>3 DEF Part

LEMMA PartsJoin ==
  ASSUME NEW N \in Nat, NEW x \in Vectors(N), NEW lo \in 0 .. N, NEW m \in Nat, NEW n \in Nat,
         lo + m + n <= N
  PROVE  Part(x, lo, m + n) = Part(x, lo, m) + 2^m * Part(x, lo + m, n)
<1>1. x \in Seq({0, 1}) /\ Len(x) = N
  BY VectorIs
<1>2. PICK i \in 0 .. N : i = lo + m
  OBVIOUS
<1>3. PICK y, z : y = SubSeq(x, lo + 1, i) /\ z = SubSeq(x, i + 1, i + n)
  OBVIOUS
<1>4. y \in Vectors(m)
  <2>1. m \in 0 .. N - lo
    OBVIOUS
  <2>2. SubSeq(x, lo + 1, lo + m) \in Vectors(m)
    BY <2>1, PartType
  <2> QED BY <1>2, <1>3, <2>2
<1>5. z \in Vectors(n)
  <2>1. n \in 0 .. N - i
    BY <1>2
  <2> QED BY <1>3, <2>1, PartType
<1>6. y \o z = SubSeq(x, lo + 1, i + n)
  <2>1. lo + 1 \in 1 .. Len(x) + 1 /\ i \in (lo + 1) - 1 .. Len(x) /\ i + n \in i .. Len(x)
    BY <1>1, <1>2
  <2> QED BY <1>1, <1>3, <2>1, ConcatAdjacentSubSeq
<1>7. Number(y \o z) = Number(y) + 2^m * Number(z)
  BY <1>4, <1>5, NumberConcat
<1>8. lo + (m + n) = i + n
  BY <1>2
<1> QED BY <1>2, <1>3, <1>6, <1>7, <1>8 DEF Part

LEMMA PartOne ==
  ASSUME NEW N \in Nat, NEW x \in Vectors(N), NEW i \in 0 .. N - 1
  PROVE  x[i + 1] \in {0, 1} /\ Part(x, i, 1) = x[i + 1]
<1>1. i \in 0 .. N /\ 1 \in 0 .. N - i /\ i + 1 \in 1 .. N /\ 1 \in 1 .. 1
  OBVIOUS
<1>2. x[i + 1] \in {0, 1}
  BY <1>1, VectorIs
<1>3. SubSeq(x, i + 1, i + 1) \in Vectors(1)
  BY <1>1, PartType
<1>4. SubSeq(x, i + 1, i + 1)[1] = x[i + 1]
  <2>1. i + 1 \in 1 .. N + 1 /\ i + 1 \in (i + 1) - 1 .. N /\ 1 \in 1 .. (i + 1) - (i + 1) + 1
        /\ (i + 1) + 1 - 1 = i + 1
    OBVIOUS
  <2>2. \A k \in 1 .. (i + 1) - (i + 1) + 1 :
          SubSeq(x, i + 1, i + 1)[k] = x[(i + 1) + k - 1]
    BY <2>1, SubSeqIs
  <2>3. SubSeq(x, i + 1, i + 1)[1] = x[(i + 1) + 1 - 1]
    BY <2>1, <2>2
  <2> QED BY <2>1, <2>3
<1>5. <<x[i + 1]>> \in Vectors(1) /\ <<x[i + 1]>>[1] = x[i + 1]
  BY <1>2, OneIs
<1>6. \A k \in 1 .. 1 : SubSeq(x, i + 1, i + 1)[k] = <<x[i + 1]>>[k]
  BY <1>4, <1>5
<1>7. SubSeq(x, i + 1, i + 1) = <<x[i + 1]>>
  BY <1>3, <1>5, <1>6, VectorsEqual
<1> QED BY <1>2, <1>7, NumberOne DEF Part

-----------------------------------------------------------------------------
(* The adder. *)
Blocks(n) == [P : Bit, G : Bit, C : Bit, S : Vectors(n)]

\* r is the sum of the n bits of a and b from position lo on and the carry c.
Adds(r, a, b, lo, n, c) ==
  /\ r \in Blocks(n)
  /\ r.C = Carry(r, c)
  /\ Number(r.S) + 2^n * r.C = Part(a, lo, n) + Part(b, lo, n) + c

LEMMA BlockIs ==
  ASSUME NEW n, NEW r \in Blocks(n)
  PROVE  r.P \in {0, 1} /\ r.G \in {0, 1} /\ r.C \in {0, 1} /\ r.S \in Vectors(n)
BY DEF Blocks, Bit

\* Bits P, G, C of a block, the carry c into it, the next bits x and y, the bits P1, G1, C1 of
\* the block with them and their sum s.
NextBits(P, G, C, c, x, y, p, g, P1, G1, C1, s) ==
  /\ P \in {0, 1} /\ G \in {0, 1} /\ C \in {0, 1} /\ c \in {0, 1} /\ x \in {0, 1} /\ y \in {0, 1}
  /\ C = IF G = 1 THEN 1 ELSE P * c
  /\ p = (x + y) % 2
  /\ g = x * y
  /\ P1 = P * p
  /\ G1 = (g + p * G) % 2
  /\ C1 = (g + p * C) % 2
  /\ s = (p + C) % 2

LEMMA FullAdderBits ==
  ASSUME NEW P, NEW G, NEW C, NEW c, NEW x, NEW y, NEW p, NEW g, NEW P1, NEW G1, NEW C1, NEW s,
         NextBits(P, G, C, c, x, y, p, g, P1, G1, C1, s)
  PROVE  /\ P1 \in {0, 1} /\ G1 \in {0, 1} /\ C1 \in {0, 1} /\ s \in {0, 1}
         /\ C1 = IF G1 = 1 THEN 1 ELSE P1 * c
         /\ s + 2 * C1 = x + y + C
<1>0. /\ P \in {0, 1} /\ G \in {0, 1} /\ C \in {0, 1} /\ c \in {0, 1} /\ x \in {0, 1} /\ y \in {0, 1}
      /\ C = IF G = 1 THEN 1 ELSE P * c
      /\ p = (x + y) % 2
      /\ g = x * y
      /\ P1 = P * p
      /\ G1 = (g + p * G) % 2
      /\ C1 = (g + p * C) % 2
      /\ s = (p + C) % 2
  BY DEF NextBits
<1>1. p \in {0, 1} /\ g \in {0, 1} /\ (p = 1 <=> x # y) /\ (g = 1 <=> x = 1 /\ y = 1)
  <2>1. CASE x = 0
    BY <1>0, <2>1
  <2>2. CASE x = 1
    BY <1>0, <2>2
  <2> QED BY <1>0, <2>1, <2>2
<1>2. CASE p = 0
  <2>1. P * p = 0 /\ p * G = 0 /\ p * C = 0 /\ (P * p) * c = 0
    BY <1>0, <1>2
  <2> QED BY <1>0, <1>1, <1>2, <2>1
<1>3. CASE p = 1
  <2>1. P * p = P /\ p * G = G /\ p * C = C
    BY <1>0, <1>3
  <2>2. P * c \in {0, 1}
    <3>1. CASE c = 0
      BY <1>0, <3>1
    <3>2. CASE c = 1
      BY <1>0, <3>2
    <3> QED BY <1>0, <3>1, <3>2
  <2>3. g = 0
    BY <1>1, <1>3
  <2> QED BY <1>0, <1>1, <1>3, <2>1, <2>2, <2>3
<1> QED BY <1>0, <1>1, <1>2, <1>3

LEMMA FullAdderAdds ==
  ASSUME NEW N \in Nat, NEW a \in Vectors(N), NEW b \in Vectors(N), NEW lo \in 0 .. N,
         NEW k \in Nat, lo + k + 1 <= N, NEW c \in {0, 1}, NEW r, Adds(r, a, b, lo, k, c),
         NEW x, NEW y, x = a[lo + k + 1], y = b[lo + k + 1]
  PROVE  Adds(FullAdder(r, (x + y) % 2, x * y), a, b, lo, k + 1, c)
<1>0. lo + k \in 0 .. N - 1 /\ lo + k + 1 = (lo + k) + 1 /\ k + 1 \in Nat
  OBVIOUS
<1>1. x \in {0, 1} /\ y \in {0, 1} /\ Part(a, lo + k, 1) = x /\ Part(b, lo + k, 1) = y
  BY <1>0, PartOne
<1>2. PICK p, g : p = (x + y) % 2 /\ g = x * y
  OBVIOUS
<1>3. /\ r \in Blocks(k) /\ r.C = IF r.G = 1 THEN 1 ELSE r.P * c
      /\ Number(r.S) + 2^k * r.C = Part(a, lo, k) + Part(b, lo, k) + c
  BY DEF Adds, Carry
<1>4. r.P \in {0, 1} /\ r.G \in {0, 1} /\ r.C \in {0, 1} /\ r.S \in Vectors(k)
  BY <1>3, BlockIs
<1>5. PICK P, G, C, s : /\ P = r.P * p /\ G = (g + p * r.G) % 2 /\ C = (g + p * r.C) % 2
                        /\ s = (p + r.C) % 2
  OBVIOUS
<1>6. /\ P \in {0, 1} /\ G \in {0, 1} /\ C \in {0, 1} /\ s \in {0, 1}
      /\ C = IF G = 1 THEN 1 ELSE P * c
      /\ s + 2 * C = x + y + r.C
  <2>1. NextBits(r.P, r.G, r.C, c, x, y, p, g, P, G, C, s)
    BY <1>1, <1>2, <1>3, <1>4, <1>5 DEF NextBits
  <2> QED BY <2>1, FullAdderBits
<1>7. PICK f : f = FullAdder(r, p, g)
  OBVIOUS
<1>8. f.P = P /\ f.G = G /\ f.C = C /\ f.S = Append(r.S, s) /\ f = [P |-> P, G |-> G, C |-> C, S |-> Append(r.S, s)]
  BY <1>5, <1>7 DEF FullAdder
<1>9. Append(r.S, s) \in Vectors(k + 1) /\ Number(Append(r.S, s)) = Number(r.S) + s * 2^k
  BY <1>4, <1>6, AppendIs, NumberAppend
<1>10. f \in Blocks(k + 1)
  BY <1>6, <1>8, <1>9 DEF Blocks, Bit
<1>11. f.C = Carry(f, c)
  BY <1>6, <1>8 DEF Carry
<1>12. Part(a, lo, k + 1) = Part(a, lo, k) + 2^k * x /\ Part(b, lo, k + 1) = Part(b, lo, k) + 2^k * y
  <2>1. 1 \in Nat /\ lo + k + 1 <= N
    OBVIOUS
  <2> QED BY <1>1, <2>1, PartsJoin
<1>13. PICK q \in Nat, A \in Nat, B \in Nat, S \in Nat :
         q = 2^k /\ A = Part(a, lo, k) /\ B = Part(b, lo, k) /\ S = Number(r.S)
  <2>1. k \in 0 .. N - lo
    BY <1>0
  <2> QED BY <1>4, <2>1, PartType, NumberBound, PowerPositive
<1>14. S + q * r.C = A + B + c
  BY <1>3, <1>13
<1>15. (S + s * q) + (2 * q) * C = (A + q * x) + (B + q * y) + c
  <2>1. q * (s + 2 * C) = q * (x + y + r.C)
    BY <1>6
  <2>2. q * (s + 2 * C) = s * q + (2 * q) * C
    BY <1>6
  <2>3. q * (x + y + r.C) = q * x + q * y + q * r.C
    <3>1. x \in Int /\ y \in Int /\ r.C \in Int
      BY <1>1, <1>4
    <3> QED BY <3>1
  <2>4. PICK h \in Int, i \in Int, j \in Int, l \in Int, m \in Int :
          h = s * q /\ i = (2 * q) * C /\ j = q * x /\ l = q * y /\ m = q * r.C
    BY <1>1, <1>4, <1>6
  <2>5. h + i = j + l + m
    BY <2>1, <2>2, <2>3, <2>4
  <2>6. S + m = A + B + c
    BY <1>14, <2>4
  <2>7. (S + h) + i = (A + j) + (B + l) + c
    BY <2>5, <2>6
  <2> QED BY <2>4, <2>7
<1>16. 2^(k + 1) = 2 * q
  BY <1>13, PowerStep
<1>17. Number(f.S) + 2^(k + 1) * f.C = Part(a, lo, k + 1) + Part(b, lo, k + 1) + c
  BY <1>8, <1>9, <1>12, <1>13, <1>15, <1>16
<1> QED BY <1>2, <1>7, <1>10, <1>11, <1>17 DEF Adds

\* The blocks of the first k bits from lo on.
AddingBlocks(a, b, lo, k, c) == {r \in Blocks(k) : Adds(r, a, b, lo, k, c)}

LEMMA RippleAdds ==
  ASSUME NEW N \in Nat, NEW a \in Vectors(N), NEW b \in Vectors(N), NEW lo \in 0 .. N,
         NEW n \in Nat, lo + n <= N, NEW c \in {0, 1}
  PROVE  Adds(RippleBlock(a, b, lo, n, c), a, b, lo, n, c)
<1> DEFINE V == [k \in 0 .. n |-> AddingBlocks(a, b, lo, k, c)]
           U == UNION {AddingBlocks(a, b, lo, k, c) : k \in 0 .. n}
           start == [P |-> 1, G |-> 0, C |-> c, S |-> <<>>]
           Bits1(f, k) == FullAdder(f, (a[lo + k] + b[lo + k]) % 2, a[lo + k] * b[lo + k])
           step == [k \in 1 .. n |-> [f \in U |-> Bits1(f, k)]]
           Layers(f) == [k \in 0 .. n |-> IF k = 0 THEN start ELSE Bits1(f[k - 1], k)]
<1>1. V \in [0 .. n -> SUBSET U] /\ \A k \in 0 .. n : V[k] = AddingBlocks(a, b, lo, k, c)
  OBVIOUS
<1>2. start \in AddingBlocks(a, b, lo, 0, c)
  <2>1. start \in Blocks(0) /\ start.C = c /\ start.S = <<>> /\ start.P = 1 /\ start.G = 0
    BY EmptyIs DEF Blocks, Bit
  <2>2. start.C = Carry(start, c)
    BY <2>1 DEF Carry
  <2>3. Number(start.S) = 0 /\ Part(a, lo, 0) = 0 /\ Part(b, lo, 0) = 0 /\ 2^0 = 1
    BY <2>1, NumberEmpty, PartEmpty, PowerOfZero
  <2>4. Number(start.S) + 2^0 * start.C = Part(a, lo, 0) + Part(b, lo, 0) + c
    BY <2>1, <2>3
  <2> QED BY <2>1, <2>2, <2>4 DEF AddingBlocks, Adds
<1>3. ASSUME NEW k \in 1 .. n, NEW f \in AddingBlocks(a, b, lo, k - 1, c)
      PROVE  Bits1(f, k) \in AddingBlocks(a, b, lo, k, c)
  <2>1. k - 1 \in Nat /\ lo + (k - 1) + 1 <= N /\ (k - 1) + 1 = k /\ lo + (k - 1) + 1 = lo + k
    OBVIOUS
  <2>2. PICK x, y : x = a[lo + k] /\ y = b[lo + k]
    OBVIOUS
  <2>3. Adds(f, a, b, lo, k - 1, c)
    BY DEF AddingBlocks
  <2>4. Adds(FullAdder(f, (x + y) % 2, x * y), a, b, lo, (k - 1) + 1, c)
    BY <2>1, <2>2, <2>3, FullAdderAdds
  <2>5. Adds(Bits1(f, k), a, b, lo, k, c)
    BY <2>1, <2>2, <2>4
  <2> QED BY <2>5 DEF AddingBlocks, Adds
<1> HIDE DEF start, Bits1
<1>4. ASSUME NEW k \in 1 .. n, NEW f \in V[k - 1] PROVE step[k][f] = Bits1(f, k) /\ step[k][f] \in V[k]
  <2>1. k \in 0 .. n /\ k - 1 \in 0 .. n
    OBVIOUS
  <2>2. f \in U /\ f \in AddingBlocks(a, b, lo, k - 1, c)
    BY <1>1, <2>1
  <2>3. step[k][f] = Bits1(f, k)
    BY <2>2
  <2> QED BY <1>1, <1>3, <2>1, <2>2, <2>3
<1> HIDE DEF V, U, step
<1>5. StepsOn(n, U, V, start, step)
  <2>1. 0 \in 0 .. n
    OBVIOUS
  <2> QED BY <1>1, <1>2, <1>4, <2>1 DEF StepsOn
<1>6. PICK f : IsRecursive(f, n, U, V, start, step)
  BY <1>5, RecursiveFunction
<1>7. f = Layers(f)
  <2>1. f \in [0 .. n -> U] /\ f[0] = start /\ (\A k \in 0 .. n : f[k] \in V[k])
        /\ \A k \in 1 .. n : f[k] = step[k][f[k - 1]]
    BY <1>6 DEF IsRecursive
  <2>2. ASSUME NEW k \in 0 .. n PROVE f[k] = IF k = 0 THEN start ELSE Bits1(f[k - 1], k)
    <3>1. CASE k = 0
      BY <2>1, <3>1
    <3>2. CASE k # 0
      <4>1. k \in 1 .. n /\ k - 1 \in 0 .. n
        BY <3>2
      <4> QED BY <1>4, <2>1, <3>2, <4>1
    <3> QED BY <3>1, <3>2
  <2>3. f = [k \in 0 .. n |-> f[k]]
    BY <2>1
  <2> QED BY <2>2, <2>3
<1>8. PICK v : v = Layers(v) /\ v = CHOOSE value : value = Layers(value)
  <2> HIDE DEF Layers
  <2> QED BY <1>7
<1>9. RippleBlock(a, b, lo, n, c) = v[n]
  BY <1>8 DEF RippleBlock, start, Bits1
<1>10. v[0] = start /\ \A k \in 1 .. n : v[k] = Bits1(v[k - 1], k)
  <2>1. \A k \in 1 .. n : k \in 0 .. n /\ k # 0
    OBVIOUS
  <2>2. 0 \in 0 .. n
    OBVIOUS
  <2>3. \A k \in 0 .. n : v[k] = IF k = 0 THEN start ELSE Bits1(v[k - 1], k)
    BY <1>8
  <2> QED BY <2>1, <2>2, <2>3
<1>11. \A k \in 0 .. n : v[k] \in V[k]
  <2>0. 0 \in 0 .. n
    OBVIOUS
  <2>1. v[0] \in V[0]
    BY <1>1, <1>2, <1>10, <2>0
  <2>2. ASSUME NEW k \in 1 .. n, v[k - 1] \in V[k - 1] PROVE v[k] \in V[k]
    <3>1. v[k] = Bits1(v[k - 1], k)
      BY <1>10
    <3>2. k \in 0 .. n /\ k - 1 \in 0 .. n
      OBVIOUS
    <3>3. v[k - 1] \in AddingBlocks(a, b, lo, k - 1, c)
      BY <1>1, <2>2, <3>2
    <3> QED BY <1>1, <1>3, <3>1, <3>2, <3>3
  <2> QED BY <2>1, <2>2, RecursiveValues
<1>12. n \in 0 .. n
  OBVIOUS
<1> QED BY <1>1, <1>9, <1>11, <1>12 DEF AddingBlocks

LEMMA JoinedAdds ==
  ASSUME NEW N \in Nat, NEW a \in Vectors(N), NEW b \in Vectors(N), NEW lo \in 0 .. N,
         NEW m \in Nat, NEW n \in Nat, lo + m + n <= N, NEW c \in {0, 1},
         NEW low, NEW high, Adds(low, a, b, lo, m, c),
         Adds(high, a, b, lo + m, n, Carry(low, c))
  PROVE  Adds(Joined(low, high), a, b, lo, m + n, c)
<1>1. /\ low \in Blocks(m) /\ low.C = Carry(low, c)
      /\ Number(low.S) + 2^m * low.C = Part(a, lo, m) + Part(b, lo, m) + c
  BY DEF Adds
<1>2. /\ high \in Blocks(n) /\ high.C = Carry(high, low.C)
      /\ Number(high.S) + 2^n * high.C = Part(a, lo + m, n) + Part(b, lo + m, n) + low.C
  BY <1>1 DEF Adds
<1>3. /\ low.P \in {0, 1} /\ low.G \in {0, 1} /\ low.C \in {0, 1} /\ low.S \in Vectors(m)
      /\ high.P \in {0, 1} /\ high.G \in {0, 1} /\ high.C \in {0, 1} /\ high.S \in Vectors(n)
  BY <1>1, <1>2, BlockIs
<1>4. PICK f : f = Joined(low, high)
  OBVIOUS
<1>5. /\ f.P = low.P * high.P /\ f.G = (IF high.G = 1 THEN 1 ELSE high.P * low.G) /\ f.C = high.C
      /\ f.S = low.S \o high.S
      /\ f = [P |-> f.P, G |-> f.G, C |-> f.C, S |-> f.S]
  BY <1>4 DEF Joined
<1>6. low.P * high.P \in {0, 1} /\ high.P * low.G \in {0, 1}
  <2>1. CASE high.P = 0
    BY <1>3, <2>1
  <2>2. CASE high.P = 1
    BY <1>3, <2>2
  <2> QED BY <1>3, <2>1, <2>2
<1>7. low.S \o high.S \in Vectors(m + n)
      /\ Number(low.S \o high.S) = Number(low.S) + 2^m * Number(high.S)
  BY ZenonT(60), <1>3, ConcatIs, NumberConcat
<1>8. f \in Blocks(m + n)
  <2>1. f.P \in Bit /\ f.G \in Bit /\ f.C \in Bit /\ f.S \in Vectors(m + n)
    BY <1>3, <1>5, <1>6, <1>7 DEF Bit
  <2> QED BY <1>5, <2>1 DEF Blocks
<1>9. f.C = Carry(f, c)
  <2>1. low.C = (IF low.G = 1 THEN 1 ELSE low.P * c) /\ high.C = (IF high.G = 1 THEN 1 ELSE high.P * low.C)
    BY <1>1, <1>2 DEF Carry
  <2>2. high.C = IF f.G = 1 THEN 1 ELSE f.P * c
    <3>1. CASE high.P = 0
      BY <1>3, <1>5, <2>1, <3>1
    <3>2. CASE high.P = 1
      BY <1>3, <1>5, <2>1, <3>2
    <3> QED BY <1>3, <3>1, <3>2
  <2> QED BY <1>5, <2>2 DEF Carry
<1>10. Part(a, lo, m + n) = Part(a, lo, m) + 2^m * Part(a, lo + m, n)
       /\ Part(b, lo, m + n) = Part(b, lo, m) + 2^m * Part(b, lo + m, n)
  BY PartsJoin
<1>11. PICK p \in Nat, q \in Nat, A \in Nat, B \in Nat, D \in Nat, E \in Nat, S \in Nat, T \in Nat :
         /\ p = 2^m /\ q = 2^n /\ A = Part(a, lo, m) /\ B = Part(b, lo, m)
         /\ D = Part(a, lo + m, n) /\ E = Part(b, lo + m, n)
         /\ S = Number(low.S) /\ T = Number(high.S)
  <2>1. m \in 0 .. N - lo /\ lo + m \in 0 .. N /\ n \in 0 .. N - (lo + m)
    OBVIOUS
  <2> QED BY <1>3, <2>1, PartType, NumberBound, PowerPositive
<1>12. S + p * low.C = A + B + c /\ T + q * high.C = D + E + low.C
  BY <1>1, <1>2, <1>11
<1>13. (S + p * T) + (p * q) * high.C = (A + p * D) + (B + p * E) + c
  <2>0. low.C \in Int /\ high.C \in Int
    BY <1>3
  <2>1. p * (T + q * high.C) = p * (D + E + low.C)
    BY <1>12
  <2>2. p * (T + q * high.C) = p * T + (p * q) * high.C
    BY <2>0
  <2>3. p * (D + E + low.C) = p * D + p * E + p * low.C
    BY <2>0
  <2>4. PICK h \in Int, i \in Int, j \in Int, k \in Int, l \in Int :
          h = p * T /\ i = (p * q) * high.C /\ j = p * D /\ k = p * E /\ l = p * low.C
    BY <2>0
  <2>5. h + i = j + k + l
    BY <2>1, <2>2, <2>3, <2>4
  <2>6. S + l = A + B + c
    BY <1>12, <2>4
  <2>7. (S + h) + i = (A + j) + (B + k) + c
    BY <2>5, <2>6
  <2> QED BY <2>4, <2>7
<1>14. 2^(m + n) = p * q
  BY <1>11, PowerAdds
<1>15. Number(f.S) + 2^(m + n) * f.C = Part(a, lo, m + n) + Part(b, lo, m + n) + c
  BY <1>5, <1>7, <1>10, <1>11, <1>13, <1>14
<1> QED BY <1>4, <1>8, <1>9, <1>15 DEF Adds

\* The blocks of n bits, by their place and the carry into them.
BlockTable(a, b, N, n) ==
  {h \in [0 .. N - n -> [{0, 1} -> Blocks(n)]] :
     \A lo \in 0 .. N - n : \A c \in {0, 1} : Adds(h[lo][c], a, b, lo, n, c)}

\* One level of the recursion of Block, from the table g of the smaller blocks.
BlockFrom(a, b, n, g, lo, c) ==
  IF n <= RippleLength THEN RippleBlock(a, b, lo, n, c)
  ELSE LET mid  == n \div 2
           low  == g[mid][lo][c]
           high == g[n - mid][lo + mid][Carry(low, c)]
       IN  Joined(low, high)

BlockLevel(a, b, N, n, g) == [lo \in 0 .. N - n |-> [c \in {0, 1} |-> BlockFrom(a, b, n, g, lo, c)]]

LEMMA BlockFromAdds ==
  ASSUME NEW N \in Nat, NEW a \in Vectors(N), NEW b \in Vectors(N), NEW n \in 0 .. N, NEW g,
         \A k \in 0 .. n - 1 : g[k] \in BlockTable(a, b, N, k),
         NEW lo \in 0 .. N - n, NEW c \in {0, 1}
  PROVE  Adds(BlockFrom(a, b, n, g, lo, c), a, b, lo, n, c)
<1>1. CASE n <= RippleLength
  <2>1. n \in Nat /\ lo \in 0 .. N /\ lo + n <= N
    OBVIOUS
  <2>2. BlockFrom(a, b, n, g, lo, c) = RippleBlock(a, b, lo, n, c)
    BY <1>1 DEF BlockFrom
  <2> QED BY <2>1, <2>2, RippleAdds
<1>2. CASE ~ (n <= RippleLength)
  <2>1. PICK m, h : m = n \div 2 /\ h = n - m
    OBVIOUS
  <2>2. /\ m \in 0 .. n - 1 /\ h \in 0 .. n - 1 /\ m \in Nat /\ h \in Nat /\ m + h = n
        /\ lo \in 0 .. N /\ lo + m + h <= N /\ lo \in 0 .. N - m /\ lo + m \in 0 .. N - h
    <3>1. n > 4
      BY <1>2 DEF RippleLength
    <3> QED BY <2>1, <3>1
  <2>3. PICK low : low = g[m][lo][c]
    OBVIOUS
  <2>4. Adds(low, a, b, lo, m, c)
    BY <2>2, <2>3 DEF BlockTable
  <2>5. Carry(low, c) \in {0, 1}
    <3>1. low \in Blocks(m) /\ low.C = Carry(low, c)
      BY <2>4 DEF Adds
    <3> QED BY <3>1, BlockIs
  <2>6. PICK high : high = g[h][lo + m][Carry(low, c)]
    OBVIOUS
  <2>7. Adds(high, a, b, lo + m, h, Carry(low, c))
    BY <2>2, <2>5, <2>6 DEF BlockTable
  <2>8. Adds(Joined(low, high), a, b, lo, m + h, c)
    BY <2>2, <2>4, <2>7, JoinedAdds
  <2>9. BlockFrom(a, b, n, g, lo, c) = Joined(low, high)
    BY <1>2, <2>1, <2>3, <2>6 DEF BlockFrom
  <2> QED BY <2>2, <2>8, <2>9
<1> QED BY <1>1, <1>2

LEMMA BlockLevelAdds ==
  ASSUME NEW N \in Nat, NEW a \in Vectors(N), NEW b \in Vectors(N), NEW n \in 0 .. N, NEW g,
         \A k \in 0 .. n - 1 : g[k] \in BlockTable(a, b, N, k)
  PROVE  BlockLevel(a, b, N, n, g) \in BlockTable(a, b, N, n)
<1>1. \A lo \in 0 .. N - n : \A c \in {0, 1} : Adds(BlockFrom(a, b, n, g, lo, c), a, b, lo, n, c)
  BY BlockFromAdds
<1>2. \A lo \in 0 .. N - n : \A c \in {0, 1} : BlockFrom(a, b, n, g, lo, c) \in Blocks(n)
  BY <1>1 DEF Adds
<1>3. BlockLevel(a, b, N, n, g) \in [0 .. N - n -> [{0, 1} -> Blocks(n)]]
  BY <1>2 DEF BlockLevel
<1>4. \A lo \in 0 .. N - n : \A c \in {0, 1} :
        BlockLevel(a, b, N, n, g)[lo][c] = BlockFrom(a, b, n, g, lo, c)
  BY DEF BlockLevel
<1> QED BY <1>1, <1>3, <1>4 DEF BlockTable

\* A level depends on the smaller levels only.
LEMMA BlockLevelLooksBack ==
  ASSUME NEW N \in Nat, NEW a \in Vectors(N), NEW b \in Vectors(N), NEW n \in 0 .. N,
         NEW g, NEW h, \A k \in 0 .. n - 1 : g[k] = h[k]
  PROVE  BlockLevel(a, b, N, n, g) = BlockLevel(a, b, N, n, h)
<1>1. ASSUME NEW lo \in 0 .. N - n, NEW c \in {0, 1}
      PROVE  BlockFrom(a, b, n, g, lo, c) = BlockFrom(a, b, n, h, lo, c)
  <2>1. CASE n <= RippleLength
    BY <2>1 DEF BlockFrom
  <2>2. CASE ~ (n <= RippleLength)
    <3>1. n \div 2 \in 0 .. n - 1 /\ n - (n \div 2) \in 0 .. n - 1
      BY <2>2 DEF RippleLength
    <3>2. g[n \div 2] = h[n \div 2] /\ g[n - (n \div 2)] = h[n - (n \div 2)]
      BY <3>1
    <3> QED BY <3>2 DEF BlockFrom
  <2> QED BY <2>1, <2>2
<1> QED BY <1>1 DEF BlockLevel

LEMMA BlockAdds ==
  ASSUME NEW N \in Nat, NEW a \in Vectors(N), NEW b \in Vectors(N), NEW cin \in {0, 1}
  PROVE  Adds(Block(a, b, cin), a, b, 0, N, cin)
<1> DEFINE V == [n \in 0 .. N |-> BlockTable(a, b, N, n)]
           U == {0} \cup UNION {BlockTable(a, b, N, n) : n \in 0 .. N}
           step == [n \in 0 .. N |-> [g \in [0 .. N -> U] |-> BlockLevel(a, b, N, n, g)]]
           Layers(g) == [n \in 0 .. N |-> BlockLevel(a, b, N, n, g)]
<1>1. V \in [0 .. N -> SUBSET U] /\ U # {} /\ \A n \in 0 .. N : V[n] = BlockTable(a, b, N, n)
  OBVIOUS
<1>2. \A n \in 0 .. N : \A g \in [0 .. N -> U] : step[n][g] = BlockLevel(a, b, N, n, g)
  OBVIOUS
<1>3. \A n \in 0 .. N : \A k \in 0 .. n - 1 : k \in 0 .. N
  OBVIOUS
<1> HIDE DEF V, U, step
<1>4. ASSUME NEW n \in 0 .. N, NEW g, \A k \in 0 .. n - 1 : g[k] \in V[k]
      PROVE  BlockLevel(a, b, N, n, g) \in V[n]
  <2>1. \A k \in 0 .. n - 1 : g[k] \in BlockTable(a, b, N, k)
    BY <1>1, <1>3, <1>4
  <2> QED BY <1>1, <2>1, BlockLevelAdds
<1>5. LooksBack(N, U, V, step)
  <2>1. ASSUME NEW n \in 0 .. N, NEW g \in [0 .. N -> U], \A k \in 0 .. n - 1 : g[k] \in V[k]
        PROVE  step[n][g] \in V[n]
    BY <1>2, <1>4, <2>1
  <2>2. ASSUME NEW n \in 0 .. N, NEW g \in [0 .. N -> U], NEW h \in [0 .. N -> U],
               \A k \in 0 .. n - 1 : g[k] = h[k] /\ g[k] \in V[k]
        PROVE  step[n][g] = step[n][h]
    BY SMTT(30), <1>2, <2>2, BlockLevelLooksBack
  <2> QED BY <1>1, <2>1, <2>2 DEF LooksBack
<1>6. PICK f : IsRecursiveTo(f, N, N, U, V, step)
  BY <1>5, StrongRecursiveFunction
<1>7. f = Layers(f)
  <2>1. f \in [0 .. N -> U] /\ \A n \in 0 .. N : f[n] = step[n][f]
    BY <1>6 DEF IsRecursiveTo
  <2>2. \A n \in 0 .. N : f[n] = BlockLevel(a, b, N, n, f)
    BY <1>2, <2>1
  <2>3. f = [n \in 0 .. N |-> f[n]]
    BY <2>1
  <2> QED BY <2>2, <2>3
<1>8. PICK v : v = Layers(v) /\ v = CHOOSE block : block = Layers(block)
  <2> HIDE DEF Layers
  <2> QED BY <1>7
<1>9. Block(a, b, cin) = v[N][0][cin]
  <2>1. Len(a) = N
    BY VectorIs
  <2>2. Block(a, b, cin)
          = (CHOOSE block : block = [n \in 0 .. Len(a) |-> BlockLevel(a, b, Len(a), n, block)])[Len(a)][0][cin]
    BY DEF Block, BlockLevel, BlockFrom
  <2> QED BY <1>8, <2>1, <2>2
<1>10. \A n \in 0 .. N : v[n] \in V[n]
  <2>1. \A n \in 0 .. N : v[n] = BlockLevel(a, b, N, n, v)
    BY <1>8
  <2>2. ASSUME NEW n \in 0 .. N, \A k \in 0 .. n - 1 : v[k] \in V[k] PROVE v[n] \in V[n]
    BY <1>4, <2>1, <2>2
  <2> QED BY <2>2, StrongRecursiveValues
<1>11. v[N] \in BlockTable(a, b, N, N)
  <2>1. N \in 0 .. N
    OBVIOUS
  <2> QED BY <1>1, <1>10, <2>1
<1>12. 0 \in 0 .. N - N
  OBVIOUS
<1> QED BY <1>9, <1>11, <1>12 DEF BlockTable

\* The adder adds, and drops the carry out of the top bit.
THEOREM AddIs ==
  ASSUME NEW N \in Nat, NEW a \in Vectors(N), NEW b \in Vectors(N), NEW cin \in {0, 1}
  PROVE  /\ Add(a, b, cin) \in Vectors(N)
         /\ Number(Add(a, b, cin)) = (Number(a) + Number(b) + cin) % 2^N
<1>1. PICK r : r = Block(a, b, cin)
  OBVIOUS
<1>2. /\ r \in Blocks(N)
      /\ Number(r.S) + 2^N * r.C = Part(a, 0, N) + Part(b, 0, N) + cin
  BY <1>1, BlockAdds DEF Adds
<1>3. Part(a, 0, N) = Number(a) /\ Part(b, 0, N) = Number(b)
  BY PartWhole
<1>4. r.C \in {0, 1} /\ r.S \in Vectors(N)
  BY <1>2, BlockIs
<1>5. PICK p \in Nat, s \in Nat, c \in {0, 1} : p = 2^N /\ s = Number(r.S) /\ c = r.C /\ s < p
  BY <1>4, NumberBound, PowerPositive
<1>6. Divided(Number(a) + Number(b) + cin, p, c, s)
  <2>1. p * c = c * p /\ c \in Int
    OBVIOUS
  <2>2. s + p * c = Number(a) + Number(b) + cin
    BY <1>2, <1>3, <1>5
  <2>3. Number(a) + Number(b) + cin = c * p + s
    BY <2>1, <2>2
  <2>4. c \in Int /\ s \in 0 .. p - 1
    BY <1>5
  <2>5. PICK k : k = Number(a) + Number(b) + cin
    OBVIOUS
  <2>6. Divided(k, p, c, s)
    BY <2>3, <2>4, <2>5 DEF Divided
  <2> QED BY <2>5, <2>6
<1>7. (Number(a) + Number(b) + cin) % p = s
  BY <1>6, DivModUnique
<1> QED BY <1>1, <1>4, <1>5, <1>7 DEF Add

-----------------------------------------------------------------------------
(* Negation and shifts. *)
LEMMA NegIs ==
  ASSUME NEW n \in Nat, NEW x \in Vectors(n)
  PROVE  /\ Neg(x) \in Vectors(n)
         /\ Number(Neg(x)) = IF Number(x) = 0 THEN 0 ELSE 2^n - Number(x)
<1>1. Len(x) = n
  BY VectorIs
<1>2. PICK p \in Nat, s \in Nat : p = 2^n /\ s = Number(x) /\ s < p
  BY NumberBound, PowerPositive
<1>3. Number(Not(x)) = p - 1 - s
  BY <1>2, NumberNot
<1>4. PICK k \in Int : k = p - s /\ Number(Not(x)) + 1 = k
  BY <1>2, <1>3
<1>5. Neg(x) = Vector(k, n)
  BY <1>1, <1>4 DEF Neg
<1>6. Neg(x) \in Vectors(n) /\ Number(Neg(x)) = k % p
  BY <1>2, <1>5, VectorType, NumberVector
<1>7. k % p = IF s = 0 THEN 0 ELSE p - s
  <2>1. CASE s = 0
    <3>1. Divided(k, p, 1, 0)
      BY <1>2, <1>4, <2>1 DEF Divided
    <3> QED BY <2>1, <3>1, DivModUnique
  <2>2. CASE s # 0
    <3>1. Divided(k, p, 0, p - s)
      BY <1>2, <1>4, <2>2 DEF Divided
    <3> QED BY <2>2, <3>1, DivModUnique
  <2> QED BY <2>1, <2>2
<1> QED BY <1>2, <1>6, <1>7

\* A shift to the left loses the top bits.
LEMMA ShiftLeftIs ==
  ASSUME NEW n \in Nat, NEW x \in Vectors(n), NEW h \in 0 .. n
  PROVE  /\ ShiftLeft(x, h) \in Vectors(n)
         /\ ShiftLeft(x, h) = Repeated(0, h) \o SubSeq(x, 1, n - h)
         /\ Number(ShiftLeft(x, h)) = 2^h * Number(SubSeq(x, 1, n - h))
<1>1. DOMAIN x = 1 .. n /\ \A i \in 1 .. n : x[i] \in {0, 1}
  BY VectorIs
<1>2. ShiftLeft(x, h) = [i \in 1 .. n |-> IF i > h THEN x[i - h] ELSE 0]
  BY <1>1 DEF ShiftLeft
<1>3. \A i \in 1 .. n : (IF i > h THEN x[i - h] ELSE 0) \in {0, 1}
  <2>1. ASSUME NEW i \in 1 .. n PROVE (IF i > h THEN x[i - h] ELSE 0) \in {0, 1}
    <3>1. CASE i > h
      <4>1. i - h \in 1 .. n
        BY <3>1
      <4> QED BY <1>1, <3>1, <4>1
    <3>2. CASE ~ (i > h)
      BY <3>2
    <3> QED BY <3>1, <3>2
  <2> QED BY <2>1
<1>4. ShiftLeft(x, h) \in Vectors(n)
  BY <1>2, <1>3 DEF Vectors
<1>5. PICK y, m : y = SubSeq(x, 1, n - h) /\ m = n - h
  OBVIOUS
<1>6. m \in Nat /\ h \in Nat /\ h + m = n
  BY <1>5
<1>7. y \in Vectors(m) /\ \A i \in 1 .. m : y[i] = x[i]
  <2>1. 1 \in 1 .. n + 1 /\ m \in 1 - 1 .. n /\ m - 1 + 1 = m /\ \A i \in 1 .. m : 1 + i - 1 = i
    BY <1>6
  <2>2. SubSeq(x, 1, m) \in Vectors(m - 1 + 1)
        /\ \A i \in 1 .. m - 1 + 1 : SubSeq(x, 1, m)[i] = x[1 + i - 1]
    BY <2>1, SubSeqIs
  <2> QED BY <1>5, <2>1, <2>2
<1>8. PICK z : z = Repeated(0, h) /\ z \in Vectors(h) /\ Number(z) = 0 /\ \A i \in 1 .. h : z[i] = 0
  BY <1>6, RepeatedType, NumberZeros
<1>9. /\ z \o y \in Vectors(h + m)
      /\ \A i \in 1 .. h : (z \o y)[i] = z[i]
      /\ \A i \in 1 .. m : (z \o y)[h + i] = y[i]
  <2>1. z \in Vectors(h) /\ y \in Vectors(m) /\ h \in Nat /\ m \in Nat
    BY <1>6, <1>7, <1>8
  <2> QED BY ZenonT(60), <2>1, ConcatIs
<1>10. ASSUME NEW i \in 1 .. n PROVE ShiftLeft(x, h)[i] = (z \o y)[i]
  <2>1. CASE i > h
    <3>1. i - h \in 1 .. m /\ h + (i - h) = i
      BY <1>6, <2>1
    <3>2. (z \o y)[h + (i - h)] = y[i - h]
      BY <1>9, <3>1
    <3> QED BY <1>2, <1>7, <2>1, <3>1, <3>2
  <2>2. CASE ~ (i > h)
    <3>1. i \in 1 .. h
      BY <2>2
    <3> QED BY <1>2, <1>8, <1>9, <2>2, <3>1
  <2> QED BY <2>1, <2>2
<1>11. ShiftLeft(x, h) = z \o y
  BY <1>4, <1>6, <1>9, <1>10, VectorsEqual
<1>12. Number(z \o y) = Number(z) + 2^h * Number(y)
  BY <1>6, <1>7, <1>8, NumberConcat
<1>13. 2^h \in Nat /\ Number(y) \in Nat
  BY <1>6, <1>7, NumberBound, PowerPositive
<1> QED BY <1>4, <1>5, <1>8, <1>11, <1>12, <1>13

\* A vector with zeros at the top.
LEMMA NumberTopZeros ==
  ASSUME NEW n \in Nat, NEW x \in Vectors(n), NEW h \in 0 .. n, \A i \in 0 .. h - 1 : x[n - i] = 0
  PROVE  Number(SubSeq(x, 1, n - h)) = Number(x)
<1>1. PICK k \in 0 .. n : k = n - h
  OBVIOUS
<1>2. /\ SubSeq(x, 1, k) \in Vectors(k)
      /\ SubSeq(x, k + 1, n) \in Vectors(n - k)
      /\ x = SubSeq(x, 1, k) \o SubSeq(x, k + 1, n)
  BY ConcatParts
<1>3. PICK y, z : y = SubSeq(x, 1, k) /\ z = SubSeq(x, k + 1, n)
  OBVIOUS
<1>4. n - k = h /\ k \in Nat /\ h \in Nat
  BY <1>1
<1>5. \A i \in 1 .. h : z[i] = 0
  <2>1. k + 1 \in 1 .. n + 1 /\ n \in (k + 1) - 1 .. n /\ n - (k + 1) + 1 = h
    BY <1>1
  <2>2. \A i \in 1 .. n - (k + 1) + 1 : z[i] = x[(k + 1) + i - 1]
    BY <1>3, <2>1, SubSeqIs
  <2>3. ASSUME NEW i \in 1 .. h PROVE z[i] = 0
    <3>1. h - i \in 0 .. h - 1 /\ n - (h - i) = (k + 1) + i - 1
      BY <1>1
    <3>2. x[n - (h - i)] = 0
      BY <3>1
    <3> QED BY <2>1, <2>2, <3>1, <3>2
  <2> QED BY <2>3
<1>6. z = Repeated(0, h)
  <2>1. Repeated(0, h) \in Vectors(h) /\ \A i \in 1 .. h : Repeated(0, h)[i] = 0
    BY <1>4, RepeatedType
  <2>2. z \in Vectors(h)
    BY <1>2, <1>3, <1>4
  <2>3. \A i \in 1 .. h : z[i] = Repeated(0, h)[i]
    BY <1>5, <2>1
  <2> QED BY <2>1, <2>2, <2>3, VectorsEqual
<1>7. Number(z) = 0
  BY <1>4, <1>6, NumberZeros
<1>8. Number(x) = Number(y) + 2^k * Number(z)
  BY <1>3, NumberParts
<1>9. 2^k \in Nat /\ Number(y) \in Nat
  BY <1>2, <1>3, <1>4, NumberBound, PowerPositive
<1> QED BY <1>1, <1>3, <1>7, <1>8, <1>9

-----------------------------------------------------------------------------
(* Leading zeros. *)
LEMMA Log2Is ==
  ASSUME NEW n \in Nat
  PROVE  Log2(n) \in 0 .. n /\ 2^Log2(n) >= n
<1> DEFINE T == {k \in Nat : 2^k >= n}
<1>1. n \in T
  <2>1. 2^n > n /\ 2^n \in Nat
    BY PowerAbove, PowerPositive
  <2> QED BY <2>1
<1>2. PICK k \in T : \A j \in 0 .. k - 1 : j \notin T
  <2>1. T \in SUBSET Nat /\ T # {}
    BY <1>1
  <2> HIDE DEF T
  <2> QED BY <2>1, LeastNumber
<1>3. k \in 0 .. n
  BY <1>1, <1>2
<1>4. ASSUME NEW j \in 0 .. k - 1 PROVE 2^j < n
  <2>1. j \in Nat /\ 2^j \in Nat
    BY <1>3, PowerPositive
  <2> QED BY <1>2, <1>4, <2>1
<1>5. \E l \in 0 .. n : 2^l >= n /\ \A j \in 0 .. l - 1 : 2^j < n
  BY <1>2, <1>3, <1>4
<1> QED BY <1>5 DEF Log2

\* The top n bits of x below the first lo, h of them, are zero.
ZerosFrom(x, N, lo, h) == \A i \in 0 .. h - 1 : x[N - lo - i] = 0

\* The tables of counts that are right.
ZeroCounts(x, N, n) == {c \in [0 .. N - n -> 0 .. n] : \A lo \in 0 .. N - n : ZerosFrom(x, N, lo, c[lo])}

HalfFrom(x, N, n, g, lo) ==
  IF n = 0 THEN 0
  ELSE IF n = 1 THEN 1 - x[N - lo]
  ELSE LET mid   == n \div 2
           left  == g[mid][lo]
           right == g[n - mid][lo + mid]
       IN  IF left = mid THEN (left + right) % 2^Log2(N) ELSE left

HalfLevel(x, N, n, g) == [lo \in 0 .. N - n |-> HalfFrom(x, N, n, g, lo)]

LEMMA ModBelow ==
  ASSUME NEW k \in Nat, NEW p \in Nat, p > 0
  PROVE  k % p \in 0 .. k
<1>1. PICK d \in Int, e \in 0 .. p - 1 : d = k \div p /\ e = k % p /\ k = d * p + e
  BY DivMod
<1>2. d >= 0
  <2> SUFFICES ASSUME d < 0 PROVE FALSE
    OBVIOUS
  <2>1. d * p + p <= 0 * p
    BY MultiplesDiffer
  <2>2. PICK m \in Int : m = d * p
    OBVIOUS
  <2> QED BY <1>1, <2>1, <2>2
<1>3. d * p >= 0
  BY <1>2
<1>4. PICK m \in Int : m = d * p
  OBVIOUS
<1> QED BY <1>1, <1>3, <1>4

LEMMA HalfFromCounts ==
  ASSUME NEW N \in Nat, NEW x \in Vectors(N), NEW n \in 0 .. N, NEW g,
         \A k \in 0 .. n - 1 : g[k] \in ZeroCounts(x, N, k),
         NEW lo \in 0 .. N - n
  PROVE  HalfFrom(x, N, n, g, lo) \in 0 .. n /\ ZerosFrom(x, N, lo, HalfFrom(x, N, n, g, lo))
<1>1. CASE n = 0
  BY <1>1 DEF HalfFrom, ZerosFrom
<1>2. CASE n = 1
  <2>1. N - lo \in 1 .. N
    BY <1>2
  <2>2. x[N - lo] \in {0, 1}
    BY <2>1, VectorIs
  <2>3. HalfFrom(x, N, n, g, lo) = 1 - x[N - lo]
    BY <1>2 DEF HalfFrom
  <2>4. CASE x[N - lo] = 0
    <3>1. HalfFrom(x, N, n, g, lo) = 1
      BY <2>3, <2>4
    <3>2. \A i \in 0 .. 1 - 1 : N - lo - i = N - lo
      OBVIOUS
    <3> QED BY <1>2, <2>4, <3>1, <3>2 DEF ZerosFrom
  <2>5. CASE x[N - lo] = 1
    <3>1. HalfFrom(x, N, n, g, lo) = 0
      BY <2>3, <2>5
    <3> QED BY <1>2, <3>1 DEF ZerosFrom
  <2> QED BY <2>2, <2>4, <2>5
<1>3. CASE n > 1
  <2>1. PICK m, h : m = n \div 2 /\ h = n - m
    OBVIOUS
  <2>2. /\ m \in 0 .. n - 1 /\ h \in 0 .. n - 1 /\ m + h = n
        /\ lo \in 0 .. N - m /\ lo + m \in 0 .. N - h
    BY <1>3, <2>1
  <2>3. PICK left, right : left = g[m][lo] /\ right = g[h][lo + m]
    OBVIOUS
  <2>4. left \in 0 .. m /\ ZerosFrom(x, N, lo, left)
    BY <2>2, <2>3 DEF ZeroCounts
  <2>5. right \in 0 .. h /\ ZerosFrom(x, N, lo + m, right)
    BY <2>2, <2>3 DEF ZeroCounts
  <2>6. PICK r : r = HalfFrom(x, N, n, g, lo)
    OBVIOUS
  <2>7. r = IF left = m THEN (left + right) % 2^Log2(N) ELSE left
    <3>1. n # 0 /\ n # 1
      BY <1>3
    <3> QED BY <2>1, <2>3, <2>6, <3>1 DEF HalfFrom
  <2>8. CASE left # m
    BY <2>2, <2>4, <2>6, <2>7, <2>8
  <2>9. CASE left = m
    <3>1. PICK p \in Nat : p = 2^Log2(N) /\ p > 0
      <4>1. Log2(N) \in Nat
        BY Log2Is
      <4> QED BY <4>1, PowerPositive
    <3>2. r \in 0 .. m + right
      <4>1. m + right \in Nat
        BY <2>2, <2>5
      <4>2. (m + right) % p \in 0 .. m + right
        BY <3>1, <4>1, ModBelow
      <4> QED BY <2>7, <2>9, <3>1, <4>2
    <3>3. ASSUME NEW i \in 0 .. r - 1 PROVE x[N - lo - i] = 0
      <4>1. CASE i < m
        <5>1. i \in 0 .. left - 1
          BY <2>2, <2>5, <2>9, <3>2, <4>1
        <5> QED BY <2>4, <5>1 DEF ZerosFrom
      <4>2. CASE ~ (i < m)
        <5>1. i - m \in 0 .. right - 1 /\ N - (lo + m) - (i - m) = N - lo - i
          BY <2>2, <2>5, <3>2, <4>2
        <5>2. x[N - (lo + m) - (i - m)] = 0
          BY <2>5, <5>1 DEF ZerosFrom
        <5> QED BY <5>1, <5>2
      <4> QED BY <4>1, <4>2
    <3>4. r \in 0 .. n
      BY <2>2, <2>5, <3>2
    <3> QED BY <2>6, <3>3, <3>4 DEF ZerosFrom
  <2> QED BY <2>8, <2>9
<1> QED BY <1>1, <1>2, <1>3

LEMMA HalfLevelCounts ==
  ASSUME NEW N \in Nat, NEW x \in Vectors(N), NEW n \in 0 .. N, NEW g,
         \A k \in 0 .. n - 1 : g[k] \in ZeroCounts(x, N, k)
  PROVE  HalfLevel(x, N, n, g) \in ZeroCounts(x, N, n)
<1>1. \A lo \in 0 .. N - n :
        HalfFrom(x, N, n, g, lo) \in 0 .. n /\ ZerosFrom(x, N, lo, HalfFrom(x, N, n, g, lo))
  BY HalfFromCounts
<1>2. HalfLevel(x, N, n, g) \in [0 .. N - n -> 0 .. n]
  BY <1>1 DEF HalfLevel
<1>3. \A lo \in 0 .. N - n : HalfLevel(x, N, n, g)[lo] = HalfFrom(x, N, n, g, lo)
  BY DEF HalfLevel
<1> QED BY <1>1, <1>2, <1>3 DEF ZeroCounts

LEMMA HalfLevelLooksBack ==
  ASSUME NEW N \in Nat, NEW x \in Vectors(N), NEW n \in 0 .. N, NEW g, NEW h,
         \A k \in 0 .. n - 1 : g[k] = h[k]
  PROVE  HalfLevel(x, N, n, g) = HalfLevel(x, N, n, h)
<1>1. ASSUME NEW lo \in 0 .. N - n PROVE HalfFrom(x, N, n, g, lo) = HalfFrom(x, N, n, h, lo)
  <2>1. CASE n = 0 \/ n = 1
    BY <2>1 DEF HalfFrom
  <2>2. CASE n # 0 /\ n # 1
    <3>1. n \div 2 \in 0 .. n - 1 /\ n - (n \div 2) \in 0 .. n - 1
      BY <2>2
    <3>2. g[n \div 2] = h[n \div 2] /\ g[n - (n \div 2)] = h[n - (n \div 2)]
      BY <3>1
    <3> QED BY <3>2 DEF HalfFrom
  <2> QED BY <2>1, <2>2
<1> QED BY <1>1 DEF HalfLevel

\* The count never exceeds the zeros at the top.
THEOREM LeadingZeroCountIs ==
  ASSUME NEW N \in Nat, NEW x \in Vectors(N)
  PROVE  /\ LeadingZeroCount(x) \in 0 .. N
         /\ \A i \in 0 .. LeadingZeroCount(x) - 1 : x[N - i] = 0
<1> DEFINE V == [n \in 0 .. N |-> ZeroCounts(x, N, n)]
           U == {{}} \cup UNION {ZeroCounts(x, N, n) : n \in 0 .. N}
           step == [n \in 0 .. N |-> [g \in [0 .. N -> U] |-> HalfLevel(x, N, n, g)]]
           Layers(g) == [n \in 0 .. N |-> HalfLevel(x, N, n, g)]
<1>1. V \in [0 .. N -> SUBSET U] /\ U # {} /\ \A n \in 0 .. N : V[n] = ZeroCounts(x, N, n)
  OBVIOUS
<1>2. \A n \in 0 .. N : \A g \in [0 .. N -> U] : step[n][g] = HalfLevel(x, N, n, g)
  OBVIOUS
<1>3. \A n \in 0 .. N : \A k \in 0 .. n - 1 : k \in 0 .. N
  OBVIOUS
<1> HIDE DEF V, U, step
<1>4. ASSUME NEW n \in 0 .. N, NEW g, \A k \in 0 .. n - 1 : g[k] \in V[k]
      PROVE  HalfLevel(x, N, n, g) \in V[n]
  <2>1. \A k \in 0 .. n - 1 : g[k] \in ZeroCounts(x, N, k)
    BY <1>1, <1>3, <1>4
  <2> QED BY <1>1, <2>1, HalfLevelCounts
<1>5. LooksBack(N, U, V, step)
  <2>1. ASSUME NEW n \in 0 .. N, NEW g \in [0 .. N -> U], \A k \in 0 .. n - 1 : g[k] \in V[k]
        PROVE  step[n][g] \in V[n]
    BY <1>2, <1>4, <2>1
  <2>2. ASSUME NEW n \in 0 .. N, NEW g \in [0 .. N -> U], NEW h \in [0 .. N -> U],
               \A k \in 0 .. n - 1 : g[k] = h[k] /\ g[k] \in V[k]
        PROVE  step[n][g] = step[n][h]
    BY <1>2, <2>2, HalfLevelLooksBack
  <2> QED BY <1>1, <2>1, <2>2 DEF LooksBack
<1>6. PICK f : IsRecursiveTo(f, N, N, U, V, step)
  BY <1>5, StrongRecursiveFunction
<1>7. f = Layers(f)
  <2>1. f \in [0 .. N -> U] /\ \A n \in 0 .. N : f[n] = step[n][f]
    BY <1>6 DEF IsRecursiveTo
  <2>2. \A n \in 0 .. N : f[n] = HalfLevel(x, N, n, f)
    BY <1>2, <2>1
  <2>3. f = [n \in 0 .. N |-> f[n]]
    BY <2>1
  <2> QED BY <2>2, <2>3
<1>8. PICK v : v = Layers(v) /\ v = CHOOSE halves : halves = Layers(halves)
  <2> HIDE DEF Layers
  <2> QED BY <1>7
<1>9. LeadingZeroCount(x) = v[N][0]
  <2>1. Len(x) = N
    BY VectorIs
  <2>2. LeadingZeroCount(x)
          = (CHOOSE halves : halves = [n \in 0 .. Len(x) |-> HalfLevel(x, Len(x), n, halves)])[Len(x)][0]
    BY DEF LeadingZeroCount, HalfLevel, HalfFrom
  <2> QED BY <1>8, <2>1, <2>2
<1>10. \A n \in 0 .. N : v[n] \in V[n]
  <2>1. \A n \in 0 .. N : v[n] = HalfLevel(x, N, n, v)
    BY <1>8
  <2>2. ASSUME NEW n \in 0 .. N, \A k \in 0 .. n - 1 : v[k] \in V[k] PROVE v[n] \in V[n]
    BY <1>4, <2>1, <2>2
  <2> QED BY <2>2, StrongRecursiveValues
<1>11. v[N] \in ZeroCounts(x, N, N)
  <2>1. N \in 0 .. N
    OBVIOUS
  <2> QED BY <1>1, <1>10, <2>1
<1>12. 0 \in 0 .. N - N /\ \A i \in Int : N - 0 - i = N - i
  OBVIOUS
<1> QED BY <1>9, <1>11, <1>12 DEF ZeroCounts, ZerosFrom

LEMMA BitwiseType ==
  ASSUME NEW n \in Nat, NEW x \in Vectors(n), NEW y \in Vectors(n)
  PROVE  And(x, y) \in Vectors(n) /\ Or(x, y) \in Vectors(n) /\ Xor(x, y) \in Vectors(n)
<1>1. DOMAIN x = 1 .. n /\ \A i \in 1 .. n : x[i] \in {0, 1} /\ y[i] \in {0, 1}
  BY VectorIs
<1>2. \A b \in {0, 1}, c \in {0, 1} : b * c \in {0, 1} /\ (b + c) % 2 \in {0, 1}
  OBVIOUS
<1>3. And(x, y) \in Vectors(n)
  BY <1>1, <1>2 DEF And, Vectors
<1>4. Or(x, y) \in Vectors(n)
  BY <1>1 DEF Or, Vectors
<1>5. Xor(x, y) \in Vectors(n)
  BY <1>1, <1>2 DEF Xor, Vectors
<1> QED BY <1>3, <1>4, <1>5

LEMMA ShiftTypes ==
  ASSUME NEW n \in Nat, NEW x \in Vectors(n), NEW h \in Nat, NEW fill \in {0, 1}
  PROVE  ShiftLeft(x, h) \in Vectors(n) /\ ShiftRight(x, h, fill) \in Vectors(n)
<1>1. DOMAIN x = 1 .. n /\ Len(x) = n /\ \A i \in 1 .. n : x[i] \in {0, 1}
  BY VectorIs
<1>2. \A i \in 1 .. n : (IF i > h THEN x[i - h] ELSE 0) \in {0, 1}
  BY <1>1
<1>3. \A i \in 1 .. n : (IF i + h <= n THEN x[i + h] ELSE fill) \in {0, 1}
  BY <1>1
<1>4. ShiftLeft(x, h) \in Vectors(n)
  BY <1>1, <1>2 DEF ShiftLeft, Vectors
<1>5. ShiftRight(x, h, fill) \in Vectors(n)
  BY <1>1, <1>3 DEF ShiftRight, Vectors
<1> QED BY <1>4, <1>5

\* A slice of a vector, and its number.
LEMMA SliceIs ==
  ASSUME NEW n \in Nat, NEW x \in Vectors(n), NEW i \in 0 .. n, NEW j \in i - 1 .. n - 1
  PROVE  Slice(x, i, j) \in Vectors(j - i + 1) /\ Slice(x, i, j) = SubSeq(x, i + 1, j + 1)
         /\ \A k \in 1 .. j - i + 1 : Slice(x, i, j)[k] = x[i + k]
<1>1. /\ i + 1 \in 1 .. n + 1 /\ j + 1 \in (i + 1) - 1 .. n
      /\ (j + 1) - (i + 1) + 1 = j - i + 1 /\ \A k \in 1 .. j - i + 1 : (i + 1) + k - 1 = i + k
  OBVIOUS
<1>2. /\ SubSeq(x, i + 1, j + 1) \in Vectors((j + 1) - (i + 1) + 1)
      /\ \A k \in 1 .. (j + 1) - (i + 1) + 1 : SubSeq(x, i + 1, j + 1)[k] = x[(i + 1) + k - 1]
  BY <1>1, SubSeqIs
<1> QED BY <1>1, <1>2 DEF Slice

-----------------------------------------------------------------------------
(* Fields of a word. *)

\* The n bits of w from position lo on are those of y.
Field(w, lo, y, n) == \A k \in 1 .. n : w[lo + k] = y[k]

LEMMA FieldSlice ==
  ASSUME NEW N \in Nat, NEW w \in Vectors(N), NEW lo \in Nat, NEW n \in Nat, lo + n <= N,
         NEW y \in Vectors(n), Field(w, lo, y, n)
  PROVE  Slice(w, lo, lo + n - 1) = y
<1>1. lo \in 0 .. N /\ lo + n - 1 \in lo - 1 .. N - 1 /\ (lo + n - 1) - lo + 1 = n
  OBVIOUS
<1>2. /\ Slice(w, lo, lo + n - 1) \in Vectors((lo + n - 1) - lo + 1)
      /\ \A k \in 1 .. (lo + n - 1) - lo + 1 : Slice(w, lo, lo + n - 1)[k] = w[lo + k]
  BY <1>1, SliceIs
<1>3. \A k \in 1 .. n : Slice(w, lo, lo + n - 1)[k] = y[k]
  BY <1>1, <1>2 DEF Field
<1>4. Slice(w, lo, lo + n - 1) \in Vectors(n)
  BY <1>1, <1>2
<1> QED BY <1>3, <1>4, VectorsEqual

LEMMA FieldFirst ==
  ASSUME NEW n \in Nat, NEW x
  PROVE  Field(x, 0, x, n)
<1>1. \A k \in 1 .. n : 0 + k = k
  OBVIOUS
<1> QED BY <1>1 DEF Field

LEMMA FieldKept ==
  ASSUME NEW m \in Nat, NEW n \in Nat, NEW x \in Vectors(m), NEW y \in Vectors(n),
         NEW lo \in Nat, NEW k \in Nat, NEW z, Field(x, lo, z, k), lo + k <= m
  PROVE  Field(x \o y, lo, z, k)
<1>1. \A i \in 1 .. m : (x \o y)[i] = x[i]
  BY ZenonT(60), ConcatIs
<1>2. \A i \in 1 .. k : lo + i \in 1 .. m
  OBVIOUS
<1> QED BY <1>1, <1>2 DEF Field

LEMMA FieldLast ==
  ASSUME NEW m \in Nat, NEW n \in Nat, NEW x \in Vectors(m), NEW y \in Vectors(n)
  PROVE  x \o y \in Vectors(m + n) /\ Field(x \o y, m, y, n)
BY ConcatIs DEF Field

\* A word of three fields, and one of more.
LEMMA Fields3 ==
  ASSUME NEW a \in Nat, NEW b \in Nat, NEW c \in Nat,
         NEW x \in Vectors(a), NEW y \in Vectors(b), NEW z \in Vectors(c)
  PROVE  /\ x \o y \o z \in Vectors(a + b + c)
         /\ Field(x \o y \o z, 0, x, a)
         /\ Field(x \o y \o z, a, y, b)
         /\ Field(x \o y \o z, a + b, z, c)
<1>1. PICK u : u = x \o y
  OBVIOUS
<1>2. u \in Vectors(a + b) /\ Field(u, a, y, b)
  BY <1>1, FieldLast
<1>3. Field(u, 0, x, a)
  <2>1. Field(x, 0, x, a) /\ 0 \in Nat /\ 0 + a <= a
    BY FieldFirst
  <2> QED BY <1>1, <2>1, FieldKept
<1>4. PICK m \in Nat : m = a + b
  OBVIOUS
<1>5. u \o z \in Vectors(m + c) /\ Field(u \o z, m, z, c)
  BY <1>2, <1>4, FieldLast
<1>6. Field(u \o z, 0, x, a)
  <2>1. 0 \in Nat /\ 0 + a <= m /\ u \in Vectors(m)
    BY <1>2, <1>4
  <2> QED BY <1>3, <2>1, FieldKept
<1>7. Field(u \o z, a, y, b)
  <2>1. a + b <= m /\ u \in Vectors(m)
    BY <1>2, <1>4
  <2> QED BY <1>2, <2>1, FieldKept
<1> QED BY <1>1, <1>4, <1>5, <1>6, <1>7

\* w consists of five vectors, or of seven.
Cut5(w, a, b, c, d, e, x, y, z, s, t) ==
  /\ a \in Nat /\ b \in Nat /\ c \in Nat /\ d \in Nat /\ e \in Nat
  /\ x \in Vectors(a) /\ y \in Vectors(b) /\ z \in Vectors(c) /\ s \in Vectors(d) /\ t \in Vectors(e)
  /\ w = x \o y \o z \o s \o t

Cut7(w, a, b, c, d, e, f, g, x, y, z, s, t, p, q) ==
  /\ a \in Nat /\ b \in Nat /\ c \in Nat /\ d \in Nat /\ e \in Nat /\ f \in Nat /\ g \in Nat
  /\ x \in Vectors(a) /\ y \in Vectors(b) /\ z \in Vectors(c) /\ s \in Vectors(d) /\ t \in Vectors(e)
  /\ p \in Vectors(f) /\ q \in Vectors(g)
  /\ w = x \o y \o z \o s \o t \o p \o q

LEMMA Fields5 ==
  ASSUME NEW w, NEW a, NEW b, NEW c, NEW d, NEW e, NEW x, NEW y, NEW z, NEW s, NEW t,
         Cut5(w, a, b, c, d, e, x, y, z, s, t)
  PROVE  /\ w \in Vectors(a + b + c + d + e)
         /\ Field(w, 0, x, a)
         /\ Field(w, a, y, b)
         /\ Field(w, a + b, z, c)
         /\ Field(w, a + b + c, s, d)
         /\ Field(w, a + b + c + d, t, e)
<1>t. /\ a \in Nat /\ b \in Nat /\ c \in Nat /\ d \in Nat /\ e \in Nat
      /\ x \in Vectors(a) /\ y \in Vectors(b) /\ z \in Vectors(c) /\ s \in Vectors(d) /\ t \in Vectors(e)
      /\ w = x \o y \o z \o s \o t
  BY DEF Cut5
<1>0. PICK m : m = a + b + c
  OBVIOUS
<1>1. PICK u : u = x \o y \o z
  OBVIOUS
<1>1a. m \in Nat
  BY <1>t, <1>0
<1>2. /\ u \in Vectors(m) /\ Field(u, 0, x, a) /\ Field(u, a, y, b) /\ Field(u, a + b, z, c)
  BY <1>t, <1>0, <1>1, Fields3
<1>3. /\ u \o s \o t \in Vectors(m + d + e)
      /\ Field(u \o s \o t, 0, u, m)
      /\ Field(u \o s \o t, m, s, d)
      /\ Field(u \o s \o t, m + d, t, e)
  BY <1>t, <1>1a, <1>2, Fields3
<1>4. w = u \o s \o t
  BY <1>t, <1>1
<1>5. ASSUME NEW lo \in Nat, NEW k \in Nat, NEW y1, Field(u, lo, y1, k), lo + k <= m
      PROVE  Field(w, lo, y1, k)
  <2>1. \A i \in 1 .. k : lo + i \in 1 .. m /\ 0 + (lo + i) = lo + i
    BY <1>t, <1>1a, <1>5
  <2> QED BY <1>t, <1>3, <1>4, <1>5, <2>1 DEF Field
<1>6. 0 \in Nat /\ 0 + a <= m /\ a + b <= m /\ a + b \in Nat /\ (a + b) + c <= m
  BY <1>t, <1>0
<1> QED BY <1>t, <1>0, <1>2, <1>3, <1>4, <1>5, <1>6

LEMMA Fields7 ==
  ASSUME NEW w, NEW a, NEW b, NEW c, NEW d, NEW e, NEW f, NEW g, NEW x, NEW y, NEW z, NEW s, NEW t,
         NEW p, NEW q, Cut7(w, a, b, c, d, e, f, g, x, y, z, s, t, p, q)
  PROVE  /\ w \in Vectors(a + b + c + d + e + f + g)
         /\ Field(w, 0, x, a)
         /\ Field(w, a, y, b)
         /\ Field(w, a + b, z, c)
         /\ Field(w, a + b + c, s, d)
         /\ Field(w, a + b + c + d, t, e)
         /\ Field(w, a + b + c + d + e, p, f)
         /\ Field(w, a + b + c + d + e + f, q, g)
<1>t. /\ a \in Nat /\ b \in Nat /\ c \in Nat /\ d \in Nat /\ e \in Nat /\ f \in Nat /\ g \in Nat
      /\ x \in Vectors(a) /\ y \in Vectors(b) /\ z \in Vectors(c) /\ s \in Vectors(d) /\ t \in Vectors(e)
      /\ p \in Vectors(f) /\ q \in Vectors(g)
      /\ w = x \o y \o z \o s \o t \o p \o q
  BY DEF Cut7
<1>0. PICK m : m = a + b + c + d + e
  OBVIOUS
<1>1. PICK u : u = x \o y \o z \o s \o t
  OBVIOUS
<1>1a. m \in Nat
  BY <1>t, <1>0
<1>2. /\ u \in Vectors(m) /\ Field(u, 0, x, a) /\ Field(u, a, y, b) /\ Field(u, a + b, z, c)
      /\ Field(u, a + b + c, s, d) /\ Field(u, a + b + c + d, t, e)
  <2>1. /\ u \in Vectors(a + b + c + d + e) /\ Field(u, 0, x, a) /\ Field(u, a, y, b)
        /\ Field(u, a + b, z, c) /\ Field(u, a + b + c, s, d) /\ Field(u, a + b + c + d, t, e)
    <3>1. Cut5(u, a, b, c, d, e, x, y, z, s, t)
      BY <1>t, <1>1 DEF Cut5
    <3> QED BY <3>1, Fields5
  <2> QED BY <1>t, <1>0, <2>1
<1>3. /\ u \o p \o q \in Vectors(m + f + g)
      /\ Field(u \o p \o q, 0, u, m)
      /\ Field(u \o p \o q, m, p, f)
      /\ Field(u \o p \o q, m + f, q, g)
  BY <1>t, <1>1a, <1>2, Fields3
<1>4. w = u \o p \o q
  BY <1>t, <1>1
<1>5. ASSUME NEW lo \in Nat, NEW k \in Nat, NEW y1, Field(u, lo, y1, k), lo + k <= m
      PROVE  Field(w, lo, y1, k)
  <2>1. \A i \in 1 .. k : lo + i \in 1 .. m /\ 0 + (lo + i) = lo + i
    BY <1>t, <1>1a, <1>5
  <2> QED BY <1>t, <1>3, <1>4, <1>5, <2>1 DEF Field
<1>6. /\ 0 \in Nat /\ 0 + a <= m /\ a + b <= m /\ a + b \in Nat /\ (a + b) + c <= m
      /\ a + b + c \in Nat /\ (a + b + c) + d <= m /\ a + b + c + d \in Nat /\ (a + b + c + d) + e <= m
  BY <1>t, <1>0
<1>7. /\ Field(w, 0, x, a) /\ Field(w, a, y, b) /\ Field(w, a + b, z, c)
      /\ Field(w, a + b + c, s, d) /\ Field(w, a + b + c + d, t, e)
  BY <1>t, <1>2, <1>5, <1>6
<1> QED BY <1>t, <1>0, <1>3, <1>4, <1>7

-----------------------------------------------------------------------------
(* Vectors of numbers, cut and extended. *)
LEMMA Powers ==
  /\ 2^1 = 2 /\ 2^3 = 8 /\ 2^5 = 32 /\ 2^7 = 128 /\ 2^10 = 1024 /\ 2^11 = 2048
  /\ 2^12 = 4096
<1>1. 2^2 = 2 * 2 /\ 2^3 = 2 * 4
  <2>1. 2^(1 + 1) = 2 * 2^1 /\ 2^(2 + 1) = 2 * 2^2
    BY PowerStep
  <2> QED BY <2>1, PowerOfOne
<1>2. 2^5 = 8 * 4 /\ 2^7 = 4 * 2^5
  <2>1. 2^(3 + 2) = 2^3 * 2^2 /\ 2^(2 + 5) = 2^2 * 2^5
    BY PowerAdds
  <2> QED BY <1>1, <2>1
<1>3. 2^10 = 32 * 32 /\ 2^12 = 32 * 128
  <2>1. 2^(5 + 5) = 2^5 * 2^5 /\ 2^(5 + 7) = 2^5 * 2^7
    BY PowerAdds
  <2> QED BY <1>2, <2>1
<1>4. 2^11 = 2 * 1024
  <2>1. 2^(10 + 1) = 2 * 2^10
    BY PowerStep
  <2> QED BY <1>3, <2>1
<1> QED BY <1>1, <1>2, <1>3, <1>4, PowerOfOne

LEMMA PowerOfTwenty == 2^20 = 1048576
<1>1. 2^(10 + 10) = 2^10 * 2^10
  BY PowerAdds
<1>2. 2^10 * 2^10 = 1048576
  BY Powers
<1> QED BY <1>1, <1>2

\* The low bits of the vector of a number are the number's shorter vector.
LEMMA LowVector ==
  ASSUME NEW m \in Nat, NEW n \in Nat, m <= n, NEW k \in Int
  PROVE  SubSeq(Vector(k, n), 1, m) = Vector(k, m)
<1>1. /\ Vector(k, n) \in Vectors(n) /\ \A i \in 1 .. n : Vector(k, n)[i] = (k \div 2^(i - 1)) % 2
      /\ Vector(k, m) \in Vectors(m) /\ \A i \in 1 .. m : Vector(k, m)[i] = (k \div 2^(i - 1)) % 2
  BY VectorType
<1>2. 1 \in 1 .. n + 1 /\ m \in 1 - 1 .. n /\ m - 1 + 1 = m /\ \A i \in 1 .. m : 1 + i - 1 = i /\ i \in 1 .. n
  OBVIOUS
<1>3. /\ SubSeq(Vector(k, n), 1, m) \in Vectors(m - 1 + 1)
      /\ \A i \in 1 .. m - 1 + 1 : SubSeq(Vector(k, n), 1, m)[i] = Vector(k, n)[1 + i - 1]
  BY <1>1, <1>2, SubSeqIs
<1>4. /\ SubSeq(Vector(k, n), 1, m) \in Vectors(m)
      /\ \A i \in 1 .. m : SubSeq(Vector(k, n), 1, m)[i] = Vector(k, m)[i]
  BY <1>1, <1>2, <1>3
<1> QED BY <1>1, <1>4, VectorsEqual

\* A number that fits with its sign into fewer bits is what those extend to.
LEMMA SignExtendVector ==
  ASSUME NEW n \in Nat, NEW m \in Nat, n + 1 <= m, NEW v \in Int, -(2^n) <= v, v < 2^n
  PROVE  SignExtend(Vector(v, n + 1), m) = Vector(v, m)
<1>1. PICK x : x = Vector(v, n + 1)
  OBVIOUS
<1>2. n + 1 \in Nat /\ x \in Vectors(n + 1) /\ Number(x) = v % 2^(n + 1)
  BY <1>1, VectorType, NumberVector
<1>3. PICK p : p = 2^n /\ p \in Nat /\ p > 0
  BY PowerPositive
<1>4. 2^(n + 1) = 2 * p
  BY <1>3, PowerStep
<1>5. Signed(x) = v
  BY <1>2, <1>3, <1>4, SignedUnique
<1>6. PICK q : q = 2^m /\ q \in Nat /\ q >= 2 * p
  <2>1. PICK d : d \in Nat /\ m = (n + 1) + d
    <3>1. m - (n + 1) \in Nat /\ m = (n + 1) + (m - (n + 1))
      OBVIOUS
    <3> QED BY <3>1
  <2>2. 2^m = 2^(n + 1) * 2^d
    BY <1>2, <2>1, PowerAdds
  <2>3. PICK r : r = 2^d /\ r \in Nat /\ r > 0
    BY <2>1, PowerPositive
  <2>4. 2^m = (2 * p) * r
    BY <1>4, <2>2, <2>3
  <2>5. (2 * p) * r >= 2 * p /\ (2 * p) * r \in Nat
    BY <1>3, <2>3
  <2> QED BY <2>4, <2>5
<1>7. /\ SignExtend(x, m) \in Vectors(m)
      /\ Number(SignExtend(x, m)) = Signed(x) + Top(x) * q
      /\ Top(x) \in {0, 1} /\ Signed(x) = Number(x) - Top(x) * (2 * p) /\ Number(x) \in 0 .. 2 * p - 1
      /\ Top(x) = 1 <=> Number(x) >= p
  BY <1>2, <1>3, <1>4, <1>6, NumberSignExtend, SignedIs, NumberBound
<1>8. Number(SignExtend(x, m)) = IF v >= 0 THEN v ELSE v + q
  <2>1. CASE Top(x) = 0
    <3>1. Number(x) = v /\ v >= 0 /\ 0 * q = 0
      BY <1>3, <1>5, <1>6, <1>7, <2>1
    <3> QED BY <1>5, <1>7, <2>1, <3>1
  <2>2. CASE Top(x) = 1
    <3>1. v = Number(x) - 2 * p /\ v < 0 /\ 1 * q = q
      BY <1>3, <1>5, <1>6, <1>7, <2>2
    <3> QED BY <1>5, <1>7, <2>2, <3>1
  <2> QED BY <1>7, <2>1, <2>2
<1>9. v % q = IF v >= 0 THEN v ELSE v + q
  <2>1. CASE v >= 0
    <3>1. Divided(v, q, 0, v)
      BY <1>3, <1>6, <2>1 DEF Divided
    <3> QED BY <2>1, <3>1, DivModUnique
  <2>2. CASE v < 0
    <3>1. Divided(v, q, -1, v + q)
      BY <1>3, <1>6, <2>2 DEF Divided
    <3> QED BY <2>2, <3>1, DivModUnique
  <2> QED BY <2>1, <2>2
<1>10. Vector(v, m) \in Vectors(m) /\ Number(Vector(v, m)) = v % q
  BY <1>6, VectorType, NumberVector
<1> QED BY <1>1, <1>7, <1>8, <1>9, <1>10, NumberInjective

\* Two adjacent slices, the slice of one bit, and a slice of a known field.
LEMMA SlicesJoin ==
  ASSUME NEW N \in Nat, NEW x \in Vectors(N), NEW i \in Nat, NEW j \in Nat, NEW k \in Nat,
         i <= j, j <= k, k < N
  PROVE  Slice(x, i, j) \o Slice(x, j + 1, k) = Slice(x, i, k)
<1>1. PICK m, n : m = j - i + 1 /\ n = k - (j + 1) + 1
  OBVIOUS
<1>2. /\ m \in Nat /\ n \in Nat /\ m + n = k - i + 1
      /\ i \in 0 .. N /\ j \in i - 1 .. N - 1 /\ j + 1 \in 0 .. N /\ k \in (j + 1) - 1 .. N - 1 /\ k \in i - 1 .. N - 1
  BY <1>1
<1>3. /\ Slice(x, i, j) \in Vectors(m) /\ \A l \in 1 .. m : Slice(x, i, j)[l] = x[i + l]
      /\ Slice(x, j + 1, k) \in Vectors(n) /\ \A l \in 1 .. n : Slice(x, j + 1, k)[l] = x[(j + 1) + l]
      /\ Slice(x, i, k) \in Vectors(m + n) /\ \A l \in 1 .. m + n : Slice(x, i, k)[l] = x[i + l]
  <2>1. Slice(x, i, j) \in Vectors(j - i + 1) /\ \A l \in 1 .. j - i + 1 : Slice(x, i, j)[l] = x[i + l]
    BY <1>2, SliceIs
  <2>2. /\ Slice(x, j + 1, k) \in Vectors(k - (j + 1) + 1)
        /\ \A l \in 1 .. k - (j + 1) + 1 : Slice(x, j + 1, k)[l] = x[(j + 1) + l]
    BY <1>2, SliceIs
  <2>3. Slice(x, i, k) \in Vectors(k - i + 1) /\ \A l \in 1 .. k - i + 1 : Slice(x, i, k)[l] = x[i + l]
    BY <1>2, SliceIs
  <2> QED BY <1>1, <1>2, <2>1, <2>2, <2>3
<1>4. PICK y, z : y = Slice(x, i, j) /\ z = Slice(x, j + 1, k)
  OBVIOUS
<1>5. /\ y \o z \in Vectors(m + n)
      /\ \A l \in 1 .. m : (y \o z)[l] = y[l]
      /\ \A l \in m + 1 .. m + n : (y \o z)[l] = z[l - m]
  <2>1. m \in Nat /\ n \in Nat
    BY <1>2
  <2>2. y \in Vectors(m) /\ z \in Vectors(n)
    BY <1>3, <1>4
  <2>3. y \o z \in Vectors(m + n)
    BY <2>1, <2>2, ConcatIs
  <2>4. \A l \in 1 .. m : (y \o z)[l] = y[l]
    BY ZenonT(60), <2>1, <2>2, ConcatIs
  <2>5. \A l \in m + 1 .. m + n : (y \o z)[l] = z[l - m]
    BY ZenonT(60), <2>1, <2>2, ConcatIs
  <2> QED BY <2>3, <2>4, <2>5
<1>6. ASSUME NEW l \in 1 .. m + n PROVE (y \o z)[l] = x[i + l]
  <2>1. CASE l <= m
    <3>1. l \in 1 .. m
      BY <1>2, <2>1
    <3> QED BY <1>3, <1>4, <1>5, <3>1
  <2>2. CASE l > m
    <3>1. l \in m + 1 .. m + n /\ l - m \in 1 .. n /\ (j + 1) + (l - m) = i + l
      BY <1>1, <1>2, <2>2
    <3>2. (y \o z)[l] = x[(j + 1) + (l - m)]
      BY <1>3, <1>4, <1>5, <3>1
    <3> QED BY <3>1, <3>2
  <2>3. l <= m \/ l > m
    BY <1>2
  <2> QED BY <2>1, <2>2, <2>3
<1>7. \A l \in 1 .. m + n : (y \o z)[l] = Slice(x, i, k)[l]
  BY <1>3, <1>6
<1>8. Slice(x, i, k) \in Vectors(m + n) /\ y \o z \in Vectors(m + n)
  BY <1>3, <1>5
<1>9. y \o z = Slice(x, i, k)
  BY <1>7, <1>8, VectorsEqual
<1> QED BY <1>4, <1>9

-----------------------------------------------------------------------------
(* The words of the instructions. *)
LEMMA SmallVector ==
  ASSUME NEW n \in Nat, NEW k \in 0 .. 2^n - 1
  PROVE  Vector(k, n) \in Vectors(n) /\ Number(Vector(k, n)) = k
<1>1. PICK p : p = 2^n /\ p \in Nat /\ p > 0
  BY PowerPositive
<1>2. k \in Int /\ Divided(k, p, 0, k)
  BY <1>1 DEF Divided
<1>3. k % p = k
  BY <1>2, DivModUnique
<1> QED BY <1>1, <1>2, <1>3, VectorType, NumberVector

LEMMA CodeVectors ==
  /\ \A k \in 0 .. 127 : Vector(k, 7) \in Vectors(7) /\ Number(Vector(k, 7)) = k
  /\ \A k \in 0 .. 31 : Vector(k, 5) \in Vectors(5) /\ Number(Vector(k, 5)) = k
  /\ \A k \in 0 .. 7 : Vector(k, 3) \in Vectors(3) /\ Number(Vector(k, 3)) = k
<1>1. 7 \in Nat /\ 5 \in Nat /\ 3 \in Nat
  OBVIOUS
<1>2. 2^7 = 128 /\ 2^5 = 32 /\ 2^3 = 8
  BY Powers
<1>3. ASSUME NEW k \in 0 .. 127 PROVE Vector(k, 7) \in Vectors(7) /\ Number(Vector(k, 7)) = k
  <2>1. k \in 0 .. 2^7 - 1
    BY <1>2
  <2> QED BY <1>1, <2>1, SmallVector
<1>4. ASSUME NEW k \in 0 .. 31 PROVE Vector(k, 5) \in Vectors(5) /\ Number(Vector(k, 5)) = k
  <2>1. k \in 0 .. 2^5 - 1
    BY <1>2
  <2> QED BY <1>1, <2>1, SmallVector
<1>5. ASSUME NEW k \in 0 .. 7 PROVE Vector(k, 3) \in Vectors(3) /\ Number(Vector(k, 3)) = k
  <2>1. k \in 0 .. 2^3 - 1
    BY <1>2
  <2> QED BY <1>1, <2>1, SmallVector
<1> QED BY <1>3, <1>4, <1>5

-----------------------------------------------------------------------------
(* The immediates of the formats. *)
LEMMA Rejoined ==
  ASSUME NEW n \in Nat, n <= 31, NEW v \in Int, -(2^n) <= v, v < 2^n
  PROVE  SignExtend(Slice(Vector(v, 32), 0, n), 32) = Vector(v, 32)
<1>1. Slice(Vector(v, 32), 0, n) = SubSeq(Vector(v, 32), 1, n + 1)
  BY DEF Slice
<1>2. 32 \in Nat /\ n + 1 \in Nat /\ n + 1 <= 32
  OBVIOUS
<1>3. SubSeq(Vector(v, 32), 1, n + 1) = Vector(v, n + 1)
  BY <1>2, LowVector
<1>4. SignExtend(Vector(v, n + 1), 32) = Vector(v, 32)
  BY <1>2, SignExtendVector
<1> QED BY <1>1, <1>3, <1>4

LEMMA Rejoined11 ==
  ASSUME NEW v \in -(2^11) .. 2^11 - 1
  PROVE  SignExtend(Slice(Vector(v, 32), 0, 11), 32) = Vector(v, 32) /\ SignExtend(Vector(v, 12), 32) = Vector(v, 32)
<1>0. PICK n : n = 11
  OBVIOUS
<1>1. 2^n = 2048
  BY <1>0, Powers
<1>2. n \in Nat /\ n <= 31 /\ 32 \in Nat /\ n + 1 = 12 /\ n + 1 <= 32
  BY <1>0
<1>3. v \in Int /\ -(2^n) <= v /\ v < 2^n
  BY <1>0, <1>1
<1>4. SignExtend(Slice(Vector(v, 32), 0, n), 32) = Vector(v, 32)
  BY <1>2, <1>3, Rejoined
<1>5. SignExtend(Vector(v, n + 1), 32) = Vector(v, 32)
  BY <1>2, <1>3, SignExtendVector
<1> QED BY <1>0, <1>2, <1>4, <1>5

LEMMA EvenVector ==
  ASSUME NEW v \in Int, v % 2 = 0
  PROVE  << 0 >> = Slice(Vector(v, 32), 0, 0)
<1>1. 32 \in Nat /\ 0 \in 0 .. 32 /\ 0 \in 0 - 1 .. 32 - 1 /\ 0 - 0 + 1 = 1 /\ 0 + 1 = 1 /\ 1 \in 1 .. 32 /\ 1 - 1 = 0
  OBVIOUS
<1>2. Vector(v, 32) \in Vectors(32) /\ Vector(v, 32)[1] = (v \div 2^(1 - 1)) % 2
  BY <1>1, VectorType
<1>3. Vector(v, 32)[1] = 0
  <2>1. 2^(1 - 1) = 1
    BY <1>1, PowerOfZero
  <2>2. v \div 1 = v
    OBVIOUS
  <2> QED BY <1>2, <2>1, <2>2
<1>4. PICK x : x = Slice(Vector(v, 32), 0, 0)
  OBVIOUS
<1>5. x \in Vectors(0 - 0 + 1) /\ \A k \in 1 .. 0 - 0 + 1 : x[k] = Vector(v, 32)[0 + k]
  BY <1>1, <1>2, <1>4, SliceIs
<1>6. x \in Vectors(1) /\ x[1] = 0
  BY <1>1, <1>3, <1>5
<1>7. << 0 >> \in Vectors(1) /\ << 0 >>[1] = 0
  BY OneIs
<1>8. \A k \in 1 .. 1 : << 0 >>[k] = x[k]
  BY <1>6, <1>7
<1> QED BY <1>4, <1>6, <1>7, <1>8, VectorsEqual

\* The slices of a full immediate.
LEMMA ImmediateSlices ==
  ASSUME NEW imm \in Vectors(32)
  PROVE  /\ Slice(imm, 0, 4) \in Vectors(5) /\ Slice(imm, 5, 11) \in Vectors(7)
         /\ Slice(imm, 11, 11) \in Vectors(1) /\ Slice(imm, 1, 4) \in Vectors(4)
         /\ Slice(imm, 5, 10) \in Vectors(6) /\ Slice(imm, 12, 12) \in Vectors(1)
         /\ Slice(imm, 12, 19) \in Vectors(8) /\ Slice(imm, 1, 10) \in Vectors(10)
         /\ Slice(imm, 20, 20) \in Vectors(1) /\ Slice(imm, 12, 31) \in Vectors(20)
<1>1. ASSUME NEW i \in 0 .. 31, NEW j \in i .. 31 PROVE Slice(imm, i, j) \in Vectors(j - i + 1)
  <2>1. 32 \in Nat /\ i \in 0 .. 32 /\ j \in i - 1 .. 32 - 1
    OBVIOUS
  <2> QED BY <2>1, SliceIs
<1>2. /\ 4 - 0 + 1 = 5 /\ 11 - 5 + 1 = 7 /\ 11 - 11 + 1 = 1 /\ 4 - 1 + 1 = 4 /\ 10 - 5 + 1 = 6
      /\ 12 - 12 + 1 = 1 /\ 19 - 12 + 1 = 8 /\ 10 - 1 + 1 = 10 /\ 20 - 20 + 1 = 1 /\ 31 - 12 + 1 = 20
  OBVIOUS
<1>3. /\ Slice(imm, 0, 4) \in Vectors(4 - 0 + 1) /\ Slice(imm, 5, 11) \in Vectors(11 - 5 + 1)
      /\ Slice(imm, 11, 11) \in Vectors(11 - 11 + 1) /\ Slice(imm, 1, 4) \in Vectors(4 - 1 + 1)
      /\ Slice(imm, 5, 10) \in Vectors(10 - 5 + 1) /\ Slice(imm, 12, 12) \in Vectors(12 - 12 + 1)
      /\ Slice(imm, 12, 19) \in Vectors(19 - 12 + 1) /\ Slice(imm, 1, 10) \in Vectors(10 - 1 + 1)
      /\ Slice(imm, 20, 20) \in Vectors(20 - 20 + 1) /\ Slice(imm, 12, 31) \in Vectors(31 - 12 + 1)
  BY <1>1
<1> QED BY <1>2, <1>3

LEMMA SlicesRejoined ==
  ASSUME NEW imm \in Vectors(32)
  PROVE  /\ Slice(imm, 0, 4) \o Slice(imm, 5, 11) = Slice(imm, 0, 11)
         /\ Slice(imm, 0, 0) \o Slice(imm, 1, 4) \o Slice(imm, 5, 10) \o Slice(imm, 11, 11)
              \o Slice(imm, 12, 12) = Slice(imm, 0, 12)
         /\ Slice(imm, 0, 0) \o Slice(imm, 1, 10) \o Slice(imm, 11, 11) \o Slice(imm, 12, 19)
              \o Slice(imm, 20, 20) = Slice(imm, 0, 20)
<1> DEFINE Joins(i, j, l, k) == Slice(imm, i, j) \o Slice(imm, l, k) = Slice(imm, i, k)
<1>1. ASSUME NEW i \in Nat, NEW j \in Nat, NEW l \in Nat, NEW k \in Nat, i <= j, l = j + 1, l <= k, k < 32
      PROVE  Joins(i, j, l, k)
  <2>1. 32 \in Nat /\ i <= j /\ j <= k /\ k < 32
    BY <1>1
  <2>2. Slice(imm, i, j) \o Slice(imm, j + 1, k) = Slice(imm, i, k)
    BY <2>1, SlicesJoin
  <2> QED BY <1>1, <2>2
<1> HIDE DEF Joins
<1>2. /\ Joins(0, 4, 5, 11) /\ Joins(0, 0, 1, 4) /\ Joins(0, 4, 5, 10) /\ Joins(0, 10, 11, 11)
      /\ Joins(0, 11, 12, 12) /\ Joins(0, 0, 1, 10) /\ Joins(0, 11, 12, 19) /\ Joins(0, 19, 20, 20)
  BY <1>1
<1>3. /\ Slice(imm, 0, 4) \o Slice(imm, 5, 11) = Slice(imm, 0, 11)
      /\ Slice(imm, 0, 0) \o Slice(imm, 1, 4) = Slice(imm, 0, 4)
      /\ Slice(imm, 0, 4) \o Slice(imm, 5, 10) = Slice(imm, 0, 10)
      /\ Slice(imm, 0, 10) \o Slice(imm, 11, 11) = Slice(imm, 0, 11)
      /\ Slice(imm, 0, 11) \o Slice(imm, 12, 12) = Slice(imm, 0, 12)
      /\ Slice(imm, 0, 0) \o Slice(imm, 1, 10) = Slice(imm, 0, 10)
      /\ Slice(imm, 0, 11) \o Slice(imm, 12, 19) = Slice(imm, 0, 19)
      /\ Slice(imm, 0, 19) \o Slice(imm, 20, 20) = Slice(imm, 0, 20)
  BY <1>2, Zenon DEF Joins
<1> QED BY <1>3, Zenon

-----------------------------------------------------------------------------
(* Congruence, for the multiplier's sums: numbers that differ by a multiple of m. *)
Congruent(a, b, m) == a \in Int /\ b \in Int /\ \E q \in Int : a = b + q * m

LEMMA CongruentSelf == ASSUME NEW a \in Int, NEW m \in Int PROVE Congruent(a, a, m)
<1>1. 0 \in Int /\ a = a + 0 * m
  OBVIOUS
<1> QED BY <1>1 DEF Congruent

LEMMA CongruentBy ==
  ASSUME NEW a \in Int, NEW b \in Int, NEW m \in Int, NEW q \in Int, a = b + q * m
  PROVE  Congruent(a, b, m)
BY DEF Congruent

LEMMA CongruentAdds ==
  ASSUME NEW a, NEW b, NEW c, NEW d, NEW m \in Int, Congruent(a, b, m), Congruent(c, d, m)
  PROVE  Congruent(a + c, b + d, m)
<1>1. PICK q \in Int : a = b + q * m /\ a \in Int /\ b \in Int
  BY DEF Congruent
<1>2. PICK r \in Int : c = d + r * m /\ c \in Int /\ d \in Int
  BY DEF Congruent
<1>3. q + r \in Int /\ (q + r) * m = q * m + r * m
  OBVIOUS
<1>4. a + c \in Int /\ b + d \in Int /\ a + c = (b + d) + (q + r) * m
  BY <1>1, <1>2, <1>3
<1> QED BY <1>3, <1>4 DEF Congruent

LEMMA CongruentScales ==
  ASSUME NEW a, NEW b, NEW m \in Int, NEW k \in Int, Congruent(a, b, m)
  PROVE  Congruent(k * a, k * b, m)
<1>1. PICK q \in Int : a = b + q * m /\ a \in Int /\ b \in Int
  BY DEF Congruent
<1>2. k * (b + q * m) = k * b + (k * q) * m
  BY <1>1
<1>3. k * q \in Int /\ k * a \in Int /\ k * b \in Int /\ k * a = k * b + (k * q) * m
  BY <1>1, <1>2
<1> QED BY <1>3 DEF Congruent

LEMMA CongruentThrough ==
  ASSUME NEW a, NEW b, NEW c, NEW m \in Int, Congruent(a, b, m), Congruent(b, c, m)
  PROVE  Congruent(a, c, m)
<1>1. PICK q \in Int : a = b + q * m /\ a \in Int /\ b \in Int
  BY DEF Congruent
<1>2. PICK r \in Int : b = c + r * m /\ c \in Int
  BY DEF Congruent
<1>3. q + r \in Int /\ (q + r) * m = q * m + r * m
  OBVIOUS
<1>4. a = c + (q + r) * m
  BY <1>1, <1>2, <1>3
<1> QED BY <1>1, <1>2, <1>3, <1>4 DEF Congruent

LEMMA CongruentMod ==
  ASSUME NEW a \in Int, NEW m \in Nat, m > 0
  PROVE  Congruent(a % m, a, m)
<1>1. a \div m \in Int /\ a % m \in 0 .. m - 1 /\ a = (a \div m) * m + (a % m)
  BY DivMod
<1>2. PICK q, r : q = a \div m /\ r = a % m
  OBVIOUS
<1>3. -q \in Int /\ r \in Int /\ a = q * m + r
  BY <1>1, <1>2
<1>4. (-q) * m = -(q * m) /\ q * m \in Int
  BY <1>1, <1>2
<1>5. r = a + (-q) * m
  BY <1>3, <1>4
<1> QED BY <1>2, <1>3, <1>5 DEF Congruent

LEMMA CongruentDifference ==
  ASSUME NEW a, NEW b, NEW m \in Nat, m > 0, Congruent(a, b, m)
  PROVE  (a - b) % m = 0
<1>1. PICK q \in Int : a = b + q * m /\ a \in Int /\ b \in Int
  BY DEF Congruent
<1>2. PICK d : d = a - b
  OBVIOUS
<1>3. q * m \in Int
  OBVIOUS
<1>4. Divided(d, m, q, 0)
  BY <1>1, <1>2, <1>3 DEF Divided
<1> QED BY <1>2, <1>4, DivModUnique

-----------------------------------------------------------------------------
(* Booth's products. *)

\* A vector moved up i places and extended with its sign.
LEMMA MovedUp ==
  ASSUME NEW n \in Nat, NEW x \in Vectors(n + 1), NEW i \in Nat, NEW m \in Nat, i + n + 1 <= m
  PROVE  /\ SignExtend(Repeated(0, i) \o x, m) \in Vectors(m)
         /\ Congruent(Number(SignExtend(Repeated(0, i) \o x, m)), 2^i * Signed(x), 2^m)
<1>1. PICK z, y : z = Repeated(0, i) /\ y = z \o x
  OBVIOUS
<1>2. z \in Vectors(i) /\ Number(z) = 0 /\ n + 1 \in Nat
  BY <1>1, RepeatedType, NumberZeros
<1>3. PICK k : k = i + n
  OBVIOUS
<1>4. k \in Nat /\ i + (n + 1) = k + 1 /\ k + 1 <= m /\ n + 1 \in 1 .. n + 1
  BY <1>3
<1>5. /\ y \in Vectors(k + 1)
      /\ \A j \in 1 .. n + 1 : y[i + j] = x[j]
  <2>1. z \o x \in Vectors(i + (n + 1)) /\ \A j \in 1 .. n + 1 : (z \o x)[i + j] = x[j]
    <3>1. PICK h : h = n + 1
      OBVIOUS
    <3>2. h \in Nat /\ x \in Vectors(h) /\ z \in Vectors(i)
      BY <1>2, <3>1
    <3>3. /\ z \o x \in Vectors(i + h)
          /\ \A j \in 1 .. i : (z \o x)[j] = z[j]
          /\ \A j \in 1 .. h : (z \o x)[i + j] = x[j]
      BY ONLY ZenonT(60), <3>2, i \in Nat, ConcatIs
    <3> QED BY <3>1, <3>3
  <2> QED BY <1>1, <1>4, <2>1
<1>6. PICK p, q, a, b, t : p = 2^i /\ q = 2^n /\ a = Number(x) /\ b = 2^m /\ t = Top(x)
  OBVIOUS
<1>7. p \in Nat /\ q \in Nat /\ a \in Nat /\ b \in Nat /\ 2^k = p * q
  BY <1>2, <1>3, <1>6, PowerPositive, PowerAdds, NumberBound
<1>8. t \in {0, 1} /\ t = x[n + 1] /\ Signed(x) = a - t * (2 * q) /\ Signed(x) \in Int
  BY <1>6, SignedIs
<1>9. Number(y) = p * a
  BY <1>1, <1>2, <1>6, <1>7, NumberConcat
<1>10. /\ Top(y) = y[k + 1] /\ Signed(y) = Number(y) - Top(y) * (2 * 2^k)
       /\ SignExtend(y, m) \in Vectors(m)
       /\ Number(SignExtend(y, m)) = Signed(y) + Top(y) * 2^m
  BY <1>4, <1>5, SignedIs, NumberSignExtend
<1>11. Top(y) = t
  BY <1>4, <1>5, <1>8, <1>10
<1>12. Signed(y) = p * a - t * (2 * (p * q))
  BY <1>7, <1>9, <1>10, <1>11
<1>13. p * a - t * (2 * (p * q)) = p * (a - t * (2 * q))
  <2>1. CASE t = 0
    BY <1>7, <2>1
  <2>2. CASE t = 1
    BY <1>7, <2>2
  <2> QED BY <1>8, <2>1, <2>2
<1>14. PICK s : s = Signed(x) /\ s \in Int
  BY <1>8
<1>15. Number(SignExtend(y, m)) = p * s + t * b
  BY <1>6, <1>8, <1>10, <1>11, <1>12, <1>13, <1>14
<1>16. p * s \in Int /\ t * b \in Int /\ t \in Int /\ b \in Int
  <2>1. t \in Int /\ b \in Int /\ p \in Int /\ s \in Int
    BY <1>7, <1>8, <1>14
  <2> QED BY <2>1
<1>17. Congruent(p * s + t * b, p * s, b)
  BY <1>16, CongruentBy
<1> QED BY <1>1, <1>6, <1>10, <1>14, <1>15, <1>17

LEMMA CongruentModEqual ==
  ASSUME NEW a, NEW b, NEW m \in Nat, m > 0, Congruent(a, b, m)
  PROVE  a % m = b % m
<1>1. PICK q \in Int : a = b + q * m /\ a \in Int /\ b \in Int
  BY DEF Congruent
<1>2. PICK e, r : e = b \div m /\ r = b % m
  OBVIOUS
<1>3. e \in Int /\ r \in 0 .. m - 1 /\ b = e * m + r
  BY <1>1, <1>2, DivMod
<1>4. e + q \in Int /\ (e + q) * m = e * m + q * m
  BY <1>3
<1>5. a = (e + q) * m + r
  BY <1>1, <1>3, <1>4
<1>6. PICK s : s = e + q /\ s \in Int
  BY <1>4
<1>7. Divided(a, m, s, r)
  BY <1>3, <1>5, <1>6 DEF Divided
<1>8. a % m = r
  BY <1>7, DivModUnique
<1> QED BY <1>2, <1>8

\* The negative of a vector that is not the smallest one.
LEMMA NegatedIs ==
  ASSUME NEW n \in Nat, NEW x \in Vectors(n + 1), Signed(x) > -(2^n)
  PROVE  /\ Add(Not(x), Vector(1, Len(x)), 0) \in Vectors(n + 1)
         /\ Signed(Add(Not(x), Vector(1, Len(x)), 0)) = -Signed(x)
<1>1. PICK h : h = n + 1 /\ h \in Nat
  OBVIOUS
<1>2. x \in Vectors(h) /\ Len(x) = h
  BY <1>1, VectorIs
<1>3. PICK p : p = 2^n /\ p \in Nat /\ p > 0 /\ 2^h = 2 * p
  BY <1>1, PowerPositive, PowerStep
<1>4. PICK a, s, t : a = Number(x) /\ s = Signed(x) /\ t = Top(x)
  OBVIOUS
<1>5. a \in Nat /\ a < 2 * p /\ t \in {0, 1} /\ s = a - t * (2 * p) /\ s \in Int /\ -p < s /\ s < p
  BY <1>1, <1>2, <1>3, <1>4, NumberBound, SignedIs
<1>6. PICK y, z : y = Not(x) /\ z = Vector(1, h)
  OBVIOUS
<1>7. y \in Vectors(h) /\ Number(y) = 2 * p - 1 - a
  BY <1>1, <1>2, <1>3, <1>4, <1>6, NotIs, NumberNot
<1>8. z \in Vectors(h) /\ Number(z) = 1
  <2>1. 1 \in Int /\ 1 \in 0 .. 2^h - 1
    BY <1>3
  <2> QED BY <1>1, <1>6, <2>1, SmallVector
<1>9. PICK w : w = Add(y, z, 0)
  OBVIOUS
<1>10. w \in Vectors(h) /\ Number(w) = (Number(y) + Number(z) + 0) % 2^h
  BY <1>1, <1>7, <1>8, <1>9, AddIs
<1>11. Number(w) = (2 * p - a) % (2 * p)
  <2>1. Number(y) + Number(z) + 0 = 2 * p - a
    BY <1>3, <1>5, <1>7, <1>8
  <2> QED BY <1>3, <1>10, <2>1
<1>12. (2 * p - a) % (2 * p) = (-s) % (2 * p)
  <2>1. 2 * p - a = -s + (1 - t) * (2 * p)
    <3>1. CASE t = 0
      BY <1>3, <1>5, <3>1
    <3>2. CASE t = 1
      BY <1>3, <1>5, <3>2
    <3> QED BY <1>5, <3>1, <3>2
  <2>2. PICK m, c, d, q : m = 2 * p /\ c = 2 * p - a /\ d = -s /\ q = 1 - t
    OBVIOUS
  <2>3. m \in Nat /\ m > 0 /\ c \in Int /\ d \in Int /\ q \in Int /\ c = d + q * m
    BY <1>3, <1>5, <2>1, <2>2
  <2>4. Congruent(c, d, m)
    <3>1. m \in Int
      BY <2>3
    <3> QED BY ONLY <2>3, <3>1, CongruentBy
  <2>5. c % m = d % m
    BY <2>3, <2>4, CongruentModEqual
  <2> QED BY <2>2, <2>5
<1>13. Signed(w) = -s
  <2>1. PICK d : d = -s
    OBVIOUS
  <2>2. d \in Int /\ -(2^n) <= d /\ d < 2^n /\ Number(w) = d % (2 * 2^n) /\ w \in Vectors(n + 1)
    BY <1>1, <1>3, <1>5, <1>10, <1>11, <1>12, <2>1
  <2>3. Signed(w) = d
    BY <2>2, SignedUnique
  <2> QED BY <2>1, <2>3
<1> QED BY <1>1, <1>2, <1>4, <1>6, <1>9, <1>10, <1>13

\* The digit's factor: bits b0 and b1 count once, b2 twice with a minus.
Factor(digit) ==
  CASE digit \in {1, 2} -> 1 [] digit = 3 -> 2 [] digit = 4 -> -2 [] digit \in {5, 6} -> -1 [] OTHER -> 0

LEMMA BoothIs ==
  ASSUME NEW n \in Nat, NEW b \in Vectors(n + 1), Signed(b) > -(2^n), NEW digit \in 0 .. 7,
         NEW i \in Nat, NEW m \in Nat, i + 1 + n + 1 <= m
  PROVE  /\ Booth(digit, b, i, m) \in Vectors(m)
         /\ Congruent(Number(Booth(digit, b, i, m)), 2^i * (Factor(digit) * Signed(b)), 2^m)
<1>1. PICK c : c = Add(Not(b), Vector(1, Len(b)), 0)
  OBVIOUS
<1>2. c \in Vectors(n + 1) /\ Signed(c) = -Signed(b) /\ Signed(b) \in Int
  BY <1>1, NegatedIs, SignedIs
<1>3. PICK s, p, M, j : s = Signed(b) /\ p = 2^i /\ M = 2^m /\ j = i + 1
  OBVIOUS
<1>4. s \in Int /\ p \in Nat /\ M \in Nat /\ j \in Nat /\ 2^j = 2 * p /\ i + n + 1 <= m /\ j + n + 1 <= m
  BY <1>2, <1>3, PowerPositive, PowerStep
<1>5. CASE digit \in {1, 2}
  <2>1. PICK w : w = Booth(digit, b, i, m) /\ w = SignExtend(Repeated(0, i) \o b, m)
    BY SMTT(30), <1>5 DEF Booth
  <2>2. w \in Vectors(m) /\ Congruent(Number(w), 2^i * Signed(b), 2^m)
    BY <1>4, <2>1, MovedUp
  <2>3. Factor(digit) = 1 /\ 1 * s = s
    BY <1>4, <1>5 DEF Factor
  <2> QED BY <1>3, <2>1, <2>2, <2>3
<1>6. CASE digit = 3
  <2>1. PICK w : w = Booth(digit, b, i, m) /\ w = SignExtend(Repeated(0, j) \o b, m)
    BY <1>3, <1>6 DEF Booth
  <2>2. w \in Vectors(m) /\ Congruent(Number(w), 2^j * Signed(b), 2^m)
    BY <1>4, <2>1, MovedUp
  <2>3. Factor(digit) = 2 /\ (2 * p) * s = p * (2 * s)
    BY <1>4, <1>6 DEF Factor
  <2> QED BY <1>3, <1>4, <2>1, <2>2, <2>3
<1>7. CASE digit = 4
  <2>1. PICK w : w = Booth(digit, b, i, m) /\ w = SignExtend(Repeated(0, j) \o c, m)
    BY <1>1, <1>3, <1>7 DEF Booth
  <2>2. w \in Vectors(m) /\ Congruent(Number(w), 2^j * Signed(c), 2^m)
    BY <1>2, <1>4, <2>1, MovedUp
  <2>3. Factor(digit) = -2 /\ (2 * p) * (-s) = p * ((-2) * s)
    BY <1>4, <1>7 DEF Factor
  <2> QED BY <1>2, <1>3, <1>4, <2>1, <2>2, <2>3
<1>8. CASE digit \in {5, 6}
  <2>1. PICK w : w = Booth(digit, b, i, m) /\ w = SignExtend(Repeated(0, i) \o c, m)
    BY <1>1, <1>8 DEF Booth
  <2>2. w \in Vectors(m) /\ Congruent(Number(w), 2^i * Signed(c), 2^m)
    BY <1>2, <1>4, <2>1, MovedUp
  <2>3. Factor(digit) = -1 /\ -s = (-1) * s
    BY <1>4, <1>8 DEF Factor
  <2> QED BY <1>2, <1>3, <2>1, <2>2, <2>3
<1>9. CASE digit \in {0, 7}
  <2>1. PICK w : w = Booth(digit, b, i, m) /\ w = Repeated(0, m)
    BY SMTT(30), <1>9 DEF Booth
  <2>2. w \in Vectors(m) /\ Number(w) = 0
    BY <2>1, RepeatedType, NumberZeros
  <2>3. Factor(digit) = 0 /\ 0 * s = 0 /\ p * 0 = 0
    BY <1>4, <1>9 DEF Factor
  <2>4. Congruent(0, 0, M)
    BY <1>4, CongruentSelf
  <2> QED BY <1>3, <2>1, <2>2, <2>3, <2>4
<1> QED BY <1>5, <1>6, <1>7, <1>8, <1>9

\* t has the sums of the first numbers.
TotalValues(t, numbers, n) ==
  /\ t[0] = 0
  /\ \A k \in 1 .. n : t[k] = t[k - 1] + Number(numbers[k])
  /\ \A k \in 0 .. n : t[k] \in Nat

LEMMA TotalIs ==
  ASSUME NEW m \in Nat, NEW n \in Nat, NEW numbers, numbers \in Tuples(Vectors(m), n)
  PROVE  \E t : TotalValues(t, numbers, n) /\ Total(numbers) = t[n]
<1> DEFINE V == [k \in 0 .. n |-> Nat]
           step == [k \in 1 .. n |-> [u \in Nat |-> u + Number(numbers[k])]]
           Layers(f) == [k \in 0 .. n |-> IF k = 0 THEN 0 ELSE f[k - 1] + Number(numbers[k])]
<1>1. Len(numbers) = n /\ \A k \in 1 .. n : Number(numbers[k]) \in Nat
  BY TupleIs, NumberBound
<1>2. V \in [0 .. n -> SUBSET Nat] /\ 0 \in V[0] /\ \A k \in 0 .. n : V[k] = Nat
  OBVIOUS
<1>3. ASSUME NEW k \in 1 .. n, NEW u \in V[k - 1]
      PROVE  step[k][u] = u + Number(numbers[k]) /\ step[k][u] \in V[k]
  <2>1. k - 1 \in 0 .. n /\ k \in 0 .. n
    OBVIOUS
  <2>2. u \in Nat
    BY <1>2, <2>1
  <2>3. step[k][u] = u + Number(numbers[k])
    BY <2>2
  <2> QED BY <1>1, <1>2, <2>1, <2>2, <2>3
<1> HIDE DEF V, step
<1>4. StepsOn(n, Nat, V, 0, step)
  BY <1>2, <1>3 DEF StepsOn
<1>5. PICK f : IsRecursive(f, n, Nat, V, 0, step)
  BY <1>4, RecursiveFunction
<1>6. f = Layers(f)
  <2>1. f \in [0 .. n -> Nat] /\ f[0] = 0 /\ (\A k \in 0 .. n : f[k] \in V[k])
        /\ \A k \in 1 .. n : f[k] = step[k][f[k - 1]]
    BY <1>5 DEF IsRecursive
  <2>2. ASSUME NEW k \in 0 .. n
        PROVE  f[k] = IF k = 0 THEN 0 ELSE f[k - 1] + Number(numbers[k])
    <3>1. CASE k = 0
      BY <2>1, <3>1
    <3>2. CASE k # 0
      <4>1. k \in 1 .. n /\ k - 1 \in 0 .. n
        BY <3>2
      <4> QED BY <1>3, <2>1, <3>2, <4>1
    <3> QED BY <3>1, <3>2
  <2>3. f = [k \in 0 .. n |-> f[k]]
    BY <2>1
  <2> QED BY <2>2, <2>3
<1>7. PICK t : t = Layers(t) /\ t = CHOOSE total : total = Layers(total)
  <2> HIDE DEF Layers
  <2> QED BY <1>6
<1>8. Total(numbers) = t[n]
  BY <1>1, <1>7 DEF Total
<1>9. t[0] = 0 /\ \A k \in 1 .. n : t[k] = t[k - 1] + Number(numbers[k])
  <2>1. \A k \in 1 .. n : k \in 0 .. n /\ k # 0
    OBVIOUS
  <2>2. 0 \in 0 .. n
    OBVIOUS
  <2>3. \A k \in 0 .. n : t[k] = IF k = 0 THEN 0 ELSE t[k - 1] + Number(numbers[k])
    BY <1>7
  <2> QED BY <2>1, <2>2, <2>3
<1>10. \A k \in 0 .. n : t[k] \in V[k]
  <2>1. ASSUME NEW k \in 1 .. n, t[k - 1] \in V[k - 1] PROVE t[k] \in V[k]
    BY <1>3, <1>9, <2>1, <1>1, <1>2
  <2> QED BY <1>2, <1>9, <2>1, RecursiveValues
<1> QED BY <1>2, <1>8, <1>9, <1>10 DEF TotalValues

-----------------------------------------------------------------------------
(* One adder of the tree. *)
LEMMA MajorityIs ==
  ASSUME NEW m \in Nat, NEW a \in Vectors(m), NEW b \in Vectors(m), NEW c \in Vectors(m)
  PROVE  /\ Majority(a, b, c) \in Vectors(m)
         /\ Xor(Xor(a, b), c) \in Vectors(m)
         /\ \A i \in 1 .. m : a[i] + b[i] + c[i] = Xor(Xor(a, b), c)[i] + 2 * Majority(a, b, c)[i]
<1>1. DOMAIN a = 1 .. m /\ \A i \in 1 .. m : a[i] \in {0, 1} /\ b[i] \in {0, 1} /\ c[i] \in {0, 1}
  BY VectorIs
<1>2. PICK y : y = Xor(a, b)
  OBVIOUS
<1>3. PICK x : x = Xor(y, c)
  OBVIOUS
<1>4. PICK z : z = Majority(a, b, c)
  OBVIOUS
<1>5. y \in Vectors(m) /\ \A i \in 1 .. m : y[i] = (a[i] + b[i]) % 2
  BY <1>1, <1>2, BitwiseType DEF Xor
<1>6. DOMAIN y = 1 .. m
  BY <1>5, VectorIs
<1>7. x \in Vectors(m) /\ \A i \in 1 .. m : x[i] = (y[i] + c[i]) % 2
  BY <1>3, <1>5, <1>6, BitwiseType DEF Xor
<1>8. \A i \in 1 .. m : z[i] = (a[i] + b[i] + c[i]) \div 2
  BY <1>1, <1>4 DEF Majority
<1>9. ASSUME NEW i \in 1 .. m
      PROVE  z[i] \in {0, 1} /\ a[i] + b[i] + c[i] = x[i] + 2 * z[i]
  <2>1. PICK p, q, r : p = a[i] /\ q = b[i] /\ r = c[i]
    OBVIOUS
  <2>2. p \in {0, 1} /\ q \in {0, 1} /\ r \in {0, 1}
    BY <1>1, <2>1
  <2>3. y[i] = (p + q) % 2 /\ x[i] = (y[i] + r) % 2 /\ z[i] = (p + q + r) \div 2
    BY <1>5, <1>7, <1>8, <2>1
  <2>4. ASSUME NEW d, NEW e, NEW f, d = (p + q) % 2, e = (d + r) % 2, f = (p + q + r) \div 2
        PROVE  f \in {0, 1} /\ p + q + r = e + 2 * f
    BY <2>2, <2>4
  <2> QED BY <2>1, <2>3, <2>4
<1>10. z \in Vectors(m)
  <2>1. z = [i \in 1 .. m |-> (a[i] + b[i] + c[i]) \div 2]
    BY <1>1, <1>4 DEF Majority
  <2>2. \A i \in 1 .. m : (a[i] + b[i] + c[i]) \div 2 \in {0, 1}
    BY <1>8, <1>9
  <2> QED BY <2>1, <2>2 DEF Vectors
<1> QED BY <1>2, <1>3, <1>4, <1>7, <1>9, <1>10

\* Numbers of vectors whose bits add up.
AddUp(a, b, c, x, z, m) == \A i \in 1 .. m : a[i] + b[i] + c[i] = x[i] + 2 * z[i]

LEMMA NumbersAddUp ==
  ASSUME NEW m \in Nat, NEW a \in Vectors(m), NEW b \in Vectors(m), NEW c \in Vectors(m),
         NEW x \in Vectors(m), NEW z \in Vectors(m), AddUp(a, b, c, x, z, m)
  PROVE  Number(a) + Number(b) + Number(c) = Number(x) + 2 * Number(z)
<1>a. PICK va : PrefixValues(va, a, m) /\ Number(a) = va[m]
  BY NumberValues
<1>b. PICK vb : PrefixValues(vb, b, m) /\ Number(b) = vb[m]
  BY NumberValues
<1>c. PICK vc : PrefixValues(vc, c, m) /\ Number(c) = vc[m]
  BY NumberValues
<1>x. PICK vx : PrefixValues(vx, x, m) /\ Number(x) = vx[m]
  BY NumberValues
<1>z. PICK vz : PrefixValues(vz, z, m) /\ Number(z) = vz[m]
  BY NumberValues
<1> DEFINE S == {k \in Nat : k <= m => va[k] + vb[k] + vc[k] = vx[k] + 2 * vz[k]}
<1>1. 0 \in S
  BY <1>a, <1>b, <1>c, <1>x, <1>z DEF PrefixValues
<1>2. ASSUME NEW k \in Nat, k \in S PROVE k + 1 \in S
  <2> SUFFICES ASSUME k + 1 <= m
               PROVE  va[k + 1] + vb[k + 1] + vc[k + 1] = vx[k + 1] + 2 * vz[k + 1]
    OBVIOUS
  <2>1. k + 1 \in 1 .. m /\ (k + 1) - 1 = k /\ k \in 0 .. m
    OBVIOUS
  <2>2. va[k] + vb[k] + vc[k] = vx[k] + 2 * vz[k]
    BY <1>2, <2>1
  <2>3. PICK p : p = 2^k /\ p \in Nat
    BY PowerPositive
  <2>4. PICK i : i = k + 1
    OBVIOUS
  <2>5. /\ va[i] = va[k] + a[i] * p /\ vb[i] = vb[k] + b[i] * p /\ vc[i] = vc[k] + c[i] * p
        /\ vx[i] = vx[k] + x[i] * p /\ vz[i] = vz[k] + z[i] * p
    BY <1>a, <1>b, <1>c, <1>x, <1>z, <2>1, <2>3, <2>4 DEF PrefixValues
  <2>6. 2^k \in Nat /\ va[k] \in Int /\ vb[k] \in Int /\ vc[k] \in Int /\ vx[k] \in Int /\ vz[k] \in Int
    <3>1. \A j \in 0 .. 2^k - 1 : j \in Int
      OBVIOUS
    <3> QED BY <1>a, <1>b, <1>c, <1>x, <1>z, <2>1, <2>3, <3>1 DEF PrefixValues
  <2>7. a[i] + b[i] + c[i] = x[i] + 2 * z[i]
    BY <2>1, <2>4 DEF AddUp
  <2>8. a[i] \in Int /\ b[i] \in Int /\ c[i] \in Int /\ x[i] \in Int /\ z[i] \in Int
    <3>1. i \in 1 .. m
      BY <2>1, <2>4
    <3> QED BY <3>1, VectorIs
  <2>9. ASSUME NEW A0 \in Int, NEW B0 \in Int, NEW C0 \in Int, NEW X0 \in Int, NEW Z0 \in Int,
               A0 + B0 + C0 = X0 + 2 * Z0
        PROVE  A0 * p + B0 * p + C0 * p = X0 * p + 2 * (Z0 * p)
    <3>1. A0 * p + B0 * p + C0 * p = (A0 + B0 + C0) * p
      BY <2>3
    <3>2. (X0 + 2 * Z0) * p = X0 * p + 2 * (Z0 * p)
      BY <2>3
    <3> QED BY <2>9, <3>1, <3>2
  <2>10. a[i] * p + b[i] * p + c[i] * p = x[i] * p + 2 * (z[i] * p)
    BY <2>7, <2>8, <2>9
  <2>11. PICK A1, B1, C1, X1, Z1 : A1 = a[i] * p /\ B1 = b[i] * p /\ C1 = c[i] * p
                                   /\ X1 = x[i] * p /\ Z1 = z[i] * p
    OBVIOUS
  <2>12. A1 \in Int /\ B1 \in Int /\ C1 \in Int /\ X1 \in Int /\ Z1 \in Int
    BY <2>3, <2>8, <2>11
  <2> QED BY SMTT(30), <2>2, <2>4, <2>5, <2>6, <2>10, <2>11, <2>12
<1> HIDE DEF S
<1>3. m \in S
  BY <1>1, <1>2, Induction
<1> QED BY <1>a, <1>b, <1>c, <1>x, <1>z, <1>3 DEF S

LEMMA CompressedIs ==
  ASSUME NEW n \in Nat, NEW m, m = n + 1, NEW a \in Vectors(m), NEW b \in Vectors(m), NEW c \in Vectors(m)
  PROVE  /\ Compressed(a, b, c)[1] \in Vectors(m) /\ Compressed(a, b, c)[2] \in Vectors(m)
         /\ Congruent(Number(Compressed(a, b, c)[1]) + Number(Compressed(a, b, c)[2]),
                      Number(a) + Number(b) + Number(c), 2^m)
<1>0. m \in Nat
  OBVIOUS
<1>1. PICK x, z, y : x = Xor(Xor(a, b), c) /\ z = Majority(a, b, c) /\ y = ShiftLeft(z, 1)
  OBVIOUS
<1>2. Compressed(a, b, c)[1] = x /\ Compressed(a, b, c)[2] = y
  BY <1>1 DEF Compressed
<1>3. x \in Vectors(m) /\ z \in Vectors(m) /\ AddUp(a, b, c, x, z, m)
  BY <1>0, <1>1, MajorityIs DEF AddUp
<1>4. Number(a) + Number(b) + Number(c) = Number(x) + 2 * Number(z)
  BY <1>0, <1>3, NumbersAddUp
<1>5. 1 \in 0 .. m /\ m - 1 = n /\ n \in 0 .. m /\ m - n = 1
  OBVIOUS
<1>6. y \in Vectors(m) /\ Number(y) = 2^1 * Number(SubSeq(z, 1, m - 1))
  BY <1>0, <1>1, <1>3, <1>5, ShiftLeftIs
<1>7. /\ Number(z) = Number(SubSeq(z, 1, n)) + 2^n * Number(SubSeq(z, n + 1, m))
      /\ SubSeq(z, 1, n) \in Vectors(n) /\ SubSeq(z, n + 1, m) \in Vectors(1)
  BY <1>0, <1>3, <1>5, NumberParts, ConcatParts
<1>8. PICK l, h, p, X, Z, Y : l = Number(SubSeq(z, 1, n)) /\ h = Number(SubSeq(z, n + 1, m)) /\ p = 2^n
                              /\ X = Number(x) /\ Z = Number(z) /\ Y = Number(y)
  OBVIOUS
<1>9. l \in Nat /\ h \in Nat /\ p \in Nat /\ X \in Nat /\ Z \in Nat /\ Y \in Nat /\ 2^m = 2 * p
  BY <1>0, <1>3, <1>6, <1>7, <1>8, NumberBound, PowerPositive, PowerStep
<1>10. Y = 2 * l /\ Z = l + p * h
  BY <1>5, <1>6, <1>7, <1>8, PowerOfOne
<1>11. X + Y = (X + 2 * Z) + (-h) * (2 * p)
  <2>1. (-h) * (2 * p) = -(2 * (p * h))
    BY <1>9
  <2>2. p * h \in Int
    BY <1>9
  <2> QED BY <1>9, <1>10, <2>1, <2>2
<1>12. X + Y \in Int /\ X + 2 * Z \in Int /\ -h \in Int /\ 2 * p \in Int
  BY <1>9
<1>13. Congruent(X + Y, X + 2 * Z, 2 * p)
  BY <1>11, <1>12, CongruentBy
<1> QED BY <1>2, <1>3, <1>4, <1>6, <1>8, <1>9, <1>13

\* The addends that level leaves of the first n of numbers, g groups of three.
NextAddends(numbers, next, n, g) ==
  /\ g \in Nat /\ 3 * g <= n
  /\ \A h \in 0 .. g - 1 :
       LET group == Compressed(numbers[3 * h + 1], numbers[3 * h + 2], numbers[3 * h + 3])
       IN  next[2 * h + 1] = group[1] /\ next[2 * h + 2] = group[2]
  /\ \A j \in 2 * g + 1 .. n - g : next[j] = numbers[j + g]

LEMMA NextLevelIs ==
  ASSUME NEW n \in Nat, NEW S, NEW numbers \in Tuples(S, n)
  PROVE  \E g : /\ g = n \div 3
                /\ NextAddends(numbers, NextLevel(numbers), n, g)
                /\ NextLevel(numbers) = [j \in 1 .. n - g |-> NextLevel(numbers)[j]]
<1>1. PICK g : g = n \div 3 /\ g \in Nat /\ 3 * g <= n
  OBVIOUS
<1>2. Len(numbers) = n
  BY TupleIs
<1>3. PICK next : next = NextLevel(numbers)
  OBVIOUS
<1> DEFINE Group(h) == Compressed(numbers[3 * h + 1], numbers[3 * h + 2], numbers[3 * h + 3])
<1>4. next = [j \in 1 .. n - g |->
         IF j <= 2 * g THEN Group((j - 1) \div 2)[((j - 1) % 2) + 1] ELSE numbers[j + g]]
  BY <1>1, <1>2, <1>3 DEF NextLevel
<1>5. ASSUME NEW h \in 0 .. g - 1
      PROVE  next[2 * h + 1] = Group(h)[1] /\ next[2 * h + 2] = Group(h)[2]
  <2>1. PICK i, j : i = 2 * h + 1 /\ j = 2 * h + 2
    OBVIOUS
  <2>2. /\ i \in 1 .. n - g /\ i <= 2 * g /\ (i - 1) \div 2 = h /\ ((i - 1) % 2) + 1 = 1
        /\ j \in 1 .. n - g /\ j <= 2 * g /\ (j - 1) \div 2 = h /\ ((j - 1) % 2) + 1 = 2
    BY <1>1, <2>1
  <2>3. next[i] = Group((i - 1) \div 2)[((i - 1) % 2) + 1]
    <3> HIDE DEF Group
    <3> QED BY <1>4, <2>2
  <2>4. next[j] = Group((j - 1) \div 2)[((j - 1) % 2) + 1]
    <3> HIDE DEF Group
    <3> QED BY <1>4, <2>2
  <2> HIDE DEF Group
  <2> QED BY <2>1, <2>2, <2>3, <2>4
<1>6. ASSUME NEW j \in 2 * g + 1 .. n - g PROVE next[j] = numbers[j + g]
  <2>1. j \in 1 .. n - g /\ ~ (j <= 2 * g)
    BY <1>1
  <2> HIDE DEF Group
  <2> QED BY <1>4, <2>1
<1>7. NextAddends(numbers, next, n, g)
  BY <1>1, <1>5, <1>6 DEF NextAddends
<1>8. next = [j \in 1 .. n - g |-> next[j]]
  <2> HIDE DEF Group
  <2> QED BY <1>4
<1> QED BY <1>1, <1>3, <1>7, <1>8

LEMMA NextAddendsType ==
  ASSUME NEW d \in Nat, NEW m, m = d + 1, NEW n \in Nat, NEW g, NEW numbers \in Tuples(Vectors(m), n),
         NEW next, NextAddends(numbers, next, n, g)
  PROVE  /\ \A h \in 0 .. g - 1 :
              /\ numbers[3 * h + 1] \in Vectors(m) /\ numbers[3 * h + 2] \in Vectors(m)
              /\ numbers[3 * h + 3] \in Vectors(m)
              /\ next[2 * h + 1] \in Vectors(m) /\ next[2 * h + 2] \in Vectors(m)
         /\ \A j \in 1 .. n - g : next[j] \in Vectors(m)
<1>1. g \in Nat /\ 3 * g <= n
  BY DEF NextAddends
<1>2. \A i \in 1 .. n : numbers[i] \in Vectors(m)
  BY TupleIs
<1>3. ASSUME NEW h \in 0 .. g - 1
      PROVE  /\ numbers[3 * h + 1] \in Vectors(m) /\ numbers[3 * h + 2] \in Vectors(m)
             /\ numbers[3 * h + 3] \in Vectors(m)
             /\ next[2 * h + 1] \in Vectors(m) /\ next[2 * h + 2] \in Vectors(m)
  <2>1. 3 * h + 1 \in 1 .. n /\ 3 * h + 2 \in 1 .. n /\ 3 * h + 3 \in 1 .. n
    BY <1>1
  <2>2. PICK a, b, c : a = numbers[3 * h + 1] /\ b = numbers[3 * h + 2] /\ c = numbers[3 * h + 3]
    OBVIOUS
  <2>3. a \in Vectors(m) /\ b \in Vectors(m) /\ c \in Vectors(m)
    BY <1>2, <2>1, <2>2
  <2>4. Compressed(a, b, c)[1] \in Vectors(m) /\ Compressed(a, b, c)[2] \in Vectors(m)
    BY <2>3, CompressedIs
  <2>5. next[2 * h + 1] = Compressed(a, b, c)[1] /\ next[2 * h + 2] = Compressed(a, b, c)[2]
    BY <2>2 DEF NextAddends
  <2> QED BY <2>2, <2>3, <2>4, <2>5
<1>4. ASSUME NEW j \in 1 .. n - g PROVE next[j] \in Vectors(m)
  <2>1. CASE j <= 2 * g
    <3>1. PICK h : h = (j - 1) \div 2
      OBVIOUS
    <3>2. h \in 0 .. g - 1 /\ (j = 2 * h + 1 \/ j = 2 * h + 2)
      BY <1>1, <2>1, <3>1
    <3> QED BY <1>3, <3>2
  <2>2. CASE ~ (j <= 2 * g)
    <3>1. j \in 2 * g + 1 .. n - g /\ j + g \in 1 .. n
      BY <1>1, <2>2
    <3>2. next[j] = numbers[j + g]
      BY <3>1 DEF NextAddends
    <3> QED BY <1>2, <3>1, <3>2
  <2> QED BY <2>1, <2>2
<1> QED BY <1>3, <1>4

\* The sums of the groups of three, then of the others.
LEMMA GroupsKeepTotal ==
  ASSUME NEW d \in Nat, NEW m, m = d + 1, NEW n \in Nat, NEW g, NEW numbers \in Tuples(Vectors(m), n),
         NEW next, NextAddends(numbers, next, n, g),
         NEW t, NEW s, TotalValues(t, numbers, n), TotalValues(s, next, n - g)
  PROVE  Congruent(s[2 * g], t[3 * g], 2^m)
<1>1. g \in Nat /\ 3 * g <= n /\ m \in Nat
  BY DEF NextAddends
<1>2. PICK M : M = 2^m /\ M \in Int
  BY <1>1, PowerPositive
<1> DEFINE T == {h \in Nat : h <= g => Congruent(s[2 * h], t[3 * h], M)}
<1>3. 0 \in T
  <2>1. s[2 * 0] = 0 /\ t[3 * 0] = 0
    BY DEF TotalValues
  <2> QED BY <1>2, <2>1, CongruentSelf
<1>4. ASSUME NEW h \in Nat, h \in T PROVE h + 1 \in T
  <2> SUFFICES ASSUME h + 1 <= g PROVE Congruent(s[2 * (h + 1)], t[3 * (h + 1)], M)
    OBVIOUS
  <2>1. h \in 0 .. g - 1 /\ h <= g
    BY <1>1
  <2>2. Congruent(s[2 * h], t[3 * h], M)
    BY <1>4, <2>1
  <2>3. PICK i, j : i = 2 * h /\ j = 3 * h
    OBVIOUS
  <2>4. /\ i \in Nat /\ j \in Nat /\ 2 * (h + 1) = i + 2 /\ 3 * (h + 1) = j + 3
        /\ i + 1 \in 1 .. n - g /\ i + 2 \in 1 .. n - g /\ (i + 1) - 1 = i /\ (i + 2) - 1 = i + 1
        /\ j + 1 \in 1 .. n /\ j + 2 \in 1 .. n /\ j + 3 \in 1 .. n
        /\ (j + 1) - 1 = j /\ (j + 2) - 1 = j + 1 /\ (j + 3) - 1 = j + 2
    BY <1>1, <2>1, <2>3
  <2>5. PICK a, b, c : a = numbers[j + 1] /\ b = numbers[j + 2] /\ c = numbers[j + 3]
    OBVIOUS
  <2>6. a \in Vectors(m) /\ b \in Vectors(m) /\ c \in Vectors(m)
    BY <2>1, <2>3, <2>5, NextAddendsType
  <2>7. PICK e, f : e = Compressed(a, b, c)[1] /\ f = Compressed(a, b, c)[2]
    OBVIOUS
  <2>8. next[i + 1] = e /\ next[i + 2] = f
    BY <2>1, <2>3, <2>5, <2>7 DEF NextAddends
  <2>9. Congruent(Number(e) + Number(f), Number(a) + Number(b) + Number(c), M)
    BY <1>2, <2>6, <2>7, CompressedIs
  <2>10. s[i + 1] = s[i] + Number(e) /\ s[i + 2] = s[i + 1] + Number(f) /\ s[i] \in Nat
    <3>1. s[i + 1] = s[(i + 1) - 1] + Number(next[i + 1])
      BY <2>4 DEF TotalValues
    <3>2. s[i + 2] = s[(i + 2) - 1] + Number(next[i + 2])
      BY <2>4 DEF TotalValues
    <3>3. s[i] \in Nat
      <4>1. i \in 0 .. n - g
        BY <1>1, <2>4
      <4> QED BY <4>1 DEF TotalValues
    <3> QED BY <2>4, <2>8, <3>1, <3>2, <3>3
  <2>11. t[j + 1] = t[j] + Number(a) /\ t[j + 2] = t[j + 1] + Number(b)
         /\ t[j + 3] = t[j + 2] + Number(c) /\ t[j] \in Nat
    <3>1. t[j + 1] = t[(j + 1) - 1] + Number(numbers[j + 1])
      BY <2>4 DEF TotalValues
    <3>2. t[j + 2] = t[(j + 2) - 1] + Number(numbers[j + 2])
      BY <2>4 DEF TotalValues
    <3>3. t[j + 3] = t[(j + 3) - 1] + Number(numbers[j + 3])
      BY <2>4 DEF TotalValues
    <3>4. t[j] \in Nat
      BY <2>4 DEF TotalValues
    <3> QED BY <2>4, <2>5, <3>1, <3>2, <3>3, <3>4
  <2>12. Number(a) \in Nat /\ Number(b) \in Nat /\ Number(c) \in Nat /\ Number(e) \in Nat /\ Number(f) \in Nat
    BY <1>1, <2>6, <2>7, NumberBound, CompressedIs
  <2>13. s[i + 2] = s[i] + (Number(e) + Number(f))
    BY <2>10, <2>12
  <2>14. t[j + 3] = t[j] + (Number(a) + Number(b) + Number(c))
    BY <2>11, <2>12
  <2>15. Congruent(s[i] + (Number(e) + Number(f)), t[j] + (Number(a) + Number(b) + Number(c)), M)
    BY <1>2, <2>2, <2>3, <2>9, CongruentAdds
  <2> QED BY <2>4, <2>13, <2>14, <2>15
<1> HIDE DEF T
<1>5. g \in T
  BY <1>1, <1>3, <1>4, Induction
<1> QED BY <1>1, <1>2, <1>5 DEF T

LEMMA OthersKeepTotal ==
  ASSUME NEW d \in Nat, NEW m, m = d + 1, NEW n \in Nat, NEW g, NEW numbers \in Tuples(Vectors(m), n),
         NEW next, NextAddends(numbers, next, n, g),
         NEW t, NEW s, TotalValues(t, numbers, n), TotalValues(s, next, n - g)
  PROVE  Congruent(s[n - g], t[n], 2^m)
<1>1. g \in Nat /\ 3 * g <= n /\ m \in Nat
  BY DEF NextAddends
<1>2. PICK M : M = 2^m /\ M \in Int
  BY <1>1, PowerPositive
<1>3. PICK p, q : p = 2 * g /\ q = 3 * g
  OBVIOUS
<1>4. p \in Nat /\ q \in Nat /\ q = p + g /\ q <= n
  BY <1>1, <1>3
<1> DEFINE T == {i \in Nat : q + i <= n => Congruent(s[p + i], t[q + i], M)}
<1>5. 0 \in T
  BY <1>2, <1>3, <1>4, GroupsKeepTotal
<1>6. ASSUME NEW i \in Nat, i \in T PROVE i + 1 \in T
  <2> SUFFICES ASSUME q + (i + 1) <= n PROVE Congruent(s[p + (i + 1)], t[q + (i + 1)], M)
    OBVIOUS
  <2>1. Congruent(s[p + i], t[q + i], M)
    BY <1>4, <1>6
  <2>2. PICK j, k : j = p + (i + 1) /\ k = q + (i + 1)
    OBVIOUS
  <2>3. /\ j \in 1 .. n - g /\ k \in 1 .. n /\ j - 1 = p + i /\ k - 1 = q + i
        /\ j \in 2 * g + 1 .. n - g /\ j + g = k
    BY <1>1, <1>3, <1>4, <2>2
  <2>4. next[j] = numbers[k]
    BY <2>3 DEF NextAddends
  <2>5. s[j] = s[p + i] + Number(numbers[k]) /\ t[k] = t[q + i] + Number(numbers[k])
    BY <2>3, <2>4 DEF TotalValues
  <2>6. Number(numbers[k]) \in Int
    BY SMTT(30), <1>1, <2>3, TupleIs, NumberBound
  <2>7. Congruent(Number(numbers[k]), Number(numbers[k]), M)
    BY <1>2, <2>6, CongruentSelf
  <2> QED BY <1>2, <2>1, <2>2, <2>5, <2>7, CongruentAdds
<1> HIDE DEF T
<1>7. n - q \in T
  <2>1. n - q \in Nat
    BY <1>4
  <2> QED BY <1>5, <1>6, <2>1, Induction
<1>8. n - q \in Nat /\ q + (n - q) = n /\ p + (n - q) = n - g
  BY <1>1, <1>3, <1>4
<1> QED BY <1>2, <1>7, <1>8 DEF T

\* Addends, at least two of them, that sum up to v modulo 2^m.
Sums(m, v) == {s \in Seq(Vectors(m)) : Len(s) >= 2 /\ Congruent(Total(s), v, 2^m)}

LEMMA NextLevelSums ==
  ASSUME NEW d \in Nat, NEW m, m = d + 1, NEW v, NEW numbers \in Sums(m, v)
  PROVE  /\ NextLevel(numbers) \in Sums(m, v)
         /\ Len(NextLevel(numbers)) <= Len(numbers)
         /\ Len(numbers) >= 3 => Len(NextLevel(numbers)) < Len(numbers)
<1>1. PICK n, S : n = Len(numbers) /\ S = Vectors(m)
  OBVIOUS
<1>2. n \in Nat /\ n >= 2 /\ numbers \in Seq(S) /\ Congruent(Total(numbers), v, 2^m) /\ m \in Nat
  BY <1>1 DEF Sums
<1>3. numbers \in Tuples(S, n)
  BY <1>1, <1>2, SequenceIs
<1>4. PICK next : next = NextLevel(numbers)
  OBVIOUS
<1>5. PICK g : /\ g = n \div 3 /\ NextAddends(numbers, next, n, g)
               /\ next = [j \in 1 .. n - g |-> next[j]]
  BY <1>2, <1>3, <1>4, NextLevelIs
<1>6. g \in Nat /\ 3 * g <= n /\ n - g \in Nat /\ n - g >= 2 /\ n - g <= n /\ (n >= 3 => n - g < n)
  BY <1>2, <1>5
<1>7. \A j \in 1 .. n - g : next[j] \in S
  BY <1>1, <1>2, <1>3, <1>5, NextAddendsType
<1>8. next \in Tuples(S, n - g)
  BY <1>5, <1>7 DEF Tuples
<1>9. next \in Seq(S) /\ Len(next) = n - g
  BY <1>6, <1>8, TupleIs
<1>10. PICK t : TotalValues(t, numbers, n) /\ Total(numbers) = t[n]
  BY <1>1, <1>2, <1>3, TotalIs
<1>11. PICK s : TotalValues(s, next, n - g) /\ Total(next) = s[n - g]
  BY <1>1, <1>2, <1>6, <1>8, TotalIs
<1>12. Congruent(Total(next), Total(numbers), 2^m)
  <2>1. numbers \in Tuples(Vectors(m), n)
    BY <1>1, <1>3
  <2>2. Congruent(s[n - g], t[n], 2^m)
    BY ONLY d \in Nat, m = d + 1, <1>2, <1>5, <1>10, <1>11, <2>1, OthersKeepTotal
  <2> QED BY <1>10, <1>11, <2>2
<1>13. 2^m \in Int
  BY <1>2, PowerPositive
<1>14. Congruent(Total(next), v, 2^m)
  BY <1>2, <1>12, <1>13, CongruentThrough
<1>15. next \in Sums(m, v)
  BY <1>1, <1>6, <1>9, <1>14 DEF Sums
<1> QED BY <1>1, <1>4, <1>6, <1>9, <1>15

\* The tree keeps the sum and leaves two addends.
THEOREM WallaceTreeSums ==
  ASSUME NEW d \in Nat, NEW m, m = d + 1, NEW v, NEW numbers \in Sums(m, v)
  PROVE  WallaceTree(numbers) \in Sums(m, v) /\ Len(WallaceTree(numbers)) = 2
<1> DEFINE U == Sums(m, v)
           N == Len(numbers)
           V == [h \in 0 .. N |-> {s \in U : Len(s) = 2 \/ Len(s) <= N - h}]
           step == [h \in 1 .. N |-> [s \in U |-> NextLevel(s)]]
           Layers(f) == [h \in 0 .. N |-> IF h = 0 THEN numbers ELSE NextLevel(f[h - 1])]
<1>1. N \in Nat /\ \A s \in U : Len(s) \in Nat /\ Len(s) >= 2
  BY DEF Sums
<1>2. \A s \in U : /\ NextLevel(s) \in U /\ Len(NextLevel(s)) <= Len(s)
                   /\ Len(s) >= 3 => Len(NextLevel(s)) < Len(s)
  BY NextLevelSums
<1>3. numbers \in U
  OBVIOUS
<1> HIDE DEF U
<1>4. V \in [0 .. N -> SUBSET U] /\ numbers \in V[0]
  BY <1>1, <1>3
<1>5. \A h \in 0 .. N : \A s : s \in V[h] <=> s \in U /\ (Len(s) = 2 \/ Len(s) <= N - h)
  OBVIOUS
<1>6. ASSUME NEW h \in 1 .. N, NEW s \in V[h - 1]
      PROVE  step[h][s] = NextLevel(s) /\ step[h][s] \in V[h]
  <2>1. h - 1 \in 0 .. N /\ h \in 0 .. N
    BY <1>1
  <2>2. s \in U /\ (Len(s) = 2 \/ Len(s) <= N - (h - 1))
    BY <1>5, <2>1
  <2>3. step[h][s] = NextLevel(s)
    BY <2>2
  <2>4. PICK a, b : a = Len(s) /\ b = Len(NextLevel(s))
    OBVIOUS
  <2>5. /\ a \in Nat /\ b \in Nat /\ a >= 2 /\ b >= 2 /\ b <= a /\ (a >= 3 => b < a)
        /\ a = 2 \/ a <= N - (h - 1)
        /\ NextLevel(s) \in U
    BY <1>1, <1>2, <2>2, <2>4
  <2>6. b = 2 \/ b <= N - h
    BY <1>1, <2>5
  <2> QED BY <1>5, <2>1, <2>3, <2>4, <2>5, <2>6
<1> HIDE DEF V, step, N
<1>7. StepsOn(N, U, V, numbers, step)
  BY <1>4, <1>6 DEF StepsOn
<1>8. PICK f : IsRecursive(f, N, U, V, numbers, step)
  BY <1>1, <1>7, RecursiveFunction
<1>9. f = Layers(f)
  <2>1. f \in [0 .. N -> U] /\ f[0] = numbers /\ (\A h \in 0 .. N : f[h] \in V[h])
        /\ \A h \in 1 .. N : f[h] = step[h][f[h - 1]]
    BY <1>8 DEF IsRecursive
  <2>2. ASSUME NEW h \in 0 .. N PROVE f[h] = IF h = 0 THEN numbers ELSE NextLevel(f[h - 1])
    <3>1. CASE h = 0
      BY <2>1, <3>1
    <3>2. CASE h # 0
      <4>1. h \in 1 .. N /\ h - 1 \in 0 .. N
        BY <1>1, <3>2
      <4> QED BY <1>6, <2>1, <3>2, <4>1
    <3> QED BY <3>1, <3>2
  <2>3. f = [h \in 0 .. N |-> f[h]]
    BY <2>1
  <2> QED BY <2>2, <2>3
<1>10. PICK l : l = Layers(l) /\ l = CHOOSE level : level = Layers(level)
  <2> HIDE DEF Layers
  <2> QED BY <1>9
<1>11. WallaceTree(numbers) = l[N]
  BY <1>10 DEF WallaceTree, N
<1>12. l[0] = numbers /\ \A h \in 1 .. N : l[h] = NextLevel(l[h - 1])
  <2>1. (\A h \in 1 .. N : h \in 0 .. N /\ h # 0) /\ 0 \in 0 .. N
    BY <1>1
  <2>2. \A h \in 0 .. N : l[h] = IF h = 0 THEN numbers ELSE NextLevel(l[h - 1])
    BY <1>10
  <2> QED BY <2>1, <2>2
<1>13. \A h \in 0 .. N : l[h] \in V[h]
  <2>1. ASSUME NEW h \in 1 .. N, l[h - 1] \in V[h - 1] PROVE l[h] \in V[h]
    BY <1>6, <1>12, <2>1
  <2> QED BY <1>1, <1>4, <1>12, <2>1, RecursiveValues
<1>14. l[N] \in U /\ (Len(l[N]) = 2 \/ Len(l[N]) <= N - N)
  <2>1. N \in 0 .. N
    BY <1>1
  <2> QED BY <1>5, <1>13, <2>1
<1> QED BY <1>1, <1>11, <1>14 DEF U

LEMMA NumberThree ==
  ASSUME NEW y \in Vectors(3)
  PROVE  Number(y) = y[1] + 2 * y[2] + 4 * y[3]
<1>1. PICK v : PrefixValues(v, y, 3) /\ Number(y) = v[3]
  BY NumberValues
<1>2. 2^0 = 1 /\ 2^1 = 2 /\ 2^2 = 4
  <2>1. 2^(1 + 1) = 2 * 2^1
    BY PowerStep
  <2> QED BY <2>1, PowerOfZero, PowerOfOne
<1>3. y[1] \in {0, 1} /\ y[2] \in {0, 1} /\ y[3] \in {0, 1}
  BY VectorIs
<1>4. /\ v[0] = 0 /\ v[1] = v[1 - 1] + y[1] * 2^(1 - 1) /\ v[2] = v[2 - 1] + y[2] * 2^(2 - 1)
      /\ v[3] = v[3 - 1] + y[3] * 2^(3 - 1)
  BY <1>1 DEF PrefixValues
<1>5. v[1] = v[0] + y[1] * 2^0 /\ v[2] = v[1] + y[2] * 2^1 /\ v[3] = v[2] + y[3] * 2^2
  BY <1>4
<1>6. v[3] = y[1] + 2 * y[2] + 4 * y[3]
  <2>1. v[1] = y[1] /\ v[2] = y[1] + y[2] * 2 /\ v[3] = v[2] + y[3] * 4
    BY <1>2, <1>3, <1>4, <1>5
  <2> QED BY <1>3, <2>1
<1> QED BY <1>1, <1>6

LEMMA DigitFactor ==
  ASSUME NEW p \in {0, 1}, NEW q \in {0, 1}, NEW r \in {0, 1}, NEW digit, digit = p + 2 * q + 4 * r
  PROVE  digit \in 0 .. 7 /\ Factor(digit) \in Int /\ Factor(digit) = p + q - 2 * r
<1>1. digit \in 0 .. 7
  OBVIOUS
<1>2. \/ p = 0 /\ q = 0 /\ r = 0 /\ digit = 0
      \/ p = 1 /\ q = 0 /\ r = 0 /\ digit = 1
      \/ p = 0 /\ q = 1 /\ r = 0 /\ digit = 2
      \/ p = 1 /\ q = 1 /\ r = 0 /\ digit = 3
      \/ p = 0 /\ q = 0 /\ r = 1 /\ digit = 4
      \/ p = 1 /\ q = 0 /\ r = 1 /\ digit = 5
      \/ p = 0 /\ q = 1 /\ r = 1 /\ digit = 6
      \/ p = 1 /\ q = 1 /\ r = 1 /\ digit = 7
  OBVIOUS
<1>3. Factor(digit) = p + q - 2 * r
  BY <1>2 DEF Factor
<1> QED BY <1>1, <1>3

\* s is what the first k digits of x stand for.
Recoded(w, x, k, s) == s \in Int /\ 2 * s = w[2 * k + 1] - x[2 * k + 1] * 2^(2 * k + 1)

LEMMA RecodedGrows ==
  ASSUME NEW N \in Nat, NEW x \in Vectors(N), NEW w, PrefixValues(w, x, N), NEW k \in Nat,
         2 * k + 3 <= N, NEW s, Recoded(w, x, k, s), NEW f,
         f = x[2 * k + 1] + x[2 * k + 2] - 2 * x[2 * k + 3]
  PROVE  Recoded(w, x, k + 1, s + 2^(2 * k) * f)
<1>1. PICK j : j = 2 * k + 1
  OBVIOUS
<1>2. /\ j \in Nat /\ 2 * k + 2 = j + 1 /\ 2 * k + 3 = j + 2 /\ 2 * (k + 1) + 1 = j + 2
      /\ j \in 1 .. N /\ j + 1 \in 1 .. N /\ j + 2 \in 1 .. N
      /\ (j + 1) - 1 = j /\ (j + 2) - 1 = j + 1
  BY <1>1
<1>3. PICK a, b, c : a = x[j] /\ b = x[j + 1] /\ c = x[j + 2]
  OBVIOUS
<1>4. a \in {0, 1} /\ b \in {0, 1} /\ c \in {0, 1} /\ f = a + b - 2 * c
  <2>1. x[j] \in {0, 1} /\ x[j + 1] \in {0, 1} /\ x[j + 2] \in {0, 1}
    BY <1>2, VectorIs
  <2> QED BY <1>1, <1>2, <1>3, <2>1
<1>5. PICK p, q : p = 2^(2 * k) /\ q = 2^j
  OBVIOUS
<1>6. p \in Nat /\ q = 2 * p /\ 2^(j + 1) = 4 * p /\ 2^(j + 2) = 8 * p
  <2>1. 2 * k \in Nat /\ 2 * k + 1 = j /\ j + 1 \in Nat /\ (j + 1) + 1 = j + 2
    BY <1>1
  <2>2. p \in Nat /\ q = 2 * p
    BY <1>5, <2>1, PowerStep
  <2>3. 2^(j + 1) = 2 * q
    BY <1>2, <1>5, PowerStep
  <2>4. 2^(j + 2) = 2 * 2^(j + 1)
    BY <2>1, PowerStep
  <2> QED BY <2>2, <2>3, <2>4
<1>7. w[j + 1] = w[j] + b * q /\ w[j + 2] = w[j + 1] + c * (4 * p) /\ w[j] \in Int
  <2>1. w[j + 1] = w[j] + x[j + 1] * 2^j
    BY <1>2 DEF PrefixValues
  <2>2. w[j + 2] = w[j + 1] + x[j + 2] * 2^(j + 1)
    BY <1>2 DEF PrefixValues
  <2>3. w[j] \in Int
    <3>1. j \in 0 .. N /\ 2^j \in Int
      BY <1>2, <1>5, <1>6
    <3>2. \A e \in 0 .. 2^j - 1 : e \in Int
      OBVIOUS
    <3> QED BY <3>1, <3>2 DEF PrefixValues
  <2> QED BY <1>3, <1>5, <1>6, <2>1, <2>2, <2>3
<1>8. s \in Int /\ 2 * s = w[j] - a * q
  BY <1>1, <1>3, <1>5 DEF Recoded
<1>9. PICK u, v : u = w[j] /\ v = w[j + 2]
  OBVIOUS
<1>10. u \in Int /\ v = u + b * (2 * p) + c * (4 * p) /\ 2 * s = u - a * (2 * p)
  <2>1. b * (2 * p) \in Int /\ c * (4 * p) \in Int
    BY <1>4, <1>6
  <2> QED BY <1>6, <1>7, <1>8, <1>9, <2>1
<1>11. 2 * (s + p * f) = v - c * (8 * p) /\ s + p * f \in Int
  <2>1. p * f \in Int /\ (a = 0 \/ a = 1) /\ (b = 0 \/ b = 1) /\ (c = 0 \/ c = 1)
    BY <1>4, <1>6
  <2>2. p * f = a * p + b * p - 2 * (c * p)
    <3>1. a \in Int /\ b \in Int /\ c \in Int /\ p \in Int
      BY <1>4, <1>6
    <3>2. p * (a + b - 2 * c) = a * p + b * p - 2 * (c * p)
      BY ONLY <3>1
    <3> QED BY <1>4, <3>2
  <2>3. PICK A1, B1, C1 : A1 = a * p /\ B1 = b * p /\ C1 = c * p
    OBVIOUS
  <2>4. A1 \in Int /\ B1 \in Int /\ C1 \in Int
    BY <1>4, <1>6, <2>3
  <2>5. a * (2 * p) = 2 * A1 /\ b * (2 * p) = 2 * B1 /\ c * (4 * p) = 4 * C1 /\ c * (8 * p) = 8 * C1
    BY <1>4, <1>6, <2>3
  <2>6. PICK F : F = p * f /\ F \in Int /\ F = A1 + B1 - 2 * C1
    BY <2>1, <2>2, <2>3
  <2>7. v = u + 2 * B1 + 4 * C1 /\ 2 * s = u - 2 * A1 /\ s \in Int /\ u \in Int
    BY <1>8, <1>10, <2>5
  <2>8. 2 * (s + F) = v - 8 * C1 /\ s + F \in Int
    BY ONLY <2>4, <2>6, <2>7
  <2>9. 2 * (s + F) = v - c * (8 * p) /\ s + F \in Int
    BY <2>5, <2>8
  <2> QED BY <2>6, <2>9
<1>12. 2 * (k + 1) + 1 = j + 2 /\ 2^(j + 2) = 8 * p
  BY <1>2, <1>6
<1>13. x[2 * (k + 1) + 1] = c /\ w[2 * (k + 1) + 1] = v /\ 2^(2 * (k + 1) + 1) = 8 * p
  BY <1>3, <1>9, <1>12
<1> QED BY <1>5, <1>11, <1>13 DEF Recoded

LEMMA SameLowBits ==
  ASSUME NEW n \in Nat, NEW a \in Vectors(n + 1), NEW x, x = SignExtend(<< 0 >> \o a, n + 3)
  PROVE  /\ x \in Vectors(n + 3) /\ x[1] = 0
         /\ Signed(a) \in Int
         /\ Number(x) - x[n + 3] * 2^(n + 3) = 2 * Signed(a)
<1>1. PICK h, y : h = n + 1 /\ y = << 0 >> \o a
  OBVIOUS
<1>2. h \in Nat /\ h + 1 = n + 2 /\ 1 + h = h + 1 /\ h + 1 <= n + 3 /\ n + 3 \in Nat
  BY <1>1
<1>3. y \in Vectors(h + 1) /\ Number(y) = 2 * Number(a)
  <2>1. y \in Vectors(1 + h) /\ Number(y) = 0 + 2 * Number(a)
    BY <1>1, <1>2, NumberCons
  <2>2. Number(a) \in Nat
    BY <1>1, <1>2, NumberBound
  <2> QED BY <1>2, <2>1, <2>2
<1>4. y[1] = 0 /\ y[h + 1] = a[n + 1]
  <2>1. << 0 >> \in Vectors(1) /\ << 0 >>[1] = 0
    BY OneIs
  <2>2. a \in Vectors(h) /\ 1 \in Nat
    BY <1>1
  <2>3. \A i \in 1 .. 1 : (<< 0 >> \o a)[i] = << 0 >>[i]
    BY ONLY <1>2, <2>1, <2>2, ConcatIs
  <2>4. \A i \in 1 .. h : (<< 0 >> \o a)[1 + i] = a[i]
    BY ONLY ZenonT(60), <1>2, <2>1, <2>2, ConcatIs
  <2>5. 1 \in 1 .. 1 /\ h \in 1 .. h
    BY <1>1
  <2>6. y[1] = 0
    BY <1>1, <2>1, <2>3, <2>5
  <2>7. y[1 + h] = a[h]
    BY <1>1, <2>4, <2>5
  <2> QED BY <1>1, <1>2, <2>6, <2>7
<1>5. PICK p, s, t : p = 2^n /\ s = Signed(a) /\ t = Top(a)
  OBVIOUS
<1>6. p \in Nat /\ 2^h = 2 * p /\ 2^(h + 1) = 4 * p /\ 2^(n + 3) = 8 * p
  <2>1. 2^h = 2 * p /\ p \in Nat
    BY <1>1, <1>5, PowerStep
  <2>2. 2^(h + 1) = 2 * 2^h
    BY <1>2, PowerStep
  <2>3. 2^((h + 1) + 1) = 2 * 2^(h + 1)
    <3>1. h + 1 \in Nat
      BY <1>2
    <3> QED BY <3>1, PowerStep
  <2>4. (h + 1) + 1 = n + 3
    BY <1>1
  <2> QED BY <2>1, <2>2, <2>3, <2>4
<1>7. t \in {0, 1} /\ t = a[n + 1] /\ s = Number(a) - t * (2 * p) /\ s \in Int /\ Number(a) \in Nat
  <2>1. Number(a) \in Nat
    BY <1>1, <1>2, NumberBound
  <2> QED BY <1>5, <2>1, SignedIs
<1>8. Top(y) = y[h + 1] /\ Signed(y) = Number(y) - Top(y) * (2 * 2^h)
  BY <1>2, <1>3, SignedIs
<1>9. Top(y) = t /\ Signed(y) = 2 * s
  <2>1. Top(y) = t
    BY <1>4, <1>7, <1>8
  <2>2. Signed(y) = 2 * Number(a) - t * (4 * p)
    <3>1. 2 * (2 * p) = 4 * p
      BY <1>6
    <3> QED BY <1>3, <1>6, <1>8, <2>1, <3>1
  <2>3. CASE t = 0
    <3>1. t * (4 * p) = 0 /\ t * (2 * p) = 0
      BY <1>6, <2>3
    <3> QED BY <1>7, <2>1, <2>2, <3>1
  <2>4. CASE t = 1
    BY <1>6, <1>7, <2>1, <2>2, <2>4
  <2> QED BY <1>7, <2>3, <2>4
<1>10. /\ x \in Vectors(n + 3)
       /\ Number(x) = Signed(y) + Top(y) * 2^(n + 3)
       /\ \A i \in 1 .. h + 1 : x[i] = y[i]
       /\ \A i \in h + 2 .. n + 3 : x[i] = y[h + 1]
  <2>1. PICK N : N = n + 3 /\ N \in Nat /\ h + 1 <= N
    BY <1>2
  <2>2. /\ SignExtend(y, N) \in Vectors(N)
        /\ Number(SignExtend(y, N)) = Signed(y) + Top(y) * 2^N
        /\ \A i \in 1 .. h + 1 : SignExtend(y, N)[i] = y[i]
        /\ \A i \in h + 2 .. N : SignExtend(y, N)[i] = y[h + 1]
    BY ONLY <1>2, <1>3, <2>1, NumberSignExtend
  <2>3. x = SignExtend(y, N)
    BY <1>1, <2>1
  <2> QED BY <2>1, <2>2, <2>3
<1>11. x[1] = 0 /\ x[n + 3] = t
  <2>1. 1 \in 1 .. h + 1 /\ n + 3 \in h + 2 .. n + 3
    BY <1>1
  <2> QED BY <1>4, <1>7, <1>10, <2>1
<1>12. Number(x) - x[n + 3] * 2^(n + 3) = 2 * s
  <2>1. PICK z : z = t * 2^(n + 3) /\ z \in Int
    BY <1>6, <1>7
  <2> QED BY <1>7, <1>9, <1>10, <1>11, <2>1
<1> QED BY <1>5, <1>7, <1>10, <1>11, <1>12

\* The k-th digit of x, and what it counts for.
LEMMA DigitIs ==
  ASSUME NEW N \in Nat, NEW x \in Vectors(N), NEW k \in Nat, 2 * k + 3 <= N, NEW digit,
         digit = Number(Slice(x, 2 * k, 2 * k + 2))
  PROVE  /\ digit \in 0 .. 7
         /\ Factor(digit) \in Int
         /\ Factor(digit) = x[2 * k + 1] + x[2 * k + 2] - 2 * x[2 * k + 3]
<1>1. PICK i, j : i = 2 * k /\ j = i + 2
  OBVIOUS
<1>2. i \in 0 .. N /\ j \in i - 1 .. N - 1 /\ j - i + 1 = 3 /\ j = 2 * k + 2
  BY <1>1
<1>3. PICK y : y = Slice(x, i, j)
  OBVIOUS
<1>4. y \in Vectors(3) /\ \A e \in 1 .. 3 : y[e] = x[i + e]
  BY <1>2, <1>3, SliceIs
<1>5. digit = y[1] + 2 * y[2] + 4 * y[3]
  BY <1>1, <1>2, <1>3, <1>4, NumberThree
<1>6. y[1] = x[i + 1] /\ y[2] = x[i + 2] /\ y[3] = x[i + 3]
  BY <1>4
<1>7. y[1] \in {0, 1} /\ y[2] \in {0, 1} /\ y[3] \in {0, 1}
  BY <1>4, VectorIs
<1>8. digit \in 0 .. 7 /\ Factor(digit) \in Int /\ Factor(digit) = y[1] + y[2] - 2 * y[3]
  BY <1>5, <1>7, DigitFactor
<1> QED BY <1>1, <1>6, <1>8

\* Booth's product of the k-th digit.
ProductOf(a, b, n, k) ==
  Booth(Number(Slice(SignExtend(<< 0 >> \o a, n + 3), 2 * k, 2 * k + 2)), b, 2 * k, 2 * n + 2)

LEMMA ProductIs ==
  ASSUME NEW n \in Nat, NEW a \in Vectors(n + 1), NEW b \in Vectors(n + 1), Signed(b) > -(2^n),
         NEW k \in Nat, 2 * k <= n, NEW x, x = SignExtend(<< 0 >> \o a, n + 3),
         NEW f, f = x[2 * k + 1] + x[2 * k + 2] - 2 * x[2 * k + 3]
  PROVE  /\ f \in Int
         /\ ProductOf(a, b, n, k) \in Vectors(2 * n + 2)
         /\ Congruent(Number(ProductOf(a, b, n, k)), 2^(2 * k) * (f * Signed(b)), 2^(2 * n + 2))
<1>1. PICK N, i, m, digit : N = n + 3 /\ i = 2 * k /\ m = 2 * n + 2 /\ digit = Number(Slice(x, 2 * k, 2 * k + 2))
  OBVIOUS
<1>2. N \in Nat /\ 2 * k + 3 <= N /\ i \in Nat /\ m \in Nat /\ i + 1 + n + 1 <= m
  BY <1>1
<1>3. x \in Vectors(N)
  BY <1>1, SameLowBits
<1>4. digit \in 0 .. 7 /\ Factor(digit) \in Int /\ Factor(digit) = f
  BY <1>1, <1>2, <1>3, DigitIs
<1>5. ProductOf(a, b, n, k) = Booth(digit, b, i, m)
  BY <1>1 DEF ProductOf
<1>6. /\ Booth(digit, b, i, m) \in Vectors(m)
      /\ Congruent(Number(Booth(digit, b, i, m)), 2^i * (Factor(digit) * Signed(b)), 2^m)
  BY <1>2, <1>4, BoothIs
<1> QED BY <1>1, <1>4, <1>5, <1>6

LEMMA ProductsAre ==
  ASSUME NEW n \in Nat, n % 2 = 0, NEW a \in Vectors(n + 1), NEW b
  PROVE  \E K : /\ K \in Nat /\ 2 * K = n + 2
                /\ Radix4PartialProducts(a, b) = [k \in 1 .. K |-> Radix4PartialProducts(a, b)[k]]
                /\ Len(b) = n + 1 => \A k \in 0 .. K - 1 : Radix4PartialProducts(a, b)[k + 1] = ProductOf(a, b, n, k)
<1>1. Len(a) = n + 1
  <2>1. n + 1 \in Nat
    OBVIOUS
  <2> QED BY <2>1, VectorIs
<1>2. PICK K : K = (Len(a) + 1) \div 2
  OBVIOUS
<1>3. K \in Nat /\ 2 * K = n + 2
  BY <1>1, <1>2
<1>4. PICK r, x : r = Radix4PartialProducts(a, b) /\ x = SignExtend(<< 0 >> \o a, Len(a) + 2)
  OBVIOUS
<1>5. r = [k \in 1 .. K |-> Booth(Number(Slice(x, 2 * k - 2, 2 * k)), b, 2 * k - 2, Len(a) + Len(b))]
  BY <1>2, <1>4 DEF Radix4PartialProducts
<1>6. r = [k \in 1 .. K |-> r[k]]
  BY <1>5
<1>7. ASSUME Len(b) = n + 1, NEW k \in 0 .. K - 1 PROVE r[k + 1] = ProductOf(a, b, n, k)
  <2>1. k + 1 \in 1 .. K /\ 2 * (k + 1) - 2 = 2 * k /\ 2 * (k + 1) = 2 * k + 2
    BY <1>3
  <2>2. Len(a) + Len(b) = 2 * n + 2 /\ Len(a) + 2 = n + 3
    BY <1>1, <1>7
  <2>3. r[k + 1] = Booth(Number(Slice(x, 2 * (k + 1) - 2, 2 * (k + 1))), b, 2 * (k + 1) - 2, Len(a) + Len(b))
    BY <1>5, <2>1
  <2>4. r[k + 1] = Booth(Number(Slice(x, 2 * k, 2 * k + 2)), b, 2 * k, 2 * n + 2)
    BY <2>1, <2>2, <2>3
  <2> QED BY <1>4, <2>2, <2>4 DEF ProductOf
<1> QED BY <1>3, <1>4, <1>6, <1>7

\* Booth's digits of a, times b, are the product, unless b is the most negative number, which the
\* products would have to negate: the multiplier gives b a bit more than its operand has.
THEOREM ProductsSum ==
  ASSUME NEW n \in Nat, n % 2 = 0, n > 0, NEW a \in Vectors(n + 1), NEW b \in Vectors(n + 1),
         Signed(b) > -(2^n)
  PROVE  Radix4PartialProducts(a, b) \in Sums(2 * n + 2, Signed(a) * Signed(b))
<1>1. Len(b) = n + 1
  <2>1. n + 1 \in Nat
    OBVIOUS
  <2> QED BY <2>1, VectorIs
<1>2. PICK r : r = Radix4PartialProducts(a, b)
  OBVIOUS
<1>3. PICK K : /\ K \in Nat /\ 2 * K = n + 2
               /\ r = [k \in 1 .. K |-> r[k]]
               /\ \A k \in 0 .. K - 1 : r[k + 1] = ProductOf(a, b, n, k)
  BY <1>1, <1>2, ProductsAre
<1>4. PICK x, N, m : x = SignExtend(<< 0 >> \o a, n + 3) /\ N = n + 3 /\ m = 2 * n + 2
  OBVIOUS
<1>5. N \in Nat /\ N = 2 * K + 1 /\ m \in Nat /\ K >= 2
  BY <1>3, <1>4
<1>6. /\ x \in Vectors(N) /\ x[1] = 0
      /\ Signed(a) \in Int
      /\ Number(x) - x[N] * 2^N = 2 * Signed(a)
  BY <1>4, SameLowBits
<1>7. PICK M, sa, sb : M = 2^m /\ sa = Signed(a) /\ sb = Signed(b)
  OBVIOUS
<1>8. M \in Int /\ sa \in Int /\ sb \in Int
  BY <1>5, <1>6, <1>7, PowerPositive, SignedIs
<1>9. PICK w : PrefixValues(w, x, N) /\ Number(x) = w[N]
  BY <1>5, <1>6, NumberValues
<1> DEFINE F(k) == x[2 * k + 1] + x[2 * k + 2] - 2 * x[2 * k + 3]
<1>10. ASSUME NEW k \in 0 .. K - 1
       PROVE  /\ F(k) \in Int /\ r[k + 1] \in Vectors(m)
              /\ Congruent(Number(r[k + 1]), 2^(2 * k) * (F(k) * sb), M)
  <2>1. k \in Nat /\ 2 * k <= n
    BY <1>3
  <2>2. PICK f : f = F(k)
    OBVIOUS
  <2>3. /\ f \in Int
        /\ ProductOf(a, b, n, k) \in Vectors(2 * n + 2)
        /\ Congruent(Number(ProductOf(a, b, n, k)), 2^(2 * k) * (f * Signed(b)), 2^(2 * n + 2))
    BY <1>4, <2>1, <2>2, ProductIs
  <2> QED BY <1>3, <1>4, <1>7, <2>2, <2>3
<1>11. \A k \in 1 .. K : r[k] \in Vectors(m)
  <2>1. ASSUME NEW k \in 1 .. K PROVE r[k] \in Vectors(m)
    <3>1. k - 1 \in 0 .. K - 1 /\ (k - 1) + 1 = k
      BY <1>3
    <3>2. r[(k - 1) + 1] \in Vectors(m)
      BY <1>10, <3>1
    <3> QED BY <3>1, <3>2
  <2> QED BY <2>1
<1>12. r \in Tuples(Vectors(m), K)
  BY <1>3, <1>11 DEF Tuples
<1>13. PICK t : TotalValues(t, r, K) /\ Total(r) = t[K]
  <2>1. K \in Nat /\ m \in Nat
    BY <1>3, <1>5
  <2>2. \E t : TotalValues(t, r, K) /\ Total(r) = t[K]
    BY ONLY <1>12, <2>1, TotalIs
  <2> QED BY <2>2
<1> DEFINE T == {k \in Nat : k <= K => \E s : Recoded(w, x, k, s) /\ Congruent(t[k], s * sb, M)}
<1>14. 0 \in T
  <2>1. 0 \in 0 .. N /\ 1 \in 1 .. N
    BY ONLY <1>3, <1>5
  <2>2. w[1] = w[1 - 1] + x[1] * 2^(1 - 1) /\ w[0] = 0
    BY <1>9, <2>1 DEF PrefixValues
  <2>3. w[1] = 0 /\ x[1] * 2^1 = 0
    BY <1>6, <2>2, PowerOfZero, PowerOfOne
  <2>4. Recoded(w, x, 0, 0)
    <3>1. 2 * 0 + 1 = 1
      OBVIOUS
    <3> QED BY <1>6, <2>3, <3>1 DEF Recoded
  <2>5. t[0] = 0 /\ 0 * sb = 0
    BY <1>8, <1>13 DEF TotalValues
  <2>6. Congruent(0, 0, M)
    BY <1>8, CongruentSelf
  <2> QED BY <2>4, <2>5, <2>6
<1>15. ASSUME NEW k \in Nat, k \in T PROVE k + 1 \in T
  <2> SUFFICES ASSUME k + 1 <= K
               PROVE  \E s : Recoded(w, x, k + 1, s) /\ Congruent(t[k + 1], s * sb, M)
    OBVIOUS
  <2>1. k <= K /\ k \in 0 .. K - 1 /\ k + 1 \in 1 .. K /\ (k + 1) - 1 = k /\ 2 * k + 3 <= N
    <3>1. k + 1 <= K /\ k \in Nat
      OBVIOUS
    <3>2. K \in Nat /\ N = 2 * K + 1
      BY <1>3, <1>5
    <3> QED BY ONLY <3>1, <3>2
  <2>2. PICK s : Recoded(w, x, k, s) /\ Congruent(t[k], s * sb, M)
    BY <1>15, <2>1
  <2>3. PICK f, p : f = F(k) /\ p = 2^(2 * k)
    OBVIOUS
  <2>4. Recoded(w, x, k + 1, s + p * f)
    BY <1>5, <1>6, <1>9, <2>1, <2>2, <2>3, RecodedGrows
  <2>5. f \in Int /\ Congruent(Number(r[k + 1]), p * (f * sb), M)
    BY <1>10, <2>1, <2>3
  <2>6. t[k + 1] = t[k] + Number(r[k + 1])
    BY <1>13, <2>1 DEF TotalValues
  <2>7. Congruent(t[k] + Number(r[k + 1]), s * sb + p * (f * sb), M)
    BY <1>8, <2>2, <2>5, CongruentAdds
  <2>8. s * sb + p * (f * sb) = (s + p * f) * sb
    <3>1. s \in Int
      BY <2>2 DEF Recoded
    <3>2. p \in Int
      <4>1. 2 * k \in Nat
        OBVIOUS
      <4> QED BY <2>3, <4>1, PowerPositive
    <3> QED BY ONLY <1>8, <2>5, <3>1, <3>2
  <2> QED BY <2>4, <2>6, <2>7, <2>8
<1> HIDE DEF T, F
<1>16. K \in T
  BY <1>3, <1>14, <1>15, Induction
<1>17. PICK s : Recoded(w, x, K, s) /\ Congruent(t[K], s * sb, M)
  BY <1>3, <1>16 DEF T
<1>18. s = sa
  <2>1. s \in Int /\ 2 * s = w[N] - x[N] * 2^N
    BY <1>5, <1>17 DEF Recoded
  <2>2. 2 * s = 2 * sa
    BY <1>6, <1>7, <1>9, <2>1
  <2> QED BY <1>8, <2>1, <2>2
<1>19. r \in Seq(Vectors(m)) /\ Len(r) = K
  BY <1>3, <1>12, TupleIs
<1>20. Congruent(Total(r), sa * sb, M)
  BY <1>13, <1>17, <1>18
<1> QED BY <1>2, <1>4, <1>5, <1>7, <1>19, <1>20 DEF Sums

LEMMA PartsOfJoined ==
  ASSUME NEW m \in Nat, NEW n \in Nat, NEW x \in Vectors(m), NEW y \in Vectors(n)
  PROVE  SubSeq(x \o y, 1, m) = x /\ SubSeq(x \o y, m + 1, m + n) = y
<1>1. PICK N, z : N = m + n /\ z = x \o y
  OBVIOUS
<1>2. N \in Nat /\ m \in 0 .. N /\ N - m = n
  BY <1>1
<1>3. z \in Vectors(N) /\ Number(z) = Number(x) + 2^m * Number(y)
  BY <1>1, ConcatIs, NumberConcat
<1>4. SubSeq(z, 1, m) \in Vectors(m) /\ SubSeq(z, m + 1, N) \in Vectors(n)
  BY <1>2, <1>3, ConcatParts
<1>5. Number(SubSeq(z, 1, m)) = Number(z) % 2^m /\ Number(SubSeq(z, m + 1, N)) = Number(z) \div 2^m
  BY <1>2, <1>3, NumberParts
<1>6. PICK a, b, p, c : a = Number(x) /\ b = Number(y) /\ p = 2^m /\ c = Number(z)
  OBVIOUS
<1>7. a \in 0 .. p - 1 /\ b \in Int /\ p \in Nat /\ c = a + p * b
  BY <1>3, <1>6, NumberBound, PowerPositive
<1>8. p * b = b * p /\ b * p \in Int
  BY <1>7
<1>9. Divided(c, p, b, a)
  BY <1>7, <1>8 DEF Divided
<1>10. c \div p = b /\ c % p = a
  BY <1>9, DivModUnique
<1>11. SubSeq(z, 1, m) = x
  BY <1>4, <1>5, <1>6, <1>10, NumberInjective
<1>12. SubSeq(z, m + 1, N) = y
  BY <1>4, <1>5, <1>6, <1>10, NumberInjective
<1> QED BY <1>1, <1>11, <1>12
=============================================================================
