------------------------------ MODULE Recursion ------------------------------
(***************************************************************************)
(* Induction, recursive functions and powers of two, for the proofs about  *)
(* the circuits that the source builds by recursion.  An induction is over *)
(* a set, the numbers it holds for, because that is what can be cited.     *)
(***************************************************************************)
EXTENDS Integers, FiniteSetTheorems, WellFoundedInduction, TLAPS

Less == {p \in Nat \X Nat : p[1] < p[2]}

LEMMA LessIsWellFounded == IsWellFoundedOn(Less, Nat)
<1>1. Less = OpToRel(<, Nat)
  BY DEF Less, OpToRel
<1> QED BY <1>1, NatLessThanWellFounded

\* Every set of naturals that has a member has a least one.
LEMMA LeastNumber ==
  ASSUME NEW T \in SUBSET Nat, T # {}
  PROVE  \E n \in T : \A k \in 0 .. n - 1 : k \notin T
<1>1. PICK n \in T : \A k \in T : ~ (<<k, n>> \in Less)
  BY LessIsWellFounded, WFMin
<1>2. \A k \in T : ~ (k < n)
  BY <1>1 DEF Less
<1> QED BY <1>2

\* A set that contains 0 and with a number its successor contains every number.
LEMMA Induction ==
  ASSUME NEW S, 0 \in S, \A n \in Nat : n \in S => n + 1 \in S
  PROVE  \A n \in Nat : n \in S
<1> DEFINE T == Nat \ S
<1> SUFFICES ASSUME T # {} PROVE FALSE
  OBVIOUS
<1>1. T \in SUBSET Nat
  OBVIOUS
<1>2. PICK n \in T : \A k \in 0 .. n - 1 : k \notin T
  <2> HIDE DEF T
  <2> QED BY <1>1, LeastNumber
<1>3. n \in Nat /\ n # 0
  OBVIOUS
<1>4. n - 1 \in Nat /\ n - 1 \in 0 .. n - 1 /\ (n - 1) + 1 = n
  BY <1>3
<1> QED BY <1>2, <1>3, <1>4

\* The same where the successor may use every smaller number.
LEMMA StrongInduction ==
  ASSUME NEW S, \A n \in Nat : (\A k \in 0 .. n - 1 : k \in S) => n \in S
  PROVE  \A n \in Nat : n \in S
<1> DEFINE T == Nat \ S
<1> SUFFICES ASSUME T # {} PROVE FALSE
  OBVIOUS
<1>1. T \in SUBSET Nat
  OBVIOUS
<1>2. PICK n \in T : \A k \in 0 .. n - 1 : k \notin T
  <2> HIDE DEF T
  <2> QED BY <1>1, LeastNumber
<1>3. \A k \in 0 .. n - 1 : k \in Nat
  BY <1>2
<1> QED BY <1>2, <1>3

-----------------------------------------------------------------------------
(* Functions defined by recursion on a number. *)

\* Of values with types V, subsets of U, a is of the first type and step takes a value of each
\* type to one of the next.
StepsOn(N, U, V, a, step) ==
  /\ V \in [0 .. N -> SUBSET U]
  /\ a \in V[0]
  /\ \A n \in 1 .. N : \A v \in V[n - 1] : step[n][v] \in V[n]

\* f starts with a and goes on by step.
IsRecursive(f, N, U, V, a, step) ==
  /\ f \in [0 .. N -> U]
  /\ f[0] = a
  /\ \A n \in 0 .. N : f[n] \in V[n]
  /\ \A n \in 1 .. N : f[n] = step[n][f[n - 1]]

\* A function that is defined at 0 and at every n from its value at n - 1 exists.
LEMMA RecursiveFunction ==
  ASSUME NEW N \in Nat, NEW U, NEW V, NEW a, NEW step, StepsOn(N, U, V, a, step)
  PROVE  \E f : IsRecursive(f, N, U, V, a, step)
<1> DEFINE Good(f, m) ==
             /\ f[0] = a
             /\ \A n \in 0 .. m : f[n] \in V[n]
             /\ \A n \in 1 .. m : f[n] = step[n][f[n - 1]]
           S == {m \in Nat : m <= N => \E f : Good(f, m)}
<1>s. /\ V \in [0 .. N -> SUBSET U]
      /\ a \in V[0]
      /\ \A n \in 1 .. N : \A v \in V[n - 1] : step[n][v] \in V[n]
  BY DEF StepsOn
<1>1. 0 \in S
  <2>1. Good([n \in 0 .. 0 |-> a], 0)
    BY <1>s
  <2> HIDE DEF Good
  <2> QED BY <2>1
<1>2. ASSUME NEW m \in Nat, m \in S PROVE m + 1 \in S
  <2> SUFFICES ASSUME m + 1 <= N PROVE \E f : Good(f, m + 1)
    OBVIOUS
  <2>1. PICK f : Good(f, m)
    BY <1>2
  <2> DEFINE g == [n \in 0 .. m + 1 |-> IF n = m + 1 THEN step[m + 1][f[m]] ELSE f[n]]
  <2>2. \A n \in 0 .. m : g[n] = f[n]
    OBVIOUS
  <2>3. g[m + 1] = step[m + 1][f[m]] /\ g[m] = f[m] /\ g[0] = a
    BY <2>1
  <2>4. f[m] \in V[m] /\ m + 1 \in 1 .. N /\ (m + 1) - 1 = m
    BY <2>1
  <2>5. step[m + 1][f[m]] \in V[m + 1]
    BY <1>s, <2>4
  <2> HIDE DEF g
  <2>6. ASSUME NEW n \in 0 .. m + 1 PROVE g[n] \in V[n]
    <3>1. CASE n = m + 1
      BY <2>3, <2>5, <3>1
    <3>2. CASE n # m + 1
      <4>1. n \in 0 .. m
        BY <3>2
      <4> QED BY <2>1, <2>2, <4>1
    <3> QED BY <3>1, <3>2
  <2>7. ASSUME NEW n \in 1 .. m + 1 PROVE g[n] = step[n][g[n - 1]]
    <3>1. CASE n = m + 1
      BY <2>3, <2>4, <3>1
    <3>2. CASE n # m + 1
      <4>1. n \in 1 .. m /\ n \in 0 .. m /\ n - 1 \in 0 .. m
        BY <3>2
      <4> QED BY <2>1, <2>2, <4>1
    <3> QED BY <3>1, <3>2
  <2>8. Good(g, m + 1)
    BY <2>3, <2>6, <2>7
  <2> QED BY <2>8
<1> HIDE DEF S
<1>3. N \in S
  BY <1>1, <1>2, Induction
<1>4. PICK f : Good(f, N)
  BY <1>3 DEF S
<1> DEFINE g == [n \in 0 .. N |-> f[n]]
<1>5. \A n \in 0 .. N : g[n] = f[n] /\ g[n] \in V[n]
  BY <1>4
<1>6. \A n \in 0 .. N : g[n] \in U
  BY <1>5, <1>s
<1>7. g \in [0 .. N -> U]
  BY <1>6
<1>8. g[0] = a /\ \A n \in 1 .. N : g[n] = step[n][g[n - 1]]
  <2>1. \A n \in 1 .. N : n \in 0 .. N /\ n - 1 \in 0 .. N
    OBVIOUS
  <2> HIDE DEF g
  <2> QED BY <1>4, <1>5, <2>1
<1> HIDE DEF g
<1> QED BY <1>5, <1>7, <1>8 DEF IsRecursive

\* What a recursive definition keeps from each value to the next holds of all of them.
LEMMA RecursiveValues ==
  ASSUME NEW N \in Nat, NEW V, NEW f, f[0] \in V[0],
         \A n \in 1 .. N : f[n - 1] \in V[n - 1] => f[n] \in V[n]
  PROVE  \A n \in 0 .. N : f[n] \in V[n]
<1> DEFINE S == {n \in Nat : n <= N => f[n] \in V[n]}
<1>1. 0 \in S
  OBVIOUS
<1>2. ASSUME NEW n \in Nat, n \in S PROVE n + 1 \in S
  <2> SUFFICES ASSUME n + 1 <= N PROVE f[n + 1] \in V[n + 1]
    OBVIOUS
  <2>1. n + 1 \in 1 .. N /\ (n + 1) - 1 = n /\ f[n] \in V[n]
    BY <1>2
  <2>2. f[(n + 1) - 1] \in V[(n + 1) - 1] => f[n + 1] \in V[n + 1]
    BY <2>1
  <2> QED BY <2>1, <2>2
<1> HIDE DEF S
<1>3. \A n \in Nat : n \in S
  BY <1>1, <1>2, Induction
<1> QED BY <1>3 DEF S

\* The same where step may look at every earlier value: it takes a function whose values before
\* n have their types to a value of type V[n], and looks at nothing else of the function.
LooksBack(N, U, V, step) ==
  /\ U # {}
  /\ V \in [0 .. N -> SUBSET U]
  /\ \A n \in 0 .. N : \A g \in [0 .. N -> U] :
       (\A k \in 0 .. n - 1 : g[k] \in V[k]) => step[n][g] \in V[n]
  /\ \A n \in 0 .. N : \A g, h \in [0 .. N -> U] :
       (\A k \in 0 .. n - 1 : g[k] = h[k] /\ g[k] \in V[k]) => step[n][g] = step[n][h]

IsRecursiveTo(f, m, N, U, V, step) ==
  /\ f \in [0 .. N -> U]
  /\ \A n \in 0 .. m : f[n] \in V[n] /\ f[n] = step[n][f]

LEMMA StrongRecursiveFunction ==
  ASSUME NEW N \in Nat, NEW U, NEW V, NEW step, LooksBack(N, U, V, step)
  PROVE  \E f : IsRecursiveTo(f, N, N, U, V, step)
<1> DEFINE Good(f, m) == IsRecursiveTo(f, m, N, U, V, step)
           S == {m \in Nat : m <= N => \E f : Good(f, m)}
<1>v. V \in [0 .. N -> SUBSET U] /\ U # {}
  BY DEF LooksBack
<1>t. \A n \in 0 .. N : \A g \in [0 .. N -> U] :
        (\A k \in 0 .. n - 1 : g[k] \in V[k]) => step[n][g] \in V[n]
  BY DEF LooksBack
<1>l. \A n \in 0 .. N : \A g, h \in [0 .. N -> U] :
        (\A k \in 0 .. n - 1 : g[k] = h[k] /\ g[k] \in V[k]) => step[n][g] = step[n][h]
  BY DEF LooksBack
<1>e. ASSUME NEW m \in 0 .. N, NEW f \in [0 .. N -> U],
             \A n \in 0 .. m - 1 : f[n] \in V[n] /\ f[n] = step[n][f]
      PROVE  \E g : Good(g, m)
  <2> DEFINE g == [f EXCEPT ![m] = step[m][f]]
  <2>1. step[m][f] \in V[m] /\ V[m] \subseteq U
    BY <1>e, <1>t, <1>v
  <2>2. g \in [0 .. N -> U] /\ g[m] = step[m][f] /\ \A n \in 0 .. m - 1 : g[n] = f[n]
    BY <2>1
  <2> HIDE DEF g
  <2>3. \A n \in 0 .. m - 1 : n \in 0 .. N /\ \A k \in 0 .. n - 1 : k \in 0 .. m - 1
    OBVIOUS
  <2>4. step[m][g] = step[m][f]
    BY <1>e, <1>l, <2>2
  <2>5. ASSUME NEW n \in 0 .. m - 1 PROVE step[n][g] = step[n][f]
    <3>1. \A k \in 0 .. n - 1 : f[k] = g[k] /\ f[k] \in V[k]
      BY <1>e, <2>2, <2>3
    <3>2. n \in 0 .. N
      BY <2>3
    <3> QED BY <1>l, <2>2, <3>1, <3>2
  <2>6. ASSUME NEW n \in 0 .. m PROVE g[n] \in V[n] /\ g[n] = step[n][g]
    <3>1. CASE n = m
      BY <2>1, <2>2, <2>4, <3>1
    <3>2. CASE n # m
      <4>1. n \in 0 .. m - 1
        BY <3>2
      <4> QED BY <1>e, <2>2, <2>5, <4>1
    <3> QED BY <3>1, <3>2
  <2> QED BY <2>2, <2>6 DEF IsRecursiveTo
<1>1. 0 \in S
  <2>1. PICK u : u \in U
    BY <1>v
  <2>2. [n \in 0 .. N |-> u] \in [0 .. N -> U]
    BY <2>1
  <2>3. \E g : Good(g, 0)
    <3>1. PICK f : f \in [0 .. N -> U]
      BY <2>2
    <3>2. 0 \in 0 .. N /\ \A n \in 0 .. 0 - 1 : FALSE
      OBVIOUS
    <3> HIDE DEF Good
    <3> QED BY <1>e, <3>1, <3>2
  <2> QED BY <2>3
<1>2. ASSUME NEW m \in Nat, m \in S PROVE m + 1 \in S
  <2> SUFFICES ASSUME m + 1 <= N PROVE \E f : Good(f, m + 1)
    OBVIOUS
  <2>1. PICK f : IsRecursiveTo(f, m, N, U, V, step)
    BY <1>2
  <2>2. f \in [0 .. N -> U] /\ \A n \in 0 .. m : f[n] \in V[n] /\ f[n] = step[n][f]
    BY <2>1 DEF IsRecursiveTo
  <2>3. m + 1 \in 0 .. N /\ (m + 1) - 1 = m
    OBVIOUS
  <2> HIDE DEF Good
  <2> QED BY <1>e, <2>2, <2>3
<1> HIDE DEF S
<1>3. N \in S
  BY <1>1, <1>2, Induction
<1> QED BY <1>3 DEF S

LEMMA StrongRecursiveValues ==
  ASSUME NEW N \in Nat, NEW V, NEW f,
         \A n \in 0 .. N : (\A k \in 0 .. n - 1 : f[k] \in V[k]) => f[n] \in V[n]
  PROVE  \A n \in 0 .. N : f[n] \in V[n]
<1> DEFINE S == {n \in Nat : n <= N => f[n] \in V[n]}
<1>1. ASSUME NEW n \in Nat, \A k \in 0 .. n - 1 : k \in S PROVE n \in S
  <2> SUFFICES ASSUME n <= N PROVE f[n] \in V[n]
    OBVIOUS
  <2>1. \A k \in 0 .. n - 1 : f[k] \in V[k]
    BY <1>1
  <2>2. n \in 0 .. N
    OBVIOUS
  <2> QED BY <2>1, <2>2
<1> HIDE DEF S
<1>2. \A n \in Nat : n \in S
  BY <1>1, StrongInduction
<1> QED BY <1>2 DEF S

-----------------------------------------------------------------------------
(* Powers of two. *)

LEMMA PowerOfZero == 2^0 = 1
OBVIOUS

\* The subsets of 1 .. n + 1 are those of 1 .. n, without and with n + 1.
LEMMA PowerStep ==
  ASSUME NEW n \in Nat
  PROVE  2^n \in Nat /\ 2^(n + 1) = 2 * 2^n
<1> DEFINE A == 1 .. n
           x == n + 1
           Ax == {B \cup {x} : B \in SUBSET A}
<1>1. /\ IsFiniteSet(A) /\ Cardinality(A) = n
  <2>1. 1 \in Int /\ n \in Int
    OBVIOUS
  <2>2. Cardinality(1 .. n) = IF 1 > n THEN 0 ELSE n - 1 + 1
    BY <2>1, FS_Interval
  <2> QED BY <2>1, <2>2, FS_Interval
<1>2. x \notin A /\ A \cup {x} = 1 .. n + 1
  OBVIOUS
<1> HIDE DEF A, x
<1>3. IsFiniteSet(A \cup {x}) /\ Cardinality(A \cup {x}) = n + 1
  BY <1>1, <1>2, FS_AddElement
<1>4. /\ IsFiniteSet(SUBSET A) /\ Cardinality(SUBSET A) = 2^n
      /\ Cardinality(SUBSET (A \cup {x})) = 2^(n + 1)
  BY <1>1, <1>3, FS_SUBSET
<1>5. SUBSET (A \cup {x}) = (SUBSET A) \cup Ax
  <2>1. ASSUME NEW B \in SUBSET (A \cup {x}) PROVE B \in (SUBSET A) \cup Ax
    <3>1. CASE x \in B
      <4>1. B = (B \ {x}) \cup {x} /\ B \ {x} \in SUBSET A
        BY <3>1
      <4> QED BY <4>1
    <3>2. CASE x \notin B
      BY <3>2
    <3> QED BY <3>1, <3>2
  <2>2. ASSUME NEW B \in (SUBSET A) \cup Ax PROVE B \in SUBSET (A \cup {x})
    OBVIOUS
  <2> QED BY <2>1, <2>2
<1>6. ExistsBijection(SUBSET A, Ax)
  <2> DEFINE f == [B \in SUBSET A |-> B \cup {x}]
  <2>1. f \in [SUBSET A -> Ax]
    OBVIOUS
  <2>2. ASSUME NEW B \in SUBSET A, NEW C \in SUBSET A, f[B] = f[C] PROVE B = C
    <3>1. B \cup {x} = C \cup {x}
      BY <2>2
    <3>2. x \notin B /\ x \notin C
      BY <1>2
    <3> QED BY <3>1, <3>2
  <2>3. \A T \in Ax : \E B \in SUBSET A : f[B] = T
    OBVIOUS
  <2>4. f \in Bijection(SUBSET A, Ax)
    <3> HIDE DEF f, Ax
    <3> QED BY <2>1, <2>2, <2>3 DEF Bijection, Injection, Surjection, IsInjective
  <2> QED BY <2>4 DEF ExistsBijection
<1>7. IsFiniteSet(Ax) /\ Cardinality(Ax) = 2^n
  BY <1>4, <1>6, FS_Bijection
<1>8. (SUBSET A) \cap Ax = {}
  BY <1>2
<1> HIDE DEF Ax
<1>9. Cardinality((SUBSET A) \cup Ax) = 2^n + 2^n - 0
  <2>1. Cardinality((SUBSET A) \cup Ax)
          = Cardinality(SUBSET A) + Cardinality(Ax) - Cardinality((SUBSET A) \cap Ax)
    BY <1>4, <1>7, FS_Union
  <2>2. Cardinality({}) = 0
    BY FS_EmptySet
  <2> QED BY <1>4, <1>7, <1>8, <2>1, <2>2
<1>10. 2^n \in Nat
  BY <1>4, FS_CardinalityType
<1>11. 2^(n + 1) = 2^n + 2^n - 0
  BY ONLY <1>4, <1>5, <1>9, Zenon
<1> QED BY <1>10, <1>11

\* A power of two is positive, and a power with a sum of exponents is a product.
LEMMA PowerPositive ==
  ASSUME NEW n \in Nat
  PROVE  2^n \in Nat /\ 2^n > 0
<1> DEFINE S == {m \in Nat : 2^m > 0}
<1>1. 0 \in S
  BY PowerOfZero
<1>2. ASSUME NEW m \in Nat, m \in S PROVE m + 1 \in S
  BY <1>2, PowerStep
<1> HIDE DEF S
<1>3. n \in S
  BY <1>1, <1>2, Induction
<1> QED BY <1>3, PowerStep DEF S

LEMMA PowerAdds ==
  ASSUME NEW m \in Nat, NEW n \in Nat
  PROVE  2^(m + n) = 2^m * 2^n
<1> DEFINE S == {k \in Nat : 2^(m + k) = 2^m * 2^k}
<1>1. 0 \in S
  BY PowerOfZero, PowerPositive
<1>2. ASSUME NEW k \in Nat, k \in S PROVE k + 1 \in S
  <2>1. PICK p, q, r : p = 2^m /\ q = 2^k /\ r = 2^(m + k)
    OBVIOUS
  <2>2. p \in Nat /\ q \in Nat /\ r = p * q
    BY <1>2, <2>1, PowerPositive
  <2>3. 2^(k + 1) = 2 * q
    BY <2>1, PowerStep
  <2>4. m + (k + 1) = (m + k) + 1 /\ m + k \in Nat
    OBVIOUS
  <2>5. 2^(m + (k + 1)) = 2 * r
    BY <2>1, <2>4, PowerStep
  <2>6. 2 * (p * q) = p * (2 * q)
    BY <2>2
  <2> QED BY <2>1, <2>2, <2>3, <2>5, <2>6
<1> HIDE DEF S
<1>3. n \in S
  BY <1>1, <1>2, Induction
<1> QED BY <1>3 DEF S

LEMMA PowerAbove ==
  ASSUME NEW n \in Nat
  PROVE  2^n > n
<1> DEFINE S == {m \in Nat : 2^m > m}
<1>1. 0 \in S
  BY PowerOfZero
<1>2. ASSUME NEW m \in Nat, m \in S PROVE m + 1 \in S
  BY <1>2, PowerStep
<1> HIDE DEF S
<1>3. n \in S
  BY <1>1, <1>2, Induction
<1> QED BY <1>3 DEF S
=============================================================================
