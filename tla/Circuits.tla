------------------------------- MODULE Circuits -------------------------------
(***************************************************************************)
(* The combinational circuits of algorithms/ and utils.py, for operands of *)
(* any width.                                                              *)
(***************************************************************************)
EXTENDS Integers, Sequences, BitVectors

RippleLength == 4   \* what every caller of combination_adder passes

-----------------------------------------------------------------------------
(* combination_adder: ripple-carry blocks joined by carry look-ahead. *)

\* One full adder of a block; P and G: the block so far propagates, generates a carry.
FullAdder(block, p, g) ==
  [P |-> block.P * p, G |-> (g + p * block.G) % 2, C |-> (g + p * block.C) % 2,
   S |-> Append(block.S, (p + block.C) % 2)]

\* n bits from position lo on, and the carry c into them.
RippleBlock(a, b, lo, n, c) ==
  LET block[k \in 0 .. n] ==
        IF k = 0 THEN [P |-> 1, G |-> 0, C |-> c, S |-> <<>>]
        ELSE FullAdder(block[k - 1], (a[lo + k] + b[lo + k]) % 2, a[lo + k] * b[lo + k])
  IN  block[n]

Carry(block, c) == IF block.G = 1 THEN 1 ELSE block.P * c

Joined(low, high) ==
  [P |-> low.P * high.P, G |-> IF high.G = 1 THEN 1 ELSE high.P * low.G, C |-> high.C,
   S |-> low.S \o high.S]

Block(a, b, cin) ==
  LET block[n \in 0 .. Len(a)] ==
        [lo \in 0 .. Len(a) - n |-> [c \in {0, 1} |->
           IF n <= RippleLength THEN RippleBlock(a, b, lo, n, c)
           ELSE LET mid  == n \div 2
                    low  == block[mid][lo][c]
                    high == block[n - mid][lo + mid][Carry(low, c)]
                IN  Joined(low, high)]]
  IN  block[Len(a)][0][cin]

Add(a, b, cin) == Block(a, b, cin).S
Neg(a) == Vector(Number(Not(a)) + 1, Len(a))

-----------------------------------------------------------------------------
(* radix4_partial_products: one product for every two bits of a. *)

Booth(digit, b, i, bits) ==
  LET negB == Add(Not(b), Vector(1, Len(b)), 0)
  IN  CASE digit \in {1, 2} -> SignExtend(Repeated(0, i) \o b, bits)
        [] digit = 3 -> SignExtend(Repeated(0, i + 1) \o b, bits)
        [] digit = 4 -> SignExtend(Repeated(0, i + 1) \o negB, bits)
        [] digit \in {5, 6} -> SignExtend(Repeated(0, i) \o negB, bits)
        [] OTHER -> Repeated(0, bits)

Radix4PartialProducts(a, b) ==
  LET extended == SignExtend(<<0>> \o a, Len(a) + 2)
  IN  [k \in 1 .. (Len(a) + 1) \div 2 |->
         Booth(Number(Slice(extended, 2 * k - 2, 2 * k)), b, 2 * k - 2, Len(a) + Len(b))]

-----------------------------------------------------------------------------
(* wallace_tree: three addends become a sum and a carry until two are left. *)

Majority(a, b, c) == [i \in DOMAIN a |-> (a[i] + b[i] + c[i]) \div 2]

\* Mutant: the carry is not moved up.
CompressedUnshifted(a, b, c) == <<Xor(Xor(a, b), c), Majority(a, b, c)>>

\* The carry moves up one place and its top bit is dropped.
Compressed(a, b, c) == <<Xor(Xor(a, b), c), ShiftLeft(Majority(a, b, c), 1)>>

\* Groups of three from the left; one or two addends may be left over.
NextLevel(addends) ==
  LET groups == Len(addends) \div 3
      Group(g) == Compressed(addends[3 * g + 1], addends[3 * g + 2], addends[3 * g + 3])
  IN  [j \in 1 .. Len(addends) - groups |->
         IF j <= 2 * groups THEN Group((j - 1) \div 2)[((j - 1) % 2) + 1] ELSE addends[j + groups]]

\* A level of two is the last: it is its own next one.
WallaceTree(addends) ==
  LET level[h \in 0 .. Len(addends)] == IF h = 0 THEN addends ELSE NextLevel(level[h - 1])
  IN  level[Len(addends)]

\* What the addends of a level add up to.
Total(numbers) ==
  LET total[k \in 0 .. Len(numbers)] ==
        IF k = 0 THEN 0 ELSE total[k - 1] + Number(numbers[k])
  IN  total[Len(numbers)]

-----------------------------------------------------------------------------
\* ceil(log2(n))
Log2(n) == CHOOSE k \in 0 .. n : 2^k >= n /\ \A j \in 0 .. k - 1 : 2^j < n

\* leading_zero_count of x, in Log2(Len(x)) bits: zero wraps to 0 when that is a power of two.
\* halves[n][lo] is the count of the n bits that start lo bits below the top.
LeadingZeroCount(x) ==
  LET halves[n \in 0 .. Len(x)] ==
        [lo \in 0 .. Len(x) - n |->
           IF n = 0 THEN 0
           ELSE IF n = 1 THEN 1 - x[Len(x) - lo]
           ELSE LET mid   == n \div 2
                    left  == halves[mid][lo]
                    right == halves[n - mid][lo + mid]
                IN  IF left = mid THEN (left + right) % 2^Log2(Len(x)) ELSE left]
  IN  halves[Len(x)][0]
=============================================================================
