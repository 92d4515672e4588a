--------------------------- MODULE Renaming_proofs ---------------------------
(***************************************************************************)
(* Renaming for any number of registers and any depth of the active list,  *)
(* where the push of an entry prevails over a late set_ready.              *)
(*                                                                         *)
(* The invariant is stated over data: the free registers as a function of  *)
(* their distance from the head, the registers handed out behind a branch  *)
(* as a function of their distance from the snapshot, the active list and  *)
(* the two tables.  A cycle is a retirement followed by a decoding, and    *)
(* the lemmas about one or the other mention no primed variable.           *)
(***************************************************************************)
EXTENDS Renaming, FiniteSetTheorems, SequenceTheorems, TLAPS

\* What the assumptions say of the constants.
LEMMA Sizes ==
  /\ RegisterNumber \in Nat \ {0} /\ LogicalNumber \in Nat \ {0} /\ ActiveListDepth \in Nat \ {0}
  /\ (LogicalNumber - 1) + ActiveListDepth <= RegisterNumber - 1
  /\ FreeListDepth \in Nat /\ FreeListDepth = 2 * RegisterNumber
  /\ 0 \in Logical /\ 0 \in Physical
BY RegisterNumberAssumption, LogicalNumberAssumption, ActiveListDepthAssumption, EnoughRegisters
   DEF FreeListDepth, Logical, Physical

-----------------------------------------------------------------------------
(* Arithmetic of the ring. *)

RingSlots == 0 .. FreeListDepth - 1

LEMMA AdvanceInSlots ==
  ASSUME NEW p \in RingSlots, NEW i \in 0 .. FreeListDepth
  PROVE  FreeRing!Advance(p, i) \in RingSlots
BY Sizes DEF RingSlots, FreeRing!Advance

LEMMA AdvanceInjective ==
  ASSUME NEW p \in RingSlots, NEW i \in RingSlots, NEW j \in RingSlots,
         FreeRing!Advance(p, i) = FreeRing!Advance(p, j)
  PROVE  i = j
BY Sizes DEF RingSlots, FreeRing!Advance

LEMMA AdvanceAdds ==
  ASSUME NEW p \in RingSlots, NEW i \in RingSlots, NEW j \in RingSlots, i + j < FreeListDepth
  PROVE  FreeRing!Advance(FreeRing!Advance(p, i), j) = FreeRing!Advance(p, i + j)
BY Sizes DEF RingSlots, FreeRing!Advance

LEMMA IncrementAdvances ==
  ASSUME NEW p \in RingSlots, NEW i \in RingSlots, i + 1 < FreeListDepth
  PROVE  FreeRing!Increment(FreeRing!Advance(p, i)) = FreeRing!Advance(p, i + 1)
BY Sizes DEF RingSlots, FreeRing!Advance, FreeRing!Increment

LEMMA DistanceOfAdvance ==
  ASSUME NEW p \in RingSlots, NEW i \in RingSlots
  PROVE  FreeRing!Distance(p, FreeRing!Advance(p, i)) = i
BY Sizes DEF RingSlots, FreeRing!Advance, FreeRing!Distance

LEMMA AdvanceByDistance ==
  ASSUME NEW p \in RingSlots, NEW r \in RingSlots
  PROVE  /\ FreeRing!Distance(p, r) \in RingSlots
         /\ FreeRing!Advance(p, FreeRing!Distance(p, r)) = r
BY Sizes DEF RingSlots, FreeRing!Advance, FreeRing!Distance

-----------------------------------------------------------------------------
(* The data of the invariant. *)

\* The free registers, by their distance from the head.
FreeOf(q) == [i \in 0 .. q.count - 1 |-> q.slots[FreeRing!Advance(q.head, i)]]

\* The registers handed out since the snapshot, by their distance from it.
TakenSince(q, s) ==
  [i \in 0 .. FreeRing!Distance(s, q.head) - 1 |-> q.slots[FreeRing!Advance(s, i)]]

\* The part of an entry that is fixed when it is decoded.
FixedEntry == [op : {"alu", "load", "branch", "store"}, dest : Logical, new : Physical, old : Physical]
FixedOf(list) ==
  [i \in 1 .. Len(list) |->
     [op |-> list[i].op, dest |-> list[i].dest, new |-> list[i].new, old |-> list[i].old]]

WritersOf(list) == {i \in DOMAIN list : list[i].dest # 0}
BranchesOf(list) == {i \in DOMAIN list : list[i].op = "branch"}

\* Every register has one owner: `free' lists c free ones, `list' is the active list.
PartitionOf(free, c, list, commit) ==
  /\ \A i \in 0 .. c - 1 : free[i] \in 1 .. RegisterNumber - 1
  /\ \A i, j \in 0 .. c - 1 : free[i] = free[j] => i = j
  /\ \A j \in WritersOf(list) : list[j].new \in 1 .. RegisterNumber - 1
  /\ \A i, j \in WritersOf(list) : list[i].new = list[j].new => i = j
  /\ \A k, l \in Logical : commit[k] = commit[l] /\ commit[k] # 0 => k = l
  /\ commit[0] = 0
  /\ \A i \in 0 .. c - 1, j \in WritersOf(list) : free[i] # list[j].new
  /\ \A i \in 0 .. c - 1, l \in Logical : free[i] # commit[l]
  /\ \A j \in WritersOf(list), l \in Logical : list[j].new # commit[l]
  /\ \A p \in 1 .. RegisterNumber - 1 :
       \/ \E i \in 0 .. c - 1 : free[i] = p
       \/ \E j \in WritersOf(list) : list[j].new = p
       \/ \E l \in Logical : commit[l] = p

\* p is the mapping of l that the entry at position i was decoded under.
Maps(list, commit, l, i, p) ==
  \/ /\ \A j \in WritersOf(list) : j < i => list[j].dest # l
     /\ p = commit[l]
  \/ \E j \in WritersOf(list) :
       /\ j < i /\ list[j].dest = l /\ p = list[j].new
       /\ \A k \in WritersOf(list) : j < k /\ k < i => list[k].dest # l

\* Every writer replaces the mapping it was decoded under, and the speculative table is the
\* mapping the next instruction will be decoded under.
MappingOf(list, commit, spec) ==
  /\ \A i \in WritersOf(list) : Maps(list, commit, list[i].dest, i, list[i].old)
  /\ \A l \in Logical : Maps(list, commit, l, Len(list) + 1, spec[l])

\* The d registers taken since the snapshot are those of the writers behind the branch, in
\* the order of the writers.
WrongPathOf(taken, d, list) ==
  \A b \in BranchesOf(list) :
    /\ \A k \in 0 .. d - 1 : \E i \in WritersOf(list) : b < i /\ list[i].new = taken[k]
    /\ \A i \in WritersOf(list) : b < i => \E k \in 0 .. d - 1 : taken[k] = list[i].new
    /\ \A j, k \in 0 .. d - 1 : taken[j] = taken[k] => j = k
    /\ \A i, j \in WritersOf(list), k, m \in 0 .. d - 1 :
         b < i /\ i < j /\ taken[k] = list[i].new /\ taken[m] = list[j].new => k < m

\* A branch writes nothing, and there is at most one.
BranchesOK(list) ==
  /\ \A i \in BranchesOf(list) : list[i].dest = 0
  /\ \A i, j \in BranchesOf(list) : i = j

-----------------------------------------------------------------------------
(* How many registers are free. *)

LEMMA IntervalSize ==
  ASSUME NEW n \in Nat
  PROVE  IsFiniteSet(1 .. n) /\ Cardinality(1 .. n) = n
<1>1. 1 \in Int /\ n \in Int
  OBVIOUS
<1>2. Cardinality(1 .. n) = IF 1 > n THEN 0 ELSE n - 1 + 1
  BY <1>1, FS_Interval
<1> QED BY <1>1, <1>2, FS_Interval

\* Free registers and those taken since the snapshot are different registers.
LEMMA FreeBound ==
  ASSUME NEW free, NEW c \in Nat, NEW list, NEW commit, NEW taken, NEW d \in Nat,
         PartitionOf(free, c, list, commit),
         WrongPathOf(taken, d, list), BranchesOf(list) # {} \/ d = 0
  PROVE  c + d <= RegisterNumber - 1
<1> DEFINE f == [k \in 1 .. c + d |-> IF k <= d THEN taken[k - 1] ELSE free[k - d - 1]]
<1>1. \A k \in 0 .. d - 1 : \E i \in WritersOf(list) : list[i].new = taken[k]
  BY DEF WrongPathOf
<1>2. \A j, k \in 0 .. d - 1 : taken[j] = taken[k] => j = k
  BY DEF WrongPathOf
<1>3. f \in [1 .. c + d -> 1 .. RegisterNumber - 1]
  <2> SUFFICES ASSUME NEW k \in 1 .. c + d PROVE f[k] \in 1 .. RegisterNumber - 1
    OBVIOUS
  <2>1. CASE k <= d
    <3>1. k - 1 \in 0 .. d - 1
      BY <2>1
    <3> QED BY <1>1, <2>1, <3>1 DEF PartitionOf
  <2>2. CASE ~(k <= d)
    <3>1. k - d - 1 \in 0 .. c - 1
      BY <2>2
    <3> QED BY <2>2, <3>1 DEF PartitionOf
  <2> QED BY <2>1, <2>2
<1>4. ASSUME NEW j \in 1 .. c + d, NEW k \in 1 .. c + d, f[j] = f[k]
      PROVE  j = k
  <2>1. CASE j <= d /\ k <= d
    <3>1. j - 1 \in 0 .. d - 1 /\ k - 1 \in 0 .. d - 1
      BY <2>1
    <3>2. taken[j - 1] = taken[k - 1]
      BY <1>4, <2>1
    <3>3. j - 1 = k - 1
      BY <1>2, <3>1, <3>2
    <3> QED BY <3>3
  <2>2. CASE ~(j <= d) /\ ~(k <= d)
    <3>1. j - d - 1 \in 0 .. c - 1 /\ k - d - 1 \in 0 .. c - 1
      BY <2>2
    <3>2. free[j - d - 1] = free[k - d - 1]
      BY <1>4, <2>2
    <3>3. j - d - 1 = k - d - 1
      BY <3>1, <3>2 DEF PartitionOf
    <3> QED BY <3>3
  <2>3. CASE j <= d /\ ~(k <= d)
    <3>1. j - 1 \in 0 .. d - 1 /\ k - d - 1 \in 0 .. c - 1
      BY <2>3
    <3>2. taken[j - 1] = free[k - d - 1]
      BY <1>4, <2>3
    <3> QED BY <1>1, <3>1, <3>2 DEF PartitionOf
  <2>4. CASE ~(j <= d) /\ k <= d
    <3>1. k - 1 \in 0 .. d - 1 /\ j - d - 1 \in 0 .. c - 1
      BY <2>4
    <3>2. taken[k - 1] = free[j - d - 1]
      BY <1>4, <2>4
    <3> QED BY <1>1, <3>1, <3>2 DEF PartitionOf
  <2> QED BY <2>1, <2>2, <2>3, <2>4
<1>5. f \in Injection(1 .. c + d, 1 .. RegisterNumber - 1)
  BY <1>3, <1>4 DEF Injection, IsInjective
<1>6. /\ IsFiniteSet(1 .. RegisterNumber - 1)
      /\ Cardinality(1 .. RegisterNumber - 1) = RegisterNumber - 1
      /\ Cardinality(1 .. c + d) = c + d
  <2>1. RegisterNumber - 1 \in Nat /\ c + d \in Nat
    BY Sizes
  <2> QED BY <2>1, IntervalSize
<1> HIDE DEF f
<1> QED BY <1>5, <1>6, FS_Injection

\* With no register free, the active list is full of writers.
LEMMA NoneFree ==
  ASSUME NEW free, NEW list \in Seq(FixedEntry), NEW commit \in [Logical -> Physical],
         PartitionOf(free, 0, list, commit),
         NEW m \in 0 .. Len(list), \A j \in WritersOf(list) : j <= m
  PROVE  m >= ActiveListDepth
<1> DEFINE S == 1 .. m + (LogicalNumber - 1)
           f == [k \in S |-> IF k <= m THEN list[k].new ELSE commit[k - m]]
           T == {f[k] : k \in S}
<1>1. 1 .. RegisterNumber - 1 \subseteq T
  <2> SUFFICES ASSUME NEW p \in 1 .. RegisterNumber - 1 PROVE \E k \in S : f[k] = p
    OBVIOUS
  <2>1. CASE \E j \in WritersOf(list) : list[j].new = p
    <3>1. PICK j \in WritersOf(list) : list[j].new = p
      BY <2>1
    <3>2. j \in S /\ j <= m
      BY <3>1, Sizes DEF WritersOf
    <3> QED BY <3>1, <3>2
  <2>2. CASE \E l \in Logical : commit[l] = p
    <3>1. PICK l \in Logical : commit[l] = p
      BY <2>2
    <3>2. l # 0
      BY <3>1 DEF PartitionOf
    <3>3. m + l \in S /\ ~(m + l <= m) /\ m + l - m = l
      BY <3>2, Sizes DEF Logical
    <3> QED BY SMTT(20), <3>1, <3>3
  <2> QED BY <2>1, <2>2 DEF PartitionOf
<1>2. IsFiniteSet(S) /\ Cardinality(S) = m + (LogicalNumber - 1)
  <2>1. m + (LogicalNumber - 1) \in Nat
    BY Sizes
  <2> QED BY <2>1, IntervalSize
<1>3. f \in Surjection(S, T)
  BY DEF Surjection
<1>4. IsFiniteSet(T) /\ Cardinality(T) <= Cardinality(S)
  BY <1>2, <1>3, FS_Surjection
<1>5. Cardinality(1 .. RegisterNumber - 1) = RegisterNumber - 1
  <2>1. RegisterNumber - 1 \in Nat
    BY Sizes
  <2> QED BY <2>1, IntervalSize
<1>6. Cardinality(1 .. RegisterNumber - 1) <= Cardinality(T)
  BY <1>1, <1>4, FS_Subset
<1>7. Cardinality(T) \in Nat
  BY <1>4, FS_CardinalityType
<1> HIDE DEF S, f, T
<1> QED BY <1>2, <1>4, <1>5, <1>6, <1>7, Sizes

\* While an entry may be decoded, a register is free.
LEMMA SomeFree ==
  ASSUME NEW free, NEW c \in Nat, NEW list \in Seq(FixedEntry), NEW commit \in [Logical -> Physical],
         PartitionOf(free, c, list, commit),
         NEW m \in 0 .. Len(list), \A j \in WritersOf(list) : j <= m, m < ActiveListDepth
  PROVE  c > 0
<1>1. ASSUME c = 0 PROVE m >= ActiveListDepth
  BY <1>1, NoneFree
<1> QED BY <1>1, Sizes

-----------------------------------------------------------------------------
(* Retirement of the oldest entry. *)

\* The entries behind the oldest.
Rest(list) == Tail(list)

\* What the operators of the invariant see of the shorter list.
LEMMA RestIs ==
  ASSUME NEW list \in Seq(FixedEntry), list # <<>>
  PROVE  /\ Rest(list) \in Seq(FixedEntry) /\ Len(list) > 0
         /\ Len(Rest(list)) = Len(list) - 1
         /\ list[1] \in FixedEntry
         /\ \A i \in WritersOf(Rest(list)) :
              /\ i \in 1 .. Len(list) - 1
              /\ i + 1 \in WritersOf(list) /\ Rest(list)[i] = list[i + 1]
         /\ \A i \in WritersOf(list) :
              /\ i \in 1 .. Len(list)
              /\ i = 1 \/ (i - 1 \in WritersOf(Rest(list)) /\ Rest(list)[i - 1] = list[i])
         /\ \A i \in BranchesOf(Rest(list)) :
              /\ i \in 1 .. Len(list) - 1
              /\ i + 1 \in BranchesOf(list) /\ Rest(list)[i] = list[i + 1]
         /\ \A i \in BranchesOf(list) :
              /\ i \in 1 .. Len(list)
              /\ i = 1 \/ (i - 1 \in BranchesOf(Rest(list)) /\ Rest(list)[i - 1] = list[i])
<1>1. /\ Rest(list) \in Seq(FixedEntry) /\ Len(list) > 0 /\ Len(list) \in Nat
      /\ Len(Rest(list)) = Len(list) - 1
      /\ \A i \in 1 .. Len(list) - 1 : Rest(list)[i] = list[i + 1]
  BY DEF Rest
<1>2. /\ DOMAIN list = 1 .. Len(list)
      /\ DOMAIN Rest(list) = 1 .. Len(list) - 1
  BY <1>1
<1>3. list[1] \in FixedEntry
  BY <1>1, <1>2
<1>4. \A i \in 1 .. Len(list) - 1 : i + 1 \in 1 .. Len(list) /\ Rest(list)[i] = list[i + 1]
  BY <1>1
<1>5. \A i \in 1 .. Len(list) :
        i = 1 \/ (i - 1 \in 1 .. Len(list) - 1 /\ Rest(list)[i - 1] = list[i])
  <2> SUFFICES ASSUME NEW i \in 1 .. Len(list), i # 1
               PROVE  i - 1 \in 1 .. Len(list) - 1 /\ Rest(list)[i - 1] = list[i]
    OBVIOUS
  <2>1. i - 1 \in 1 .. Len(list) - 1 /\ i - 1 + 1 = i
    BY <1>1
  <2> QED BY <1>1, <2>1
<1> QED BY <1>1, <1>2, <1>3, <1>4, <1>5 DEF WritersOf, BranchesOf

\* The committed table after the retirement of e.
Committed(commit, e) == IF e.dest # 0 THEN [commit EXCEPT ![e.dest] = e.new] ELSE commit

\* The free registers of `after' are those of `before', and the one e replaces.
FreesOf(before, c, after, c1, e) ==
  /\ c1 = IF e.dest # 0 /\ e.old # 0 THEN c + 1 ELSE c
  /\ \A i \in 0 .. c - 1 : after[i] = before[i]
  /\ e.dest # 0 /\ e.old # 0 => after[c] = e.old

\* The retiring entry hands its register to the committed table, which gives up the old one.
LEMMA RetirePartition ==
  ASSUME NEW free, NEW c \in Nat, NEW list \in Seq(FixedEntry), list # <<>>,
         NEW commit \in [Logical -> Physical], NEW free1, NEW c1, NEW spec,
         PartitionOf(free, c, list, commit), MappingOf(list, commit, spec),
         FreesOf(free, c, free1, c1, list[1])
  PROVE  PartitionOf(free1, c1, Rest(list), Committed(commit, list[1]))
<1> DEFINE e == list[1]
           commit1 == Committed(commit, e)
<1>t. e \in FixedEntry
  BY RestIs
<1>1. CASE e.dest = 0
  <2>1. c1 = c /\ commit1 = commit /\ \A i \in 0 .. c - 1 : free1[i] = free[i]
    BY <1>1 DEF FreesOf, Committed
  <2>2. 1 \notin WritersOf(list)
    BY <1>1 DEF WritersOf
  <2>3. \A i \in WritersOf(Rest(list)) :
          i \in Int /\ i + 1 \in WritersOf(list) /\ Rest(list)[i] = list[i + 1]
    BY RestIs
  <2>4. \A i \in WritersOf(list) : i - 1 \in WritersOf(Rest(list)) /\ Rest(list)[i - 1] = list[i]
    BY <2>2, RestIs
  <2>5. \A i, j \in WritersOf(Rest(list)) : Rest(list)[i].new = Rest(list)[j].new => i = j
    <3> SUFFICES ASSUME NEW i \in WritersOf(Rest(list)), NEW j \in WritersOf(Rest(list)),
                        Rest(list)[i].new = Rest(list)[j].new
                 PROVE  i = j
      OBVIOUS
    <3>1. i + 1 = j + 1
      BY SMTT(30), <2>3 DEF PartitionOf
    <3> QED BY <2>3, <3>1
  <2> HIDE DEF commit1
  <2>6. \A p \in 1 .. RegisterNumber - 1 :
          \/ \E i \in 0 .. c - 1 : free1[i] = p
          \/ \E j \in WritersOf(Rest(list)) : Rest(list)[j].new = p
          \/ \E l \in Logical : commit1[l] = p
    <3> SUFFICES ASSUME NEW p \in 1 .. RegisterNumber - 1
                 PROVE  \/ \E i \in 0 .. c - 1 : free1[i] = p
                        \/ \E j \in WritersOf(Rest(list)) : Rest(list)[j].new = p
                        \/ \E l \in Logical : commit1[l] = p
      OBVIOUS
    <3>1. CASE \E i \in 0 .. c - 1 : free[i] = p
      BY <2>1, <3>1
    <3>2. CASE \E j \in WritersOf(list) : list[j].new = p
      BY <2>4, <3>2
    <3>3. CASE \E l \in Logical : commit[l] = p
      BY <2>1, <3>3
    <3> QED BY <3>1, <3>2, <3>3 DEF PartitionOf
  <2>7. PartitionOf(free1, c, Rest(list), commit1)
    <3>1. /\ \A j \in WritersOf(Rest(list)) : Rest(list)[j].new \in 1 .. RegisterNumber - 1
          /\ \A j \in WritersOf(Rest(list)), l \in Logical : Rest(list)[j].new # commit1[l]
      BY <2>1, <2>3 DEF PartitionOf
    <3>2. \A i \in 0 .. c - 1, j \in WritersOf(Rest(list)) : free1[i] # Rest(list)[j].new
      BY <2>1, <2>3 DEF PartitionOf
    <3>3. /\ \A i \in 0 .. c - 1 : free1[i] \in 1 .. RegisterNumber - 1
          /\ \A i, j \in 0 .. c - 1 : free1[i] = free1[j] => i = j
          /\ \A i \in 0 .. c - 1, l \in Logical : free1[i] # commit1[l]
          /\ \A k, l \in Logical : commit1[k] = commit1[l] /\ commit1[k] # 0 => k = l
          /\ commit1[0] = 0
      BY <2>1 DEF PartitionOf
    <3> QED BY <2>5, <2>6, <3>1, <3>2, <3>3 DEF PartitionOf
  <2> QED BY <2>1, <2>7 DEF commit1
<1>2. CASE e.dest # 0
  <2>1. 1 \in WritersOf(list)
    BY <1>2, RestIs DEF WritersOf
  <2>2. e.old = commit[e.dest]
    BY <2>1 DEF MappingOf, Maps, WritersOf
  <2>3. /\ commit1 = [commit EXCEPT ![e.dest] = e.new] /\ e.dest \in Logical /\ e.new \in Physical
        /\ e.new \in 1 .. RegisterNumber - 1 /\ e.old \in Physical
    BY <1>2, <1>t, <2>1 DEF Committed, FixedEntry, PartitionOf
  <2>4. /\ commit1[e.dest] = e.new
        /\ \A l \in Logical : l # e.dest => commit1[l] = commit[l]
    BY <2>3
  <2>5. \A i \in WritersOf(Rest(list)) :
          i \in Int /\ i + 1 \in WritersOf(list) /\ i + 1 # 1 /\ Rest(list)[i] = list[i + 1]
    BY RestIs
  <2>6. \A i \in WritersOf(list) :
          i = 1 \/ (i - 1 \in WritersOf(Rest(list)) /\ Rest(list)[i - 1] = list[i])
    BY RestIs
  <2>7. /\ \A i \in 0 .. c1 - 1 : i \in 0 .. c - 1 \/ (i = c /\ e.old # 0 /\ free1[i] = e.old)
        /\ \A i \in 0 .. c - 1 : i \in 0 .. c1 - 1 /\ free1[i] = free[i]
        /\ e.old # 0 => c \in 0 .. c1 - 1 /\ free1[c] = e.old
    BY <1>2 DEF FreesOf
  <2>8. \A j \in WritersOf(list) : list[j].new # e.old
    BY <2>2, <2>3 DEF PartitionOf
  <2>9. \A i \in 0 .. c1 - 1 : free1[i] \in 1 .. RegisterNumber - 1
    BY <2>3, <2>7 DEF PartitionOf, Physical
  <2>10. \A i, j \in 0 .. c1 - 1 : free1[i] = free1[j] => i = j
    BY <2>2, <2>3, <2>7 DEF PartitionOf
  <2>11. /\ \A j \in WritersOf(Rest(list)) : Rest(list)[j].new \in 1 .. RegisterNumber - 1
         /\ \A i \in 0 .. c1 - 1, j \in WritersOf(Rest(list)) : free1[i] # Rest(list)[j].new
    BY <2>5, <2>7, <2>8 DEF PartitionOf
  <2>12. \A i, j \in WritersOf(Rest(list)) : Rest(list)[i].new = Rest(list)[j].new => i = j
    <3> SUFFICES ASSUME NEW i \in WritersOf(Rest(list)), NEW j \in WritersOf(Rest(list)),
                        Rest(list)[i].new = Rest(list)[j].new
                 PROVE  i = j
      OBVIOUS
    <3>1. i + 1 = j + 1
      BY SMTT(30), <2>5 DEF PartitionOf
    <3> QED BY <2>5, <3>1
  <2>13. /\ \A k, l \in Logical : commit1[k] = commit1[l] /\ commit1[k] # 0 => k = l
         /\ commit1[0] = 0
    <3>1. \A k \in Logical : commit[k] # e.new
      BY <2>1 DEF PartitionOf
    <3> QED BY <1>2, <2>3, <2>4, <3>1, Sizes DEF PartitionOf
  <2>14. \A i \in 0 .. c1 - 1, l \in Logical : free1[i] # commit1[l]
    <3> SUFFICES ASSUME NEW i \in 0 .. c1 - 1, NEW l \in Logical PROVE free1[i] # commit1[l]
      OBVIOUS
    <3>1. CASE l = e.dest
      BY <2>1, <2>4, <2>7, <2>8, <3>1 DEF PartitionOf
    <3>2. CASE l # e.dest
      BY <2>2, <2>3, <2>4, <2>7, <3>2 DEF PartitionOf
    <3> QED BY <3>1, <3>2
  <2>15. \A j \in WritersOf(Rest(list)), l \in Logical : Rest(list)[j].new # commit1[l]
    BY <2>1, <2>4, <2>5 DEF PartitionOf
  <2>16. \A p \in 1 .. RegisterNumber - 1 :
           \/ \E i \in 0 .. c1 - 1 : free1[i] = p
           \/ \E j \in WritersOf(Rest(list)) : Rest(list)[j].new = p
           \/ \E l \in Logical : commit1[l] = p
    <3> SUFFICES ASSUME NEW p \in 1 .. RegisterNumber - 1
                 PROVE  \/ \E i \in 0 .. c1 - 1 : free1[i] = p
                        \/ \E j \in WritersOf(Rest(list)) : Rest(list)[j].new = p
                        \/ \E l \in Logical : commit1[l] = p
      OBVIOUS
    <3>1. CASE \E i \in 0 .. c - 1 : free[i] = p
      BY <2>7, <3>1
    <3>2. CASE \E j \in WritersOf(list) : list[j].new = p
      BY <2>3, <2>4, <2>6, <3>2
    <3>3. CASE \E l \in Logical : commit[l] = p
      BY <2>2, <2>4, <2>7, <3>3
    <3> QED BY <3>1, <3>2, <3>3 DEF PartitionOf
  <2> HIDE DEF commit1
  <2>17. PartitionOf(free1, c1, Rest(list), commit1)
    BY <2>9, <2>10, <2>11, <2>12, <2>13, <2>14, <2>15, <2>16 DEF PartitionOf
  <2> QED BY <2>17 DEF commit1
<1> QED BY <1>1, <1>2

\* The mapping an entry was decoded under does not change when an older one retires.
LEMMA RetireMaps ==
  ASSUME NEW list \in Seq(FixedEntry), list # <<>>, NEW commit \in [Logical -> Physical],
         NEW l \in Logical, NEW i \in 1 .. Len(list), NEW p, Maps(list, commit, l, i + 1, p)
  PROVE  Maps(Rest(list), Committed(commit, list[1]), l, i, p)
<1> DEFINE e == list[1]
           commit1 == Committed(commit, e)
<1>1. /\ e.dest # 0 /\ l = e.dest => commit1[l] = e.new
      /\ ~(e.dest # 0 /\ l = e.dest) => commit1[l] = commit[l]
  BY DEF Committed
<1>2. \A j \in WritersOf(Rest(list)) :
        j + 1 \in WritersOf(list) /\ j + 1 # 1 /\ Rest(list)[j] = list[j + 1] /\ j \in Nat
  BY RestIs
<1>3. \A j \in WritersOf(list) :
        /\ j \in Nat
        /\ j = 1 \/ (j - 1 \in WritersOf(Rest(list)) /\ Rest(list)[j - 1] = list[j])
  BY RestIs
<1>4. e.dest # 0 => 1 \in WritersOf(list)
  BY RestIs DEF WritersOf
<1> HIDE DEF e, commit1
<1>5. CASE /\ \A j \in WritersOf(list) : j < i + 1 => list[j].dest # l
           /\ p = commit[l]
  <2>1. commit1[l] = commit[l]
    BY <1>1, <1>4, <1>5 DEF e
  <2>2. \A j \in WritersOf(Rest(list)) : j < i => Rest(list)[j].dest # l
    BY <1>2, <1>5
  <2> QED BY <1>5, <2>1, <2>2 DEF Maps, commit1, e
<1>6. ASSUME NEW j \in WritersOf(list), j < i + 1, list[j].dest = l, p = list[j].new,
             \A k \in WritersOf(list) : j < k /\ k < i + 1 => list[k].dest # l
      PROVE  Maps(Rest(list), commit1, l, i, p)
  <2>1. \A k \in WritersOf(Rest(list)) : j - 1 < k /\ k < i => Rest(list)[k].dest # l
    <3> SUFFICES ASSUME NEW k \in WritersOf(Rest(list)), j - 1 < k, k < i
                 PROVE  list[k + 1].dest # l
      BY <1>2
    <3>1. k + 1 \in WritersOf(list) /\ j < k + 1 /\ k + 1 < i + 1
      BY <1>2, <1>3
    <3> QED BY <1>6, <3>1
  <2>2. CASE j = 1
    <3>1. commit1[l] = p
      BY <1>1, <1>6, <2>2 DEF e, WritersOf
    <3>2. \A k \in WritersOf(Rest(list)) : k < i => Rest(list)[k].dest # l
      BY <1>2, <2>1, <2>2
    <3> QED BY <3>1, <3>2 DEF Maps
  <2>3. CASE j # 1
    <3>1. j - 1 \in WritersOf(Rest(list)) /\ Rest(list)[j - 1] = list[j] /\ j - 1 < i
      BY <1>3, <1>6, <2>3
    <3> QED BY <1>6, <2>1, <3>1 DEF Maps
  <2> QED BY <2>2, <2>3
<1> QED BY <1>5, <1>6 DEF Maps, commit1, e

\* Each entry still replaces the mapping it was decoded under.
LEMMA RetireMapping ==
  ASSUME NEW list \in Seq(FixedEntry), list # <<>>, NEW commit \in [Logical -> Physical],
         NEW spec, MappingOf(list, commit, spec)
  PROVE  MappingOf(Rest(list), Committed(commit, list[1]), spec)
<1>1. ASSUME NEW i \in WritersOf(Rest(list))
      PROVE  Maps(Rest(list), Committed(commit, list[1]), Rest(list)[i].dest, i, Rest(list)[i].old)
  <2>1. /\ i + 1 \in WritersOf(list) /\ Rest(list)[i] = list[i + 1]
        /\ i \in 1 .. Len(list) /\ i + 1 \in 1 .. Len(list)
    BY RestIs
  <2>2. list[i + 1].dest \in Logical
    <3>1. list[i + 1] \in FixedEntry
      BY <2>1
    <3> QED BY <3>1 DEF FixedEntry
  <2>3. Maps(list, commit, list[i + 1].dest, i + 1, list[i + 1].old)
    BY <2>1 DEF MappingOf
  <2> QED BY <2>1, <2>2, <2>3, RetireMaps
<1>2. ASSUME NEW l \in Logical
      PROVE  Maps(Rest(list), Committed(commit, list[1]), l, Len(Rest(list)) + 1, spec[l])
  <2>1. Len(list) \in 1 .. Len(list) /\ Len(Rest(list)) + 1 = Len(list)
    BY RestIs
  <2>2. Maps(list, commit, l, Len(list) + 1, spec[l])
    BY DEF MappingOf
  <2> QED BY <2>1, <2>2, RetireMaps
<1> QED BY <1>1, <1>2 DEF MappingOf

\* A retiring branch was the only one.
LEMMA RetireBranches ==
  ASSUME NEW list \in Seq(FixedEntry), list # <<>>, BranchesOK(list)
  PROVE  /\ BranchesOK(Rest(list))
         /\ BranchesOf(Rest(list)) = {} <=> BranchesOf(list) = {} \/ list[1].op = "branch"
         /\ list[1].op = "branch" => list[1].dest = 0
<1>1. \A i \in BranchesOf(Rest(list)) :
        i + 1 \in BranchesOf(list) /\ i + 1 # 1 /\ Rest(list)[i] = list[i + 1] /\ i \in Nat
  BY SMTT(30), RestIs DEF BranchesOf
<1>2. \A i \in BranchesOf(list) : i = 1 \/ i - 1 \in BranchesOf(Rest(list))
  BY RestIs
<1>3. 1 \in BranchesOf(list) <=> list[1].op = "branch"
  BY RestIs DEF BranchesOf
<1> QED BY <1>1, <1>2, <1>3 DEF BranchesOK

\* What retires is not behind the branch.
LEMMA RetireWrongPath ==
  ASSUME NEW list \in Seq(FixedEntry), list # <<>>, NEW taken, NEW d \in Nat,
         WrongPathOf(taken, d, list)
  PROVE  WrongPathOf(taken, d, Rest(list))
<1> SUFFICES ASSUME NEW b \in BranchesOf(Rest(list))
             PROVE  /\ \A k \in 0 .. d - 1 : \E i \in WritersOf(Rest(list)) :
                         b < i /\ Rest(list)[i].new = taken[k]
                    /\ \A i \in WritersOf(Rest(list)) : b < i =>
                         \E k \in 0 .. d - 1 : taken[k] = Rest(list)[i].new
                    /\ \A j, k \in 0 .. d - 1 : taken[j] = taken[k] => j = k
                    /\ \A i, j \in WritersOf(Rest(list)), k, m \in 0 .. d - 1 :
                         /\ b < i /\ i < j
                         /\ taken[k] = Rest(list)[i].new /\ taken[m] = Rest(list)[j].new
                         => k < m
  BY DEF WrongPathOf
<1>1. b \in Nat /\ b + 1 \in BranchesOf(list)
  BY RestIs DEF BranchesOf
<1>2. \A j \in WritersOf(Rest(list)) :
        j + 1 \in WritersOf(list) /\ Rest(list)[j] = list[j + 1] /\ j \in Nat
  BY RestIs
<1>3. \A j \in WritersOf(list) :
        /\ j \in Nat
        /\ j = 1 \/ (j - 1 \in WritersOf(Rest(list)) /\ Rest(list)[j - 1] = list[j])
  BY RestIs
<1>4. /\ \A k \in 0 .. d - 1 : \E i \in WritersOf(list) : b + 1 < i /\ list[i].new = taken[k]
      /\ \A i \in WritersOf(list) : b + 1 < i => \E k \in 0 .. d - 1 : taken[k] = list[i].new
      /\ \A j, k \in 0 .. d - 1 : taken[j] = taken[k] => j = k
  BY <1>1 DEF WrongPathOf
<1>5. ASSUME NEW k \in 0 .. d - 1
      PROVE  \E i \in WritersOf(Rest(list)) : b < i /\ Rest(list)[i].new = taken[k]
  <2>1. PICK i \in WritersOf(list) : b + 1 < i /\ list[i].new = taken[k]
    BY <1>4
  <2>2. i - 1 \in WritersOf(Rest(list)) /\ Rest(list)[i - 1] = list[i] /\ b < i - 1
    BY <1>1, <1>3, <2>1
  <2> QED BY <2>1, <2>2
<1>6. ASSUME NEW i \in WritersOf(Rest(list)), b < i
      PROVE  \E k \in 0 .. d - 1 : taken[k] = Rest(list)[i].new
  BY <1>1, <1>2, <1>4, <1>6
<1>7. ASSUME NEW i \in WritersOf(Rest(list)), NEW j \in WritersOf(Rest(list)),
             NEW k \in 0 .. d - 1, NEW m \in 0 .. d - 1, b < i, i < j,
             taken[k] = Rest(list)[i].new, taken[m] = Rest(list)[j].new
      PROVE  k < m
  <2>1. /\ i + 1 \in WritersOf(list) /\ j + 1 \in WritersOf(list)
        /\ taken[k] = list[i + 1].new /\ taken[m] = list[j + 1].new
        /\ b + 1 < i + 1 /\ i + 1 < j + 1
    BY <1>1, <1>2, <1>7
  <2> QED BY <1>1, <2>1 DEF WrongPathOf
<1> QED BY <1>4, <1>5, <1>6, <1>7

-----------------------------------------------------------------------------
(* Decoding of a new entry. *)

\* The entries with a new youngest one.
With(list, x) == Append(list, x)

\* What the operators of the invariant see of the longer list.
LEMMA WithIs ==
  ASSUME NEW list \in Seq(FixedEntry), NEW x \in FixedEntry
  PROVE  /\ With(list, x) \in Seq(FixedEntry)
         /\ Len(list) \in Nat /\ Len(With(list, x)) = Len(list) + 1
         /\ \A i \in WritersOf(With(list, x)) :
              \/ i = Len(list) + 1 /\ With(list, x)[i] = x /\ x.dest # 0
              \/ i \in WritersOf(list) /\ With(list, x)[i] = list[i]
         /\ \A i \in WritersOf(list) :
              i \in 1 .. Len(list) /\ i \in WritersOf(With(list, x)) /\ With(list, x)[i] = list[i]
         /\ x.dest # 0 => Len(list) + 1 \in WritersOf(With(list, x))
         /\ With(list, x)[Len(list) + 1] = x
         /\ \A i \in BranchesOf(With(list, x)) :
              \/ i = Len(list) + 1 /\ With(list, x)[i] = x /\ x.op = "branch"
              \/ i \in BranchesOf(list) /\ With(list, x)[i] = list[i]
         /\ \A i \in BranchesOf(list) :
              i \in 1 .. Len(list) /\ i \in BranchesOf(With(list, x)) /\ With(list, x)[i] = list[i]
         /\ x.op = "branch" => Len(list) + 1 \in BranchesOf(With(list, x))
<1>1. /\ With(list, x) \in Seq(FixedEntry) /\ Len(list) \in Nat
      /\ Len(With(list, x)) = Len(list) + 1
      /\ \A i \in 1 .. Len(list) : With(list, x)[i] = list[i]
      /\ With(list, x)[Len(list) + 1] = x
  BY DEF With
<1>2. /\ DOMAIN list = 1 .. Len(list)
      /\ DOMAIN With(list, x) = 1 .. Len(list) + 1
  BY <1>1
<1>3. \A i \in 1 .. Len(list) + 1 : i = Len(list) + 1 \/ i \in 1 .. Len(list)
  BY <1>1
<1>4. Len(list) + 1 \in 1 .. Len(list) + 1 /\ \A i \in 1 .. Len(list) : i \in 1 .. Len(list) + 1
  BY <1>1
<1> QED BY <1>1, <1>2, <1>3, <1>4 DEF WritersOf, BranchesOf

\* The entry x takes the first of the c free registers, if it has a destination.
TakesFirst(before, c, after, c1, x) ==
  /\ c1 = IF x.dest # 0 THEN c - 1 ELSE c
  /\ x.dest # 0 => /\ c > 0 /\ x.new = before[0]
                   /\ \A i \in 0 .. c1 - 1 : after[i] = before[i + 1]
  /\ x.dest = 0 => \A i \in 0 .. c1 - 1 : after[i] = before[i]

\* The new entry owns the register it takes from the free list.
LEMMA DecodePartition ==
  ASSUME NEW free, NEW c \in Nat, NEW list \in Seq(FixedEntry), NEW x \in FixedEntry,
         NEW commit \in [Logical -> Physical], NEW free1, NEW c1,
         PartitionOf(free, c, list, commit), TakesFirst(free, c, free1, c1, x)
  PROVE  PartitionOf(free1, c1, With(list, x), commit)
<1> DEFINE more == With(list, x)
<1>1. /\ \A i \in WritersOf(more) :
           \/ i = Len(list) + 1 /\ more[i] = x /\ x.dest # 0
           \/ i \in WritersOf(list) /\ more[i] = list[i]
      /\ \A i \in WritersOf(list) : i \in WritersOf(more) /\ more[i] = list[i]
      /\ x.dest # 0 => Len(list) + 1 \in WritersOf(more)
      /\ more[Len(list) + 1] = x
  BY ZenonT(30), WithIs
<1> HIDE DEF more
<1>2. CASE x.dest = 0
  <2>1. c1 = c /\ \A i \in 0 .. c - 1 : free1[i] = free[i]
    BY <1>2 DEF TakesFirst
  <2>2. /\ \A i \in WritersOf(more) : i \in WritersOf(list) /\ more[i] = list[i]
        /\ \A i \in WritersOf(list) : i \in WritersOf(more) /\ more[i] = list[i]
    BY <1>1, <1>2
  <2>3. \A p \in 1 .. RegisterNumber - 1 :
          \/ \E i \in 0 .. c - 1 : free1[i] = p
          \/ \E j \in WritersOf(more) : more[j].new = p
          \/ \E l \in Logical : commit[l] = p
    BY SMTT(30), <2>1, <2>2 DEF PartitionOf
  <2>4. /\ \A i, j \in WritersOf(more) : more[i].new = more[j].new => i = j
        /\ \A j \in WritersOf(more) : more[j].new \in 1 .. RegisterNumber - 1
        /\ \A j \in WritersOf(more), l \in Logical : more[j].new # commit[l]
    BY <2>2 DEF PartitionOf
  <2>5. \A i \in 0 .. c - 1, j \in WritersOf(more) : free1[i] # more[j].new
    BY <2>1, <2>2 DEF PartitionOf
  <2>6. /\ \A i \in 0 .. c - 1 : free1[i] \in 1 .. RegisterNumber - 1
        /\ \A i, j \in 0 .. c - 1 : free1[i] = free1[j] => i = j
        /\ \A i \in 0 .. c - 1, l \in Logical : free1[i] # commit[l]
    BY <2>1 DEF PartitionOf
  <2>7. PartitionOf(free1, c, more, commit)
    BY <2>3, <2>4, <2>5, <2>6 DEF PartitionOf
  <2> QED BY <2>1, <2>7 DEF more
<1>3. CASE x.dest # 0
  <2>1. /\ c > 0 /\ 0 \in 0 .. c - 1 /\ c1 = c - 1 /\ x.new = free[0]
        /\ \A i \in 0 .. c1 - 1 : i + 1 \in 0 .. c - 1 /\ i + 1 # 0 /\ free1[i] = free[i + 1]
        /\ \A i \in 0 .. c - 1 : i = 0 \/ (i - 1 \in 0 .. c1 - 1 /\ free1[i - 1] = free[i])
    <3>1. /\ c > 0 /\ c1 = c - 1 /\ x.new = free[0]
          /\ \A i \in 0 .. c1 - 1 : free1[i] = free[i + 1]
      BY <1>3 DEF TakesFirst
    <3>2. \A i \in 0 .. c - 1 : i = 0 \/ (i - 1 \in 0 .. c1 - 1 /\ i - 1 + 1 = i)
      BY <3>1
    <3>3. 0 \in 0 .. c - 1 /\ \A i \in 0 .. c1 - 1 : i + 1 \in 0 .. c - 1 /\ i + 1 # 0
      BY <3>1
    <3>4. ASSUME NEW i \in 0 .. c - 1, i # 0
          PROVE  i - 1 \in 0 .. c1 - 1 /\ free1[i - 1] = free[i]
      <4>1. i - 1 \in 0 .. c1 - 1 /\ i - 1 + 1 = i
        BY <3>2, <3>4
      <4>2. free1[i - 1] = free[i - 1 + 1]
        BY <3>1, <4>1
      <4> QED BY <4>1, <4>2
    <3> QED BY <3>1, <3>3, <3>4
  <2>2. \A i \in 0 .. c1 - 1 : free1[i] \in 1 .. RegisterNumber - 1
    <3> SUFFICES ASSUME NEW i \in 0 .. c1 - 1 PROVE free1[i] \in 1 .. RegisterNumber - 1
      OBVIOUS
    <3>1. i + 1 \in 0 .. c - 1 /\ free1[i] = free[i + 1]
      BY <2>1
    <3>2. \A k \in 0 .. c - 1 : free[k] \in 1 .. RegisterNumber - 1
      BY DEF PartitionOf
    <3> QED BY <3>1, <3>2
  <2>3. \A i, j \in 0 .. c1 - 1 : free1[i] = free1[j] => i = j
    <3> SUFFICES ASSUME NEW i \in 0 .. c1 - 1, NEW j \in 0 .. c1 - 1, free1[i] = free1[j]
                 PROVE  i = j
      OBVIOUS
    <3>1. i + 1 = j + 1
      BY <2>1 DEF PartitionOf
    <3> QED BY <3>1
  <2>f. \A j \in WritersOf(list) : list[j].new # x.new
    BY <2>1 DEF PartitionOf
  <2>4. \A j \in WritersOf(more) : more[j].new \in 1 .. RegisterNumber - 1
    BY <1>1, <2>1 DEF PartitionOf
  <2>5. \A i, j \in WritersOf(more) : more[i].new = more[j].new => i = j
    <3>1. \A i, j \in WritersOf(list) : list[i].new = list[j].new => i = j
      BY DEF PartitionOf
    <3> QED BY <1>1, <2>f, <3>1
  <2>6. \A i \in 0 .. c1 - 1, j \in WritersOf(more) : free1[i] # more[j].new
    <3> SUFFICES ASSUME NEW i \in 0 .. c1 - 1, NEW j \in WritersOf(more)
                 PROVE  free1[i] # more[j].new
      OBVIOUS
    <3>1. i + 1 \in 0 .. c - 1 /\ i + 1 # 0 /\ 0 \in 0 .. c - 1 /\ free1[i] = free[i + 1]
      BY <2>1
    <3>2. /\ \A k, l \in 0 .. c - 1 : free[k] = free[l] => k = l
          /\ \A k \in 0 .. c - 1, l \in WritersOf(list) : free[k] # list[l].new
      BY DEF PartitionOf
    <3>3. free[i + 1] # free[0] /\ x.new = free[0]
      BY <2>1, <3>1, <3>2
    <3> QED BY <1>1, <3>1, <3>2, <3>3
  <2>7. \A i \in 0 .. c1 - 1, l \in Logical : free1[i] # commit[l]
    <3> SUFFICES ASSUME NEW i \in 0 .. c1 - 1, NEW l \in Logical PROVE free1[i] # commit[l]
      OBVIOUS
    <3>1. i + 1 \in 0 .. c - 1 /\ free1[i] = free[i + 1]
      BY <2>1
    <3> QED BY <3>1 DEF PartitionOf
  <2>8. \A j \in WritersOf(more), l \in Logical : more[j].new # commit[l]
    BY <1>1, <2>1 DEF PartitionOf
  <2>9. \A p \in 1 .. RegisterNumber - 1 :
          \/ \E i \in 0 .. c1 - 1 : free1[i] = p
          \/ \E j \in WritersOf(more) : more[j].new = p
          \/ \E l \in Logical : commit[l] = p
    <3> SUFFICES ASSUME NEW p \in 1 .. RegisterNumber - 1
                 PROVE  \/ \E i \in 0 .. c1 - 1 : free1[i] = p
                        \/ \E j \in WritersOf(more) : more[j].new = p
                        \/ \E l \in Logical : commit[l] = p
      OBVIOUS
    <3>1. CASE \E i \in 0 .. c - 1 : free[i] = p
      BY <1>1, <1>3, <2>1, <3>1
    <3>2. CASE \E j \in WritersOf(list) : list[j].new = p
      BY <1>1, <3>2
    <3> QED BY <3>1, <3>2 DEF PartitionOf
  <2>10. PartitionOf(free1, c1, more, commit)
    BY <2>2, <2>3, <2>4, <2>5, <2>6, <2>7, <2>8, <2>9 DEF PartitionOf
  <2> QED BY <2>10 DEF more
<1> QED BY <1>2, <1>3

\* The new entry replaces the youngest mapping and becomes it.
LEMMA DecodeMapping ==
  ASSUME NEW list \in Seq(FixedEntry), NEW x \in FixedEntry, NEW commit,
         NEW spec \in [Logical -> Physical],
         MappingOf(list, commit, spec), x.dest # 0 => x.old = spec[x.dest]
  PROVE  MappingOf(With(list, x), commit, Committed(spec, x))
<1> DEFINE more == With(list, x)
           n == Len(list)
<1>1. /\ \A i \in WritersOf(more) :
           \/ i = n + 1 /\ more[i] = x /\ x.dest # 0
           \/ i \in WritersOf(list) /\ more[i] = list[i]
      /\ \A i \in WritersOf(list) : i \in 1 .. n /\ i \in WritersOf(more) /\ more[i] = list[i]
      /\ x.dest # 0 => n + 1 \in WritersOf(more)
      /\ more[n + 1] = x
      /\ n \in Nat /\ Len(more) = n + 1
  BY ZenonT(30), WithIs
<1>2. x.dest \in Logical
  BY DEF FixedEntry
<1> HIDE DEF more, n
<1>3. ASSUME NEW l, NEW i \in 1 .. n + 1, NEW p, Maps(list, commit, l, i, p)
      PROVE  Maps(more, commit, l, i, p)
  <2>1. \A j \in WritersOf(more) : j < i => j \in WritersOf(list) /\ more[j] = list[j]
    BY <1>1
  <2>2. \A j \in WritersOf(list) : j \in WritersOf(more) /\ more[j] = list[j]
    BY <1>1
  <2>3. CASE /\ \A j \in WritersOf(list) : j < i => list[j].dest # l
             /\ p = commit[l]
    BY <2>1, <2>3 DEF Maps
  <2>4. CASE \E j \in WritersOf(list) :
               /\ j < i /\ list[j].dest = l /\ p = list[j].new
               /\ \A k \in WritersOf(list) : j < k /\ k < i => list[k].dest # l
    BY <2>1, <2>2, <2>4 DEF Maps
  <2> QED BY <1>3, <2>3, <2>4 DEF Maps
<1>4. ASSUME NEW i \in WritersOf(more)
      PROVE  Maps(more, commit, more[i].dest, i, more[i].old)
  <2>1. CASE i \in WritersOf(list)
    <3>1. i \in 1 .. n + 1 /\ more[i] = list[i]
      BY <1>1, <2>1
    <3>2. Maps(list, commit, list[i].dest, i, list[i].old)
      BY <2>1 DEF MappingOf
    <3> QED BY <1>3, <3>1, <3>2
  <2>2. CASE i = n + 1 /\ more[i] = x /\ x.dest # 0
    <3>1. Maps(list, commit, x.dest, n + 1, spec[x.dest])
      BY <1>2 DEF MappingOf, n
    <3>2. n + 1 \in 1 .. n + 1
      BY <1>1
    <3> QED BY <1>3, <2>2, <3>1, <3>2
  <2> QED BY <1>1, <2>1, <2>2
<1>5. ASSUME NEW l \in Logical
      PROVE  Maps(more, commit, l, n + 1 + 1, Committed(spec, x)[l])
  <2>1. CASE x.dest # 0 /\ l = x.dest
    <3>1. Committed(spec, x)[l] = x.new
      BY <2>1 DEF Committed
    <3>2. n + 1 < n + 1 + 1 /\ \A k \in WritersOf(more) : ~(n + 1 < k)
      BY <1>1
    <3> QED BY <1>1, <2>1, <3>1, <3>2 DEF Maps
  <2>2. CASE ~(x.dest # 0 /\ l = x.dest)
    <3>1. Committed(spec, x)[l] = spec[l]
      BY <2>2 DEF Committed
    <3>2. Maps(list, commit, l, n + 1, spec[l])
      BY DEF MappingOf, n
    <3>3. n + 1 \in 1 .. n + 1
      BY <1>1
    <3>4. Maps(more, commit, l, n + 1, spec[l])
      BY <1>3, <3>2, <3>3
    <3>5. \A j \in WritersOf(more) :
            /\ j \in Int /\ (j < n + 1 => j < n + 1 + 1)
            /\ j < n + 1 + 1 => j < n + 1 \/ more[j].dest # l
      BY <1>1, <2>2
    <3>6. CASE /\ \A j \in WritersOf(more) : j < n + 1 => more[j].dest # l
               /\ spec[l] = commit[l]
      BY <3>1, <3>5, <3>6 DEF Maps
    <3>7. CASE \E j \in WritersOf(more) :
                 /\ j < n + 1 /\ more[j].dest = l /\ spec[l] = more[j].new
                 /\ \A k \in WritersOf(more) : j < k /\ k < n + 1 => more[k].dest # l
      BY <3>1, <3>5, <3>7 DEF Maps
    <3> QED BY <3>4, <3>6, <3>7 DEF Maps
  <2> QED BY <2>1, <2>2
<1>6. MappingOf(more, commit, Committed(spec, x))
  BY <1>1, <1>4, <1>5 DEF MappingOf
<1> QED BY <1>6 DEF more

\* A branch is decoded only when there is none.
LEMMA DecodeBranches ==
  ASSUME NEW list \in Seq(FixedEntry), NEW x \in FixedEntry, BranchesOK(list),
         x.op = "branch" => x.dest = 0 /\ BranchesOf(list) = {}
  PROVE  /\ BranchesOK(With(list, x))
         /\ BranchesOf(With(list, x)) = {} <=> BranchesOf(list) = {} /\ x.op # "branch"
<1> DEFINE more == With(list, x)
<1>1. /\ \A i \in BranchesOf(more) :
           \/ i = Len(list) + 1 /\ more[i] = x /\ x.op = "branch"
           \/ i \in BranchesOf(list) /\ more[i] = list[i]
      /\ \A i \in BranchesOf(list) : i \in BranchesOf(more) /\ more[i] = list[i]
      /\ x.op = "branch" => Len(list) + 1 \in BranchesOf(more)
  BY ZenonT(30), WithIs
<1> HIDE DEF more
<1>2. BranchesOf(more) = {} <=> BranchesOf(list) = {} /\ x.op # "branch"
  BY <1>1
<1>3. \A i \in BranchesOf(more) : more[i].dest = 0
  BY <1>1 DEF BranchesOK
<1>4. \A i, j \in BranchesOf(more) : i = j
  BY <1>1 DEF BranchesOK
<1> QED BY <1>2, <1>3, <1>4 DEF BranchesOK, more

\* A register handed out behind a branch is taken since its snapshot.
LEMMA DecodeWrongPath ==
  ASSUME NEW list \in Seq(FixedEntry), NEW x \in FixedEntry, BranchesOK(list),
         NEW taken, NEW d \in Nat, NEW taken1, NEW d1,
         WrongPathOf(taken, d, list),
         x.op = "branch" => x.dest = 0 /\ BranchesOf(list) = {} /\ d1 = 0,
         x.op # "branch" /\ BranchesOf(list) # {} =>
           /\ d1 = IF x.dest # 0 THEN d + 1 ELSE d
           /\ \A k \in 0 .. d - 1 : taken1[k] = taken[k]
           /\ x.dest # 0 => taken1[d] = x.new,
         x.dest # 0 => \A j \in WritersOf(list) : list[j].new # x.new
  PROVE  WrongPathOf(taken1, d1, With(list, x))
<1> DEFINE more == With(list, x)
           n == Len(list)
<1>1. /\ \A i \in WritersOf(more) :
           \/ i = n + 1 /\ more[i] = x /\ x.dest # 0
           \/ i \in WritersOf(list) /\ more[i] = list[i]
      /\ \A i \in WritersOf(list) : i \in 1 .. n /\ i \in WritersOf(more) /\ more[i] = list[i]
      /\ x.dest # 0 => n + 1 \in WritersOf(more)
      /\ more[n + 1] = x
      /\ \A i \in BranchesOf(more) :
           \/ i = n + 1 /\ more[i] = x /\ x.op = "branch"
           \/ i \in BranchesOf(list) /\ more[i] = list[i]
      /\ \A i \in BranchesOf(list) : i \in 1 .. n
      /\ n \in Nat
  BY WithIs
<1> HIDE DEF more, n
<1> SUFFICES ASSUME NEW b \in BranchesOf(more)
             PROVE  /\ \A k \in 0 .. d1 - 1 : \E i \in WritersOf(more) :
                         b < i /\ more[i].new = taken1[k]
                    /\ \A i \in WritersOf(more) : b < i =>
                         \E k \in 0 .. d1 - 1 : taken1[k] = more[i].new
                    /\ \A j, k \in 0 .. d1 - 1 : taken1[j] = taken1[k] => j = k
                    /\ \A i, j \in WritersOf(more), k, m \in 0 .. d1 - 1 :
                         b < i /\ i < j /\ taken1[k] = more[i].new /\ taken1[m] = more[j].new
                         => k < m
  BY DEF WrongPathOf, more
<1>2. CASE x.op = "branch"
  <2>1. b = n + 1 /\ d1 = 0
    BY <1>1, <1>2
  <2>2. \A i \in WritersOf(more) : ~(b < i)
    BY <1>1, <2>1
  <2> QED BY <2>1, <2>2
<1>3. CASE x.op # "branch"
  <2>1. b \in BranchesOf(list) /\ b < n + 1
    BY <1>1, <1>3
  <2>2. /\ \A k \in 0 .. d - 1 : \E i \in WritersOf(list) : b < i /\ list[i].new = taken[k]
        /\ \A i \in WritersOf(list) : b < i => \E k \in 0 .. d - 1 : taken[k] = list[i].new
        /\ \A j, k \in 0 .. d - 1 : taken[j] = taken[k] => j = k
    BY <2>1 DEF WrongPathOf
  <2>3. /\ d1 = IF x.dest # 0 THEN d + 1 ELSE d
        /\ \A k \in 0 .. d - 1 : taken1[k] = taken[k]
        /\ x.dest # 0 => taken1[d] = x.new
    BY <1>3, <2>1
  <2>4. /\ \A k \in 0 .. d1 - 1 : k \in 0 .. d - 1 \/ (x.dest # 0 /\ k = d)
        /\ \A k \in 0 .. d - 1 : k \in 0 .. d1 - 1
        /\ x.dest # 0 => d \in 0 .. d1 - 1
    BY <2>3
  <2>5. \A k \in 0 .. d1 - 1 : \E i \in WritersOf(more) : b < i /\ more[i].new = taken1[k]
    <3> SUFFICES ASSUME NEW k \in 0 .. d1 - 1
                 PROVE  \E i \in WritersOf(more) : b < i /\ more[i].new = taken1[k]
      OBVIOUS
    <3>1. CASE k \in 0 .. d - 1
      <4>1. PICK i \in WritersOf(list) : b < i /\ list[i].new = taken[k]
        BY <2>2, <3>1
      <4> QED BY <1>1, <2>3, <3>1, <4>1
    <3>2. CASE x.dest # 0 /\ k = d
      BY <1>1, <2>1, <2>3, <3>2
    <3> QED BY <2>4, <3>1, <3>2
  <2>6. \A i \in WritersOf(more) : b < i => \E k \in 0 .. d1 - 1 : taken1[k] = more[i].new
    BY <1>1, <2>2, <2>3, <2>4
  <2>7. ASSUME x.dest # 0, NEW k \in 0 .. d - 1 PROVE taken[k] # x.new
    BY <2>2, <2>7
  <2>8. \A j, k \in 0 .. d1 - 1 : taken1[j] = taken1[k] => j = k
    BY <2>2, <2>3, <2>4, <2>7
  <2>9. ASSUME NEW i \in WritersOf(more), NEW j \in WritersOf(more),
               NEW k \in 0 .. d1 - 1, NEW m \in 0 .. d1 - 1, b < i, i < j,
               taken1[k] = more[i].new, taken1[m] = more[j].new
        PROVE  k < m
    <3>1. i \in WritersOf(list) /\ i \in 1 .. n /\ more[i] = list[i]
      <4>1. i # n + 1
        BY <1>1, <2>9
      <4> QED BY <1>1, <4>1
    <3>2. k \in 0 .. d - 1 /\ taken[k] = list[i].new
      <4>1. ~(x.dest # 0 /\ k = d)
        BY <2>3, <2>9, <3>1
      <4> QED BY <2>3, <2>4, <2>9, <3>1, <4>1
    <3>3. CASE j = n + 1 /\ more[j] = x /\ x.dest # 0
      <4>1. m \notin 0 .. d - 1
        BY <2>3, <2>7, <2>9, <3>3
      <4>2. m = d
        BY <2>4, <4>1
      <4> QED BY <3>2, <4>2
    <3>4. CASE j \in WritersOf(list) /\ more[j] = list[j]
      <4>1. m \in 0 .. d - 1 /\ taken[m] = list[j].new
        <5>1. ~(x.dest # 0 /\ m = d)
          BY <2>3, <2>9, <3>4
        <5> QED BY <2>3, <2>4, <2>9, <3>4, <5>1
      <4> QED BY <2>1, <2>9, <3>1, <3>2, <3>4, <4>1 DEF WrongPathOf
    <3> QED BY <1>1, <3>3, <3>4
  <2> QED BY <2>5, <2>6, <2>8, <2>9
<1> QED BY <1>2, <1>3

-----------------------------------------------------------------------------
(* Recovery: the branch is the oldest entry, and all that follows it is dropped. *)

\* The registers handed out behind the branch are free again, before those that were.
GivesBack(taken, d, free, c, after) ==
  /\ \A i \in 0 .. d - 1 : after[i] = taken[i]
  /\ \A i \in 0 .. c - 1 : after[d + i] = free[i]

\* The partition after everything behind the branch has been given back.
LEMMA RecoverPartition ==
  ASSUME NEW free, NEW c \in Nat, NEW list \in Seq(FixedEntry), NEW commit, NEW taken, NEW d \in Nat,
         NEW after, PartitionOf(free, c, list, commit), WrongPathOf(taken, d, list),
         1 \in BranchesOf(list), BranchesOK(list), GivesBack(taken, d, free, c, after)
  PROVE  PartitionOf(after, d + c, <<>>, commit)
<1>1. /\ \A k \in 0 .. d - 1 : \E i \in WritersOf(list) : list[i].new = taken[k]
      /\ \A j, k \in 0 .. d - 1 : taken[j] = taken[k] => j = k
  BY DEF WrongPathOf
<1>2. ASSUME NEW i \in WritersOf(list) PROVE \E k \in 0 .. d - 1 : taken[k] = list[i].new
  <2>1. i \in Nat /\ 1 <= i /\ i # 1
    BY DEF BranchesOK, WritersOf
  <2> QED BY <2>1 DEF WrongPathOf
<1>3. WritersOf(<<>>) = {}
  BY DEF WritersOf
<1>4. ASSUME NEW i \in 0 .. d + c - 1
      PROVE  \/ i \in 0 .. d - 1 /\ after[i] = taken[i]
             \/ i - d \in 0 .. c - 1 /\ ~(i < d) /\ after[i] = free[i - d]
  <2>1. CASE i < d
    <3>1. i \in 0 .. d - 1
      BY <2>1
    <3> QED BY <3>1 DEF GivesBack
  <2>2. CASE ~(i < d)
    <3>1. i - d \in 0 .. c - 1 /\ d + (i - d) = i
      BY <2>2
    <3>2. after[d + (i - d)] = free[i - d]
      BY <3>1 DEF GivesBack
    <3> QED BY <2>2, <3>1, <3>2
  <2> QED BY <2>1, <2>2
<1>5. \A i \in 0 .. d + c - 1 : after[i] \in 1 .. RegisterNumber - 1
  BY <1>1, <1>4 DEF PartitionOf
<1>6. \A i, j \in 0 .. d + c - 1 : after[i] = after[j] => i = j
  <2> SUFFICES ASSUME NEW i \in 0 .. d + c - 1, NEW j \in 0 .. d + c - 1, after[i] = after[j]
               PROVE  i = j
    OBVIOUS
  <2>1. CASE i \in 0 .. d - 1 /\ j \in 0 .. d - 1
    BY <1>1, <1>4, <2>1
  <2>2. CASE i - d \in 0 .. c - 1 /\ j - d \in 0 .. c - 1
    <3>1. i - d = j - d
      BY <1>4, <2>2 DEF PartitionOf
    <3> QED BY <3>1
  <2>3. ASSUME NEW k \in 0 .. d - 1, NEW m \in 0 .. c - 1 PROVE taken[k] # free[m]
    BY <1>1 DEF PartitionOf
  <2> QED BY <1>4, <2>1, <2>2, <2>3
<1>7. \A i \in 0 .. d + c - 1, l \in Logical : after[i] # commit[l]
  <2> SUFFICES ASSUME NEW i \in 0 .. d + c - 1, NEW l \in Logical PROVE after[i] # commit[l]
    OBVIOUS
  <2>1. \A k \in 0 .. d - 1 : taken[k] # commit[l]
    BY <1>1 DEF PartitionOf
  <2>2. \A m \in 0 .. c - 1 : free[m] # commit[l]
    BY DEF PartitionOf
  <2> QED BY <1>4, <2>1, <2>2
<1>8. \A p \in 1 .. RegisterNumber - 1 :
        (\E i \in 0 .. d + c - 1 : after[i] = p) \/ \E l \in Logical : commit[l] = p
  <2> SUFFICES ASSUME NEW p \in 1 .. RegisterNumber - 1
               PROVE  (\E i \in 0 .. d + c - 1 : after[i] = p) \/ \E l \in Logical : commit[l] = p
    OBVIOUS
  <2>1. CASE \E i \in 0 .. c - 1 : free[i] = p
    <3>1. PICK i \in 0 .. c - 1 : free[i] = p
      BY <2>1
    <3>2. d + i \in 0 .. d + c - 1 /\ after[d + i] = p
      BY <3>1 DEF GivesBack
    <3> QED BY <3>2
  <2>2. CASE \E j \in WritersOf(list) : list[j].new = p
    <3>1. PICK k \in 0 .. d - 1 : taken[k] = p
      BY <1>2, <2>2
    <3>2. k \in 0 .. d + c - 1 /\ after[k] = p
      BY <3>1 DEF GivesBack
    <3> QED BY <3>2
  <2> QED BY <2>1, <2>2 DEF PartitionOf
<1>9. /\ \A k, l \in Logical : commit[k] = commit[l] /\ commit[k] # 0 => k = l
      /\ commit[0] = 0
  BY DEF PartitionOf
<1> QED BY <1>3, <1>5, <1>6, <1>7, <1>8, <1>9 DEF PartitionOf

\* In recovery some register is free or taken: the ring is never empty afterwards, so the
\* subtraction that recomputes the count is never the one that cannot tell empty from full.
LEMMA SomeGivenBack ==
  ASSUME NEW free, NEW c \in Nat, NEW list \in Seq(FixedEntry), NEW commit \in [Logical -> Physical],
         NEW taken, NEW d \in Nat, PartitionOf(free, c, list, commit),
         WrongPathOf(taken, d, list), 1 \in BranchesOf(list), BranchesOK(list)
  PROVE  d + c > 0
<1> SUFFICES ASSUME d = 0, c = 0 PROVE FALSE
  OBVIOUS
<1>1. WritersOf(list) = {}
  <2> SUFFICES ASSUME NEW i \in WritersOf(list) PROVE FALSE
    OBVIOUS
  <2>1. i \in Nat /\ 1 <= i /\ i # 1
    BY DEF BranchesOK, WritersOf
  <2> QED BY <2>1 DEF WrongPathOf
<1>2. 0 \in 0 .. Len(list) /\ \A j \in WritersOf(list) : j <= 0
  BY <1>1
<1>3. 0 >= ActiveListDepth
  BY <1>2, NoneFree
<1> QED BY <1>3, Sizes

-----------------------------------------------------------------------------
(* One cycle of the free list's ring. *)

\* The pointers of the ring agree with its count, and it is not about to fill.
RingOK(q) ==
  /\ q \in FreeRing!Queues(Physical)
  /\ q.tail = FreeRing!Advance(q.head, q.count)
  /\ q.count + 1 < FreeListDepth

\* The registers of a ring and their types.
LEMMA RingIs ==
  ASSUME NEW q, RingOK(q)
  PROVE  /\ q = [slots |-> q.slots, head |-> q.head, tail |-> q.tail, count |-> q.count]
         /\ q.slots \in [RingSlots -> Physical] /\ q.head \in RingSlots /\ q.tail \in RingSlots
         /\ q.count \in RingSlots /\ q.count \in Nat
         /\ q.tail = FreeRing!Advance(q.head, q.count)
         /\ q.count + 1 < FreeListDepth
<1>1. q \in [slots : [RingSlots -> Physical], head : RingSlots, tail : RingSlots,
             count : 0 .. FreeListDepth]
  BY DEF RingOK, FreeRing!Queues, FreeRing!Slots, RingSlots
<1>2. q.count \in 0 .. FreeListDepth /\ q.count + 1 < FreeListDepth
  BY <1>1 DEF RingOK
<1>3. q.count \in RingSlots /\ q.count \in Nat
  BY <1>2, Sizes DEF RingSlots
<1> QED BY <1>1, <1>2, <1>3 DEF RingOK

\* Operate without clear: u entries are pushed and o leave, u and o at most 1.
Stepped(q, u, o, data) ==
  [slots |-> IF u = 1 THEN [q.slots EXCEPT ![q.tail] = data] ELSE q.slots,
   head  |-> IF o = 1 THEN FreeRing!Increment(q.head) ELSE q.head,
   tail  |-> IF u = 1 THEN FreeRing!Increment(q.tail) ELSE q.tail,
   count |-> q.count + u - o]

\* A cycle of the ring takes from the front and adds at the back.
LEMMA RingStep ==
  ASSUME NEW q, RingOK(q), NEW u \in {0, 1}, NEW o \in {0, 1}, NEW data \in Physical,
         o <= q.count, NEW q1, q1 = Stepped(q, u, o, data)
  PROVE  /\ q1 \in FreeRing!Queues(Physical)
         /\ q1.tail = FreeRing!Advance(q1.head, q1.count)
         /\ q1.head = FreeRing!Advance(q.head, o)
         /\ q1.count = q.count + u - o
         /\ \A i \in 0 .. q1.count - 1 :
              FreeOf(q1)[i] = IF o + i < q.count THEN FreeOf(q)[o + i] ELSE data
<1>q. /\ q.slots \in [RingSlots -> Physical] /\ q.head \in RingSlots /\ q.tail \in RingSlots
      /\ q.count \in RingSlots /\ q.count \in Nat
      /\ q.tail = FreeRing!Advance(q.head, q.count)
      /\ q.count + 1 < FreeListDepth
  BY RingIs
<1>D. FreeListDepth \in Nat /\ FreeListDepth > 1 /\ RingSlots = 0 .. FreeListDepth - 1
  BY Sizes DEF RingSlots
<1>o. o \in Nat /\ o \in RingSlots /\ u \in Nat
  BY <1>D, <1>q
<1>1. /\ q1.head = FreeRing!Advance(q.head, o) /\ q1.head \in RingSlots
      /\ q1.tail = IF u = 1 THEN FreeRing!Increment(q.tail) ELSE q.tail
      /\ q1.tail \in RingSlots
      /\ q1.slots = IF u = 1 THEN [q.slots EXCEPT ![q.tail] = data] ELSE q.slots
      /\ q1.slots \in [RingSlots -> Physical]
      /\ q1.count = q.count + u - o
      /\ q1 = [slots |-> q1.slots, head |-> q1.head, tail |-> q1.tail, count |-> q1.count]
  <2>2. \A p \in RingSlots : FreeRing!Increment(p) \in RingSlots
                             /\ FreeRing!Increment(p) = FreeRing!Advance(p, 1)
                             /\ FreeRing!Advance(p, 0) = p
    BY <1>D DEF FreeRing!Increment, FreeRing!Advance
  <2> QED BY <1>q, <2>2 DEF Stepped
<1>2. q1.count \in 0 .. FreeListDepth - 1
  BY SMTT(20), <1>1, <1>q, <1>o, <1>D
<1>3. q1 \in FreeRing!Queues(Physical)
  <2>1. q1.count \in 0 .. FreeListDepth
    BY <1>2, <1>D
  <2> QED BY <1>1, <2>1 DEF FreeRing!Queues, FreeRing!Slots, RingSlots
<1>4. q1.tail = FreeRing!Advance(q1.head, q1.count)
  <2>1. FreeRing!Advance(q1.head, q1.count) = FreeRing!Advance(q.head, o + q1.count)
    <3>1. o + q1.count < FreeListDepth
      <4>1. o + q1.count <= q.count + 1
        BY <1>1, <1>q, <1>o
      <4> QED BY <1>q, <1>o, <1>2, <1>D, <4>1
    <3>2. q1.count \in RingSlots
      BY <1>2, <1>D
    <3> QED BY <1>1, <1>q, <1>o, <3>1, <3>2, AdvanceAdds
  <2>2. o + q1.count = IF u = 1 THEN q.count + 1 ELSE q.count
    BY <1>1, <1>q, <1>o
  <2>3. FreeRing!Increment(q.tail) = FreeRing!Advance(q.head, q.count + 1)
    BY <1>q, IncrementAdvances
  <2> QED BY <1>1, <1>q, <2>1, <2>2, <2>3
<1>5. ASSUME NEW i \in 0 .. q1.count - 1
      PROVE  FreeOf(q1)[i] = IF o + i < q.count THEN FreeOf(q)[o + i] ELSE data
  <2>1. i \in RingSlots /\ o + i < FreeListDepth /\ o + i \in RingSlots
    <3>1. o + q1.count <= q.count + 1
      BY <1>1, <1>q, <1>o
    <3>2. i \in Nat /\ o + i < q.count + 1
      BY <1>2, <1>o, <1>q, <3>1
    <3> QED BY SMTT(30), <1>q, <1>o, <1>D, <3>2
  <2>2. FreeOf(q1)[i] = q1.slots[FreeRing!Advance(q.head, o + i)]
    BY <1>1, <1>q, <1>o, <2>1, AdvanceAdds DEF FreeOf
  <2>3. FreeRing!Advance(q.head, o + i) \in RingSlots
    <3>1. o + i \in 0 .. FreeListDepth
      BY <2>1, <1>D
    <3> QED BY <1>q, <3>1, AdvanceInSlots
  <2>4. CASE o + i < q.count
    <3>1. FreeRing!Advance(q.head, o + i) # q.tail
      BY <1>q, <2>1, <2>4, AdvanceInjective
    <3>2. q1.slots[FreeRing!Advance(q.head, o + i)] = q.slots[FreeRing!Advance(q.head, o + i)]
      BY <1>1, <1>q, <2>3, <3>1
    <3>3. o + i \in 0 .. q.count - 1
      BY <1>o, <1>q, <2>4
    <3> QED BY <2>2, <2>4, <3>2, <3>3 DEF FreeOf
  <2>5. CASE ~(o + i < q.count)
    <3>1. u = 1 /\ o + i = q.count
      BY <1>1, <1>q, <1>o, <2>5
    <3>2. q1.slots[q.tail] = data
      BY <1>1, <1>q, <3>1
    <3> QED BY <1>q, <2>2, <2>5, <3>1, <3>2
  <2> QED BY <2>4, <2>5
<1> QED BY <1>1, <1>3, <1>4, <1>5

\* The tail is the slot d + c places behind a snapshot d places before the head.
LEMMA FromSnapshot ==
  ASSUME NEW q, RingOK(q), NEW s \in RingSlots,
         NEW d, d = FreeRing!Distance(s, q.head), d + q.count < FreeListDepth
  PROVE  /\ d \in Nat /\ d \in RingSlots /\ d + q.count \in RingSlots
         /\ q.head = FreeRing!Advance(s, d)
         /\ q.tail = FreeRing!Advance(s, d + q.count)
<1>1. /\ q.head \in RingSlots /\ q.count \in RingSlots /\ q.count \in Nat
      /\ q.tail = FreeRing!Advance(q.head, q.count)
  BY RingIs
<1>2. d \in RingSlots /\ q.head = FreeRing!Advance(s, d)
  BY <1>1, AdvanceByDistance
<1>3. d \in Nat /\ d + q.count \in RingSlots
  BY <1>1, <1>2, Sizes DEF RingSlots
<1>4. q.tail = FreeRing!Advance(s, d + q.count)
  BY <1>1, <1>2, AdvanceAdds
<1> QED BY <1>2, <1>3, <1>4

\* Retirements push at the tail, which stays clear of the slots behind the snapshot.
LEMMA TakenStep ==
  ASSUME NEW q, RingOK(q), NEW s \in RingSlots, NEW u \in {0, 1}, NEW o \in {0, 1},
         NEW data \in Physical, o <= q.count,
         NEW d, d = FreeRing!Distance(s, q.head), d + q.count + 1 < FreeListDepth,
         NEW q1, q1 = Stepped(q, u, o, data)
  PROVE  /\ FreeRing!Distance(s, q1.head) = d + o
         /\ \A k \in 0 .. d - 1 : TakenSince(q1, s)[k] = TakenSince(q, s)[k]
         /\ o = 1 => TakenSince(q1, s)[d] = FreeOf(q)[0]
<1>1. /\ q1.head = FreeRing!Advance(q.head, o)
      /\ q1.slots = IF u = 1 THEN [q.slots EXCEPT ![q.tail] = data] ELSE q.slots
  BY RingStep DEF Stepped
<1>2. /\ q.slots \in [RingSlots -> Physical] /\ q.head \in RingSlots /\ q.tail \in RingSlots
      /\ q.count \in RingSlots /\ q.count \in Nat
  BY RingIs
<1>3. FreeListDepth \in Nat /\ RingSlots = 0 .. FreeListDepth - 1
  BY Sizes DEF RingSlots
<1>4. o \in Nat
  OBVIOUS
<1>5. d \in RingSlots /\ d \in Nat
  BY <1>2, AdvanceByDistance, <1>3
<1>6. d + q.count < FreeListDepth
  BY <1>2, <1>3, <1>5
<1>7. /\ d + q.count \in RingSlots /\ q.head = FreeRing!Advance(s, d)
      /\ q.tail = FreeRing!Advance(s, d + q.count)
  BY <1>6, FromSnapshot
<1>8. o \in RingSlots /\ d + o < FreeListDepth /\ d + o \in RingSlots /\ o <= q.count + 1
  BY SMTT(30), <1>2, <1>3, <1>4, <1>5
<1>9. q1.head = FreeRing!Advance(s, d + o)
  BY <1>1, <1>5, <1>7, <1>8, AdvanceAdds
<1>10. FreeRing!Distance(s, q1.head) = d + o
  BY <1>8, <1>9, DistanceOfAdvance
<1>11. ASSUME NEW k \in 0 .. d, k < d + q.count
       PROVE  q1.slots[FreeRing!Advance(s, k)] = q.slots[FreeRing!Advance(s, k)]
  <2>1. k \in RingSlots /\ k \in 0 .. FreeListDepth
    BY <1>3, <1>5
  <2>2. FreeRing!Advance(s, k) \in RingSlots
    BY <2>1, AdvanceInSlots
  <2>3. FreeRing!Advance(s, k) # q.tail
    <3> SUFFICES ASSUME FreeRing!Advance(s, k) = FreeRing!Advance(s, d + q.count) PROVE FALSE
      BY <1>7
    <3>1. k = d + q.count
      BY <1>7, <2>1, AdvanceInjective
    <3> QED BY <1>11, <3>1
  <2> QED BY <1>1, <1>2, <2>2, <2>3
<1>12. ASSUME NEW k \in 0 .. d - 1 PROVE TakenSince(q1, s)[k] = TakenSince(q, s)[k]
  <2>1. /\ k \in 0 .. d /\ k < d + q.count
        /\ k \in 0 .. FreeRing!Distance(s, q1.head) - 1 /\ k \in 0 .. FreeRing!Distance(s, q.head) - 1
    BY <1>2, <1>4, <1>5, <1>10
  <2> QED BY <1>11, <2>1 DEF TakenSince
<1>13. ASSUME o = 1 PROVE TakenSince(q1, s)[d] = FreeOf(q)[0]
  <2>1. /\ d \in 0 .. d /\ d < d + q.count /\ 0 \in 0 .. q.count - 1
        /\ d \in 0 .. FreeRing!Distance(s, q1.head) - 1
    BY <1>2, <1>4, <1>5, <1>10, <1>13
  <2>2. TakenSince(q1, s)[d] = q.slots[q.head]
    BY <1>7, <1>11, <2>1 DEF TakenSince
  <2>3. FreeRing!Advance(q.head, 0) = q.head
    BY <1>2, <1>3 DEF FreeRing!Advance
  <2> QED BY <2>1, <2>2, <2>3 DEF FreeOf
<1> QED BY <1>4, <1>10, <1>12, <1>13

\* Recovery puts the slots behind the snapshot in front of the free ones.
LEMMA RecoveredIs ==
  ASSUME NEW q, RingOK(q), NEW s \in RingSlots,
         NEW d, d = FreeRing!Distance(s, q.head), d + q.count < FreeListDepth, d + q.count > 0
  PROVE  /\ Recovered(q, s) \in FreeRing!Queues(Physical)
         /\ Recovered(q, s).count = d + q.count
         /\ Recovered(q, s).tail = FreeRing!Advance(Recovered(q, s).head, d + q.count)
         /\ GivesBack(TakenSince(q, s), d, FreeOf(q), q.count, FreeOf(Recovered(q, s)))
<1> DEFINE q1 == Recovered(q, s)
<1>1. /\ q = [slots |-> q.slots, head |-> q.head, tail |-> q.tail, count |-> q.count]
      /\ q.slots \in [RingSlots -> Physical] /\ q.head \in RingSlots /\ q.tail \in RingSlots
      /\ q.count \in Nat
  BY RingIs
<1>2. FreeListDepth \in Nat /\ RingSlots = 0 .. FreeListDepth - 1
  BY Sizes DEF RingSlots
<1>3. /\ d \in Nat /\ d \in RingSlots /\ d + q.count \in RingSlots
      /\ q.head = FreeRing!Advance(s, d)
      /\ q.tail = FreeRing!Advance(s, d + q.count)
  BY FromSnapshot
<1>4. (IF q.tail > q.head THEN FreeRing!Distance(s, q.tail)
       ELSE FreeListDepth - FreeRing!Distance(q.tail, s)) = d + q.count
  <2>1. CASE q.tail > q.head
    BY <1>3, <2>1, DistanceOfAdvance
  <2>2. CASE ~(q.tail > q.head)
    <3>1. ASSUME NEW n \in RingSlots, n > 0
          PROVE  FreeRing!Distance(FreeRing!Advance(s, n), s) = FreeListDepth - n
      BY <1>2, <3>1 DEF FreeRing!Advance, FreeRing!Distance
    <3>2. FreeRing!Distance(q.tail, s) = FreeListDepth - (d + q.count)
      BY <1>3, <3>1
    <3> QED BY <1>2, <1>3, <2>2, <3>2
  <2> QED BY <2>1, <2>2
<1>5. q1 = [slots |-> q.slots, head |-> s, tail |-> q.tail, count |-> d + q.count]
  <2>1. q \in [slots : [RingSlots -> Physical], head : RingSlots, tail : RingSlots,
               count : 0 .. FreeListDepth]
    BY DEF RingOK, FreeRing!Queues, FreeRing!Slots, RingSlots
  <2>2. q1 = [q EXCEPT !.head = s, !.count = d + q.count]
    BY <1>4 DEF Recovered
  <2> HIDE DEF q1
  <2> QED BY <2>1, <2>2
<1> HIDE DEF q1
<1>r. q1.head = s /\ q1.slots = q.slots /\ q1.tail = q.tail /\ q1.count = d + q.count
  BY <1>5
<1>6. q1 \in FreeRing!Queues(Physical)
  <2>1. d + q.count \in 0 .. FreeListDepth
    BY <1>2, <1>3
  <2> QED BY <1>1, <1>5, <2>1 DEF FreeRing!Queues, FreeRing!Slots, RingSlots
<1>7. ASSUME NEW i \in 0 .. d - 1 PROVE FreeOf(q1)[i] = TakenSince(q, s)[i]
  <2>1. i \in 0 .. d + q.count - 1
    BY <1>1, <1>3
  <2>2. i \in 0 .. q1.count - 1 /\ q1.head = s /\ q1.slots = q.slots
    BY <1>1, <1>3, <1>r, <2>1
  <2> QED BY <2>2 DEF FreeOf, TakenSince
<1>8. ASSUME NEW i \in 0 .. q.count - 1 PROVE FreeOf(q1)[d + i] = FreeOf(q)[i]
  <2>1. d + i \in 0 .. d + q.count - 1 /\ i \in RingSlots /\ d + i < FreeListDepth
    BY <1>1, <1>2, <1>3
  <2>2. FreeRing!Advance(q.head, i) = FreeRing!Advance(s, d + i)
    BY <1>3, <2>1, AdvanceAdds
  <2>3. d + i \in 0 .. q1.count - 1 /\ q1.head = s /\ q1.slots = q.slots
    BY <1>1, <1>3, <1>r, <2>1
  <2> QED BY <2>2, <2>3 DEF FreeOf
<1>9. GivesBack(TakenSince(q, s), d, FreeOf(q), q.count, FreeOf(q1))
  BY <1>7, <1>8 DEF GivesBack
<1>10. q1.count = d + q.count /\ q1.tail = FreeRing!Advance(q1.head, d + q.count)
  BY <1>3, <1>5
<1> QED BY <1>6, <1>9, <1>10 DEF q1

-----------------------------------------------------------------------------
(* The invariant, over the data: q is the free list and s its snapshot,    *)
(* `list' the active list.                                                 *)

DataOK(q, s, list, commit, spec) ==
  /\ q \in FreeRing!Queues(Physical)
  /\ q.tail = FreeRing!Advance(q.head, q.count)
  /\ s \in RingSlots
  /\ list \in Seq(FixedEntry)
  /\ commit \in [Logical -> Physical]
  /\ spec \in [Logical -> Physical]
  /\ BranchesOK(list)
  /\ PartitionOf(FreeOf(q), q.count, list, commit)
  /\ MappingOf(list, commit, spec)
  /\ WrongPathOf(TakenSince(q, s), FreeRing!Distance(s, q.head), list)

\* The ring has room for the free and the taken registers and more.
LEMMA DataRing ==
  ASSUME NEW q, NEW s, NEW list, NEW commit, NEW spec, DataOK(q, s, list, commit, spec)
  PROVE  /\ RingOK(q)
         /\ FreeRing!Distance(s, q.head) \in Nat
         /\ BranchesOf(list) # {} => FreeRing!Distance(s, q.head) + q.count + 1 < FreeListDepth
<1> DEFINE d == FreeRing!Distance(s, q.head)
<1>1. q \in FreeRing!Queues(Physical) /\ q.tail = FreeRing!Advance(q.head, q.count) /\ s \in RingSlots
  BY DEF DataOK
<1>2. q.count \in Nat /\ q.head \in RingSlots
  BY <1>1 DEF FreeRing!Queues, FreeRing!Slots, RingSlots
<1>3. d \in Nat
  <2>1. d \in RingSlots
    BY <1>1, <1>2, AdvanceByDistance
  <2> HIDE DEF d
  <2> QED BY <2>1, Sizes DEF RingSlots
<1>4. PartitionOf(FreeOf(q), q.count, list, commit) /\ WrongPathOf(TakenSince(q, s), d, list)
  BY DEF DataOK
<1> HIDE DEF d
<1>5. q.count + 1 < FreeListDepth
  <2>1. CASE BranchesOf(list) = {}
    <3>1. WrongPathOf(TakenSince(q, s), 0, list)
      BY <2>1 DEF WrongPathOf
    <3>2. q.count + 0 <= RegisterNumber - 1
      BY <1>2, <1>4, <3>1, FreeBound
    <3> QED BY <1>2, <3>2, Sizes
  <2>2. CASE BranchesOf(list) # {}
    <3>1. q.count + d <= RegisterNumber - 1
      BY <1>2, <1>3, <1>4, <2>2, FreeBound
    <3> QED BY <1>2, <1>3, <3>1, Sizes
  <2> QED BY <2>1, <2>2
<1>6. ASSUME BranchesOf(list) # {} PROVE d + q.count + 1 < FreeListDepth
  <2>1. q.count + d <= RegisterNumber - 1
    BY <1>2, <1>3, <1>4, <1>6, FreeBound
  <2> QED BY <1>2, <1>3, <2>1, Sizes
<1> QED BY <1>1, <1>3, <1>5, <1>6 DEF RingOK, d

\* The partition depends on the free registers only.
LEMMA PartitionSame ==
  ASSUME NEW free, NEW c, NEW list, NEW commit, NEW after,
         PartitionOf(free, c, list, commit), \A i \in 0 .. c - 1 : after[i] = free[i]
  PROVE  PartitionOf(after, c, list, commit)
<1>1. /\ \A i \in 0 .. c - 1 : after[i] \in 1 .. RegisterNumber - 1
      /\ \A i, j \in 0 .. c - 1 : after[i] = after[j] => i = j
      /\ \A i \in 0 .. c - 1, l \in Logical : after[i] # commit[l]
  BY DEF PartitionOf
<1>2. \A i \in 0 .. c - 1, j \in WritersOf(list) : after[i] # list[j].new
  BY DEF PartitionOf
<1>3. \A p \in 1 .. RegisterNumber - 1 :
        \/ \E i \in 0 .. c - 1 : after[i] = p
        \/ \E j \in WritersOf(list) : list[j].new = p
        \/ \E l \in Logical : commit[l] = p
  BY DEF PartitionOf
<1> QED BY <1>1, <1>2, <1>3 DEF PartitionOf

\* A cycle without recovery: r = 1 when the oldest entry retires, k = 1 when x is decoded.
LEMMA CycleData ==
  ASSUME NEW q, NEW s, NEW list, NEW commit, NEW spec, DataOK(q, s, list, commit, spec),
         NEW r \in {0, 1}, r = 1 => list # <<>>,
         NEW k \in {0, 1}, NEW x \in FixedEntry,
         k = 1 => /\ Len(list) < ActiveListDepth
                  /\ x.dest # 0 => x.new = q.slots[q.head] /\ x.old = spec[x.dest]
                  /\ x.op = "branch" => x.dest = 0 /\ BranchesOf(list) = {},
         NEW u \in {0, 1}, u = IF r = 1 /\ list[1].dest # 0 /\ list[1].old # 0 THEN 1 ELSE 0,
         NEW o \in {0, 1}, o = IF k = 1 /\ x.dest # 0 THEN 1 ELSE 0,
         NEW data \in Physical, u = 1 => data = list[1].old,
         NEW q1, q1 = Stepped(q, u, o, data),
         NEW s1, s1 = IF k = 1 /\ x.op = "branch" THEN q.head ELSE s,
         NEW commit1, commit1 = IF r = 1 THEN Committed(commit, list[1]) ELSE commit,
         NEW spec1, spec1 = IF k = 1 THEN Committed(spec, x) ELSE spec,
         NEW kept, kept = IF r = 1 THEN Rest(list) ELSE list,
         NEW list1, list1 = IF k = 1 THEN With(kept, x) ELSE kept
  PROVE  /\ DataOK(q1, s1, list1, commit1, spec1)
         /\ BranchesOf(list1) = {} <=>
              /\ BranchesOf(list) = {} \/ (r = 1 /\ list[1].op = "branch")
              /\ ~(k = 1 /\ x.op = "branch")
<1> DEFINE c == q.count
           d == FreeRing!Distance(s, q.head)
           free == FreeOf(q)
           taken == TakenSince(q, s)
           c1 == c + u
           free1 == [i \in 0 .. c |-> IF i < c THEN free[i] ELSE data]
<1>d. /\ s \in RingSlots /\ list \in Seq(FixedEntry)
      /\ commit \in [Logical -> Physical] /\ spec \in [Logical -> Physical]
      /\ BranchesOK(list) /\ PartitionOf(free, c, list, commit) /\ MappingOf(list, commit, spec)
      /\ WrongPathOf(taken, d, list)
  BY DEF DataOK
<1>r. /\ RingOK(q) /\ d \in Nat
      /\ BranchesOf(list) # {} => d + c + 1 < FreeListDepth
  BY DataRing
<1>q. /\ q.slots \in [RingSlots -> Physical] /\ q.head \in RingSlots
      /\ c \in Nat /\ c + 1 < FreeListDepth
  BY <1>r, RingIs
<1>u. u \in {0, 1} /\ o \in {0, 1} /\ c1 \in Nat
  BY <1>q
<1>n. Len(list) \in Nat /\ \A j \in WritersOf(list) : j <= Len(list)
  BY <1>d DEF WritersOf
<1>c. k = 1 => c > 0
  <2>1. Len(list) \in 0 .. Len(list)
    BY <1>n
  <2> QED BY <1>d, <1>n, <1>q, <2>1, SomeFree
<1>f. /\ \A i \in 0 .. c - 1 : free1[i] = free[i]
      /\ u = 1 => free1[c] = list[1].old
  BY <1>q
<1> HIDE DEF free1
<1>1. /\ kept \in Seq(FixedEntry) /\ commit1 \in [Logical -> Physical]
      /\ BranchesOK(kept) /\ PartitionOf(free1, c1, kept, commit1)
      /\ MappingOf(kept, commit1, spec) /\ WrongPathOf(taken, d, kept)
      /\ BranchesOf(kept) = {} <=> BranchesOf(list) = {} \/ (r = 1 /\ list[1].op = "branch")
  <2>1. CASE r = 0
    <3>1. kept = list /\ commit1 = commit /\ u = 0 /\ c1 = c
      BY <1>q, <2>1
    <3>2. PartitionOf(free1, c, list, commit)
      BY <1>d, <1>f, PartitionSame
    <3> QED BY <1>d, <2>1, <3>1, <3>2
  <2>2. CASE r = 1
    <3>1. list # <<>> /\ kept = Rest(list) /\ commit1 = Committed(commit, list[1])
      BY <2>2
    <3>2. list[1] \in FixedEntry /\ kept \in Seq(FixedEntry)
      BY <1>d, <3>1, RestIs
    <3>3. list[1].new \in Physical /\ list[1].dest \in Logical
      BY <3>2 DEF FixedEntry
    <3>4. commit1 \in [Logical -> Physical]
      BY <1>d, <3>1, <3>3 DEF Committed
    <3>5. FreesOf(free, c, free1, c1, list[1])
      BY <1>f, <1>q, <2>2 DEF FreesOf
    <3>6. PartitionOf(free1, c1, kept, commit1)
      BY <1>d, <1>q, <3>1, <3>5, RetirePartition
    <3>7. MappingOf(kept, commit1, spec)
      BY <1>d, <3>1, RetireMapping
    <3>8. WrongPathOf(taken, d, kept)
      BY <1>d, <1>r, <3>1, RetireWrongPath
    <3>9. /\ BranchesOK(kept)
          /\ BranchesOf(kept) = {} <=> BranchesOf(list) = {} \/ list[1].op = "branch"
      BY <1>d, <3>1, RetireBranches
    <3> QED BY <2>2, <3>2, <3>4, <3>6, <3>7, <3>8, <3>9
  <2> QED BY <2>1, <2>2
<1>o. o <= q.count
  BY <1>c, <1>q
<1>2. /\ q1 \in FreeRing!Queues(Physical)
      /\ q1.tail = FreeRing!Advance(q1.head, q1.count)
      /\ q1.head = FreeRing!Advance(q.head, o)
      /\ q1.count = c1 - o
      /\ \A i \in 0 .. q1.count - 1 : FreeOf(q1)[i] = IF o + i < c THEN free[o + i] ELSE data
  <2>1. /\ q1 \in FreeRing!Queues(Physical)
        /\ q1.tail = FreeRing!Advance(q1.head, q1.count)
        /\ q1.head = FreeRing!Advance(q.head, o)
        /\ q1.count = q.count + u - o
        /\ \A i \in 0 .. q1.count - 1 :
             FreeOf(q1)[i] = IF o + i < q.count THEN FreeOf(q)[o + i] ELSE data
    <3> HIDE DEF c, d, free, taken, c1
    <3> QED BY <1>r, <1>o, RingStep
  <2>2. q1.count = c1 - o
    BY <2>1, <1>q, <1>u
  <2> QED BY <2>1, <2>2
<1>3. \A i \in 0 .. q1.count - 1 : FreeOf(q1)[i] = free1[o + i]
  BY SMTT(20), <1>2, <1>q, <1>u DEF free1
<1>4. s1 \in RingSlots /\ spec1 \in [Logical -> Physical]
  <2>1. x.dest \in Logical /\ x.new \in Physical
    BY DEF FixedEntry
  <2>2. Committed(spec, x) \in [Logical -> Physical]
    BY <1>d, <2>1 DEF Committed
  <2> QED BY <1>d, <1>q, <2>2
<1>5. ASSUME BranchesOf(list) # {}
      PROVE  /\ FreeRing!Distance(s, q1.head) = d + o
             /\ \A i \in 0 .. d - 1 : TakenSince(q1, s)[i] = taken[i]
             /\ o = 1 => TakenSince(q1, s)[d] = free[0]
  BY <1>5, <1>d, <1>r, <1>u, <1>o, TakenStep
<1> HIDE DEF c, d, free, taken, c1
<1>6. CASE k = 0
  <2>1. list1 = kept /\ o = 0 /\ s1 = s /\ spec1 = spec
    BY <1>6
  <2>2. q1.count = c1 /\ \A i \in 0 .. c1 - 1 : FreeOf(q1)[i] = free1[i]
    BY SMTT(30), <1>2, <1>3, <1>u, <2>1
  <2>3. PartitionOf(FreeOf(q1), c1, kept, commit1)
    BY <1>1, <2>2, PartitionSame
  <2>4. WrongPathOf(TakenSince(q1, s), FreeRing!Distance(s, q1.head), kept)
    <3>1. CASE BranchesOf(kept) = {}
      BY <3>1 DEF WrongPathOf
    <3>2. CASE BranchesOf(kept) # {}
      <4>1. /\ FreeRing!Distance(s, q1.head) = d
            /\ \A i \in 0 .. d - 1 : TakenSince(q1, s)[i] = taken[i]
        BY <1>1, <1>5, <1>r, <2>1, <3>2
      <4>2. WrongPathOf(TakenSince(q1, s), d, kept)
        BY <1>1, <4>1 DEF WrongPathOf
      <4> QED BY <4>1, <4>2
    <3> QED BY <3>1, <3>2
  <2>5. DataOK(q1, s1, list1, commit1, spec1)
    BY <1>1, <1>2, <1>4, <2>1, <2>2, <2>3, <2>4 DEF DataOK
  <2> QED BY <1>1, <1>6, <2>1, <2>5
<1>7. CASE k = 1
  <2>1. list1 = With(kept, x) /\ spec1 = Committed(spec, x) /\ c > 0
    BY <1>7, <1>c DEF c
  <2>2. x.dest # 0 => x.new = free[0] /\ x.new = free1[0] /\ x.old = spec[x.dest]
    <3>1. FreeRing!Advance(q.head, 0) = q.head
      BY <1>q, Sizes DEF FreeRing!Advance, RingSlots
    <3>2. 0 \in 0 .. q.count - 1
      BY <1>q, <2>1 DEF c
    <3>3. free[0] = q.slots[q.head]
      BY <3>1, <3>2 DEF free, FreeOf
    <3>4. free1[0] = free[0]
      BY <1>f, <3>2 DEF c
    <3> QED BY <1>7, <3>3, <3>4
  <2>3. TakesFirst(free1, c1, FreeOf(q1), q1.count, x)
    <3>1. c1 > 0 /\ c1 \in Nat
      BY <1>q, <1>u, <2>1 DEF c1, c
    <3>2. CASE x.dest = 0
      BY SMTT(20), <1>2, <1>3, <1>7, <3>1, <3>2 DEF TakesFirst
    <3>3. CASE x.dest # 0
      BY SMTT(20), <1>2, <1>3, <1>7, <2>2, <3>1, <3>3 DEF TakesFirst
    <3> QED BY <3>2, <3>3
  <2>4. PartitionOf(FreeOf(q1), q1.count, list1, commit1)
    BY <1>1, <1>u, <2>1, <2>3, DecodePartition
  <2>5. MappingOf(list1, commit1, spec1)
    BY <1>1, <1>d, <2>1, <2>2, DecodeMapping
  <2>6. x.op = "branch" => x.dest = 0 /\ BranchesOf(list) = {} /\ BranchesOf(kept) = {}
    BY <1>1, <1>7
  <2>7. /\ BranchesOK(list1)
        /\ BranchesOf(list1) = {} <=> BranchesOf(kept) = {} /\ x.op # "branch"
    BY <1>1, <2>1, <2>6, DecodeBranches
  <2>8. WrongPathOf(TakenSince(q1, s1), FreeRing!Distance(s1, q1.head), list1)
    <3>1. ASSUME x.op = "branch" PROVE FreeRing!Distance(s1, q1.head) = 0
      <4>1. s1 = q.head /\ o = 0
        BY <1>7, <2>6, <3>1
      <4>2. 0 \in RingSlots
        BY Sizes DEF RingSlots
      <4> QED BY <1>2, <1>q, <4>1, <4>2, DistanceOfAdvance
    <3>2. ASSUME x.op # "branch", BranchesOf(kept) # {}
          PROVE  /\ FreeRing!Distance(s1, q1.head) = IF x.dest # 0 THEN d + 1 ELSE d
                 /\ \A i \in 0 .. d - 1 : TakenSince(q1, s1)[i] = taken[i]
                 /\ x.dest # 0 => TakenSince(q1, s1)[d] = x.new
      <4>1. s1 = s /\ BranchesOf(list) # {}
        BY <1>1, <3>2
      <4>2. o = IF x.dest # 0 THEN 1 ELSE 0
        BY <1>7
      <4> QED BY <1>5, <1>r, <2>2, <4>1, <4>2
    <3>3. x.dest # 0 => \A j \in WritersOf(kept) : kept[j].new # x.new
      <4>1. 0 \in 0 .. c1 - 1
        BY <1>q, <1>u, <2>1 DEF c1, c
      <4>2. \A j \in WritersOf(kept) : kept[j].new # free1[0]
        BY <1>1, <4>1 DEF PartitionOf
      <4> QED BY <2>2, <4>2
    <3> QED BY <1>1, <1>r, <2>1, <2>6, <3>1, <3>2, <3>3, DecodeWrongPath
  <2>9. list1 \in Seq(FixedEntry)
    BY <1>1, <2>1, WithIs
  <2>10. DataOK(q1, s1, list1, commit1, spec1)
    BY <1>1, <1>2, <1>4, <2>4, <2>5, <2>7, <2>8, <2>9 DEF DataOK
  <2> QED BY <1>1, <1>7, <2>7, <2>10
<1> QED BY <1>6, <1>7

\* The cycle in which a mispredicted branch retires.
LEMMA RecoverData ==
  ASSUME NEW q, NEW s, NEW list, NEW commit, NEW spec, DataOK(q, s, list, commit, spec),
         1 \in BranchesOf(list), NEW s1 \in RingSlots
  PROVE  DataOK(Recovered(q, s), s1, <<>>, commit, commit)
<1> DEFINE d == FreeRing!Distance(s, q.head)
           q1 == Recovered(q, s)
<1>1. /\ s \in RingSlots /\ list \in Seq(FixedEntry) /\ commit \in [Logical -> Physical]
      /\ BranchesOK(list) /\ PartitionOf(FreeOf(q), q.count, list, commit)
      /\ WrongPathOf(TakenSince(q, s), d, list)
  BY DEF DataOK
<1>2. RingOK(q) /\ d \in Nat /\ d + q.count + 1 < FreeListDepth
  BY DataRing
<1>3. q.count \in Nat
  BY <1>2, RingIs
<1>4. d + q.count > 0
  BY <1>1, <1>2, <1>3, SomeGivenBack
<1>5. d + q.count < FreeListDepth
  BY <1>2, <1>3, Sizes
<1>6. /\ q1 \in FreeRing!Queues(Physical)
      /\ q1.count = d + q.count
      /\ q1.tail = FreeRing!Advance(q1.head, d + q.count)
      /\ GivesBack(TakenSince(q, s), d, FreeOf(q), q.count, FreeOf(q1))
  BY <1>1, <1>2, <1>4, <1>5, RecoveredIs
<1> HIDE DEF q1, d
<1>7. PartitionOf(FreeOf(q1), d + q.count, <<>>, commit)
  BY <1>1, <1>2, <1>3, <1>6, RecoverPartition
<1>8. WritersOf(<<>>) = {} /\ BranchesOf(<<>>) = {} /\ <<>> \in Seq(FixedEntry)
  BY DEF WritersOf, BranchesOf
<1>9. MappingOf(<<>>, commit, commit)
  BY <1>8 DEF MappingOf, Maps
<1>10. BranchesOK(<<>>) /\ WrongPathOf(TakenSince(q1, s1), FreeRing!Distance(s1, q1.head), <<>>)
  BY <1>8 DEF BranchesOK, WrongPathOf
<1>11. DataOK(q1, s1, <<>>, commit, commit)
  BY <1>1, <1>6, <1>7, <1>8, <1>9, <1>10 DEF DataOK
<1> QED BY <1>11 DEF q1

-----------------------------------------------------------------------------
(* The system's inductive invariant. *)

\* The bookkeeping of renaming, and speculating set exactly while a branch is in flight.
IInv ==
  /\ TypeOK
  /\ DataOK(freeList, snapshotHead, FixedOf(activeList), commitTable, specTable)
  /\ speculating <=> BranchesOf(FixedOf(activeList)) # {}

\* A function on 1 .. n is a sequence of length n.
LEMMA SequenceOf ==
  ASSUME NEW S, NEW n \in Nat, NEW f \in [1 .. n -> S]
  PROVE  f \in Seq(S) /\ Len(f) = n
<1>1. f \in Seq(S)
  BY SeqDef
<1>2. DOMAIN f = 1 .. n /\ DOMAIN f = 1 .. Len(f) /\ Len(f) \in Nat
  BY <1>1, LenProperties
<1> QED BY <1>1, <1>2

\* FixedOf keeps length and fields.
LEMMA FixedIs ==
  ASSUME NEW list \in Seq(Entry)
  PROVE  /\ FixedOf(list) \in Seq(FixedEntry)
         /\ Len(FixedOf(list)) = Len(list) /\ Len(list) \in Nat
         /\ \A i \in 1 .. Len(list) :
              /\ list[i] \in Entry /\ FixedOf(list)[i].op = list[i].op
              /\ FixedOf(list)[i].dest = list[i].dest
              /\ FixedOf(list)[i].new = list[i].new /\ FixedOf(list)[i].old = list[i].old
<1>1. Len(list) \in Nat /\ \A i \in 1 .. Len(list) : list[i] \in Entry
  OBVIOUS
<1>2. FixedOf(list) \in [1 .. Len(list) -> FixedEntry]
  BY <1>1 DEF FixedOf, Entry, FixedEntry
<1>3. FixedOf(list) \in Seq(FixedEntry) /\ Len(FixedOf(list)) = Len(list)
  BY <1>1, <1>2, SequenceOf
<1>4. \A i \in 1 .. Len(list) :
         /\ FixedOf(list)[i].op = list[i].op
         /\ FixedOf(list)[i].dest = list[i].dest
         /\ FixedOf(list)[i].new = list[i].new /\ FixedOf(list)[i].old = list[i].old
  BY DEF FixedOf
<1> QED BY <1>1, <1>3, <1>4

\* At reset every register but 0 is free and nothing is in flight.
LEMMA InitHolds == Init => IInv
<1> SUFFICES ASSUME Init PROVE IInv
  OBVIOUS
<1> DEFINE R == RegisterNumber - 1
<1>1. R \in Nat /\ R < FreeListDepth /\ FreeListDepth \in Nat /\ R \in RingSlots /\ 0 \in RingSlots
  BY Sizes DEF RingSlots
<1>2. /\ freeList.slots = [i \in 0 .. FreeListDepth - 1 |-> IF i < R THEN i + 1 ELSE 0]
      /\ freeList.head = 0 /\ freeList.tail = R /\ freeList.count = R
      /\ freeList = [slots |-> freeList.slots, head |-> 0, tail |-> R, count |-> R]
  BY DEF Init
<1>3. freeList.slots \in [0 .. FreeListDepth - 1 -> Physical]
  <2>1. 0 \in Physical /\ \A i \in 0 .. FreeListDepth - 1 : i < R => i + 1 \in Physical
    BY <1>1 DEF Physical
  <2> HIDE DEF R
  <2> QED BY <1>2, <2>1
<1>4. freeList \in FreeRing!Queues(Physical)
  <2>1. R \in 0 .. FreeListDepth /\ R \in 0 .. FreeListDepth - 1 /\ 0 \in 0 .. FreeListDepth - 1
    BY <1>1
  <2> HIDE DEF R
  <2> QED BY <1>2, <1>3, <2>1 DEF FreeRing!Queues, FreeRing!Slots
<1>5. \A i \in 0 .. FreeListDepth - 1 : FreeRing!Advance(0, i) = i
  BY <1>1 DEF FreeRing!Advance
<1>6. ASSUME NEW i \in 0 .. R - 1 PROVE FreeOf(freeList)[i] = i + 1
  <2>1. i \in 0 .. FreeListDepth - 1 /\ i < R
    BY <1>1
  <2> HIDE DEF R
  <2> QED BY <1>2, <1>5, <2>1 DEF FreeOf
<1>7. FixedOf(activeList) = <<>> /\ WritersOf(<<>>) = {} /\ BranchesOf(<<>>) = {}
  <2>1. Len(activeList) = 0 /\ activeList \in Seq(Entry)
    BY DEF Init
  <2>2. FixedOf(activeList) \in Seq(FixedEntry) /\ Len(FixedOf(activeList)) = 0
    BY <2>1, FixedIs
  <2> QED BY <2>2, EmptySeq DEF WritersOf, BranchesOf
<1>8. PartitionOf(FreeOf(freeList), R, <<>>, commitTable)
  <2>1. \A l \in Logical : commitTable[l] = 0
    BY DEF Init
  <2>2. \A i \in 0 .. R - 1 : i + 1 \in 1 .. R /\ i + 1 # 0
    BY <1>1
  <2>3. \A p \in 1 .. R : p - 1 \in 0 .. R - 1 /\ p - 1 + 1 = p
    BY <1>1
  <2>4. \A i, j \in 0 .. R - 1 : i + 1 = j + 1 => i = j
    OBVIOUS
  <2>5. \A p \in 1 .. R : \E i \in 0 .. R - 1 : FreeOf(freeList)[i] = p
    BY <1>6, <2>3
  <2>6. R = RegisterNumber - 1
    OBVIOUS
  <2> HIDE DEF R
  <2>7. /\ \A i \in 0 .. R - 1 : FreeOf(freeList)[i] \in 1 .. R /\ FreeOf(freeList)[i] # 0
        /\ \A i, j \in 0 .. R - 1 : FreeOf(freeList)[i] = FreeOf(freeList)[j] => i = j
    BY <1>6, <2>2, <2>4
  <2>8. /\ \A i \in 0 .. R - 1, l \in Logical : FreeOf(freeList)[i] # commitTable[l]
        /\ \A k, l \in Logical : commitTable[k] = commitTable[l] /\ commitTable[k] # 0 => k = l
        /\ commitTable[0] = 0
    BY <2>1, <2>7, Sizes
  <2> QED BY <1>7, <2>5, <2>6, <2>7, <2>8 DEF PartitionOf
<1>9. DataOK(freeList, snapshotHead, FixedOf(activeList), commitTable, specTable)
  <2>1. commitTable = specTable /\ commitTable \in [Logical -> Physical] /\ snapshotHead = 0
    BY Sizes DEF Init
  <2>2. MappingOf(<<>>, commitTable, specTable)
    BY <1>7, <2>1 DEF MappingOf, Maps
  <2>3. /\ BranchesOK(<<>>)
        /\ WrongPathOf(TakenSince(freeList, snapshotHead),
                       FreeRing!Distance(snapshotHead, freeList.head), <<>>)
    BY <1>7 DEF BranchesOK, WrongPathOf
  <2>4. freeList.tail = FreeRing!Advance(freeList.head, freeList.count)
    BY <1>1, <1>2, <1>5
  <2>5. <<>> \in Seq(FixedEntry)
    OBVIOUS
  <2> HIDE DEF R
  <2> QED BY <1>1, <1>2, <1>4, <1>7, <1>8, <2>1, <2>2, <2>3, <2>4, <2>5 DEF DataOK
<1>10. TypeOK
  <2>1. /\ activeList \in Seq(Entry) /\ Len(activeList) <= ActiveListDepth
        /\ activeHead \in 0 .. ActiveListDepth - 1
    BY Sizes DEF Init
  <2>2. /\ snapshotHead \in 0 .. FreeListDepth - 1
        /\ specTable \in [Logical -> Physical] /\ commitTable \in [Logical -> Physical]
        /\ registerReady \in [Physical -> BOOLEAN] /\ speculating \in BOOLEAN
        /\ lateLoad \subseteq [slot : 0 .. ActiveListDepth - 1, entry : Entry]
    <3>1. snapshotHead = 0 /\ 0 \in 0 .. FreeListDepth - 1
      BY <1>1 DEF Init, RingSlots
    <3>2. specTable \in [Logical -> Physical] /\ commitTable \in [Logical -> Physical]
      BY Sizes DEF Init
    <3> QED BY <3>1, <3>2 DEF Init
  <2> QED BY <1>4, <2>1, <2>2 DEF TypeOK
<1>11. speculating <=> BranchesOf(FixedOf(activeList)) # {}
  BY <1>7 DEF Init
<1> QED BY <1>9, <1>10, <1>11 DEF IInv

-----------------------------------------------------------------------------
(* What the active list does in one cycle. *)

\* What the decoder fixes of the entry it pushes.
FixedNew(ins) ==
  [op |-> ins.op, dest |-> ins.dest, new |-> Allocated(ins), old |-> Replaced(ins)]

\* What the decoder accepts.
LEMMA DecodesIs ==
  ASSUME NEW ins \in Decodes
  PROVE  /\ ins.dest \in Logical /\ ins.source \in Logical
         /\ ins = Bubble => ins.dest = 0 /\ ins.op = "bubble"
         /\ ins # Bubble => /\ ins.op \in {"alu", "load", "branch", "store"}
                            /\ ins.op = "branch" => ins.dest = 0 /\ ~speculating
                            /\ Len(activeList) < ActiveListDepth
BY InstructionsAssumption, Sizes DEF Decodes, Decodable, Bubble, Instruction

\* The entry the decoder pushes.
LEMMA NewEntryIs ==
  ASSUME TypeOK, NEW ins \in Decodes, ins # Bubble
  PROVE  /\ NewEntry(ins) \in Entry /\ FixedNew(ins) \in FixedEntry
         /\ NewEntry(ins).op = ins.op /\ NewEntry(ins).dest = ins.dest
         /\ NewEntry(ins).new = Allocated(ins) /\ NewEntry(ins).old = Replaced(ins)
<1>1. /\ freeList.slots \in [0 .. FreeListDepth - 1 -> Physical]
      /\ freeList.head \in 0 .. FreeListDepth - 1
      /\ specTable \in [Logical -> Physical]
  BY DEF TypeOK, FreeRing!Queues, FreeRing!Slots
<1>2. Allocated(ins) \in Physical
  BY <1>1, Sizes DEF Allocated, FreeRing!Front
<1>3. Replaced(ins) \in Physical /\ Operand(ins) \in Physical
  BY <1>1, DecodesIs, Sizes DEF Replaced, Operand, HasDest
<1>4. /\ ins.op \in {"alu", "load", "branch", "store"} /\ ins.dest \in Logical
      /\ (ins.op = "store") \in BOOLEAN
  BY DecodesIs
<1> QED BY <1>2, <1>3, <1>4 DEF NewEntry, FixedNew, Entry, FixedEntry

\* Finishing entries changes nothing that decode has fixed.
LEMMA FinishedIs ==
  ASSUME TypeOK, NEW done, NEW wrong \in BOOLEAN, NEW f, f = Finished(done, wrong)
  PROVE  /\ f \in Seq(Entry) /\ Len(f) = Len(activeList)
         /\ FixedOf(f) = FixedOf(activeList)
<1>1. /\ activeList \in Seq(Entry) /\ Len(activeList) \in Nat
      /\ DOMAIN activeList = 1 .. Len(activeList)
      /\ \A i \in 1 .. Len(activeList) : activeList[i] \in Entry
  BY DEF TypeOK
<1>2. f = [i \in 1 .. Len(activeList) |->
             IF i \in done
               THEN [activeList[i] EXCEPT !.ready = TRUE,
                                          !.mispredicted = wrong /\ activeList[i].op = "branch"]
               ELSE activeList[i]]
  BY <1>1 DEF Finished
<1>3. ASSUME NEW i \in 1 .. Len(activeList)
      PROVE  /\ f[i] \in Entry /\ f[i].op = activeList[i].op /\ f[i].dest = activeList[i].dest
             /\ f[i].new = activeList[i].new /\ f[i].old = activeList[i].old
  <2>1. activeList[i] \in Entry
    BY <1>1
  <2>2. CASE i \in done
    <3> DEFINE m == wrong /\ activeList[i].op = "branch"
    <3>1. m \in BOOLEAN
      OBVIOUS
    <3>2. f[i] = [activeList[i] EXCEPT !.ready = TRUE, !.mispredicted = m]
      BY <1>2, <2>2
    <3> HIDE DEF m
    <3> QED BY <2>1, <3>1, <3>2 DEF Entry
  <2>3. CASE i \notin done
    BY <1>2, <2>1, <2>3
  <2> QED BY <2>2, <2>3
<1>4. f \in [1 .. Len(activeList) -> Entry]
  BY <1>2, <1>3
<1>5. f \in Seq(Entry) /\ Len(f) = Len(activeList)
  BY <1>1, <1>4, SequenceOf
<1>6. FixedOf(f) = FixedOf(activeList)
  BY <1>3, <1>5 DEF FixedOf
<1> QED BY <1>5, <1>6

LEMMA FixedTail ==
  ASSUME NEW list \in Seq(Entry), list # <<>>
  PROVE  /\ Tail(list) \in Seq(Entry) /\ Len(Tail(list)) = Len(list) - 1
         /\ FixedOf(Tail(list)) = Rest(FixedOf(list))
<1>1. /\ Tail(list) \in Seq(Entry) /\ Len(Tail(list)) = Len(list) - 1 /\ Len(list) \in Nat
      /\ \A i \in 1 .. Len(list) - 1 : Tail(list)[i] = list[i + 1]
  OBVIOUS
<1>2. /\ FixedOf(list) \in Seq(FixedEntry) /\ Len(FixedOf(list)) = Len(list)
      /\ FixedOf(list) # <<>>
  BY FixedIs
<1>3. /\ Rest(FixedOf(list)) \in Seq(FixedEntry)
      /\ Len(Rest(FixedOf(list))) = Len(list) - 1
      /\ \A i \in 1 .. Len(list) - 1 : Rest(FixedOf(list))[i] = FixedOf(list)[i + 1]
  BY <1>2 DEF Rest
<1>4. /\ FixedOf(Tail(list)) \in Seq(FixedEntry)
      /\ Len(FixedOf(Tail(list))) = Len(list) - 1
  BY <1>1, FixedIs
<1>5. \A i \in 1 .. Len(list) - 1 : FixedOf(Tail(list))[i] = FixedOf(list)[i + 1]
  BY <1>1 DEF FixedOf
<1>6. \A i \in 1 .. Len(list) - 1 : FixedOf(Tail(list))[i] = Rest(FixedOf(list))[i]
  BY <1>3, <1>5
<1> QED BY <1>1, <1>3, <1>4, <1>6, SeqEqual

LEMMA FixedAppend ==
  ASSUME NEW list \in Seq(Entry), NEW e \in Entry, NEW x \in FixedEntry,
         x.op = e.op, x.dest = e.dest, x.new = e.new, x.old = e.old
  PROVE  /\ Append(list, e) \in Seq(Entry) /\ Len(Append(list, e)) = Len(list) + 1
         /\ FixedOf(Append(list, e)) = With(FixedOf(list), x)
<1> DEFINE more == Append(list, e)
<1>1. /\ more \in Seq(Entry) /\ Len(more) = Len(list) + 1 /\ Len(list) \in Nat
      /\ \A i \in 1 .. Len(list) : more[i] = list[i]
      /\ more[Len(list) + 1] = e
  OBVIOUS
<1> HIDE DEF more
<1>2. FixedOf(list) \in Seq(FixedEntry) /\ Len(FixedOf(list)) = Len(list)
  BY FixedIs
<1>3. /\ With(FixedOf(list), x) \in Seq(FixedEntry)
      /\ Len(With(FixedOf(list), x)) = Len(list) + 1
      /\ \A i \in 1 .. Len(list) : With(FixedOf(list), x)[i] = FixedOf(list)[i]
      /\ With(FixedOf(list), x)[Len(list) + 1] = x
  BY <1>2 DEF With
<1>4. FixedOf(more) \in Seq(FixedEntry) /\ Len(FixedOf(more)) = Len(list) + 1
  BY <1>1, FixedIs
<1>5. ASSUME NEW i \in 1 .. Len(list) + 1
      PROVE  FixedOf(more)[i] = With(FixedOf(list), x)[i]
  <2>1. CASE i = Len(list) + 1
    <3>1. x = [op |-> x.op, dest |-> x.dest, new |-> x.new, old |-> x.old]
      BY DEF FixedEntry
    <3>2. FixedOf(more)[i] = [op |-> e.op, dest |-> e.dest, new |-> e.new, old |-> e.old]
      BY <1>1, <2>1 DEF FixedOf
    <3> QED BY <1>3, <2>1, <3>1, <3>2
  <2>2. CASE i # Len(list) + 1
    <3>1. i \in 1 .. Len(list)
      BY <1>1, <2>2
    <3>2. FixedOf(more)[i] = FixedOf(list)[i]
      BY <1>1, <3>1 DEF FixedOf
    <3> QED BY <1>3, <3>1, <3>2
  <2> QED BY <2>1, <2>2
<1>6. FixedOf(more) = With(FixedOf(list), x)
  BY <1>1, <1>3, <1>4, <1>5, SeqEqual
<1> QED BY <1>1, <1>6 DEF more

\* A cycle drops the retiring entry and appends the decoded one.
LEMMA ListStep ==
  ASSUME TypeOK, ~SetReadyWins, ~FlushRecover, NEW ins \in Decodes, NEW done, NEW wrong \in BOOLEAN,
         ActiveListBuild(ins, done, wrong),
         NEW kept, kept = IF Retires THEN Rest(FixedOf(activeList)) ELSE FixedOf(activeList)
  PROVE  /\ activeList' \in Seq(Entry) /\ Len(activeList') <= ActiveListDepth
         /\ FixedOf(activeList') = IF ins = Bubble THEN kept ELSE With(kept, FixedNew(ins))
<1>1. PICK f : f = Finished(done, wrong)
  OBVIOUS
<1>2. f \in Seq(Entry) /\ Len(f) = Len(activeList) /\ FixedOf(f) = FixedOf(activeList)
  BY <1>1, FinishedIs
<1>3. activeList \in Seq(Entry) /\ Len(activeList) <= ActiveListDepth /\ Len(activeList) \in Nat
  BY DEF TypeOK
<1>4. PICK g : g = IF Retires THEN Tail(f) ELSE f
  OBVIOUS
<1>5. activeList' = IF ins = Bubble THEN g ELSE Append(g, NewEntry(ins))
  BY <1>1, <1>4 DEF ActiveListBuild, Pushed
<1>6. g \in Seq(Entry) /\ Len(g) <= Len(activeList) /\ FixedOf(g) = kept
  <2>1. CASE Retires
    <3>1. f # <<>>
      <4>1. Len(f) # 0
        BY <1>2, <1>3, <2>1 DEF Retires
      <4> QED BY <4>1
    <3>2. Tail(f) \in Seq(Entry) /\ Len(Tail(f)) = Len(f) - 1 /\ FixedOf(Tail(f)) = Rest(FixedOf(f))
      BY <1>2, <3>1, FixedTail
    <3> QED BY <1>2, <1>3, <1>4, <2>1, <3>2
  <2>2. CASE ~Retires
    BY <1>2, <1>3, <1>4, <2>2
  <2> QED BY <2>1, <2>2
<1>7. CASE ins = Bubble
  <2>1. activeList' = g /\ Len(g) \in Nat
    BY <1>5, <1>6, <1>7
  <2>2. Len(g) <= ActiveListDepth
    BY <1>3, <1>6, <2>1, Sizes
  <2> QED BY <1>6, <1>7, <2>1, <2>2
<1>8. CASE ins # Bubble
  <2>1. /\ NewEntry(ins) \in Entry /\ FixedNew(ins) \in FixedEntry
        /\ NewEntry(ins).op = ins.op /\ NewEntry(ins).dest = ins.dest
        /\ NewEntry(ins).new = Allocated(ins) /\ NewEntry(ins).old = Replaced(ins)
    BY <1>8, NewEntryIs
  <2>2. /\ FixedNew(ins).op = ins.op /\ FixedNew(ins).dest = ins.dest
        /\ FixedNew(ins).new = Allocated(ins) /\ FixedNew(ins).old = Replaced(ins)
    BY DEF FixedNew
  <2>3. /\ Append(g, NewEntry(ins)) \in Seq(Entry)
        /\ Len(Append(g, NewEntry(ins))) = Len(g) + 1
        /\ FixedOf(Append(g, NewEntry(ins))) = With(FixedOf(g), FixedNew(ins))
    BY <1>6, <2>1, <2>2, FixedAppend
  <2>4. Len(activeList) < ActiveListDepth
    BY <1>8, DecodesIs
  <2>5. Len(g) + 1 <= ActiveListDepth
    <3>1. Len(g) \in Nat
      BY <1>6
    <3> QED BY <1>3, <1>6, <2>4, <3>1, Sizes
  <2> QED BY <1>5, <1>6, <1>8, <2>3, <2>5
<1> QED BY <1>7, <1>8

-----------------------------------------------------------------------------
(* Every cycle keeps the invariant. *)

\* The oldest entry, as the active list and as the bookkeeping see it.
LEMMA OldestIs ==
  ASSUME TypeOK, activeList # <<>>
  PROVE  LET list == FixedOf(activeList)
         IN  /\ list # <<>> /\ Oldest \in Entry
             /\ list[1].op = Oldest.op /\ list[1].dest = Oldest.dest
             /\ list[1].new = Oldest.new /\ list[1].old = Oldest.old
             /\ 1 \in BranchesOf(list) <=> Oldest.op = "branch"
<1>1. /\ activeList \in Seq(Entry) /\ Len(activeList) > 0 /\ 1 \in 1 .. Len(activeList)
      /\ Oldest = activeList[1]
  BY DEF TypeOK, Oldest
<1>2. /\ FixedOf(activeList) \in Seq(FixedEntry)
      /\ Len(FixedOf(activeList)) = Len(activeList)
      /\ DOMAIN FixedOf(activeList) = 1 .. Len(activeList)
  BY <1>1, FixedIs
<1>3. FixedOf(activeList) # <<>>
  BY <1>1, <1>2
<1> QED BY <1>1, <1>2, <1>3, FixedIs DEF BranchesOf

\* A cycle without recovery is CycleData.
LEMMA CycleStep ==
  ASSUME IInv, ~SetReadyWins, ~FlushRecover, NEW ins \in Decodes,
         NEW done, NEW wrong \in BOOLEAN, Cycle(ins, done, wrong)
  PROVE  /\ DataOK(freeList', snapshotHead', FixedOf(activeList'), commitTable', specTable')
         /\ speculating' <=> BranchesOf(FixedOf(activeList')) # {}
         /\ activeList' \in Seq(Entry) /\ Len(activeList') <= ActiveListDepth
<1> DEFINE list == FixedOf(activeList)
<1>t. TypeOK /\ DataOK(freeList, snapshotHead, list, commitTable, specTable)
  BY DEF IInv
<1>s. speculating <=> BranchesOf(list) # {}
  BY DEF IInv
<1>l. list \in Seq(FixedEntry) /\ Len(list) = Len(activeList)
  BY <1>t, FixedIs DEF TypeOK
<1>1. PICK r \in {0, 1} : r = IF Retires THEN 1 ELSE 0
  OBVIOUS
<1>2. PICK k \in {0, 1} : k = IF ins = Bubble THEN 0 ELSE 1
  OBVIOUS
<1>3. PICK x \in FixedEntry : ins # Bubble => x = FixedNew(ins)
  <2>1. ins # Bubble => FixedNew(ins) \in FixedEntry
    BY <1>t, NewEntryIs
  <2>2. [op |-> "alu", dest |-> 0, new |-> 0, old |-> 0] \in FixedEntry
    BY Sizes DEF FixedEntry
  <2> QED BY <2>1, <2>2
<1>4. PICK u \in {0, 1} : u = IF PushesFree THEN 1 ELSE 0
  OBVIOUS
<1>5. PICK o \in {0, 1} : o = IF HasDest(ins) THEN 1 ELSE 0
  OBVIOUS
<1>6. PICK data \in Physical : PushesFree => data = Oldest.old
  <2>1. PushesFree => Oldest.old \in Physical
    BY <1>t, OldestIs DEF PushesFree, WritesCommit, Retires, Entry
  <2> QED BY <2>1, Sizes
<1>7. PICK kept : kept = IF r = 1 THEN Rest(list) ELSE list
  OBVIOUS
<1>x. ins # Bubble => /\ x.op = ins.op /\ x.dest = ins.dest
                      /\ x.new = Allocated(ins) /\ x.old = Replaced(ins)
  BY <1>3 DEF FixedNew
<1>o. Retires => /\ list # <<>> /\ Oldest \in Entry
                 /\ list[1].op = Oldest.op /\ list[1].dest = Oldest.dest
                 /\ list[1].new = Oldest.new /\ list[1].old = Oldest.old
                 /\ 1 \in BranchesOf(list) <=> Oldest.op = "branch"
  BY <1>t, OldestIs DEF Retires
<1>c. freeList.count \in Nat
  BY <1>t DEF TypeOK, FreeRing!Queues
<1> HIDE DEF list
<1>8. r = 1 => list # <<>>
  BY <1>1, <1>o
<1>9. k = 1 => /\ Len(list) < ActiveListDepth
               /\ x.dest # 0 => x.new = freeList.slots[freeList.head] /\ x.old = specTable[x.dest]
               /\ x.op = "branch" => x.dest = 0 /\ BranchesOf(list) = {}
  <2> SUFFICES ASSUME ins # Bubble
               PROVE  /\ Len(list) < ActiveListDepth
                      /\ x.dest # 0 => /\ x.new = freeList.slots[freeList.head]
                                       /\ x.old = specTable[x.dest]
                      /\ x.op = "branch" => x.dest = 0 /\ BranchesOf(list) = {}
    BY <1>2
  <2>1. /\ ins.op = "branch" => ins.dest = 0 /\ ~speculating
        /\ Len(activeList) < ActiveListDepth
    BY DecodesIs
  <2>2. ins.dest # 0 => /\ Allocated(ins) = freeList.slots[freeList.head]
                        /\ Replaced(ins) = specTable[ins.dest]
    BY DEF Allocated, Replaced, HasDest, FreeRing!Front
  <2> QED BY <1>l, <1>s, <1>x, <2>1, <2>2
<1>10. u = IF r = 1 /\ list[1].dest # 0 /\ list[1].old # 0 THEN 1 ELSE 0
  BY <1>1, <1>4, <1>o DEF PushesFree, WritesCommit, HasDest
<1>11. o = IF k = 1 /\ x.dest # 0 THEN 1 ELSE 0
  BY <1>2, <1>5, <1>x, DecodesIs DEF HasDest
<1>12. u = 1 => data = list[1].old
  BY <1>4, <1>6, <1>o DEF PushesFree, WritesCommit
<1>13. freeList' = Stepped(freeList, u, o, data)
  <2>1. freeList' = FreeRing!Operate(freeList, PushesFree, Oldest.old, HasDest(ins), FALSE)
    BY DEF Cycle, FreeListBuild, Freed
  <2>2. CASE PushesFree /\ HasDest(ins)
    BY <1>4, <1>5, <1>6, <1>c, <2>1, <2>2 DEF FreeRing!Operate, Stepped
  <2>3. CASE PushesFree /\ ~HasDest(ins)
    BY <1>4, <1>5, <1>6, <1>c, <2>1, <2>3 DEF FreeRing!Operate, Stepped
  <2>4. CASE ~PushesFree /\ HasDest(ins)
    BY <1>4, <1>5, <1>c, <2>1, <2>4 DEF FreeRing!Operate, Stepped
  <2>5. CASE ~PushesFree /\ ~HasDest(ins)
    BY <1>4, <1>5, <1>c, <2>1, <2>5 DEF FreeRing!Operate, Stepped
  <2> QED BY <2>2, <2>3, <2>4, <2>5
<1>14. snapshotHead' = IF k = 1 /\ x.op = "branch" THEN freeList.head ELSE snapshotHead
  <2>1. snapshotHead' = IF ins.op = "branch" THEN freeList.head ELSE snapshotHead
    BY DEF Cycle, FreeListBuild, NextSnapshot
  <2> QED BY <1>2, <1>x, <2>1, DecodesIs
<1>15. commitTable' = IF r = 1 THEN Committed(commitTable, list[1]) ELSE commitTable
  <2>1. commitTable' = IF WritesCommit THEN [commitTable EXCEPT ![Oldest.dest] = Oldest.new]
                       ELSE commitTable
    BY DEF Cycle, MapTableBuild
  <2>2. CASE ~Retires
    BY <1>1, <2>1, <2>2 DEF WritesCommit
  <2>3. CASE Retires
    <3>1. r = 1 /\ list[1].dest = Oldest.dest /\ list[1].new = Oldest.new
      BY <1>1, <1>o, <2>3
    <3>2. commitTable' = IF Oldest.dest # 0 THEN [commitTable EXCEPT ![Oldest.dest] = Oldest.new]
                         ELSE commitTable
      BY <2>1, <2>3 DEF WritesCommit, HasDest
    <3> QED BY <3>1, <3>2 DEF Committed
  <2> QED BY <2>2, <2>3
<1>16. specTable' = IF k = 1 THEN Committed(specTable, x) ELSE specTable
  <2>1. specTable' = IF HasDest(ins) THEN [specTable EXCEPT ![ins.dest] = Allocated(ins)]
                     ELSE specTable
    BY DEF Cycle, MapTableBuild, Renames
  <2>2. CASE ins = Bubble
    BY <1>2, <2>1, <2>2, DecodesIs DEF HasDest
  <2>3. CASE ins # Bubble
    <3>1. k = 1 /\ x.dest = ins.dest /\ x.new = Allocated(ins)
      BY <1>2, <1>x, <2>3
    <3>2. specTable' = IF ins.dest # 0 THEN [specTable EXCEPT ![ins.dest] = Allocated(ins)]
                       ELSE specTable
      BY <2>1 DEF HasDest
    <3> QED BY <3>1, <3>2 DEF Committed
  <2> QED BY <2>2, <2>3
<1>17. kept = IF Retires THEN Rest(FixedOf(activeList)) ELSE FixedOf(activeList)
  BY <1>1, <1>7 DEF list
<1>18. /\ activeList' \in Seq(Entry) /\ Len(activeList') <= ActiveListDepth
       /\ FixedOf(activeList') = IF ins = Bubble THEN kept ELSE With(kept, FixedNew(ins))
  <2>1. ActiveListBuild(ins, done, wrong)
    BY DEF Cycle
  <2> QED BY <1>t, <1>17, <2>1, ListStep
<1>19. FixedOf(activeList') = IF k = 1 THEN With(kept, x) ELSE kept
  BY <1>2, <1>3, <1>18
<1>20. /\ DataOK(freeList', snapshotHead', FixedOf(activeList'), commitTable', specTable')
       /\ BranchesOf(FixedOf(activeList')) = {} <=>
            /\ BranchesOf(list) = {} \/ (r = 1 /\ list[1].op = "branch")
            /\ ~(k = 1 /\ x.op = "branch")
  BY <1>t, <1>8, <1>9, <1>10, <1>11, <1>12, <1>13, <1>14, <1>15, <1>16, <1>7, <1>19, CycleData
<1>21. speculating' <=> BranchesOf(FixedOf(activeList')) # {}
  <2>1. speculating' = ((speculating \/ ins.op = "branch") /\ ~(Retires /\ Oldest.op = "branch"))
    BY DEF Cycle, SpeculationStateBuild
  <2>2. Retires /\ Oldest.op = "branch" <=> r = 1 /\ list[1].op = "branch"
    BY <1>1, <1>o
  <2>3. ins.op = "branch" <=> k = 1 /\ x.op = "branch"
    BY <1>2, <1>x, DecodesIs
  <2>4. ins.op = "branch" => ~speculating
    BY DecodesIs
  <2>5. Retires /\ Oldest.op = "branch" => speculating
    BY <1>o, <1>s
  <2> QED BY <1>s, <1>20, <2>1, <2>2, <2>3, <2>4, <2>5
<1> QED BY <1>18, <1>20, <1>21

\* A recovery is RecoverData.
LEMMA RecoverStep ==
  ASSUME IInv, NEW ins \in Decodes, FlushRecover, Cycle(ins, {}, FALSE)
  PROVE  /\ DataOK(freeList', snapshotHead', FixedOf(activeList'), commitTable', specTable')
         /\ speculating' <=> BranchesOf(FixedOf(activeList')) # {}
         /\ activeList' \in Seq(Entry) /\ Len(activeList') <= ActiveListDepth
<1> DEFINE list == FixedOf(activeList)
<1>1. TypeOK /\ DataOK(freeList, snapshotHead, list, commitTable, specTable)
  BY DEF IInv
<1>2. Retires /\ Oldest.op = "branch" /\ activeList # <<>>
  BY DEF FlushRecover, Retires
<1>3. 1 \in BranchesOf(list) /\ list[1].dest = Oldest.dest
  BY <1>1, <1>2, OldestIs
<1>4. Oldest.dest = 0
  <2>1. BranchesOK(list)
    BY <1>1 DEF DataOK
  <2> QED BY <1>3, <2>1 DEF BranchesOK
<1>5. snapshotHead' \in RingSlots
  <2>1. snapshotHead \in RingSlots /\ freeList.head \in RingSlots
    BY <1>1 DEF DataOK, FreeRing!Queues, FreeRing!Slots, RingSlots
  <2> QED BY <2>1 DEF Cycle, FreeListBuild, NextSnapshot
<1>6. freeList' = Recovered(freeList, snapshotHead)
  BY DEF Cycle, FreeListBuild
<1>7. commitTable' = commitTable /\ specTable' = commitTable
  BY <1>4 DEF Cycle, MapTableBuild, WritesCommit, HasDest, Renames
<1>8. activeList' = <<>>
  BY DEF Cycle, ActiveListBuild
<1>9. FixedOf(<<>>) = <<>>
  <2>1. <<>> \in Seq(Entry) /\ Len(<<>>) = 0
    OBVIOUS
  <2>2. FixedOf(<<>>) \in Seq(FixedEntry) /\ Len(FixedOf(<<>>)) = 0
    BY <2>1, FixedIs
  <2> QED BY <2>2, EmptySeq
<1>10. DataOK(freeList', snapshotHead', FixedOf(activeList'), commitTable', specTable')
  BY <1>1, <1>3, <1>5, <1>6, <1>7, <1>8, <1>9, RecoverData
<1>11. ~speculating'
  BY <1>2 DEF Cycle, SpeculationStateBuild
<1>12. BranchesOf(<<>>) = {}
  BY DEF BranchesOf
<1> QED BY <1>8, <1>9, <1>10, <1>11, <1>12, Sizes

\* The part of the type invariant that the bookkeeping does not cover.
LEMMA CycleTypes ==
  ASSUME TypeOK, NEW ins, NEW done, NEW wrong \in BOOLEAN, Cycle(ins, done, wrong)
  PROVE  /\ registerReady' \in [Physical -> BOOLEAN]
         /\ activeHead' \in 0 .. ActiveListDepth - 1
         /\ speculating' \in BOOLEAN
<1>1. registerReady' \in [Physical -> BOOLEAN]
  <2>1. registerReady' = [p \in Physical |-> FlushRecover \/ NextReady(p, ins, done)]
    BY DEF Cycle, RegisterReadyBuild
  <2>2. \A p \in Physical : (FlushRecover \/ NextReady(p, ins, done)) \in BOOLEAN
    OBVIOUS
  <2> QED BY <2>1, <2>2
<1>2. activeHead' \in 0 .. ActiveListDepth - 1
  <2>1. activeHead \in 0 .. ActiveListDepth - 1
    BY DEF TypeOK
  <2>2. ActiveRing!Increment(activeHead) \in 0 .. ActiveListDepth - 1
    BY <2>1, Sizes DEF ActiveRing!Increment
  <2>3. 0 \in 0 .. ActiveListDepth - 1
    BY Sizes
  <2> QED BY <2>1, <2>2, <2>3 DEF Cycle, ActiveListBuild
<1>3. speculating' \in BOOLEAN
  BY DEF Cycle, SpeculationStateBuild
<1> QED BY <1>1, <1>2, <1>3

LEMMA LateLoadTypes ==
  ASSUME TypeOK, NEW l \in LoadsInFlight
  PROVE  l \in [slot : 0 .. ActiveListDepth - 1, entry : Entry]
<1>1. PICK i \in DOMAIN activeList : l = [slot |-> SlotOf(i), entry |-> activeList[i]]
  BY DEF LoadsInFlight, Executable, Unfinished
<1>2. /\ activeList[i] \in Entry /\ i \in 1 .. Len(activeList)
      /\ Len(activeList) \in Nat /\ Len(activeList) <= ActiveListDepth
      /\ activeHead \in 0 .. ActiveListDepth - 1
  BY DEF TypeOK
<1>3. SlotOf(i) \in 0 .. ActiveListDepth - 1
  BY <1>2, Sizes DEF SlotOf, ActiveRing!Advance
<1> QED BY <1>1, <1>2, <1>3

\* IInv is inductive.
LEMMA NextHolds ==
  ASSUME IInv, ~SetReadyWins, [Next]_vars
  PROVE  IInv'
<1>t. TypeOK
  BY DEF IInv
<1>0. ASSUME DataOK(freeList', snapshotHead', FixedOf(activeList'), commitTable', specTable'),
             speculating' <=> BranchesOf(FixedOf(activeList')) # {},
             activeList' \in Seq(Entry), Len(activeList') <= ActiveListDepth,
             registerReady' \in [Physical -> BOOLEAN],
             activeHead' \in 0 .. ActiveListDepth - 1,
             speculating' \in BOOLEAN,
             lateLoad' \subseteq [slot : 0 .. ActiveListDepth - 1, entry : Entry]
      PROVE  IInv'
  <2>1. TypeOK'
    BY <1>0 DEF TypeOK, DataOK, RingSlots
  <2> QED BY <1>0, <2>1 DEF IInv
<1>1. ASSUME NEW ins \in Decodes, NEW done \in SUBSET Executable, NEW wrong \in BOOLEAN,
             Idle(ins, done, wrong)
      PROVE  IInv'
  <2>1. ~FlushRecover /\ Cycle(ins, done, wrong) /\ lateLoad' = {}
    BY <1>1 DEF Idle, FlushRecover
  <2> QED BY <1>t, <1>0, <2>1, CycleStep, CycleTypes
<1>2. ASSUME NEW ins \in Decodes, NEW done \in SUBSET Executable, NEW wrong \in BOOLEAN,
             Retire(ins, done, wrong)
      PROVE  IInv'
  <2>1. ~FlushRecover /\ Cycle(ins, done, wrong) /\ lateLoad' = {}
    BY <1>2 DEF Retire
  <2> QED BY <1>t, <1>0, <2>1, CycleStep, CycleTypes
<1>3. ASSUME NEW ins \in Decodes, Recover(ins)
      PROVE  IInv'
  <2>1. FlushRecover /\ Cycle(ins, {}, FALSE)
    BY <1>3 DEF Recover
  <2>2. lateLoad' \subseteq [slot : 0 .. ActiveListDepth - 1, entry : Entry]
    BY <1>t, <1>3, LateLoadTypes DEF Recover
  <2> QED BY <1>t, <1>0, <2>1, <2>2, RecoverStep, CycleTypes
<1>4. CASE UNCHANGED vars
  BY <1>4 DEF vars, IInv, TypeOK
<1> QED BY <1>1, <1>2, <1>3, <1>4 DEF Next

\* IInv holds throughout when the decoder's write prevails in the active list.
THEOREM Invariant ==
  ASSUME ~SetReadyWins
  PROVE  Spec => []IInv
<1>1. Init => IInv
  BY InitHolds
<1>2. IInv /\ [Next]_vars => IInv'
  BY NextHolds
<1> QED BY <1>1, <1>2, PTL DEF Spec

-----------------------------------------------------------------------------
(* What the invariant implies. *)

\* Every register keeps its type and every queue its bound.
THEOREM TypeCorrect ==
  ASSUME ~SetReadyWins
  PROVE  Spec => []TypeOK
<1>1. IInv => TypeOK
  BY DEF IInv
<1> QED BY <1>1, Invariant, PTL

\* The count that free_list.py recomputes in recovery is the distance between its pointers.
THEOREM CountIsDistance ==
  ASSUME ~SetReadyWins
  PROVE  Spec => []FreeCountIsDistance
<1>1. IInv => FreeCountIsDistance
  BY DEF IInv, DataOK, FreeCountIsDistance
<1> QED BY <1>1, Invariant, PTL

\* decoder.py may pop the free list without asking whether it is empty.
THEOREM NeverUnderflows ==
  ASSUME ~SetReadyWins
  PROVE  Spec => []FreeListNeverUnderflows
<1>1. ASSUME IInv PROVE FreeListNeverUnderflows
  <2> DEFINE list == FixedOf(activeList)
  <2>1. /\ TypeOK /\ DataOK(freeList, snapshotHead, list, commitTable, specTable)
    BY <1>1 DEF IInv
  <2>2. list \in Seq(FixedEntry) /\ Len(list) = Len(activeList) /\ Len(list) \in Nat
    BY <2>1, FixedIs DEF TypeOK
  <2>3. /\ commitTable \in [Logical -> Physical]
        /\ PartitionOf(FreeOf(freeList), freeList.count, list, commitTable)
        /\ freeList.count \in Nat
    BY <2>1 DEF DataOK, FreeRing!Queues
  <2>4. Len(list) \in 0 .. Len(list) /\ \A j \in WritersOf(list) : j <= Len(list)
    BY <2>2 DEF WritersOf
  <2> HIDE DEF list
  <2>5. Len(list) < ActiveListDepth => freeList.count > 0
    BY <2>2, <2>3, <2>4, SomeFree
  <2> QED BY <2>2, <2>5 DEF FreeListNeverUnderflows
<1> QED BY <1>1, Invariant, PTL

\* At most one branch is in flight, and speculating says whether there is one.
THEOREM OneBranch ==
  ASSUME ~SetReadyWins
  PROVE  Spec => []SpeculatingTracksBranch
<1>1. ASSUME IInv PROVE SpeculatingTracksBranch
  <2>1. activeList \in Seq(Entry) /\ DOMAIN activeList = 1 .. Len(activeList)
    BY <1>1 DEF IInv, TypeOK
  <2>2. Branches = BranchesOf(FixedOf(activeList))
    <3>1. DOMAIN FixedOf(activeList) = 1 .. Len(activeList)
      BY DEF FixedOf
    <3> QED BY <2>1, <3>1, FixedIs DEF Branches, BranchesOf
  <2>3. \A i, j \in Branches : i = j
    BY <1>1, <2>2 DEF IInv, DataOK, BranchesOK
  <2>4. Cardinality(Branches) <= 1
    <3>1. CASE Branches = {}
      <4>1. Cardinality({}) = 0
        BY FS_EmptySet
      <4> QED BY <3>1, <4>1
    <3>2. CASE Branches # {}
      <4>1. PICK b : b \in Branches
        BY <3>2
      <4>2. Branches = {b}
        BY <2>3, <4>1
      <4>3. Cardinality({b}) = 1
        BY FS_Singleton
      <4> QED BY <4>2, <4>3
    <3> QED BY <3>1, <3>2
  <2> QED BY <1>1, <2>2, <2>4 DEF IInv, SpeculatingTracksBranch
<1> QED BY <1>1, Invariant, PTL

\* The first n registers taken since the snapshot belong to n writers.
LEMMA TakenBy ==
  ASSUME NEW list \in Seq(FixedEntry), NEW taken, NEW d \in Nat, WrongPathOf(taken, d, list),
         NEW b \in BranchesOf(list), NEW n \in 0 .. d, NEW T \in SUBSET WritersOf(list),
         \A i, j \in WritersOf(list) : list[i].new = list[j].new => i = j,
         \A i \in WritersOf(list) :
           i \in T <=> b < i /\ \E k \in 0 .. n - 1 : taken[k] = list[i].new
  PROVE  Cardinality(T) = n
<1> DEFINE f == [k \in 1 .. n |-> CHOOSE i \in T : list[i].new = taken[k - 1]]
<1>1. /\ \A k \in 0 .. d - 1 : \E i \in WritersOf(list) : b < i /\ list[i].new = taken[k]
      /\ \A j, k \in 0 .. d - 1 : taken[j] = taken[k] => j = k
  BY DEF WrongPathOf
<1>2. n \in Nat /\ \A k \in 1 .. n : k - 1 \in 0 .. n - 1 /\ k - 1 \in 0 .. d - 1
  OBVIOUS
<1>3. \A k \in 1 .. n : f[k] \in T /\ list[f[k]].new = taken[k - 1]
  <2> SUFFICES ASSUME NEW k \in 1 .. n PROVE f[k] \in T /\ list[f[k]].new = taken[k - 1]
    OBVIOUS
  <2>1. \E i \in T : list[i].new = taken[k - 1]
    BY <1>1, <1>2
  <2> QED BY <2>1
<1>4. f \in [1 .. n -> T]
  BY <1>3
<1> HIDE DEF f
<1>5. \A j, k \in 1 .. n : f[j] = f[k] => j = k
  <2> SUFFICES ASSUME NEW j \in 1 .. n, NEW k \in 1 .. n, f[j] = f[k] PROVE j = k
    OBVIOUS
  <2>1. j - 1 \in 0 .. d - 1 /\ k - 1 \in 0 .. d - 1 /\ taken[j - 1] = taken[k - 1]
    BY <1>2, <1>3
  <2>2. j - 1 = k - 1
    BY <1>1, <2>1
  <2> QED BY <2>2
<1>6. \A i \in T : \E k \in 1 .. n : f[k] = i
  <2> SUFFICES ASSUME NEW i \in T PROVE \E k \in 1 .. n : f[k] = i
    OBVIOUS
  <2>1. PICK k \in 0 .. n - 1 : taken[k] = list[i].new
    OBVIOUS
  <2>2. k + 1 \in 1 .. n /\ (k + 1) - 1 = k
    BY <1>2
  <2>3. f[k + 1] \in T /\ list[f[k + 1]].new = list[i].new
    BY <1>3, <2>1, <2>2
  <2> QED BY <2>2, <2>3
<1>7. f \in Bijection(1 .. n, T)
  BY <1>4, <1>5, <1>6 DEF Bijection, Injection, Surjection, IsInjective
<1>8. ExistsBijection(1 .. n, T)
  BY <1>7 DEF ExistsBijection
<1> QED BY <1>2, <1>8, FS_CountingElements

\* The writers between the branch at b and the entry at n.
Behind(list, b, n) == {i \in WritersOf(list) : b < i /\ i < n}

\* The slots between the snapshot and the head hold, in order, the registers that a recovery
\* would give back: FreeList.build may move its head back without copying anything.
LEMMA WrongPathInOrder ==
  ASSUME NEW list \in Seq(FixedEntry), NEW taken, NEW d \in Nat, WrongPathOf(taken, d, list),
         NEW b \in BranchesOf(list),
         \A i, j \in WritersOf(list) : list[i].new = list[j].new => i = j
  PROVE  /\ Cardinality(Behind(list, b, Len(list) + 1)) = d
         /\ \A i \in WritersOf(list) : b < i =>
              LET k == Cardinality(Behind(list, b, i))
              IN  k \in 0 .. d - 1 /\ taken[k] = list[i].new
<1>1. /\ \A i \in WritersOf(list) : b < i => \E k \in 0 .. d - 1 : taken[k] = list[i].new
      /\ \A j, k \in 0 .. d - 1 : taken[j] = taken[k] => j = k
      /\ \A i, j \in WritersOf(list), k, m \in 0 .. d - 1 :
           b < i /\ i < j /\ taken[k] = list[i].new /\ taken[m] = list[j].new => k < m
  BY DEF WrongPathOf
<1>2. \A i \in WritersOf(list) : i \in Nat /\ i < Len(list) + 1
  BY DEF WritersOf
<1>3. Cardinality(Behind(list, b, Len(list) + 1)) = d
  <2>1. PICK T \in SUBSET WritersOf(list) :
          T = Behind(list, b, Len(list) + 1)
    BY DEF Behind
  <2>2. \A i \in WritersOf(list) :
          i \in T <=> b < i /\ \E k \in 0 .. d - 1 : taken[k] = list[i].new
    BY <1>1, <1>2, <2>1 DEF Behind
  <2>3. d \in 0 .. d
    OBVIOUS
  <2> QED BY <2>1, <2>2, <2>3, TakenBy
<1>4. ASSUME NEW i \in WritersOf(list), b < i,
             NEW k, k = Cardinality(Behind(list, b, i))
      PROVE  k \in 0 .. d - 1 /\ taken[k] = list[i].new
  <2>1. PICK n \in 0 .. d - 1 : taken[n] = list[i].new
    BY <1>1, <1>4
  <2>2. PICK T \in SUBSET WritersOf(list) : T = Behind(list, b, i)
    BY DEF Behind
  <2>3. ASSUME NEW j \in WritersOf(list)
        PROVE  j \in T <=> b < j /\ \E m \in 0 .. n - 1 : taken[m] = list[j].new
    <3>1. ASSUME b < j, j < i PROVE \E m \in 0 .. n - 1 : taken[m] = list[j].new
      <4>1. PICK m \in 0 .. d - 1 : taken[m] = list[j].new
        BY <1>1, <3>1
      <4>2. m < n
        BY <1>1, <2>1, <3>1, <4>1
      <4> QED BY <4>1, <4>2
    <3>2. ASSUME b < j, NEW m \in 0 .. n - 1, taken[m] = list[j].new PROVE j < i
      <4>1. m \in 0 .. d - 1 /\ m < n
        OBVIOUS
      <4>2. j # i
        BY <1>1, <2>1, <3>2, <4>1
      <4>3. ~(i < j)
        BY <1>1, <1>4, <2>1, <3>2, <4>1
      <4> QED BY <1>2, <4>2, <4>3
    <3> QED BY <2>2, <3>1, <3>2 DEF Behind
  <2>4. n \in 0 .. d
    OBVIOUS
  <2>5. Cardinality(T) = n
    BY <2>3, <2>4, TakenBy
  <2> QED BY <1>4, <2>1, <2>2, <2>5
<1> QED BY <1>3, <1>4

\* The invariant's data, in the words of the property.
LEMMA SnapshotHolds == IInv => SnapshotCoversWrongPath
<1> SUFFICES ASSUME IInv PROVE SnapshotCoversWrongPath
  OBVIOUS
<1>1. PICK list, d, taken :
        /\ list = FixedOf(activeList)
        /\ d = FreeRing!Distance(snapshotHead, freeList.head)
        /\ taken = TakenSince(freeList, snapshotHead)
  OBVIOUS
<1>2. activeList \in Seq(Entry) /\ DataOK(freeList, snapshotHead, list, commitTable, specTable)
  BY <1>1 DEF IInv, TypeOK
<1>3. /\ list \in Seq(FixedEntry) /\ Len(list) = Len(activeList)
      /\ Len(activeList) \in Nat
      /\ \A i \in 1 .. Len(activeList) :
           list[i].op = activeList[i].op /\ list[i].dest = activeList[i].dest
           /\ list[i].new = activeList[i].new
  BY <1>1, <1>2, FixedIs
<1>4. Writers = WritersOf(list) /\ Branches = BranchesOf(list)
  <2>1. DOMAIN activeList = 1 .. Len(activeList) /\ DOMAIN list = 1 .. Len(activeList)
    BY <1>2, <1>3
  <2> QED BY <1>3, <2>1 DEF Writers, Branches, HasDest, WritersOf, BranchesOf
<1>5. d \in Nat /\ WrongPathOf(taken, d, list)
  BY <1>1, <1>2, DataRing DEF DataOK
<1>6. \A i, j \in WritersOf(list) : list[i].new = list[j].new => i = j
  BY <1>2 DEF DataOK, PartitionOf
<1>7. \A k \in 0 .. d - 1 : taken[k] = freeList.slots[FreeRing!Advance(snapshotHead, k)]
  BY <1>1 DEF TakenSince
<1> SUFFICES ASSUME NEW b \in Branches
             PROVE  /\ d = Cardinality({i \in Writers : b < i /\ i < Len(activeList) + 1})
                    /\ \A i \in Writers : b < i =>
                         freeList.slots[FreeRing!Advance(snapshotHead,
                           Cardinality({j \in Writers : b < j /\ j < i}))] = activeList[i].new
  BY <1>1 DEF SnapshotCoversWrongPath
<1>8. /\ Cardinality(Behind(list, b, Len(list) + 1)) = d
      /\ \A i \in WritersOf(list) : b < i =>
           LET k == Cardinality(Behind(list, b, i))
           IN  k \in 0 .. d - 1 /\ taken[k] = list[i].new
  <2>1. b \in BranchesOf(list)
    BY <1>4
  <2> QED BY <1>3, <1>5, <1>6, <2>1, WrongPathInOrder
<1>9. /\ Cardinality({i \in Writers : b < i /\ i < Len(activeList) + 1}) = d
      /\ \A i \in Writers : b < i =>
           LET k == Cardinality({j \in Writers : b < j /\ j < i})
           IN  k \in 0 .. d - 1 /\ taken[k] = list[i].new
  <2>1. \A n : {i \in Writers : b < i /\ i < n} = Behind(list, b, n)
    BY <1>4 DEF Behind
  <2> QED BY <1>3, <1>4, <1>8, <2>1
<1>10. \A i \in Writers : i \in 1 .. Len(activeList)
  BY <1>2 DEF Writers
<1> QED BY <1>3, <1>7, <1>9, <1>10

\* While a branch is in flight, retirements never overwrite what a recovery would give back.
THEOREM SnapshotCovers ==
  ASSUME ~SetReadyWins
  PROVE  Spec => []SnapshotCoversWrongPath
BY SnapshotHolds, Invariant, PTL

\* Every physical register but 0 has exactly one owner: the free list, the committed table
\* or one instruction in flight.
THEOREM OneOwner ==
  ASSUME ~SetReadyWins
  PROVE  Spec => []RegistersPartitioned
<1>1. ASSUME IInv PROVE RegistersPartitioned
  <2> DEFINE c == freeList.count
             free == FreeOf(freeList)
             list == FixedOf(activeList)
             R == 1 .. RegisterNumber - 1
  <2>1. /\ activeList \in Seq(Entry) /\ DOMAIN activeList = 1 .. Len(activeList)
        /\ c \in Nat /\ commitTable \in [Logical -> Physical]
        /\ PartitionOf(free, c, list, commitTable)
    BY <1>1 DEF IInv, TypeOK, DataOK, FreeRing!Queues
  <2>2. Writers = WritersOf(list) /\ \A i \in Writers : activeList[i].new = list[i].new
    <3>1. DOMAIN list = 1 .. Len(activeList)
      BY DEF FixedOf
    <3> QED BY <2>1, <3>1, FixedIs DEF Writers, WritersOf, HasDest
  <2>3. /\ DOMAIN FreeRegisters = 1 .. c
        /\ \A i \in 1 .. c : i - 1 \in 0 .. c - 1 /\ FreeRegisters[i] = free[i - 1]
        /\ \A i \in 0 .. c - 1 : i + 1 \in 1 .. c /\ FreeRegisters[i + 1] = free[i]
    <3>1. FreeRegisters = [i \in 1 .. c |-> freeList.slots[FreeRing!Advance(freeList.head, i - 1)]]
      BY DEF FreeRegisters, FreeRing!Contents
    <3>2. \A i \in 1 .. c : i - 1 \in 0 .. c - 1
      BY <2>1
    <3>3. \A i \in 0 .. c - 1 : i + 1 \in 1 .. c /\ i + 1 - 1 = i
      BY <2>1
    <3>4. \A i \in 0 .. c - 1 : free[i] = freeList.slots[FreeRing!Advance(freeList.head, i)]
      BY DEF FreeOf
    <3> QED BY <3>1, <3>2, <3>3, <3>4
  <2> DEFINE frees == {FreeRegisters[i] : i \in DOMAIN FreeRegisters}
             inFlight == {activeList[i].new : i \in Writers}
  <2> HIDE DEF c, free, list
  <2>4. /\ \A p \in frees : p \in R /\ \E i \in 0 .. c - 1 : free[i] = p
        /\ \A i \in 0 .. c - 1 : free[i] \in frees
    <3>1. ASSUME NEW i \in 1 .. c
          PROVE  FreeRegisters[i] \in R /\ \E k \in 0 .. c - 1 : free[k] = FreeRegisters[i]
      <4>1. i - 1 \in 0 .. c - 1 /\ FreeRegisters[i] = free[i - 1]
        BY <2>3
      <4> QED BY <2>1, <4>1 DEF PartitionOf
    <3>2. ASSUME NEW i \in 0 .. c - 1
          PROVE  \E k \in DOMAIN FreeRegisters : FreeRegisters[k] = free[i]
      <4>1. i + 1 \in DOMAIN FreeRegisters /\ FreeRegisters[i + 1] = free[i]
        BY <2>3
      <4> QED BY <4>1
    <3>3. ASSUME NEW p \in frees
          PROVE  p \in R /\ \E i \in 0 .. c - 1 : free[i] = p
      <4>1. PICK i \in 1 .. c : FreeRegisters[i] = p
        BY <2>3
      <4> QED BY <3>1, <4>1
    <3>4. \A i \in 0 .. c - 1 : free[i] \in frees
      BY <3>2
    <3> HIDE DEF frees, R
    <3> QED BY <3>3, <3>4
  <2>5. /\ \A p \in inFlight : p \in R /\ \E i \in WritersOf(list) : list[i].new = p
        /\ \A i \in WritersOf(list) : list[i].new \in inFlight
    BY SMTT(30), <2>1, <2>2 DEF PartitionOf
  <2>6. /\ \A p \in MappedRegisters : p \in R /\ \E l \in Logical : commitTable[l] = p
        /\ \A l \in Logical : commitTable[l] # 0 => commitTable[l] \in MappedRegisters
    BY <2>1, Sizes DEF MappedRegisters, Physical
  <2>7. Physical \ {0} = R
    BY Sizes DEF Physical
  <2>8. \A p \in R : p \in frees \/ p \in inFlight \/ p \in MappedRegisters
    BY <2>1, <2>4, <2>5, <2>6 DEF PartitionOf
  <2>9. frees \cup inFlight \cup MappedRegisters = Physical \ {0}
    <3> HIDE DEF frees, inFlight, R
    <3> QED BY <2>4, <2>5, <2>6, <2>7, <2>8
  <2>10. \A i, j \in DOMAIN FreeRegisters : FreeRegisters[i] = FreeRegisters[j] => i = j
    <3> SUFFICES ASSUME NEW i \in 1 .. c, NEW j \in 1 .. c, FreeRegisters[i] = FreeRegisters[j]
                 PROVE  i = j
      BY <2>3
    <3>1. /\ i - 1 \in 0 .. c - 1 /\ j - 1 \in 0 .. c - 1
          /\ free[i - 1] = free[j - 1]
      BY <2>3
    <3>2. i - 1 = j - 1
      BY <2>1, <3>1 DEF PartitionOf
    <3> QED BY <2>1, <3>2
  <2>11. \A i, j \in Writers : activeList[i].new = activeList[j].new => i = j
    BY <2>1, <2>2 DEF PartitionOf
  <2>12. \A k, l \in Logical : commitTable[k] = commitTable[l] /\ commitTable[k] # 0 => k = l
    BY <2>1 DEF PartitionOf
  <2>13. /\ frees \cap inFlight = {} /\ frees \cap MappedRegisters = {}
         /\ inFlight \cap MappedRegisters = {}
    <3> HIDE DEF frees, inFlight
    <3> QED BY <2>1, <2>4, <2>5, <2>6 DEF PartitionOf
  <2> QED BY <2>9, <2>10, <2>11, <2>12, <2>13 DEF RegistersPartitioned
<1> QED BY <1>1, Invariant, PTL

\* Maps, over the active list, is MappingBefore.
LEMMA MapsIs ==
  ASSUME TypeOK, NEW l, NEW i \in Nat, NEW p, Maps(FixedOf(activeList), commitTable, l, i, p)
  PROVE  p = MappingBefore(l, i)
<1> DEFINE list == FixedOf(activeList)
           W == {j \in Writers : j < i /\ activeList[j].dest = l}
           M == CHOOSE j \in W : \A k \in W : k <= j
<1>1. activeList \in Seq(Entry) /\ DOMAIN activeList = 1 .. Len(activeList) /\ Len(activeList) \in Nat
  BY DEF TypeOK
<1>2. /\ Writers = WritersOf(list)
      /\ \A j \in Writers : /\ j \in Nat /\ list[j].new = activeList[j].new
                            /\ list[j].dest = activeList[j].dest
  <2>1. DOMAIN list = 1 .. Len(activeList)
    BY DEF FixedOf
  <2> QED BY <1>1, <2>1, FixedIs DEF Writers, WritersOf, HasDest
<1>3. MappingBefore(l, i) = IF W = {} THEN commitTable[l] ELSE activeList[M].new
  BY DEF MappingBefore
<1> HIDE DEF list, M
<1>4. CASE /\ \A j \in WritersOf(list) : j < i => list[j].dest # l
           /\ p = commitTable[l]
  <2>1. W = {}
    BY <1>2, <1>4
  <2> QED BY <1>3, <1>4, <2>1
<1>5. ASSUME NEW j \in WritersOf(list), j < i, list[j].dest = l, p = list[j].new,
             \A k \in WritersOf(list) : j < k /\ k < i => list[k].dest # l
      PROVE  p = MappingBefore(l, i)
  <2>1. j \in W
    BY <1>2, <1>5
  <2>2. \A k \in W : k <= j
    BY <1>2, <1>5
  <2> HIDE DEF W
  <2>3. M \in W /\ \A k \in W : k <= M
    BY <2>1, <2>2 DEF M
  <2>4. M = j
    <3>1. M \in Nat /\ j \in Nat
      BY <1>2, <2>1, <2>3 DEF W
    <3> QED BY <2>1, <2>2, <2>3, <3>1
  <2> QED BY <1>2, <1>3, <1>5, <2>1, <2>4
<1> QED BY <1>4, <1>5 DEF Maps, list

\* map_table.py's speculative table is the committed one with everything in flight applied.
THEOREM SpecTableFollows ==
  ASSUME ~SetReadyWins
  PROVE  Spec => []SpecTableIsYoungest
<1>1. ASSUME IInv PROVE SpecTableIsYoungest
  <2>1. TypeOK /\ MappingOf(FixedOf(activeList), commitTable, specTable)
    BY <1>1 DEF IInv, DataOK
  <2>2. Len(FixedOf(activeList)) = Len(activeList) /\ Len(activeList) + 1 \in Nat
    BY <2>1, FixedIs DEF TypeOK
  <2> QED BY <2>1, <2>2, MapsIs DEF MappingOf, SpecTableIsYoungest
<1> QED BY <1>1, Invariant, PTL

\* The register an instruction frees when it retires is the one its result replaces.
THEOREM FreesReplaced ==
  ASSUME ~SetReadyWins
  PROVE  Spec => []FreesWhatItReplaces
<1>1. ASSUME IInv PROVE FreesWhatItReplaces
  <2>1. TypeOK /\ MappingOf(FixedOf(activeList), commitTable, specTable)
    BY <1>1 DEF IInv, DataOK
  <2>2. activeList \in Seq(Entry) /\ DOMAIN activeList = 1 .. Len(activeList)
    BY <2>1 DEF TypeOK
  <2>3. DOMAIN FixedOf(activeList) = 1 .. Len(activeList)
    BY DEF FixedOf
  <2>4. ASSUME NEW i \in Writers
        PROVE  activeList[i].old = MappingBefore(activeList[i].dest, i)
    <3>1. /\ i \in WritersOf(FixedOf(activeList)) /\ i \in Nat
          /\ FixedOf(activeList)[i].dest = activeList[i].dest
          /\ FixedOf(activeList)[i].old = activeList[i].old
      BY <2>2, <2>3, FixedIs DEF Writers, WritersOf, HasDest
    <3>2. Maps(FixedOf(activeList), commitTable, activeList[i].dest, i, activeList[i].old)
      BY <2>1, <3>1 DEF MappingOf
    <3> QED BY <2>1, <3>1, <3>2, MapsIs
  <2> QED BY <2>4 DEF FreesWhatItReplaces
<1> QED BY <1>1, Invariant, PTL
-----------------------------------------------------------------------------
(***************************************************************************)
(* The ready bits and the operands.                                        *)
(*                                                                         *)
(* An entry does not say which logical register it reads, only which       *)
(* physical one.  That nobody reuses this register before the entry        *)
(* retires follows from where it came from: it is the mapping of some      *)
(* logical register before the entry (Maps), and so belongs to the         *)
(* committed table or to an older writer.                                  *)
(***************************************************************************)

\* Every entry reads what some logical register was mapped to when it was decoded.
SourcesMapped ==
  \A i \in 1 .. Len(activeList) : \E l \in Logical :
    Maps(FixedOf(activeList), commitTable, l, i, activeList[i].source)

\* An entry without a destination names register 0.
NoDestNoRegister == \A i \in DOMAIN activeList : ~HasDest(activeList[i]) => activeList[i].new = 0

\* A load that is still on its way meets an empty active list.
LateLoadAlone == lateLoad # {} => activeList = <<>>

RInv ==
  /\ IInv
  /\ SourcesMapped
  /\ NoDestNoRegister
  /\ LateLoadAlone
  /\ ReadyTracksProducer
  /\ ProducersFinishFirst

-----------------------------------------------------------------------------
(* Owners of registers. *)

\* What the partition says of the active list itself.
LEMMA WritersDiffer ==
  ASSUME IInv
  PROVE  /\ DOMAIN activeList = 1 .. Len(activeList) /\ Len(activeList) \in Nat
         /\ \A i \in DOMAIN activeList : activeList[i] \in Entry
         /\ Writers = WritersOf(FixedOf(activeList))
         /\ \A i \in Writers : activeList[i].new = FixedOf(activeList)[i].new
         /\ \A i \in Writers : activeList[i].new # 0
         /\ \A i, j \in Writers : activeList[i].new = activeList[j].new => i = j
<1>1. /\ activeList \in Seq(Entry) /\ DOMAIN activeList = 1 .. Len(activeList)
      /\ Len(activeList) \in Nat
      /\ PartitionOf(FreeOf(freeList), freeList.count, FixedOf(activeList), commitTable)
  BY DEF IInv, TypeOK, DataOK
<1>2. DOMAIN FixedOf(activeList) = 1 .. Len(activeList)
  BY DEF FixedOf
<1>3. /\ Writers = WritersOf(FixedOf(activeList))
      /\ \A i \in Writers : activeList[i].new = FixedOf(activeList)[i].new
  BY <1>1, <1>2, FixedIs DEF Writers, WritersOf, HasDest
<1>4. /\ \A i \in Writers : activeList[i].new \in 1 .. RegisterNumber - 1
      /\ \A i, j \in Writers : activeList[i].new = activeList[j].new => i = j
  BY <1>1, <1>3 DEF PartitionOf
<1>5. \A i \in Writers : activeList[i].new # 0
  BY <1>4
<1> QED BY <1>1, <1>3, <1>4, <1>5

\* The mapping before an entry is owned by the committed table or by an older writer.
LEMMA OwnerOfMapping ==
  ASSUME IInv, NEW l \in Logical, NEW i \in DOMAIN activeList, NEW p, p # 0,
         Maps(FixedOf(activeList), commitTable, l, i, p)
  PROVE  /\ \A k \in DOMAIN FreeRegisters : FreeRegisters[k] # p
         /\ \A j \in Writers : j >= i => activeList[j].new # p
<1> DEFINE list == FixedOf(activeList)
           c == freeList.count
           free == FreeOf(freeList)
<1>1. PartitionOf(free, c, list, commitTable) /\ c \in Nat
  BY DEF IInv, DataOK, TypeOK, FreeRing!Queues
<1>2. /\ DOMAIN activeList = 1 .. Len(activeList) /\ Len(activeList) \in Nat
      /\ Writers = WritersOf(list) /\ Writers \subseteq DOMAIN activeList
      /\ \A j \in Writers : activeList[j].new = list[j].new
  BY WritersDiffer DEF Writers
<1>3. \A k \in DOMAIN FreeRegisters : \E m \in 0 .. c - 1 : FreeRegisters[k] = free[m]
  <2>1. FreeRegisters = [k \in 1 .. c |-> freeList.slots[FreeRing!Advance(freeList.head, k - 1)]]
    BY DEF FreeRegisters, FreeRing!Contents
  <2>2. \A k \in 1 .. c : k - 1 \in 0 .. c - 1
    BY <1>1
  <2>3. \A m \in 0 .. c - 1 : free[m] = freeList.slots[FreeRing!Advance(freeList.head, m)]
    BY DEF FreeOf
  <2> QED BY <2>1, <2>2, <2>3
<1> HIDE DEF list, c, free
<1>4. CASE p = commitTable[l]
  BY <1>1, <1>2, <1>3, <1>4 DEF PartitionOf
<1>5. ASSUME NEW j \in WritersOf(list), j < i, p = list[j].new
      PROVE  /\ \A k \in DOMAIN FreeRegisters : FreeRegisters[k] # p
             /\ \A k \in Writers : k >= i => activeList[k].new # p
  <2>1. \A k \in DOMAIN FreeRegisters : FreeRegisters[k] # p
    BY <1>1, <1>3, <1>5 DEF PartitionOf
  <2>2. ASSUME NEW k \in Writers, k >= i PROVE activeList[k].new # p
    <3>1. k # j /\ j \in Writers
      BY <1>2, <1>5, <2>2
    <3> QED BY <1>2, <1>5, <3>1, WritersDiffer
  <2> QED BY <2>1, <2>2
<1> QED BY <1>4, <1>5 DEF Maps, list

\* What the invariant implies for the operands.
LEMMA SourcesOwned ==
  ASSUME RInv
  PROVE  SourcesSurvive
<1>1. IInv /\ SourcesMapped
  BY DEF RInv
<1> SUFFICES ASSUME NEW i \in DOMAIN activeList, activeList[i].source # 0
             PROVE  /\ \A k \in DOMAIN FreeRegisters : FreeRegisters[k] # activeList[i].source
                    /\ \A j \in Writers : j >= i => activeList[j].new # activeList[i].source
  BY DEF SourcesSurvive
<1>2. PICK l \in Logical : Maps(FixedOf(activeList), commitTable, l, i, activeList[i].source)
  BY <1>1, WritersDiffer DEF SourcesMapped
<1> QED BY <1>1, <1>2, OwnerOfMapping

-----------------------------------------------------------------------------
(* What a cycle makes of the entries. *)

\* What is decided when an entry is decoded, its operand included.
Decoded(e) == <<e.op, e.dest, e.new, e.source>>

\* Finishing sets a ready bit and leaves what was decoded.
LEMMA FinishedEntries ==
  ASSUME TypeOK, NEW done, NEW wrong \in BOOLEAN, NEW f, f = Finished(done, wrong)
  PROVE  \A i \in DOMAIN activeList :
           /\ Decoded(f[i]) = Decoded(activeList[i])
           /\ f[i].ready <=> activeList[i].ready \/ i \in done
<1>1. \A i \in DOMAIN activeList : activeList[i] \in Entry
  BY DEF TypeOK
<1>2. f = [i \in DOMAIN activeList |->
             IF i \in done
               THEN [activeList[i] EXCEPT !.ready = TRUE,
                                          !.mispredicted = wrong /\ activeList[i].op = "branch"]
               ELSE activeList[i]]
  BY DEF Finished
<1> SUFFICES ASSUME NEW i \in DOMAIN activeList
             PROVE  /\ Decoded(f[i]) = Decoded(activeList[i])
                    /\ f[i].ready <=> activeList[i].ready \/ i \in done
  OBVIOUS
<1>3. CASE i \in done
  <2> DEFINE m == wrong /\ activeList[i].op = "branch"
  <2>1. f[i] = [activeList[i] EXCEPT !.ready = TRUE, !.mispredicted = m]
    BY <1>2, <1>3
  <2>2. activeList[i] \in Entry
    BY <1>1
  <2> HIDE DEF m
  <2> QED BY <1>3, <2>1, <2>2 DEF Entry, Decoded
<1>4. CASE i \notin done
  BY <1>2, <1>4
<1> QED BY <1>3, <1>4

\* Without recovery: the entries move up by the r that retire, finish if they are among
\* those done, and the decoded one comes last.
LEMMA EntriesAfter ==
  ASSUME TypeOK, ~SetReadyWins, ~FlushRecover, NEW ins \in Decodes, NEW done,
         NEW wrong \in BOOLEAN, ActiveListBuild(ins, done, wrong),
         NEW r, r = IF Retires THEN 1 ELSE 0
  PROVE  /\ r \in Nat /\ r <= Len(activeList) /\ Len(activeList) \in Nat
         /\ activeList' \in Seq(Entry) /\ DOMAIN activeList' = 1 .. Len(activeList')
         /\ Len(activeList') = IF ins = Bubble THEN Len(activeList) - r
                               ELSE Len(activeList) - r + 1
         /\ \A i \in 1 .. Len(activeList) - r :
              /\ i + r \in DOMAIN activeList
              /\ Decoded(activeList'[i]) = Decoded(activeList[i + r])
              /\ activeList'[i].ready <=> activeList[i + r].ready \/ i + r \in done
         /\ ins # Bubble => activeList'[Len(activeList) - r + 1] = NewEntry(ins)
<1>1. PICK f : f = Finished(done, wrong)
  OBVIOUS
<1>2. f \in Seq(Entry) /\ Len(f) = Len(activeList)
  BY <1>1, FinishedIs
<1>3. activeList \in Seq(Entry) /\ Len(activeList) \in Nat /\ DOMAIN activeList = 1 .. Len(activeList)
  BY DEF TypeOK
<1>4. PICK g : g = IF Retires THEN Tail(f) ELSE f
  OBVIOUS
<1>5. activeList' = IF ins = Bubble THEN g ELSE Append(g, NewEntry(ins))
  BY <1>1, <1>4 DEF ActiveListBuild, Pushed
<1>6. r \in Nat /\ r <= Len(activeList)
  <2>1. Retires => Len(activeList) # 0
    BY <1>3 DEF Retires
  <2> QED BY <1>3, <2>1
<1>7. /\ g \in Seq(Entry) /\ Len(g) = Len(activeList) - r
      /\ \A i \in 1 .. Len(activeList) - r : g[i] = f[i + r]
  <2>1. CASE Retires
    <3>1. f # <<>> /\ r = 1
      <4>1. Len(f) # 0
        BY <1>2, <1>3, <2>1 DEF Retires
      <4> QED BY <2>1, <4>1
    <3>2. /\ Tail(f) \in Seq(Entry) /\ Len(Tail(f)) = Len(f) - 1
          /\ \A i \in 1 .. Len(f) - 1 : Tail(f)[i] = f[i + 1]
      BY <1>2, <3>1
    <3> QED BY <1>2, <1>4, <2>1, <3>1, <3>2
  <2>2. CASE ~Retires
    BY <1>2, <1>3, <1>4, <2>2
  <2> QED BY <2>1, <2>2
<1>8. \A i \in 1 .. Len(activeList) - r :
        /\ i + r \in DOMAIN activeList
        /\ Decoded(g[i]) = Decoded(activeList[i + r])
        /\ g[i].ready <=> activeList[i + r].ready \/ i + r \in done
  <2>1. \A i \in 1 .. Len(activeList) - r : i + r \in DOMAIN activeList
    BY <1>3, <1>6
  <2>2. \A i \in DOMAIN activeList :
          /\ Decoded(f[i]) = Decoded(activeList[i])
          /\ f[i].ready <=> activeList[i].ready \/ i \in done
    BY <1>1, FinishedEntries
  <2> QED BY <1>7, <2>1, <2>2
<1>9. CASE ins = Bubble
  <2>1. activeList' = g
    BY <1>5, <1>9
  <2>2. DOMAIN g = 1 .. Len(g)
    BY <1>7
  <2> QED BY <1>3, <1>6, <1>7, <1>8, <1>9, <2>1, <2>2
<1>10. CASE ins # Bubble
  <2>1. NewEntry(ins) \in Entry
    BY <1>10, NewEntryIs
  <2>2. PICK n \in Nat : n = Len(activeList) - r
    <3>1. Len(activeList) - r \in Nat
      BY <1>3, <1>6
    <3> QED BY <3>1
  <2>3. /\ Append(g, NewEntry(ins)) \in Seq(Entry)
        /\ Len(Append(g, NewEntry(ins))) = n + 1
        /\ DOMAIN Append(g, NewEntry(ins)) = 1 .. n + 1
        /\ \A i \in 1 .. n : Append(g, NewEntry(ins))[i] = g[i]
        /\ Append(g, NewEntry(ins))[n + 1] = NewEntry(ins)
    BY <1>7, <2>1, <2>2
  <2> QED BY <1>3, <1>5, <1>6, <1>8, <1>10, <2>2, <2>3
<1> QED BY <1>9, <1>10

-----------------------------------------------------------------------------
(* The operands. *)

\* The mapping before an entry does not change when a younger one is appended.
LEMMA WithMaps ==
  ASSUME NEW list \in Seq(FixedEntry), NEW x \in FixedEntry, NEW commit, NEW l,
         NEW i \in 1 .. Len(list) + 1, NEW p, Maps(list, commit, l, i, p)
  PROVE  Maps(With(list, x), commit, l, i, p)
<1> DEFINE more == With(list, x)
           n == Len(list)
<1>1. /\ \A j \in WritersOf(more) :
           \/ j = n + 1 /\ more[j] = x /\ x.dest # 0
           \/ j \in WritersOf(list) /\ more[j] = list[j]
      /\ \A j \in WritersOf(list) : j \in 1 .. n /\ j \in WritersOf(more) /\ more[j] = list[j]
      /\ n \in Nat /\ i \in 1 .. n + 1
  BY WithIs
<1> HIDE DEF more, n
<1>2. \A j \in WritersOf(more) : j < i => j \in WritersOf(list) /\ more[j] = list[j]
  BY <1>1
<1>3. CASE /\ \A j \in WritersOf(list) : j < i => list[j].dest # l
           /\ p = commit[l]
  BY <1>2, <1>3 DEF Maps, more
<1>4. CASE \E j \in WritersOf(list) :
             /\ j < i /\ list[j].dest = l /\ p = list[j].new
             /\ \A k \in WritersOf(list) : j < k /\ k < i => list[k].dest # l
  <2> SUFFICES Maps(more, commit, l, i, p)
    BY DEF more
  <2> QED BY <1>1, <1>2, <1>4 DEF Maps
<1> QED BY <1>3, <1>4 DEF Maps

\* The committed table after a cycle without recovery.
LEMMA CommitTableIs ==
  ASSUME TypeOK, ~FlushRecover, NEW ins \in Decodes, NEW done, NEW wrong \in BOOLEAN,
         Cycle(ins, done, wrong)
  PROVE  commitTable' = IF Retires THEN Committed(commitTable, FixedOf(activeList)[1])
                        ELSE commitTable
<1>1. commitTable' = IF WritesCommit THEN [commitTable EXCEPT ![Oldest.dest] = Oldest.new]
                     ELSE commitTable
  BY DEF Cycle, MapTableBuild
<1>2. CASE ~Retires
  BY <1>1, <1>2 DEF WritesCommit
<1>3. CASE Retires
  <2>1. /\ FixedOf(activeList)[1].dest = Oldest.dest
        /\ FixedOf(activeList)[1].new = Oldest.new
    BY <1>3, OldestIs DEF Retires
  <2>2. commitTable' = IF Oldest.dest # 0 THEN [commitTable EXCEPT ![Oldest.dest] = Oldest.new]
                       ELSE commitTable
    BY <1>1, <1>3 DEF WritesCommit, HasDest
  <2> QED BY <1>3, <2>1, <2>2 DEF Committed
<1> QED BY <1>2, <1>3

LEMMA SourcesStep ==
  ASSUME RInv, ~SetReadyWins, ~FlushRecover, NEW ins \in Decodes, NEW done,
         NEW wrong \in BOOLEAN, Cycle(ins, done, wrong)
  PROVE  SourcesMapped'
<1> DEFINE list == FixedOf(activeList)
<1>1. /\ TypeOK /\ SourcesMapped /\ list \in Seq(FixedEntry) /\ Len(list) = Len(activeList)
      /\ commitTable \in [Logical -> Physical]
      /\ MappingOf(list, commitTable, specTable)
      /\ Len(activeList) \in Nat
  BY FixedIs DEF RInv, IInv, TypeOK, DataOK
<1>2. PICK r : r = IF Retires THEN 1 ELSE 0
  OBVIOUS
<1>3. PICK kept : kept = IF Retires THEN Rest(list) ELSE list
  OBVIOUS
<1>4. ActiveListBuild(ins, done, wrong)
  BY DEF Cycle
<1>5. FixedOf(activeList') = IF ins = Bubble THEN kept ELSE With(kept, FixedNew(ins))
  <2>1. kept = IF Retires THEN Rest(FixedOf(activeList)) ELSE FixedOf(activeList)
    BY <1>3
  <2> QED BY <1>1, <1>4, <2>1, ListStep
<1>6. /\ r \in Nat /\ r <= Len(activeList)
      /\ DOMAIN activeList' = 1 .. Len(activeList')
      /\ Len(activeList') = IF ins = Bubble THEN Len(activeList) - r
                            ELSE Len(activeList) - r + 1
      /\ \A i \in 1 .. Len(activeList) - r :
           /\ i + r \in DOMAIN activeList
           /\ Decoded(activeList'[i]) = Decoded(activeList[i + r])
      /\ ins # Bubble => activeList'[Len(activeList) - r + 1] = NewEntry(ins)
  BY <1>1, <1>2, <1>4, EntriesAfter
<1>7. commitTable' = IF Retires THEN Committed(commitTable, list[1]) ELSE commitTable
  BY <1>1, CommitTableIs
<1>8. Retires => list # <<>>
  BY <1>1, OldestIs DEF Retires
<1> HIDE DEF list
<1>9. kept \in Seq(FixedEntry) /\ Len(kept) = Len(activeList) - r
  <2>1. CASE Retires
    BY <1>1, <1>2, <1>3, <1>8, <2>1, RestIs
  <2>2. CASE ~Retires
    BY <1>1, <1>2, <1>3, <2>2
  <2> QED BY <2>1, <2>2
<1>10. MappingOf(kept, commitTable', specTable)
  <2>1. CASE Retires
    BY <1>1, <1>3, <1>7, <1>8, <2>1, RetireMapping
  <2>2. CASE ~Retires
    BY <1>1, <1>3, <1>7, <2>2
  <2> QED BY <2>1, <2>2
<1>11. ASSUME NEW i \in 1 .. Len(activeList) - r
       PROVE  \E l \in Logical : Maps(kept, commitTable', l, i, activeList'[i].source)
  <2>1. i + r \in 1 .. Len(activeList) /\ activeList'[i].source = activeList[i + r].source
    BY <1>1, <1>6 DEF Decoded, TypeOK
  <2>2. PICK l \in Logical : Maps(list, commitTable, l, i + r, activeList[i + r].source)
    BY <1>1, <2>1 DEF SourcesMapped, list
  <2>3. CASE Retires
    <3>1. r = 1 /\ i \in 1 .. Len(list)
      BY <1>1, <1>2, <1>6, <2>1, <2>3
    <3>2. Maps(Rest(list), Committed(commitTable, list[1]), l, i, activeList[i + r].source)
      BY <1>1, <1>8, <2>2, <2>3, <3>1, RetireMaps
    <3> QED BY <1>3, <1>7, <2>1, <2>3, <3>2
  <2>4. CASE ~Retires
    <3>1. r = 0 /\ i + r = i
      BY <1>2, <2>4
    <3> QED BY <1>3, <1>7, <2>1, <2>2, <2>4, <3>1
  <2> QED BY <2>3, <2>4
<1>12. CASE ins = Bubble
  <2>1. Len(activeList') = Len(activeList) - r /\ FixedOf(activeList') = kept
    BY <1>5, <1>6, <1>12
  <2> QED BY <1>11, <2>1 DEF SourcesMapped, Logical
<1>13. CASE ins # Bubble
  <2> DEFINE x == FixedNew(ins)
             n == Len(kept)
  <2>1. /\ x \in FixedEntry /\ FixedOf(activeList') = With(kept, x)
        /\ n \in Nat /\ n = Len(activeList) - r /\ Len(activeList') = n + 1
    BY <1>1, <1>5, <1>6, <1>9, <1>13, NewEntryIs
  <2> HIDE DEF x, n
  <2>2. ASSUME NEW i \in 1 .. n + 1, NEW l, NEW p, Maps(kept, commitTable', l, i, p)
        PROVE  Maps(With(kept, x), commitTable', l, i, p)
    <3>1. i \in 1 .. Len(kept) + 1
      BY DEF n
    <3> QED BY <1>9, <2>1, <2>2, <3>1, WithMaps
  <2>3. ASSUME NEW i \in 1 .. n + 1
        PROVE  \E l \in Logical : Maps(kept, commitTable', l, i, activeList'[i].source)
    <3>1. CASE i \in 1 .. n
      BY <1>11, <2>1, <3>1
    <3>2. CASE i = n + 1
      <4>1. activeList'[i].source = specTable[ins.source]
        BY <1>6, <1>13, <2>1, <3>2 DEF NewEntry, Operand
      <4>2. ins.source \in Logical
        BY DecodesIs
      <4>3. Maps(kept, commitTable', ins.source, n + 1, specTable[ins.source])
        BY <1>10, <4>2 DEF MappingOf, n
      <4> QED BY <3>2, <4>1, <4>2, <4>3
    <3>3. i \in 1 .. n \/ i = n + 1
      BY <2>1
    <3> QED BY <3>1, <3>2, <3>3
  <2>4. ASSUME NEW i \in 1 .. n + 1
        PROVE  \E l \in Logical : Maps(FixedOf(activeList'), commitTable', l, i, activeList'[i].source)
    BY <2>1, <2>2, <2>3
  <2> QED BY <2>1, <2>4 DEF SourcesMapped, Logical
<1> QED BY <1>12, <1>13

-----------------------------------------------------------------------------
(* The ready bits. *)

\* p is the destination of an unfinished entry.
Awaited(list, p) == \E i \in DOMAIN list : list[i].dest # 0 /\ list[i].new = p /\ ~list[i].ready

\* ReadyTracksProducer in these terms.
LEMMA AwaitedIs ==
  ReadyTracksProducer <=> \A p \in Physical : ~registerReady[p] <=> Awaited(activeList, p)
BY DEF ReadyTracksProducer, Awaited, Writers, HasDest

\* Only the destination of an instruction that is not a store can become not ready.
LEMMA NewEntryWaits ==
  ASSUME TypeOK, NEW ins \in Decodes, ins # Bubble
  PROVE  /\ NewEntry(ins).dest = ins.dest /\ NewEntry(ins).new = Allocated(ins)
         /\ NewEntry(ins).op = ins.op
         /\ NewEntry(ins).ready <=> ins.op = "store"
         /\ ins.dest # 0 => ins.op # "store"
         /\ ins.dest = 0 => Allocated(ins) = 0
<1>1. ins.dest # 0 => ins.op # "store"
  BY InstructionsAssumption DEF Decodes, Instruction
<1> QED BY <1>1 DEF NewEntry, Allocated, HasDest

\* A register that is not ready becomes ready when an entry that writes it is done.
LEMMA ReadyBitsAre ==
  ASSUME RInv, ~FlushRecover, NEW ins \in Decodes, NEW done \in SUBSET Executable,
         NEW wrong \in BOOLEAN, Cycle(ins, done, wrong), NEW p \in Physical
  PROVE  ~registerReady'[p] <=>
           \/ ins.dest # 0 /\ p = Allocated(ins)
           \/ ~registerReady[p] /\ \A i \in done : activeList[i].new # p
<1>1. registerReady' = [q \in Physical |-> FlushRecover \/ NextReady(q, ins, done)]
  BY DEF Cycle, RegisterReadyBuild
<1>2. registerReady'[p] <=> NextReady(p, ins, done)
  BY <1>1
<1>3. NextReady(p, ins, done) <=>
        ~(ins.dest # 0 /\ p = Allocated(ins)) /\ (p \in Results(done) \/ registerReady[p])
  BY DEF NextReady, HasDest
<1>4. ASSUME ~registerReady[p]
      PROVE  p \in Results(done) <=> \E i \in done : activeList[i].new = p
  <2>1. Awaited(activeList, p)
    BY <1>4, AwaitedIs DEF RInv
  <2>2. activeList # <<>>
    BY <2>1, WritersDiffer DEF Awaited, RInv
  <2>3. lateLoad = {}
    BY <2>2 DEF RInv, LateLoadAlone
  <2> QED BY <2>3 DEF Results
<1> QED BY <1>2, <1>3, <1>4

LEMMA ReadyStep ==
  ASSUME RInv, ~SetReadyWins, ~FlushRecover, NEW ins \in Decodes, NEW done \in SUBSET Executable,
         NEW wrong \in BOOLEAN, Cycle(ins, done, wrong)
  PROVE  ReadyTracksProducer' /\ NoDestNoRegister' /\ ProducersFinishFirst'
<1>1. PICK r : r = IF Retires THEN 1 ELSE 0
  OBVIOUS
<1>2. TypeOK /\ ActiveListBuild(ins, done, wrong)
  BY DEF RInv, IInv, Cycle
<1>3. /\ r \in Nat /\ r <= Len(activeList) /\ Len(activeList) \in Nat
      /\ activeList' \in Seq(Entry) /\ DOMAIN activeList' = 1 .. Len(activeList')
      /\ Len(activeList') = IF ins = Bubble THEN Len(activeList) - r
                            ELSE Len(activeList) - r + 1
      /\ \A i \in 1 .. Len(activeList) - r :
           /\ i + r \in DOMAIN activeList
           /\ Decoded(activeList'[i]) = Decoded(activeList[i + r])
           /\ activeList'[i].ready <=> activeList[i + r].ready \/ i + r \in done
      /\ ins # Bubble => activeList'[Len(activeList) - r + 1] = NewEntry(ins)
  BY <1>1, <1>2, EntriesAfter
<1>4. /\ DOMAIN activeList = 1 .. Len(activeList)
      /\ \A i \in DOMAIN activeList : activeList[i] \in Entry
      /\ Writers \subseteq DOMAIN activeList
      /\ \A i \in Writers : activeList[i].new # 0
      /\ \A i, j \in Writers : activeList[i].new = activeList[j].new => i = j
  BY WritersDiffer DEF RInv, Writers
<1>5. \A i \in 1 .. Len(activeList) - r :
        /\ activeList'[i].op = activeList[i + r].op
        /\ activeList'[i].dest = activeList[i + r].dest
        /\ activeList'[i].new = activeList[i + r].new
        /\ activeList'[i].source = activeList[i + r].source
  BY <1>3 DEF Decoded
<1>6. done \subseteq DOMAIN activeList /\ \A i \in done : registerReady[activeList[i].source]
  BY DEF Executable, Unfinished
<1>7. ins = Bubble <=> ~(Len(activeList) - r + 1 \in DOMAIN activeList')
  BY <1>3
<1>8. ASSUME NEW i \in DOMAIN activeList'
      PROVE  i \in 1 .. Len(activeList) - r \/ (ins # Bubble /\ i = Len(activeList) - r + 1)
  BY <1>3
<1>9. ins.dest # 0 => ins # Bubble
  BY DecodesIs
<1>10. ReadyTracksProducer'
  <2>1. ASSUME NEW p \in Physical, ~registerReady'[p]
        PROVE  Awaited(activeList', p)
    <3>1. CASE ins.dest # 0 /\ p = Allocated(ins)
      <4>1. activeList'[Len(activeList) - r + 1] = NewEntry(ins)
        BY <1>3, <1>9, <3>1
      <4>2. /\ NewEntry(ins).dest # 0 /\ NewEntry(ins).new = p /\ ~NewEntry(ins).ready
        BY <1>2, <1>9, <3>1, NewEntryWaits
      <4> QED BY <1>7, <1>9, <3>1, <4>1, <4>2 DEF Awaited
    <3>2. CASE ~registerReady[p] /\ \A i \in done : activeList[i].new # p
      <4>1. Awaited(activeList, p)
        BY <3>2, AwaitedIs DEF RInv
      <4>2. PICK i \in DOMAIN activeList :
              activeList[i].dest # 0 /\ activeList[i].new = p /\ ~activeList[i].ready
        BY <4>1 DEF Awaited
      <4>3. i \notin done
        BY <3>2, <4>2
      <4>4. r = 1 => i # 1
        <5>1. Retires => activeList[1].ready
          BY <1>2 DEF Retires, Oldest, TypeOK
        <5> QED BY <1>1, <4>2, <5>1
      <4>5. i - r \in 1 .. Len(activeList) - r /\ (i - r) + r = i
        <5>1. i \in Nat /\ 1 <= i /\ i <= Len(activeList) /\ Len(activeList) \in Nat
          <6>1. Len(activeList) \in Nat /\ i \in 1 .. Len(activeList)
            BY <1>3, <1>4
          <6> QED BY <6>1
        <5>2. CASE r = 0
          BY <5>1, <5>2
        <5>3. CASE r = 1
          BY <4>4, <5>1, <5>3
        <5> QED BY <1>1, <5>2, <5>3
      <4>6. ~activeList'[i - r].ready
        BY <1>3, <4>2, <4>3, <4>5
      <4>7. i - r \in DOMAIN activeList'
        BY <1>3, <4>5
      <4> QED BY <1>5, <4>2, <4>5, <4>6, <4>7 DEF Awaited
    <3> QED BY <2>1, <3>1, <3>2, ReadyBitsAre
  <2>2. ASSUME NEW p \in Physical, Awaited(activeList', p)
        PROVE  ~registerReady'[p]
    <3>1. PICK i \in DOMAIN activeList' :
            activeList'[i].dest # 0 /\ activeList'[i].new = p /\ ~activeList'[i].ready
      BY <2>2 DEF Awaited
    <3>2. CASE ins # Bubble /\ i = Len(activeList) - r + 1
      <4>1. activeList'[i] = NewEntry(ins)
        BY <1>3, <3>2
      <4>2. ins.dest # 0 /\ p = Allocated(ins)
        BY <1>2, <3>1, <3>2, <4>1, NewEntryWaits
      <4> QED BY <4>2, ReadyBitsAre
    <3>3. CASE i \in 1 .. Len(activeList) - r
      <4>1. /\ i + r \in Writers /\ activeList[i + r].new = p
            /\ ~activeList[i + r].ready /\ i + r \notin done
        BY <1>3, <1>5, <3>1, <3>3 DEF Writers, HasDest
      <4>2. ~registerReady[p]
        BY <4>1 DEF RInv, ReadyTracksProducer
      <4>3. \A k \in done : activeList[k].new # p
        <5> SUFFICES ASSUME NEW k \in done, activeList[k].new = p PROVE FALSE
          OBVIOUS
        <5>1. p # 0 /\ k \in DOMAIN activeList
          BY <1>4, <1>6, <4>1
        <5>2. k \in Writers
          BY <5>1 DEF RInv, NoDestNoRegister, Writers
        <5> QED BY <1>4, <4>1, <5>2
      <4> QED BY <4>2, <4>3, ReadyBitsAre
    <3> QED BY <1>8, <3>2, <3>3
  <2>3. \A p \in Physical : ~registerReady'[p] <=> Awaited(activeList', p)
    BY <2>1, <2>2
  <2> QED BY <2>3 DEF ReadyTracksProducer, Awaited, Writers, HasDest, Physical
<1>11. NoDestNoRegister'
  <2> SUFFICES ASSUME NEW i \in DOMAIN activeList', activeList'[i].dest = 0
               PROVE  activeList'[i].new = 0
    BY DEF NoDestNoRegister, HasDest
  <2>1. CASE ins # Bubble /\ i = Len(activeList) - r + 1
    BY <1>2, <1>3, <2>1, NewEntryWaits
  <2>2. CASE i \in 1 .. Len(activeList) - r
    BY <1>3, <1>5, <2>2 DEF RInv, NoDestNoRegister, HasDest
  <2> QED BY <1>8, <2>1, <2>2
<1>12. ProducersFinishFirst'
  <2> SUFFICES ASSUME NEW i \in DOMAIN activeList', NEW j \in DOMAIN activeList',
                      activeList'[j].dest # 0, j < i,
                      activeList'[i].source = activeList'[j].new, activeList'[i].op # "store",
                      activeList'[i].ready
               PROVE  activeList'[j].ready
    BY DEF ProducersFinishFirst, Writers, HasDest
  <2>1. CASE ins # Bubble /\ i = Len(activeList) - r + 1
    BY <1>2, <1>3, <2>1, NewEntryWaits
  <2>2. CASE i \in 1 .. Len(activeList) - r
    <3>1. j \in 1 .. Len(activeList) - r
      BY <1>3, <2>2
    <3>2. /\ i + r \in DOMAIN activeList /\ j + r \in Writers /\ j + r < i + r
          /\ activeList[i + r].source = activeList[j + r].new /\ activeList[i + r].op # "store"
      BY SMTT(30), <1>3, <1>5, <2>2, <3>1 DEF Writers, HasDest
    <3>3. activeList[i + r].ready \/ i + r \in done
      BY <1>3, <2>2
    <3>4. CASE activeList[i + r].ready
      <4>1. activeList[j + r].ready
        BY <3>2, <3>4 DEF RInv, ProducersFinishFirst
      <4> QED BY <1>3, <3>1, <4>1
    <3>5. CASE i + r \in done
      <4>1. registerReady[activeList[j + r].new] /\ activeList[j + r].new \in Physical
        BY <1>4, <1>6, <3>2, <3>5 DEF Entry
      <4>2. activeList[j + r].ready
        BY <3>2, <4>1 DEF RInv, ReadyTracksProducer
      <4> QED BY <1>3, <3>1, <4>2
    <3> QED BY <3>3, <3>4, <3>5
  <2> QED BY <1>8, <2>1, <2>2
<1> QED BY <1>10, <1>11, <1>12

-----------------------------------------------------------------------------
(* The invariant is inductive. *)

LEMMA ReadyInit == Init => RInv
<1> SUFFICES ASSUME Init PROVE RInv
  OBVIOUS
<1>1. IInv
  BY InitHolds
<1>2. /\ activeList = <<>> /\ DOMAIN activeList = {} /\ Len(activeList) = 0
      /\ \A p \in Physical : registerReady[p]
      /\ lateLoad = {}
  BY DEF Init
<1>3. SourcesMapped /\ NoDestNoRegister /\ LateLoadAlone /\ ProducersFinishFirst
  BY <1>2 DEF SourcesMapped, NoDestNoRegister, LateLoadAlone, ProducersFinishFirst
<1>4. ReadyTracksProducer
  BY <1>2 DEF ReadyTracksProducer, Writers
<1> QED BY <1>1, <1>3, <1>4 DEF RInv

LEMMA ReadyNext ==
  ASSUME RInv, ~SetReadyWins, [Next]_vars
  PROVE  RInv'
<1>1. IInv'
  BY NextHolds DEF RInv
<1>2. ASSUME NEW ins \in Decodes, NEW done \in SUBSET Executable, NEW wrong \in BOOLEAN,
             ~FlushRecover, Cycle(ins, done, wrong), lateLoad' = {}
      PROVE  RInv'
  <2>1. SourcesMapped'
    BY <1>2, SourcesStep
  <2>2. ReadyTracksProducer' /\ NoDestNoRegister' /\ ProducersFinishFirst'
    BY <1>2, ReadyStep
  <2>3. LateLoadAlone'
    BY <1>2 DEF LateLoadAlone
  <2> QED BY <1>1, <2>1, <2>2, <2>3 DEF RInv
<1>3. ASSUME NEW ins \in Decodes, NEW done \in SUBSET Executable, NEW wrong \in BOOLEAN,
             Idle(ins, done, wrong)
      PROVE  RInv'
  <2>1. ~FlushRecover /\ Cycle(ins, done, wrong) /\ lateLoad' = {}
    BY <1>3 DEF Idle, FlushRecover
  <2> QED BY <1>2, <2>1
<1>4. ASSUME NEW ins \in Decodes, NEW done \in SUBSET Executable, NEW wrong \in BOOLEAN,
             Retire(ins, done, wrong)
      PROVE  RInv'
  <2>1. ~FlushRecover /\ Cycle(ins, done, wrong) /\ lateLoad' = {}
    BY <1>4 DEF Retire
  <2> QED BY <1>2, <2>1
<1>5. ASSUME NEW ins \in Decodes, Recover(ins)
      PROVE  RInv'
  <2>1. FlushRecover /\ Cycle(ins, {}, FALSE)
    BY <1>5 DEF Recover
  <2>2. activeList' = <<>> /\ DOMAIN activeList' = {} /\ Len(activeList') = 0
    BY <2>1 DEF Cycle, ActiveListBuild
  <2>3. \A p \in Physical : registerReady'[p]
    BY <2>1 DEF Cycle, RegisterReadyBuild
  <2>4. SourcesMapped'
    BY <2>2 DEF SourcesMapped
  <2>5. NoDestNoRegister' /\ LateLoadAlone' /\ ProducersFinishFirst'
    BY <2>2 DEF NoDestNoRegister, LateLoadAlone, ProducersFinishFirst
  <2>6. ReadyTracksProducer'
    BY <2>2, <2>3 DEF ReadyTracksProducer, Writers, Physical
  <2> QED BY <1>1, <2>4, <2>5, <2>6 DEF RInv
<1>6. CASE UNCHANGED vars
  <2>1. SourcesMapped'
    BY <1>6 DEF vars, RInv, SourcesMapped, Logical
  <2>2. NoDestNoRegister' /\ LateLoadAlone' /\ ProducersFinishFirst' /\ ReadyTracksProducer'
    BY <1>6 DEF vars, RInv, NoDestNoRegister, LateLoadAlone, ProducersFinishFirst,
                ReadyTracksProducer, Writers, HasDest, Physical
  <2> QED BY <1>1, <2>1, <2>2 DEF RInv
<1> QED BY <1>3, <1>4, <1>5, <1>6 DEF Next

THEOREM ReadyInvariant ==
  ASSUME ~SetReadyWins
  PROVE  Spec => []RInv
<1>1. RInv /\ [Next]_vars => RInv'
  BY ReadyNext
<1> QED BY <1>1, ReadyInit, PTL DEF Spec

-----------------------------------------------------------------------------
(* What it implies. *)

\* register_ready.py's bit of a register is clear exactly while the instruction that will
\* write it is in flight and unfinished, through flushes and writes of one cycle.
THEOREM ReadyBitsTrack ==
  ASSUME ~SetReadyWins
  PROVE  Spec => []ReadyTracksProducer
<1>1. RInv => ReadyTracksProducer
  BY DEF RInv
<1> QED BY <1>1, ReadyInvariant, PTL

\* No instruction executes before the producer of its operand has finished.
THEOREM ProducersFirst ==
  ASSUME ~SetReadyWins
  PROVE  Spec => []ProducersFinishFirst
<1>1. RInv => ProducersFinishFirst
  BY DEF RInv
<1> QED BY <1>1, ReadyInvariant, PTL

\* The register an instruction in flight reads has no new owner before it retires.
THEOREM OperandsSurvive ==
  ASSUME ~SetReadyWins
  PROVE  Spec => []SourcesSurvive
<1>1. RInv => SourcesSurvive
  BY SourcesOwned
<1> QED BY <1>1, ReadyInvariant, PTL

\* The oldest instruction can always execute: no wake-up is lost, at any size.
THEOREM OldestExecutes ==
  ASSUME ~SetReadyWins
  PROVE  Spec => []OldestNeverWaits
<1>1. ASSUME RInv PROVE OldestNeverWaits
  <2>1. IInv /\ ReadyTracksProducer /\ SourcesSurvive
    BY <1>1, SourcesOwned DEF RInv
  <2> SUFFICES ASSUME activeList # <<>>, ~Oldest.ready PROVE 1 \in Executable
    BY DEF OldestNeverWaits
  <2>2. /\ 1 \in DOMAIN activeList /\ Oldest = activeList[1] /\ activeList[1] \in Entry
        /\ Writers \subseteq DOMAIN activeList
        /\ DOMAIN activeList = 1 .. Len(activeList) /\ Len(activeList) \in Nat
    <3>1. activeList \in Seq(Entry)
      BY <2>1 DEF IInv, TypeOK
    <3> QED BY <3>1 DEF Oldest, Writers
  <2>3. registerReady[activeList[1].source]
    <3> SUFFICES ASSUME ~registerReady[activeList[1].source] PROVE FALSE
      OBVIOUS
    <3>1. activeList[1].source \in Physical
      BY <2>2 DEF Entry
    <3>2. PICK i \in Writers : activeList[i].new = activeList[1].source
      BY <2>1, <3>1 DEF ReadyTracksProducer
    <3>3. activeList[1].source # 0 /\ i >= 1
      BY <2>1, <2>2, <3>2, WritersDiffer
    <3> QED BY <2>1, <2>2, <3>2, <3>3 DEF SourcesSurvive
  <2> QED BY <2>2, <2>3 DEF Executable, Unfinished
<1> QED BY <1>1, ReadyInvariant, PTL
=============================================================================
