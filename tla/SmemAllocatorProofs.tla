------------------------ MODULE SmemAllocatorProofs ------------------------
(***************************************************************************)
(* The allocator keeps an exact free list, and implements SharedArena, for *)
(* every arena, every set of sizes and alignments and every kernel, until  *)
(* a tensor lying between two free slots is freed (bridged).  Then the     *)
(* merged slot is kept beside the one it swallowed, and what is proved     *)
(* here does not hold any more: the theorems say so in their statements.   *)
(*                                                                         *)
(* The invariant says that the slots are non-empty, in order and a byte    *)
(* apart (SlotsOK), that a byte is in a slot exactly when it is in no      *)
(* block (Cover), that blocks lie apart and below the highest end there    *)
(* was (Blocks), and that blocks and live tensors are in bijection         *)
(* (Names).  The first part of the module is about the list operators:     *)
(* aligning, sorting, cutting a slot and merging a block.                  *)
(***************************************************************************)
EXTENDS SmemAllocator, SequenceTheorems, FiniteSetTheorems, WellFoundedInduction, TLAPS

\* A slot list as the allocator keeps it: non-empty ranges, in order, with a
\* used byte between any two.
SlotList(slots) ==
    /\ slots \in Seq(Nat \X Nat)
    /\ \A i \in DOMAIN slots : slots[i][1] < slots[i][2] /\ slots[i][2] <= Top

Ordered(slots) == \A i, j \in DOMAIN slots : i < j => slots[i][2] < slots[j][1]

\* The same before sorting.
Separate(slots) ==
    \A i, j \in DOMAIN slots :
        i # j => slots[i][2] < slots[j][1] \/ slots[j][2] < slots[i][1]

Within(b, start, end) == start <= b /\ b < end

Free(slots, b) == \E i \in DOMAIN slots : Within(b, slots[i][1], slots[i][2])
-----------------------------------------------------------------------------
(* Arithmetic, least and greatest elements. *)

LEMMA Division ==
  ASSUME NEW a \in Nat, NEW n \in Nat \ {0}
  PROVE  /\ a \div n \in Nat /\ a % n \in 0..(n - 1)
         /\ a = (a % n) + (a \div n) * n
  OBVIOUS

LEMMA Remainder ==
  ASSUME NEW n \in Nat \ {0}, NEW q \in Nat, NEW r \in 0..(n - 1)
  PROVE  (r + q * n) % n = r /\ (r + q * n) \div n = q
  OBVIOUS

LEMMA NextMultiple ==
  ASSUME NEW n \in Nat, NEW p \in Nat, NEW q \in Nat, p < q
  PROVE  p * n + n <= q * n
<1>1. p + 1 <= q
  OBVIOUS
<1>2. PICK d \in Nat : q = p + 1 + d
  BY <1>1
<1>3. q * n = p * n + n + d * n
  BY <1>2
<1>4. d * n \in Nat /\ p * n \in Nat
  OBVIOUS
<1> QED BY <1>3, <1>4

\* Rounding up gives the least multiple that is not below.
LEMMA AlignUpIs ==
  ASSUME NEW n \in Nat, NEW a \in Nat \ {0}
  PROVE  /\ AlignUp(n, a) \in n..(n + a - 1) /\ AlignUp(n, a) % a = 0
         /\ \A m \in Nat : m >= n /\ m % a = 0 => m >= AlignUp(n, a)
<1>0. n + a - 1 \in Nat
  OBVIOUS
<1>1. PICK q \in Nat, r \in 0..(a - 1) : q = (n + a - 1) \div a /\ n + a - 1 = r + q * a
  BY <1>0, Division
<1>2. AlignUp(n, a) = q * a
  BY <1>1 DEF AlignUp
<1>3. q * a \in Nat /\ q * a \in n..(n + a - 1)
  BY <1>1
<1>4. (q * a) % a = 0
  <2>1. (0 + q * a) % a = 0
    BY Remainder
  <2> QED BY <2>1, <1>3
<1>5. ASSUME NEW m \in Nat, m >= n, m % a = 0, m < q * a
      PROVE  FALSE
  <2>1. PICK p \in Nat : m = p * a
    <3>1. m \div a \in Nat /\ m = (m % a) + (m \div a) * a
      BY Division
    <3>2. (m \div a) * a \in Nat
      BY <3>1
    <3>3. m = (m \div a) * a
      BY <3>1, <3>2, <1>5
    <3> QED BY <3>1, <3>3
  <2>2. p < q
    <3>1. ~ (q <= p)
      <4>1. SUFFICES ASSUME q <= p PROVE FALSE
        OBVIOUS
      <4>2. q * a <= p * a
        BY <4>1, <1>1
      <4> QED BY <4>2, <2>1, <1>5, <1>3
    <3> QED BY <3>1, <1>1
  <2>3. p * a + a <= q * a
    BY <2>2, <1>1, NextMultiple
  <2> QED BY <2>1, <2>3, <1>5, <1>1
<1> QED BY <1>2, <1>3, <1>4, <1>5

LEMMA Least ==
  ASSUME NEW S \in SUBSET Nat, S # {}
  PROVE  Min(S) \in S /\ \A x \in S : Min(S) <= x
<1>1. \E x \in S : \A y \in S : ~(<<y, x>> \in OpToRel(<, Nat))
  BY WFMin, NatLessThanWellFounded, Zenon
<1>2. \E x \in S : \A y \in S : ~(y < x)
  BY <1>1, Zenon DEF OpToRel
<1>3. \E x \in S : \A y \in S : x <= y
  BY <1>2
<1> QED BY <1>3 DEF Min

LEMMA Greatest ==
  ASSUME NEW S \in SUBSET Nat, S # {}, NEW n \in Nat, \A x \in S : x <= n
  PROVE  Max(S) \in S /\ \A x \in S : x <= Max(S)
<1> DEFINE D == {n - x : x \in S}
<1>1. D \in SUBSET Nat /\ D # {}
  OBVIOUS
<1>2. Min(D) \in D /\ \A d \in D : Min(D) <= d
  BY <1>1, Least
<1>3. PICK m \in S : Min(D) = n - m
  BY <1>2
<1>4. \A x \in S : m >= x
  <2> SUFFICES ASSUME NEW x \in S PROVE m >= x
    OBVIOUS
  <2>1. Min(D) <= n - x
    BY <1>2
  <2>2. m \in Nat /\ x \in Nat
    OBVIOUS
  <2> QED BY <2>1, <2>2, <1>3
<1>5. \E x \in S : \A y \in S : x >= y
  BY <1>4
<1>6. Max(S) \in S /\ \A y \in S : Max(S) >= y
  BY <1>5 DEF Max
<1> QED BY <1>6

LEMMA Larger ==
  ASSUME NEW a \in Nat, NEW b \in Nat
  PROVE  Max({a, b}) = IF a < b THEN b ELSE a
<1>1. \A x \in {a, b} : x <= a + b
  OBVIOUS
<1>2. {a, b} \in SUBSET Nat /\ {a, b} # {}
  OBVIOUS
<1>3. Max({a, b}) \in {a, b} /\ \A x \in {a, b} : x <= Max({a, b})
  BY <1>1, <1>2, Greatest
<1> QED BY <1>3
-----------------------------------------------------------------------------
(* Sorting. *)

LEMMA CountTo ==
  ASSUME NEW n \in Nat
  PROVE  IsFiniteSet(1 .. n) /\ Cardinality(1 .. n) = n
  BY FS_Interval

Precedes(slots, j, i) ==
    slots[j][1] < slots[i][1] \/ (slots[j][1] = slots[i][1] /\ j <= i)

LEMMA RankIs ==
  ASSUME NEW slots \in Seq(Nat \X Nat), NEW i \in 1 .. Len(slots)
  PROVE  /\ Rank(slots, i) = Cardinality({j \in 1 .. Len(slots) : Precedes(slots, j, i)})
         /\ IsFiniteSet({j \in 1 .. Len(slots) : Precedes(slots, j, i)})
         /\ Rank(slots, i) \in 1 .. Len(slots)
<1> DEFINE n == Len(slots)
           P == {j \in 1 .. n : Precedes(slots, j, i)}
<1>1. n \in Nat /\ DOMAIN slots = 1 .. n
  OBVIOUS
<1>2. Rank(slots, i) = Cardinality(P)
  BY <1>1 DEF Rank, Precedes
<1>3. IsFiniteSet(1 .. n) /\ Cardinality(1 .. n) = n
  BY <1>1, CountTo, Zenon
<1>4. P \in SUBSET (1 .. n)
  OBVIOUS
<1>5. IsFiniteSet(P) /\ Cardinality(P) <= n
  BY <1>3, <1>4, FS_Subset
<1>6. Cardinality(P) \in Nat
  BY <1>5, FS_CardinalityType
<1>7. i \in P
  BY DEF Precedes
<1>8. Cardinality(P) # 0
  BY <1>5, <1>7, FS_EmptySet
<1> QED BY <1>1, <1>2, <1>5, <1>6, <1>8

LEMMA RankType ==
  ASSUME NEW slots \in Seq(Nat \X Nat), NEW i \in 1 .. Len(slots)
  PROVE  Rank(slots, i) \in 1 .. Len(slots) /\ Rank(slots, i) \in Nat
<1>1. Rank(slots, i) \in 1 .. Len(slots)
  BY RankIs, Zenon
<1> QED BY <1>1

LEMMA PlaceOf ==
  ASSUME NEW slots \in Seq(Nat \X Nat), NEW i \in 1 .. Len(slots)
  PROVE  /\ slots[i] \in Nat \X Nat /\ slots[i][1] \in Nat /\ slots[i][2] \in Nat
         /\ i \in Nat /\ i >= 1 /\ i <= Len(slots) /\ Len(slots) \in Nat
  OBVIOUS

\* Ranks follow the order of the list by start and, for one start, by place.
LEMMA RankOrder ==
  ASSUME NEW slots \in Seq(Nat \X Nat),
         NEW i \in 1 .. Len(slots), NEW j \in 1 .. Len(slots), j # i, Precedes(slots, j, i)
  PROVE  Rank(slots, j) < Rank(slots, i)
<1> DEFINE Q(k) == {l \in 1 .. Len(slots) : Precedes(slots, l, k)}
<1>1. \A k \in 1 .. Len(slots) : slots[k][1] \in Nat /\ k \in Nat
  BY PlaceOf, Zenon
<1>2. Q(j) \in SUBSET Q(i)
  <2> SUFFICES ASSUME NEW l \in 1 .. Len(slots), Precedes(slots, l, j)
               PROVE  Precedes(slots, l, i)
    OBVIOUS
  <2>1. l \in Nat /\ j \in Nat /\ i \in Nat
    BY <1>1
  <2>2. PICK a \in Nat, b \in Nat, c \in Nat : a = slots[l][1] /\ b = slots[j][1] /\ c = slots[i][1]
    BY <1>1
  <2>3. /\ a < b \/ (a = b /\ l <= j)
        /\ b < c \/ (b = c /\ j <= i)
    BY <2>2 DEF Precedes
  <2>4. a < c \/ (a = c /\ l <= i)
    BY <2>1, <2>3
  <2> QED BY <2>2, <2>4 DEF Precedes
<1>3. i \in Q(i) /\ i \notin Q(j)
  BY <1>1, SMTT(30) DEF Precedes
<1>4. IsFiniteSet(Q(i)) /\ Rank(slots, i) = Cardinality(Q(i)) /\ Rank(slots, j) = Cardinality(Q(j))
  BY RankIs
<1>5. Cardinality(Q(j)) <= Cardinality(Q(i)) /\ Cardinality(Q(i)) # Cardinality(Q(j))
  BY <1>2, <1>3, <1>4, FS_Subset
<1>6. Rank(slots, i) \in Nat /\ Rank(slots, j) \in Nat
  BY RankType, Zenon
<1> QED BY <1>4, <1>5, <1>6

LEMMA RankInjective ==
  ASSUME NEW slots \in Seq(Nat \X Nat),
         NEW i \in 1 .. Len(slots), NEW j \in 1 .. Len(slots), i # j
  PROVE  Rank(slots, i) # Rank(slots, j)
<1>1. slots[i][1] \in Nat /\ slots[j][1] \in Nat /\ i \in Nat /\ j \in Nat
  OBVIOUS
<1>2. Precedes(slots, i, j) \/ Precedes(slots, j, i)
  BY <1>1, SMTT(30) DEF Precedes
<1>3. Rank(slots, i) \in Nat /\ Rank(slots, j) \in Nat
  BY RankType, Zenon
<1>4. Rank(slots, i) < Rank(slots, j) \/ Rank(slots, j) < Rank(slots, i)
  BY <1>2, RankOrder
<1> QED BY <1>3, <1>4

\* Every place is some slot's: as many different ranks as places.
LEMMA RankOnto ==
  ASSUME NEW slots \in Seq(Nat \X Nat), NEW k \in 1 .. Len(slots)
  PROVE  \E i \in 1 .. Len(slots) : Rank(slots, i) = k
<1> DEFINE N == 1 .. Len(slots)
           r == [i \in N |-> Rank(slots, i)]
<1>1. IsFiniteSet(N)
  BY FS_Interval
<1>2. r \in [N -> N]
  BY RankType
<1>3. \A i, j \in N : r[i] = r[j] => i = j
  BY RankInjective
<1>4. r \in Injection(N, N)
  BY <1>2, <1>3 DEF Injection, IsInjective
<1>5. r \in Surjection(N, N)
  BY <1>1, <1>4, FS_Injection
<1>6. \E i \in N : r[i] = k
  BY <1>5 DEF Surjection
<1> QED BY <1>6

\* What sort does: a list of the same slots, each once, by their starts.
LEMMA SortedIs ==
  ASSUME NEW slots \in Seq(Nat \X Nat)
  PROVE  /\ Sorted(slots) \in Seq(Nat \X Nat) /\ Len(Sorted(slots)) = Len(slots)
         /\ \E p \in [1 .. Len(slots) -> 1 .. Len(slots)] :
              /\ \A i \in 1 .. Len(slots) : \E k \in 1 .. Len(slots) : p[k] = i
              /\ \A k, l \in 1 .. Len(slots) : k < l =>
                    p[k] # p[l] /\ slots[p[k]][1] <= slots[p[l]][1]
              /\ \A k \in 1 .. Len(slots) : Sorted(slots)[k] = slots[p[k]]
<1> DEFINE N == 1 .. Len(slots)
           p == [k \in N |-> CHOOSE i \in N : Rank(slots, i) = k]
<1>1. DOMAIN slots = N /\ Len(slots) \in Nat
  OBVIOUS
<1>2. \A k \in N : p[k] \in N /\ Rank(slots, p[k]) = k
  BY RankOnto
<1>3. Sorted(slots) = [k \in N |-> slots[p[k]]]
  BY <1>1 DEF Sorted
<1> HIDE DEF p
<1>4. \A k \in N : slots[p[k]] \in Nat \X Nat
  BY <1>2
<1>5. Sorted(slots) \in Seq(Nat \X Nat) /\ Len(Sorted(slots)) = Len(slots)
  BY <1>1, <1>3, <1>4
<1>6. p \in [N -> N]
  BY <1>2 DEF p
<1>7. ASSUME NEW i \in N PROVE \E k \in N : p[k] = i
  <2>1. Rank(slots, i) \in N
    BY RankType
  <2>2. Rank(slots, p[Rank(slots, i)]) = Rank(slots, i) /\ p[Rank(slots, i)] \in N
    BY <2>1, <1>2
  <2>3. p[Rank(slots, i)] = i
    BY <2>2, RankInjective
  <2> QED BY <2>1, <2>3
<1>8. ASSUME NEW k \in N, NEW l \in N, k < l
      PROVE  p[k] # p[l] /\ slots[p[k]][1] <= slots[p[l]][1]
  <2>1. Rank(slots, p[k]) = k /\ Rank(slots, p[l]) = l /\ p[k] \in N /\ p[l] \in N
    BY <1>2
  <2>2. p[k] # p[l]
    BY <2>1, <1>8
  <2>3. slots[p[k]][1] \in Nat /\ slots[p[l]][1] \in Nat
    BY <2>1, PlaceOf, Zenon
  <2>4. ~(slots[p[l]][1] < slots[p[k]][1])
    <3>1. SUFFICES ASSUME slots[p[l]][1] < slots[p[k]][1] PROVE FALSE
      OBVIOUS
    <3>2. Precedes(slots, p[l], p[k])
      BY <3>1 DEF Precedes
    <3>3. Rank(slots, p[l]) < Rank(slots, p[k])
      BY <3>2, <2>1, <2>2, RankOrder
    <3> QED BY <3>3, <2>1, <1>8
  <2> QED BY <2>2, <2>3, <2>4, SMTT(30)
<1> QED BY <1>3, <1>5, <1>6, <1>7, <1>8

\* Sorting puts separate slots in order and keeps the bytes they hold.
LEMMA SortedOrdered ==
  ASSUME NEW slots, SlotList(slots), Separate(slots)
  PROVE  /\ SlotList(Sorted(slots)) /\ Ordered(Sorted(slots))
         /\ \A b \in Nat : Free(Sorted(slots), b) <=> Free(slots, b)
<1> DEFINE N == 1 .. Len(slots)
<1>1. slots \in Seq(Nat \X Nat)
  BY DEF SlotList
<1>2. Sorted(slots) \in Seq(Nat \X Nat) /\ Len(Sorted(slots)) = Len(slots)
  BY <1>1, SortedIs
<1>3. DOMAIN slots = N /\ DOMAIN Sorted(slots) = N
  BY <1>1, <1>2
<1>4. PICK p \in [N -> N] :
        /\ \A i \in N : \E k \in N : p[k] = i
        /\ \A k, l \in N : k < l => p[k] # p[l] /\ slots[p[k]][1] <= slots[p[l]][1]
        /\ \A k \in N : Sorted(slots)[k] = slots[p[k]]
  BY <1>1, SortedIs
<1>5. \A i \in N : /\ slots[i][1] \in Nat /\ slots[i][2] \in Nat
                    /\ slots[i][1] < slots[i][2] /\ slots[i][2] <= Top
  BY <1>1, <1>3 DEF SlotList
<1>6. SlotList(Sorted(slots))
  BY <1>2, <1>3, <1>4, <1>5 DEF SlotList
<1>7. Ordered(Sorted(slots))
  <2> SUFFICES ASSUME NEW k \in N, NEW l \in N, k < l
               PROVE  Sorted(slots)[k][2] < Sorted(slots)[l][1]
    BY <1>3 DEF Ordered
  <2>1. p[k] \in N /\ p[l] \in N /\ p[k] # p[l] /\ slots[p[k]][1] <= slots[p[l]][1]
    BY <1>4
  <2>2. slots[p[k]][2] < slots[p[l]][1] \/ slots[p[l]][2] < slots[p[k]][1]
    BY <2>1, <1>3 DEF Separate
  <2>3. slots[p[k]][2] < slots[p[l]][1]
    BY <2>1, <2>2, <1>5
  <2> QED BY <2>3, <1>4
<1>8. ASSUME NEW b \in Nat PROVE Free(Sorted(slots), b) <=> Free(slots, b)
  <2>1. ASSUME Free(Sorted(slots), b) PROVE Free(slots, b)
    BY <2>1, <1>3, <1>4 DEF Free
  <2>2. ASSUME Free(slots, b) PROVE Free(Sorted(slots), b)
    <3>1. PICK i \in N : Within(b, slots[i][1], slots[i][2])
      BY <2>2, <1>3 DEF Free
    <3>2. PICK k \in N : p[k] = i
      BY <1>4
    <3> QED BY <3>1, <3>2, <1>3, <1>4 DEF Free
  <2> QED BY <2>1, <2>2
<1> QED BY <1>6, <1>7, <1>8
-----------------------------------------------------------------------------
(* The list after an allocation. *)

LEMMA SlotFacts ==
  ASSUME NEW slots, SlotList(slots), NEW i \in DOMAIN slots
  PROVE  /\ Len(slots) \in Nat /\ DOMAIN slots = 1 .. Len(slots) /\ i \in Nat
         /\ slots[i][1] \in Nat /\ slots[i][2] \in Nat /\ slots[i] = <<slots[i][1], slots[i][2]>>
         /\ slots[i][1] < slots[i][2] /\ slots[i][2] <= Top
  BY DEF SlotList

LEMMA RemoveAtIs ==
  ASSUME NEW slots \in Seq(Nat \X Nat), NEW i \in 1 .. Len(slots)
  PROVE  /\ RemoveAt(slots, i) \in Seq(Nat \X Nat) /\ Len(RemoveAt(slots, i)) = Len(slots) - 1
         /\ \A k \in 1 .. Len(slots) - 1 :
              RemoveAt(slots, i)[k] = IF k < i THEN slots[k] ELSE slots[k + 1]
<1>1. PICK n \in Nat : n = Len(slots)
  BY PlaceOf
<1>0. PICK m \in Nat : m = i + 1
  OBVIOUS
<1> DEFINE A == SubSeq(slots, 1, i - 1)
           B == SubSeq(slots, m, n)
           X == Nat \X Nat
<1>2. i \in Nat /\ i <= n /\ i >= 1 /\ \A k \in 1 .. n : slots[k] \in X
  BY <1>1, PlaceOf
<1>3. A \in Seq(X) /\ Len(A) = i - 1 /\ \A k \in 1 .. i - 1 : A[k] = slots[k]
  <2> HIDE DEF X
  <2>1. 1 \in Int /\ i - 1 \in Int /\ \A k \in 1 .. i - 1 : slots[k] \in X
    BY <1>1, <1>2
  <2>2. /\ A \in Seq(X) /\ Len(A) = IF 1 <= i - 1 THEN (i - 1) - 1 + 1 ELSE 0
        /\ \A k \in 1 .. (i - 1) - 1 + 1 : A[k] = slots[1 + k - 1]
    BY <2>1, SubSeqProperties
  <2>3. ASSUME NEW k \in 1 .. i - 1 PROVE A[k] = slots[k]
    <3>1. k \in 1 .. (i - 1) - 1 + 1 /\ 1 + k - 1 = k
      BY <1>2
    <3> QED BY <3>1, <2>2
  <2>4. Len(A) = i - 1
    BY <2>2, <1>2
  <2> QED BY <2>2, <2>3, <2>4
<1>4. B \in Seq(X) /\ Len(B) = n - i /\ \A k \in 1 .. n - i : B[k] = slots[k + i]
  <2> HIDE DEF X
  <2>1. m \in Int /\ n \in Int /\ \A k \in m .. n : slots[k] \in X
    BY <1>0, <1>1, <1>2
  <2>2. /\ B \in Seq(X) /\ Len(B) = IF m <= n THEN n - m + 1 ELSE 0
        /\ \A k \in 1 .. n - m + 1 : B[k] = slots[m + k - 1]
    BY <2>1, SubSeqProperties
  <2>3. ASSUME NEW k \in 1 .. n - i PROVE B[k] = slots[k + i]
    <3>1. k \in 1 .. n - m + 1 /\ m + k - 1 = k + i
      BY <1>0, <1>2
    <3> QED BY <3>1, <2>2
  <2> QED BY <2>2, <2>3, <1>0, <1>2, SMTT(30)
<1>5. /\ A \o B \in Seq(X) /\ Len(A \o B) = Len(A) + Len(B)
      /\ \A k \in 1 .. Len(A) + Len(B) : (A \o B)[k] = IF k <= Len(A) THEN A[k] ELSE B[k - Len(A)]
  <2> HIDE DEF A, B, X
  <2> QED BY <1>3, <1>4, ConcatProperties
<1>6. RemoveAt(slots, i) = A \o B
  BY <1>0, <1>1 DEF RemoveAt
<1> HIDE DEF A, B
<1>7. ASSUME NEW k \in 1 .. n - 1
      PROVE  (A \o B)[k] = IF k < i THEN slots[k] ELSE slots[k + 1]
  <2>1. k \in 1 .. Len(A) + Len(B) /\ (k <= Len(A) <=> k < i)
    BY <1>2, <1>3, <1>4
  <2>2. CASE k < i
    <3>1. k \in 1 .. i - 1
      BY <2>2, <1>2
    <3> QED BY <2>1, <2>2, <3>1, <1>3, <1>5
  <2>3. CASE ~(k < i)
    <3>1. k - (i - 1) \in 1 .. n - i /\ k - (i - 1) + i = k + 1
      BY <2>3, <1>2
    <3>2. B[k - (i - 1)] = slots[k + 1]
      BY <3>1, <1>4
    <3> QED BY <2>1, <2>3, <3>2, <1>3, <1>5
  <2> QED BY <2>2, <2>3
<1>8. Len(A) + Len(B) = n - 1
  BY <1>2, <1>3, <1>4
<1> QED BY <1>1, <1>5, <1>6, <1>7, <1>8

LEMMA OneElement ==
  ASSUME NEW X, NEW x \in X
  PROVE  <<x>> \in Seq(X) /\ Len(<<x>>) = 1 /\ <<x>>[1] = x
  OBVIOUS

\* A slot apart from all the others is added.
LEMMA AddSlot ==
  ASSUME NEW slots, SlotList(slots), Separate(slots),
         NEW start \in Nat, NEW end \in Nat, end <= Top,
         start < end => \A k \in DOMAIN slots : slots[k][2] < start \/ end < slots[k][1]
  PROVE  LET more == slots \o Slot(start, end)
         IN  /\ SlotList(more) /\ Separate(more)
             /\ \A b \in Nat : Free(more, b) <=> Free(slots, b) \/ Within(b, start, end)
             /\ \A k \in DOMAIN more :
                  \/ k \in DOMAIN slots /\ more[k] = slots[k]
                  \/ start < end /\ more[k] = <<start, end>>
<1> DEFINE more == slots \o Slot(start, end)
           X == Nat \X Nat
<1>1. slots \in Seq(X)
  BY DEF SlotList
<1>2. CASE ~(start < end)
  <2>1. more = slots
    BY <1>1, <1>2, ConcatEmptySeq DEF Slot
  <2>2. \A b \in Nat : ~Within(b, start, end)
    BY <1>2 DEF Within
  <2> QED BY <2>1, <2>2
<1>3. CASE start < end
  <2>1. PICK n \in Nat : n = Len(slots)
    BY <1>1, LenProperties
  <2>2. PICK x \in X : x = <<start, end>> /\ x[1] = start /\ x[2] = end
    <3>1. <<start, end>> \in X /\ <<start, end>>[1] = start /\ <<start, end>>[2] = end
      OBVIOUS
    <3> HIDE DEF X
    <3> QED BY <3>1, Zenon
  <2>3. Slot(start, end) = <<x>>
    BY <1>3, <2>2 DEF Slot
  <2>4. <<x>> \in Seq(X) /\ Len(<<x>>) = 1 /\ <<x>>[1] = x
    BY OneElement, Zenon
  <2>5. /\ more \in Seq(X) /\ Len(more) = n + 1
        /\ \A k \in 1 .. n + 1 : more[k] = IF k <= n THEN slots[k] ELSE <<x>>[k - n]
    <3> HIDE DEF X
    <3> QED BY <1>1, <2>1, <2>3, <2>4, ConcatProperties
  <2>6. DOMAIN more = 1 .. n + 1 /\ DOMAIN slots = 1 .. n
    BY <1>1, <2>1, <2>5, LenProperties
  <2>7. more[n + 1] = x /\ n + 1 \in 1 .. n + 1
    <3>1. n + 1 \in 1 .. n + 1 /\ (n + 1) - n = 1 /\ ~(n + 1 <= n)
      OBVIOUS
    <3> QED BY <3>1, <2>4, <2>5
  <2>8. \A k \in 1 .. n : k \in 1 .. n + 1 /\ k # n + 1 /\ more[k] = slots[k]
    <3> SUFFICES ASSUME NEW k \in 1 .. n PROVE k \in 1 .. n + 1 /\ k # n + 1 /\ more[k] = slots[k]
      OBVIOUS
    <3>1. k \in 1 .. n + 1 /\ k # n + 1 /\ k <= n
      OBVIOUS
    <3> QED BY <3>1, <2>5
  <2>9. \A k \in 1 .. n + 1 : k = n + 1 \/ k \in 1 .. n
    OBVIOUS
  <2> HIDE DEF more
  <2>10. ASSUME NEW k \in 1 .. n + 1 PROVE more[k][1] < more[k][2] /\ more[k][2] <= Top
    <3>1. CASE k = n + 1
      BY <3>1, <2>2, <2>7, <1>3
    <3>2. CASE k \in 1 .. n
      BY <3>2, <2>6, <2>8 DEF SlotList
    <3> QED BY <3>1, <3>2, <2>9
  <2>11. SlotList(more)
    BY <2>5, <2>6, <2>10 DEF SlotList
  <2>12. ASSUME NEW k \in 1 .. n + 1, NEW l \in 1 .. n + 1, k # l
         PROVE  more[k][2] < more[l][1] \/ more[l][2] < more[k][1]
    <3>1. CASE k = n + 1
      <4>1. l \in 1 .. n
        BY <3>1, <2>9, <2>12
      <4> QED BY <3>1, <4>1, <2>2, <2>6, <2>7, <2>8, <1>3
    <3>2. CASE l = n + 1
      <4>1. k \in 1 .. n
        BY <3>2, <2>9, <2>12
      <4> QED BY <3>2, <4>1, <2>2, <2>6, <2>7, <2>8, <1>3
    <3>3. CASE k \in 1 .. n /\ l \in 1 .. n
      BY <3>3, <2>6, <2>8, <2>12 DEF Separate
    <3> QED BY <3>1, <3>2, <3>3, <2>9
  <2>13. Separate(more)
    BY <2>6, <2>12 DEF Separate
  <2>14. ASSUME NEW b \in Nat
         PROVE  Free(more, b) <=> Free(slots, b) \/ Within(b, start, end)
    BY <2>2, <2>6, <2>7, <2>8, <2>9 DEF Free
  <2>15. \A k \in DOMAIN more : (k \in DOMAIN slots /\ more[k] = slots[k]) \/ more[k] = <<start, end>>
    BY <2>2, <2>6, <2>7, <2>8, <2>9
  <2> QED BY <2>11, <2>13, <2>14, <2>15, <1>3 DEF more
<1> QED BY <1>2, <1>3

\* A slot is taken out.
LEMMA RemoveSlot ==
  ASSUME NEW slots, SlotList(slots), Ordered(slots), NEW i \in DOMAIN slots
  PROVE  LET rest == RemoveAt(slots, i)
         IN  /\ SlotList(rest) /\ Separate(rest)
             /\ \A b \in Nat : Free(rest, b) <=> Free(slots, b) /\ ~Within(b, slots[i][1], slots[i][2])
             /\ \A k \in DOMAIN rest : rest[k][2] < slots[i][1] \/ slots[i][2] < rest[k][1]
<1> DEFINE rest == RemoveAt(slots, i)
           From(k) == IF k < i THEN k ELSE k + 1
           X == Nat \X Nat
<1>1. slots \in Seq(X)
  BY DEF SlotList
<1>2. PICK n \in Nat : n = Len(slots) /\ DOMAIN slots = 1 .. n
  BY <1>1, LenProperties
<1>3. i \in 1 .. n /\ i \in Nat
  BY <1>2
<1>4. /\ rest \in Seq(X) /\ Len(rest) = n - 1
      /\ \A k \in 1 .. n - 1 : rest[k] = IF k < i THEN slots[k] ELSE slots[k + 1]
  BY <1>1, <1>2, <1>3, RemoveAtIs
<1>5. DOMAIN rest = 1 .. n - 1
  BY <1>4, LenProperties
<1> HIDE DEF rest
<1>6. ASSUME NEW k \in 1 .. n - 1
      PROVE  From(k) \in 1 .. n /\ From(k) # i /\ rest[k] = slots[From(k)]
  BY <1>3, <1>4
<1>7. ASSUME NEW f \in 1 .. n, f # i PROVE \E k \in 1 .. n - 1 : rest[k] = slots[f]
  <2>1. CASE f < i
    <3>1. f \in 1 .. n - 1
      BY <2>1, <1>3
    <3> QED BY <2>1, <3>1, <1>4
  <2>2. CASE ~(f < i)
    <3>1. PICK k \in 1 .. n - 1 : f = k + 1 /\ ~(k < i)
      <4>1. f - 1 \in 1 .. n - 1 /\ f = (f - 1) + 1 /\ ~(f - 1 < i)
        BY <2>2, <1>3, <1>7
      <4> QED BY <4>1
    <3> QED BY <3>1, <1>4
  <2> QED BY <2>1, <2>2
<1>8. SlotList(rest)
  <2>1. ASSUME NEW k \in 1 .. n - 1 PROVE rest[k][1] < rest[k][2] /\ rest[k][2] <= Top
    <3>1. PICK f \in 1 .. n : rest[k] = slots[f]
      BY <1>6
    <3> QED BY <3>1, <1>2 DEF SlotList
  <2> QED BY <2>1, <1>4, <1>5 DEF SlotList
<1>9. ASSUME NEW f \in 1 .. n, NEW g \in 1 .. n, f # g
      PROVE  slots[f][2] < slots[g][1] \/ slots[g][2] < slots[f][1]
  <2>1. f < g \/ g < f
    BY <1>9
  <2> QED BY <2>1, <1>2 DEF Ordered
<1>10. Separate(rest)
  <2> SUFFICES ASSUME NEW k \in 1 .. n - 1, NEW l \in 1 .. n - 1, k # l
               PROVE  rest[k][2] < rest[l][1] \/ rest[l][2] < rest[k][1]
    BY <1>5 DEF Separate
  <2>1. From(k) # From(l)
    BY <1>3
  <2>2. PICK f \in 1 .. n, g \in 1 .. n : f # g /\ rest[k] = slots[f] /\ rest[l] = slots[g]
    BY <2>1, <1>6
  <2> QED BY <2>2, <1>9
<1>11. ASSUME NEW k \in 1 .. n - 1
       PROVE  rest[k][2] < slots[i][1] \/ slots[i][2] < rest[k][1]
  <2>1. PICK f \in 1 .. n : f # i /\ rest[k] = slots[f]
    BY <1>6
  <2> QED BY <2>1, <1>3, <1>9
<1>12. ASSUME NEW b \in Nat
       PROVE  Free(rest, b) <=> Free(slots, b) /\ ~Within(b, slots[i][1], slots[i][2])
  <2>1. ASSUME NEW k \in 1 .. n - 1, Within(b, rest[k][1], rest[k][2])
        PROVE  Free(slots, b) /\ ~Within(b, slots[i][1], slots[i][2])
    <3>1. PICK f \in 1 .. n : f # i /\ rest[k] = slots[f]
      BY <1>6
    <3>2. PICK p \in Nat, q \in Nat, u \in Nat, v \in Nat :
            p = slots[f][1] /\ q = slots[f][2] /\ u = slots[i][1] /\ v = slots[i][2]
      BY <1>2, <1>3, SlotFacts
    <3>3. q < u \/ v < p
      BY <3>1, <3>2, <1>3, <1>9
    <3>4. p <= b /\ b < q
      BY <2>1, <3>1, <3>2 DEF Within
    <3>5. ~(u <= b /\ b < v)
      BY <3>3, <3>4
    <3> QED BY <3>1, <3>2, <3>4, <3>5, <1>2 DEF Free, Within
  <2>2. ASSUME Free(slots, b), ~Within(b, slots[i][1], slots[i][2]) PROVE Free(rest, b)
    <3>1. PICK f \in 1 .. n : Within(b, slots[f][1], slots[f][2])
      BY <2>2, <1>2 DEF Free
    <3>2. f # i
      BY <2>2, <3>1
    <3> QED BY <3>1, <3>2, <1>5, <1>7 DEF Free
  <2> QED BY <2>1, <2>2, <1>5 DEF Free
<1> QED BY <1>5, <1>8, <1>10, <1>11, <1>12 DEF rest

LEMMA Joined ==
  ASSUME NEW X, NEW s \in Seq(X), NEW t \in Seq(X), NEW u \in Seq(X)
  PROVE  s \o (t \o u) = (s \o t) \o u
  BY ConcatAssociative, SMTT(30)

\* The slots once the block [addr, addr + nbytes) is cut out of the i-th.
LEMMA CutSlots ==
  ASSUME NEW slots, SlotList(slots), Ordered(slots), NEW i \in DOMAIN slots,
         NEW addr \in Nat, NEW nbytes \in Nat \ {0},
         slots[i][1] <= addr, addr + nbytes <= slots[i][2]
  PROVE  LET cut == RemoveAt(slots, i) \o Leftovers(slots[i], addr, nbytes)
         IN  /\ SlotList(cut) /\ Separate(cut)
             /\ \A b \in Nat : Free(cut, b) <=> Free(slots, b) /\ ~Within(b, addr, addr + nbytes)
<1>1. PICK start \in Nat, end \in Nat, mid \in Nat :
        start = slots[i][1] /\ end = slots[i][2] /\ mid = addr + nbytes
  BY SlotFacts
<1>2. start <= addr /\ addr < mid /\ mid <= end /\ end <= Top /\ start < end
  BY <1>1, SlotFacts
<1> DEFINE rest == RemoveAt(slots, i)
           head == rest \o Slot(start, addr)
           cut  == head \o Slot(mid, end)
<1>3. /\ SlotList(rest) /\ Separate(rest)
      /\ \A b \in Nat : Free(rest, b) <=> Free(slots, b) /\ ~Within(b, start, end)
      /\ \A k \in DOMAIN rest : rest[k][2] < start \/ end < rest[k][1]
  BY <1>1, RemoveSlot
<1>4. Top \in Nat
  BY SizeAssumption
<1> HIDE DEF rest
<1>5. \A k \in DOMAIN rest : rest[k][1] \in Nat /\ rest[k][2] \in Nat /\ rest[k][1] < rest[k][2]
  BY <1>3, SlotFacts
<1>6. \A k \in DOMAIN rest : rest[k][2] < start \/ addr < rest[k][1]
  BY <1>2, <1>3, <1>5
<1>7. /\ SlotList(head) /\ Separate(head)
      /\ \A b \in Nat : Free(head, b) <=> Free(rest, b) \/ Within(b, start, addr)
      /\ \A k \in DOMAIN head : \/ k \in DOMAIN rest /\ head[k] = rest[k]
                                \/ start < addr /\ head[k] = <<start, addr>>
  <2>1. addr <= Top
    BY <1>2, <1>4
  <2> QED BY <1>3, <1>6, <2>1, AddSlot, SMTT(30)
<1> HIDE DEF head
<1>8. ASSUME NEW k \in DOMAIN head PROVE head[k][2] < mid \/ end < head[k][1]
  <2>1. CASE k \in DOMAIN rest /\ head[k] = rest[k]
    BY <2>1, <1>2, <1>3, <1>5
  <2>2. CASE start < addr /\ head[k] = <<start, addr>>
    BY <2>2, <1>2
  <2> QED BY <2>1, <2>2, <1>7
<1>9. /\ SlotList(cut) /\ Separate(cut)
      /\ \A b \in Nat : Free(cut, b) <=> Free(head, b) \/ Within(b, mid, end)
  BY <1>2, <1>7, <1>8, AddSlot
<1>10. RemoveAt(slots, i) \o Leftovers(slots[i], addr, nbytes) = cut
  <2> DEFINE X == Nat \X Nat
  <2>1. rest \in Seq(X)
    BY <1>3 DEF SlotList
  <2>2. Slot(start, addr) \in Seq(X) /\ Slot(mid, end) \in Seq(X)
    <3>1. <<start, addr>> \in X /\ <<mid, end>> \in X
      OBVIOUS
    <3>2. << <<start, addr>> >> \in Seq(X) /\ << <<mid, end>> >> \in Seq(X)
      BY <3>1, OneElement
    <3>3. <<>> \in Seq(X)
      OBVIOUS
    <3> HIDE DEF X
    <3> QED BY <3>2, <3>3, Zenon DEF Slot
  <2> HIDE DEF X
  <2>3. rest \o (Slot(start, addr) \o Slot(mid, end)) = (rest \o Slot(start, addr)) \o Slot(mid, end)
    BY <2>1, <2>2, Joined, SMTT(60)
  <2>4. Leftovers(slots[i], addr, nbytes) = Slot(start, addr) \o Slot(mid, end)
    BY <1>1 DEF Leftovers
  <2> QED BY <2>3, <2>4 DEF rest, head
<1> HIDE DEF cut
<1>11. ASSUME NEW b \in Nat
       PROVE  Free(cut, b) <=> Free(slots, b) /\ ~Within(b, addr, mid)
  <2>1. Free(cut, b) <=> (Free(slots, b) /\ ~Within(b, start, end))
                            \/ Within(b, start, addr) \/ Within(b, mid, end)
    BY <1>3, <1>7, <1>9
  <2>2. Within(b, start, end) => Free(slots, b)
    BY <1>1 DEF Free
  <2>3. Within(b, start, end) <=> Within(b, start, addr) \/ Within(b, addr, mid) \/ Within(b, mid, end)
    BY <1>2 DEF Within
  <2>4. ~(Within(b, addr, mid) /\ (Within(b, start, addr) \/ Within(b, mid, end)))
    BY <1>2 DEF Within
  <2> QED BY <2>1, <2>2, <2>3, <2>4
<1> QED BY <1>1, <1>9, <1>10, <1>11
-----------------------------------------------------------------------------
(* The list after a free. *)

\* A slot grows without reaching the others.
LEMMA ExtendSlot ==
  ASSUME NEW slots, SlotList(slots), Ordered(slots), NEW i \in DOMAIN slots,
         NEW start \in Nat, NEW end \in Nat, start < end, end <= Top,
         start <= slots[i][1], slots[i][2] <= end,
         \A k \in DOMAIN slots : k < i => slots[k][2] < start,
         \A k \in DOMAIN slots : i < k => end < slots[k][1]
  PROVE  LET more == [slots EXCEPT ![i] = <<start, end>>]
         IN  /\ SlotList(more) /\ Ordered(more)
             /\ \A b \in Nat : Free(more, b) <=> Free(slots, b) \/ Within(b, start, end)
<1> DEFINE more == [slots EXCEPT ![i] = <<start, end>>]
           X == Nat \X Nat
<1>1. slots \in Seq(X)
  BY DEF SlotList
<1>2. PICK n \in Nat : n = Len(slots) /\ DOMAIN slots = 1 .. n
  BY <1>1, LenProperties
<1>3. i \in 1 .. n /\ i \in Nat
  BY <1>2
<1>4. PICK x \in X : x = <<start, end>> /\ x[1] = start /\ x[2] = end
  <2>1. <<start, end>> \in X /\ <<start, end>>[1] = start /\ <<start, end>>[2] = end
    OBVIOUS
  <2> HIDE DEF X
  <2> QED BY <2>1, Zenon
<1>5. more \in Seq(X) /\ DOMAIN more = 1 .. n
  BY <1>1, <1>2, <1>3, <1>4
<1>6. more[i] = x /\ \A k \in 1 .. n : k # i => more[k] = slots[k]
  BY <1>2, <1>3, <1>4
<1>7. \A k \in 1 .. n : /\ slots[k][1] \in Nat /\ slots[k][2] \in Nat
                         /\ slots[k][1] < slots[k][2] /\ slots[k][2] <= Top
  BY <1>2, SlotFacts
<1> HIDE DEF more
<1>8. SlotList(more)
  BY <1>4, <1>5, <1>6, <1>7 DEF SlotList
<1>9. Ordered(more)
  <2> SUFFICES ASSUME NEW k \in 1 .. n, NEW l \in 1 .. n, k < l PROVE more[k][2] < more[l][1]
    BY <1>5 DEF Ordered
  <2>1. CASE k = i
    BY <2>1, <1>2, <1>4, <1>6
  <2>2. CASE l = i
    BY <2>2, <1>2, <1>4, <1>6
  <2>3. CASE k # i /\ l # i
    BY <2>3, <1>2, <1>6 DEF Ordered
  <2> QED BY <2>1, <2>2, <2>3
<1>10. ASSUME NEW b \in Nat PROVE Free(more, b) <=> Free(slots, b) \/ Within(b, start, end)
  <2>1. Within(b, slots[i][1], slots[i][2]) => Within(b, start, end)
    BY <1>3, <1>7 DEF Within
  <2>2. Within(b, start, end) => Free(more, b)
    BY <1>3, <1>4, <1>5, <1>6 DEF Free
  <2>3. Free(slots, b) => Free(more, b)
    BY <2>1, <2>2, <1>2, <1>5, <1>6 DEF Free
  <2>4. Free(more, b) => Free(slots, b) \/ Within(b, start, end)
    BY <1>2, <1>4, <1>5, <1>6 DEF Free
  <2> QED BY <2>2, <2>3, <2>4
<1> QED BY <1>8, <1>9, <1>10 DEF more

\* Where a used block lies among the slots.
BlockAt(addr, end) ==
    /\ addr \in Nat /\ end \in Nat /\ addr < end /\ end <= Top
    /\ end = addr + addr2nbytes[addr]
    /\ \A k \in DOMAIN freeSlots : freeSlots[k][2] <= addr \/ end <= freeSlots[k][1]

LEMMA Sides ==
  ASSUME SlotList(freeSlots), Ordered(freeSlots), NEW addr, NEW end, BlockAt(addr, end)
  PROVE  /\ Before(addr) \subseteq DOMAIN freeSlots /\ After(addr) \subseteq DOMAIN freeSlots
         /\ Before(addr) \cup After(addr) = DOMAIN freeSlots
         /\ Before(addr) \cap After(addr) = {}
         /\ \A k \in Before(addr) : freeSlots[k][2] <= addr
         /\ \A k \in After(addr) : end <= freeSlots[k][1]
<1>1. addr \in Nat /\ end \in Nat /\ addr < end
  BY DEF BlockAt
<1>2. \A k \in DOMAIN freeSlots : /\ freeSlots[k][1] \in Nat /\ freeSlots[k][2] \in Nat
                                  /\ freeSlots[k][1] < freeSlots[k][2]
                                  /\ freeSlots[k][2] <= addr \/ end <= freeSlots[k][1]
  BY SlotFacts DEF BlockAt
<1>3. \A k \in DOMAIN freeSlots : k \in Before(addr) <=> freeSlots[k][2] <= addr
  BY DEF Before
<1>4. \A k \in DOMAIN freeSlots : k \in After(addr) <=> freeSlots[k][1] > addr
  BY DEF After
<1>5. Before(addr) \subseteq DOMAIN freeSlots /\ After(addr) \subseteq DOMAIN freeSlots
  BY DEF Before, After
<1>6. \A k \in DOMAIN freeSlots : k \in After(addr) <=> end <= freeSlots[k][1]
  BY <1>1, <1>2, <1>4
<1>7. \A k \in DOMAIN freeSlots : ~(k \in Before(addr) /\ k \in After(addr))
  BY <1>1, <1>2, <1>3, <1>6
<1> QED BY <1>2, <1>3, <1>5, <1>6, <1>7

LEMMA SidesCount ==
  ASSUME SlotList(freeSlots), Ordered(freeSlots), NEW addr, NEW end, BlockAt(addr, end)
  PROVE  Cardinality(Before(addr)) + Cardinality(After(addr)) = Len(freeSlots)
<1>1. freeSlots \in Seq(Nat \X Nat)
  BY DEF SlotList
<1>2. PICK n \in Nat : n = Len(freeSlots) /\ DOMAIN freeSlots = 1 .. n
  BY <1>1, LenProperties
<1>3. IsFiniteSet(1 .. n) /\ Cardinality(1 .. n) = n
  BY CountTo
<1>4. /\ Before(addr) \subseteq 1 .. n /\ After(addr) \subseteq 1 .. n
      /\ Before(addr) \cup After(addr) = 1 .. n /\ Before(addr) \cap After(addr) = {}
  BY <1>2, Sides
<1>5. IsFiniteSet(Before(addr)) /\ IsFiniteSet(After(addr))
  BY <1>3, <1>4, FS_Subset
<1>6. Cardinality({}) = 0
  BY FS_EmptySet
<1>7. Cardinality(Before(addr) \cup After(addr))
        = Cardinality(Before(addr)) + Cardinality(After(addr)) - Cardinality(Before(addr) \cap After(addr))
  BY <1>5, FS_Union
<1>8. Cardinality(Before(addr)) \in Nat /\ Cardinality(After(addr)) \in Nat
  BY <1>5, FS_CardinalityType
<1>9. Cardinality(Before(addr) \cup After(addr)) = n /\ Cardinality(Before(addr) \cap After(addr)) = 0
  BY <1>3, <1>4, <1>6
<1>10. Cardinality(Before(addr)) + Cardinality(After(addr)) = n
  BY <1>7, <1>8, <1>9
<1> QED BY <1>2, <1>10

LEMMA LeftIs ==
  ASSUME SlotList(freeSlots), Ordered(freeSlots), NEW addr, NEW end, BlockAt(addr, end),
         Before(addr) # {}
  PROVE  /\ Max(Before(addr)) \in Before(addr)
         /\ \A k \in Before(addr) : k <= Max(Before(addr))
<1>1. freeSlots \in Seq(Nat \X Nat)
  BY DEF SlotList
<1>2. PICK n \in Nat : n = Len(freeSlots) /\ DOMAIN freeSlots = 1 .. n
  BY <1>1, LenProperties
<1>3. Before(addr) \subseteq 1 .. n
  BY <1>2, Sides
<1>4. Before(addr) \in SUBSET Nat /\ \A k \in Before(addr) : k <= n
  BY <1>3
<1> QED BY <1>4, Greatest

LEMMA RightIs ==
  ASSUME SlotList(freeSlots), Ordered(freeSlots), NEW addr, NEW end, BlockAt(addr, end),
         After(addr) # {}
  PROVE  /\ Min(After(addr)) \in After(addr)
         /\ \A k \in After(addr) : Min(After(addr)) <= k
<1>1. freeSlots \in Seq(Nat \X Nat)
  BY DEF SlotList
<1>2. PICK n \in Nat : n = Len(freeSlots) /\ DOMAIN freeSlots = 1 .. n
  BY <1>1, LenProperties
<1>3. After(addr) \subseteq 1 .. n
  BY <1>2, Sides
<1>4. After(addr) \in SUBSET Nat
  BY <1>3
<1> QED BY <1>4, Least

\* A block that does not touch the slot before it is apart from all of those.
LEMMA ApartFromLeft ==
  ASSUME SlotList(freeSlots), Ordered(freeSlots), NEW addr, NEW end, BlockAt(addr, end),
         ~TouchesLeft(addr), NEW k \in Before(addr)
  PROVE  freeSlots[k][2] < addr
<1>1. PICK m : m = Max(Before(addr)) /\ m \in Before(addr) /\ k <= m
  BY LeftIs
<1>2. m \in DOMAIN freeSlots /\ k \in DOMAIN freeSlots /\ freeSlots[m][2] <= addr
  BY <1>1, Sides
<1>3. freeSlots[m][2] # addr
  BY <1>1 DEF TouchesLeft
<1>4. /\ freeSlots[m][1] \in Nat /\ freeSlots[m][2] \in Nat /\ freeSlots[m][1] < freeSlots[m][2]
      /\ freeSlots[k][2] \in Nat /\ m \in Nat /\ k \in Nat /\ addr \in Nat
  BY <1>2, SlotFacts DEF BlockAt
<1>5. k < m => freeSlots[k][2] < freeSlots[m][1]
  BY <1>2 DEF Ordered
<1> QED BY <1>1, <1>2, <1>3, <1>4, <1>5

LEMMA ApartFromRight ==
  ASSUME SlotList(freeSlots), Ordered(freeSlots), NEW addr, NEW end, BlockAt(addr, end),
         ~TouchesRight(addr), NEW k \in After(addr)
  PROVE  end < freeSlots[k][1]
<1>1. PICK m : m = Min(After(addr)) /\ m \in After(addr) /\ m <= k
  BY RightIs
<1>2. m \in DOMAIN freeSlots /\ k \in DOMAIN freeSlots /\ end <= freeSlots[m][1]
  BY <1>1, Sides
<1>3. freeSlots[m][1] # end
  BY <1>1 DEF TouchesRight, BlockAt
<1>4. /\ freeSlots[m][1] \in Nat /\ freeSlots[m][2] \in Nat /\ freeSlots[m][1] < freeSlots[m][2]
      /\ freeSlots[k][1] \in Nat /\ m \in Nat /\ k \in Nat /\ end \in Nat
  BY <1>2, SlotFacts DEF BlockAt
<1>5. m < k => freeSlots[m][2] < freeSlots[k][1]
  BY <1>2 DEF Ordered
<1> QED BY <1>1, <1>2, <1>3, <1>4, <1>5

\* What free does to the slots, unless the block lies between two of them.
LEMMA MergedIs ==
  ASSUME SlotList(freeSlots), Ordered(freeSlots), NEW addr, NEW end, BlockAt(addr, end),
         ~(TouchesLeft(addr) /\ TouchesRight(addr))
  PROVE  /\ SlotList(Merged(addr)) /\ Ordered(Merged(addr))
         /\ \A b \in Nat : Free(Merged(addr), b) <=> Free(freeSlots, b) \/ Within(b, addr, end)
<1>1. addr \in Nat /\ end \in Nat /\ addr < end /\ end <= Top /\ end = addr + addr2nbytes[addr]
  BY DEF BlockAt
<1>2. \A k \in DOMAIN freeSlots : /\ k \in Nat /\ freeSlots[k][1] \in Nat /\ freeSlots[k][2] \in Nat
                                  /\ freeSlots[k][1] < freeSlots[k][2] /\ freeSlots[k][2] <= Top
  BY SlotFacts
<1>3. CASE TouchesLeft(addr) /\ ~TouchesRight(addr)
  <2>1. PICK m : m = Max(Before(addr)) /\ m \in Before(addr) /\ \A k \in Before(addr) : k <= m
    BY <1>3, LeftIs DEF TouchesLeft
  <2>2. m \in DOMAIN freeSlots /\ freeSlots[m][2] = addr
    BY <1>3, <2>1, Sides DEF TouchesLeft
  <2>3. PICK start \in Nat : start = freeSlots[m][1] /\ start < addr
    BY <1>2, <2>2
  <2>4. Merged(addr) = [freeSlots EXCEPT ![m] = <<start, end>>]
    BY <1>1, <1>3, <2>1, <2>3, Zenon DEF Merged
  <2>5. \A k \in DOMAIN freeSlots : k < m => freeSlots[k][2] < start
    BY <2>2, <2>3 DEF Ordered
  <2>6. ASSUME NEW k \in DOMAIN freeSlots, m < k PROVE end < freeSlots[k][1]
    <3>1. k \notin Before(addr)
      BY <2>1, <2>2, <2>6, <1>2
    <3> QED BY <3>1, <1>3, ApartFromRight, Sides
  <2>7. /\ SlotList(Merged(addr)) /\ Ordered(Merged(addr))
        /\ \A b \in Nat : Free(Merged(addr), b) <=> Free(freeSlots, b) \/ Within(b, start, end)
    <3>1. start <= freeSlots[m][1] /\ freeSlots[m][2] <= end /\ start < end
      BY <2>2, <2>3, <1>1
    <3> DEFINE more == [freeSlots EXCEPT ![m] = <<start, end>>]
    <3>2. /\ SlotList(more) /\ Ordered(more)
          /\ \A b \in Nat : Free(more, b) <=> Free(freeSlots, b) \/ Within(b, start, end)
      BY <3>1, <2>2, <2>3, <2>5, <2>6, <1>1, ExtendSlot
    <3> HIDE DEF more
    <3>3. Merged(addr) = more
      BY <2>4 DEF more
    <3> QED BY <3>2, <3>3
  <2>8. ASSUME NEW b \in Nat
        PROVE  Free(freeSlots, b) \/ Within(b, start, end) <=> Free(freeSlots, b) \/ Within(b, addr, end)
    <3>1. Within(b, start, addr) => Free(freeSlots, b)
      BY <2>2, <2>3 DEF Free
    <3>2. Within(b, start, end) <=> Within(b, start, addr) \/ Within(b, addr, end)
      BY <2>3, <1>1 DEF Within
    <3> QED BY <3>1, <3>2
  <2> QED BY <2>7, <2>8
<1>4. CASE TouchesRight(addr) /\ ~TouchesLeft(addr)
  <2>1. PICK m : m = Min(After(addr)) /\ m \in After(addr) /\ \A k \in After(addr) : m <= k
    BY <1>4, RightIs DEF TouchesRight
  <2>2. m \in DOMAIN freeSlots /\ freeSlots[m][1] = end
    BY <1>1, <1>4, <2>1, Sides DEF TouchesRight
  <2>3. PICK last \in Nat : last = freeSlots[m][2] /\ end < last /\ last <= Top
    BY <1>2, <2>2
  <2>4. Merged(addr) = [freeSlots EXCEPT ![m] = <<addr, last>>]
    BY <1>1, <1>4, <2>1, <2>3, Zenon DEF Merged
  <2>5. \A k \in DOMAIN freeSlots : m < k => last < freeSlots[k][1]
    BY <2>2, <2>3 DEF Ordered
  <2>6. ASSUME NEW k \in DOMAIN freeSlots, k < m PROVE freeSlots[k][2] < addr
    <3>1. k \notin After(addr)
      BY <2>1, <2>2, <2>6, <1>2
    <3> QED BY <3>1, <1>4, ApartFromLeft, Sides
  <2>7. /\ SlotList(Merged(addr)) /\ Ordered(Merged(addr))
        /\ \A b \in Nat : Free(Merged(addr), b) <=> Free(freeSlots, b) \/ Within(b, addr, last)
    <3>1. addr <= freeSlots[m][1] /\ freeSlots[m][2] <= last /\ addr < last
      BY <2>2, <2>3, <1>1
    <3> DEFINE more == [freeSlots EXCEPT ![m] = <<addr, last>>]
    <3>2. /\ SlotList(more) /\ Ordered(more)
          /\ \A b \in Nat : Free(more, b) <=> Free(freeSlots, b) \/ Within(b, addr, last)
      BY <3>1, <2>2, <2>3, <2>5, <2>6, <1>1, ExtendSlot
    <3> HIDE DEF more
    <3>3. Merged(addr) = more
      BY <2>4 DEF more
    <3> QED BY <3>2, <3>3
  <2>8. ASSUME NEW b \in Nat
        PROVE  Free(freeSlots, b) \/ Within(b, addr, last) <=> Free(freeSlots, b) \/ Within(b, addr, end)
    <3>1. Within(b, end, last) => Free(freeSlots, b)
      BY <2>2, <2>3 DEF Free
    <3>2. Within(b, addr, last) <=> Within(b, addr, end) \/ Within(b, end, last)
      BY <2>3, <1>1 DEF Within
    <3> QED BY <3>1, <3>2
  <2> QED BY <2>7, <2>8
<1>5. CASE ~TouchesLeft(addr) /\ ~TouchesRight(addr)
  <2> DEFINE more == freeSlots \o Slot(addr, end)
  <2>1. \A k \in DOMAIN freeSlots : freeSlots[k][2] < addr \/ end < freeSlots[k][1]
    BY <1>5, ApartFromLeft, ApartFromRight, Sides
  <2>2. Separate(freeSlots)
    <3> SUFFICES ASSUME NEW k \in DOMAIN freeSlots, NEW l \in DOMAIN freeSlots, k # l
                 PROVE  freeSlots[k][2] < freeSlots[l][1] \/ freeSlots[l][2] < freeSlots[k][1]
      BY DEF Separate
    <3>1. k < l \/ l < k
      BY <1>2
    <3> QED BY <3>1 DEF Ordered
  <2>3. /\ SlotList(more) /\ Separate(more)
        /\ \A b \in Nat : Free(more, b) <=> Free(freeSlots, b) \/ Within(b, addr, end)
    BY <1>1, <2>1, <2>2, AddSlot
  <2>4. Append(freeSlots, <<addr, end>>) = more
    <3>1. freeSlots \in Seq(Nat \X Nat) /\ <<addr, end>> \in Nat \X Nat
      BY <1>1 DEF SlotList
    <3>2. Slot(addr, end) = << <<addr, end>> >>
      BY <1>1 DEF Slot
    <3> QED BY <3>1, <3>2, AppendIsConcat
  <2>5. Merged(addr) = Sorted(more)
    BY <1>1, <1>5, <2>4, Zenon DEF Merged
  <2> HIDE DEF more
  <2> QED BY <2>3, <2>5, SortedOrdered
<1> QED BY <1>3, <1>4, <1>5
-----------------------------------------------------------------------------
(* The inductive invariant. *)

Used(b) == \E a \in DOMAIN addr2nbytes : Within(b, a, a + addr2nbytes[a])

SlotsOK == SlotList(freeSlots) /\ Ordered(freeSlots)

\* The free list and the blocks share the bytes between them.
Cover == \A b \in Bytes : Free(freeSlots, b) <=> ~Used(b)

\* Every block is some tensor's, blocks lie apart and below the highest end.
Blocks ==
    /\ maximumAllocated \in 0 .. Top
    /\ \A a \in DOMAIN addr2nbytes :
         a \in Nat /\ addr2nbytes[a] \in Nat \ {0} /\ a + addr2nbytes[a] <= maximumAllocated
    /\ \A a, c \in DOMAIN addr2nbytes : a < c => a + addr2nbytes[a] <= c

Names ==
    /\ DOMAIN addrOf \subseteq Owners
    /\ \A o \in DOMAIN addrOf : addrOf[o] \in DOMAIN addr2nbytes
    /\ \A a \in DOMAIN addr2nbytes : \E o \in DOMAIN addrOf : addrOf[o] = a
    /\ \A o, u \in DOMAIN addrOf : addrOf[o] = addrOf[u] => o = u

Counted == allocated = Cardinality({b \in Bytes : Used(b)})

Memory == SlotsOK /\ Cover /\ Blocks /\ Names /\ Counted

\* What is settled when the kernel is complete, and what was before.
Settled ==
    /\ barriers \in 0 .. MaxBarriers /\ workspaceBytes \in Sizes \union {0}
    /\ arena \in [workspace : Nat, bytes : Nat]
    /\ phase \in {"body", "barriersPlaced", "sized", "launched", "noSlot", "tooLarge"}
    /\ phase = "body" => BarrierTensor \notin DOMAIN addrOf
    /\ phase \in {"sized", "launched"} =>
         /\ arena.bytes >= maximumAllocated
         /\ workspaceBytes > 0 => /\ arena.workspace >= maximumAllocated
                                  /\ arena.bytes = arena.workspace + workspaceBytes
    /\ phase = "launched" => arena.bytes <= Limit

Below == \A b \in touched : b \in Nat /\ b < maximumAllocated

IInv == Memory /\ Settled /\ Below

Safe == bridged \in BOOLEAN /\ (~bridged => IInv)

\* What allocate does when the i-th slot is the first that fits.
Placed(o, i, addr, nbytes) ==
    /\ freeSlots' = Sorted(RemoveAt(freeSlots, i) \o Leftovers(freeSlots[i], addr, nbytes))
    /\ addr2nbytes' = [x \in DOMAIN addr2nbytes \union {addr} |->
                          IF x = addr THEN nbytes ELSE addr2nbytes[x]]
    /\ maximumAllocated' = Max({maximumAllocated, addr + nbytes})
    /\ allocated' = allocated + nbytes
    /\ addrOf' = [x \in DOMAIN addrOf \union {o} |-> IF x = o THEN addr ELSE addrOf[x]]

FirstFit(i, addr, n, a, nbytes) ==
    /\ i \in DOMAIN freeSlots /\ addr \in Nat /\ nbytes \in Nat \ {0}
    /\ nbytes = AlignUp(n, a) /\ addr = AlignUp(freeSlots[i][1], a)
    /\ freeSlots[i][1] <= addr /\ addr + nbytes <= freeSlots[i][2]
    /\ \A j \in DOMAIN freeSlots : j < i => ~Fits(freeSlots[j], nbytes, a)

LEMMA AllocateCases ==
  ASSUME SlotsOK, NEW o, NEW n \in Nat \ {0}, NEW a \in Nat \ {0}, NEW next,
         Allocate(o, n, a, next)
  PROVE  \/ phase' = "noSlot" /\ UNCHANGED <<allocator, addrOf>>
         \/ /\ phase' = next
            /\ \E i, addr, nbytes : FirstFit(i, addr, n, a, nbytes) /\ Placed(o, i, addr, nbytes)
<1>1. PICK nbytes \in Nat \ {0} : nbytes = AlignUp(n, a)
  <2>1. AlignUp(n, a) \in n .. (n + a - 1)
    BY AlignUpIs
  <2> QED BY <2>1
<1> DEFINE fitting == {j \in DOMAIN freeSlots : Fits(freeSlots[j], nbytes, a)}
<1>2. CASE fitting = {}
  BY <1>1, <1>2 DEF Allocate
<1>3. CASE fitting # {}
  <2>1. \A j \in DOMAIN freeSlots : j \in Nat /\ freeSlots[j][1] \in Nat /\ freeSlots[j][2] \in Nat
    BY SlotFacts DEF SlotsOK
  <2>2. fitting \in SUBSET Nat
    BY <2>1
  <2>3. PICK i : i = Min(fitting) /\ i \in fitting /\ \A j \in fitting : i <= j
    BY <1>3, <2>2, Least
  <2>4. i \in DOMAIN freeSlots /\ Fits(freeSlots[i], nbytes, a) /\ i \in Nat
    BY <2>1, <2>3
  <2>5. AlignUp(freeSlots[i][1], a) \in freeSlots[i][1] .. (freeSlots[i][1] + a - 1)
    BY <2>1, <2>4, AlignUpIs
  <2>6. PICK addr \in Nat : addr = AlignUp(freeSlots[i][1], a) /\ freeSlots[i][1] <= addr
    BY <2>1, <2>4, <2>5
  <2>7. addr + nbytes <= freeSlots[i][2]
    BY <2>4, <2>6 DEF Fits
  <2>8. \A j \in DOMAIN freeSlots : j < i => ~Fits(freeSlots[j], nbytes, a)
    BY <2>1, <2>3, <2>4
  <2>9. FirstFit(i, addr, n, a, nbytes)
    BY <1>1, <2>4, <2>6, <2>7, <2>8 DEF FirstFit
  <2>10. phase' = next /\ Placed(o, i, addr, nbytes)
    <3>1. \/ phase' = next /\ Placed(o, Min(fitting), AlignUp(freeSlots[Min(fitting)][1], a), nbytes)
          \/ fitting = {}
      BY <1>1, Zenon DEF Allocate, Placed
    <3> HIDE DEF fitting
    <3> QED BY <1>3, <2>3, <2>6, <3>1, Zenon
  <2> QED BY <2>9, <2>10
<1> QED BY <1>2, <1>3

LEMMA BlockCount ==
  ASSUME NEW S, IsFiniteSet(S), NEW addr \in Nat, NEW mid \in Nat, addr < mid,
         \A b \in addr .. mid - 1 : b \notin S
  PROVE  /\ IsFiniteSet(S \cup (addr .. mid - 1))
         /\ Cardinality(S \cup (addr .. mid - 1)) = Cardinality(S) + (mid - addr)
<1> DEFINE R == addr .. mid - 1
<1>1. IsFiniteSet(R) /\ Cardinality(R) = (mid - 1) - addr + 1
  BY FS_Interval
<1>2. S \cap R = {}
  OBVIOUS
<1> HIDE DEF R
<1>3. IsFiniteSet(S \cup R) /\ Cardinality(S \cup R) = Cardinality(S) + Cardinality(R) - Cardinality(S \cap R)
  BY <1>1, FS_Union
<1>4. Cardinality(S \cap R) = 0 /\ Cardinality(S) \in Nat
  BY <1>2, FS_EmptySet, FS_CardinalityType
<1> QED BY <1>1, <1>3, <1>4 DEF R

LEMMA UsedFinite ==
  /\ IsFiniteSet({b \in Bytes : Used(b)})
  /\ Cardinality({b \in Bytes : Used(b)}) \in 0 .. Top
<1>1. Top \in Nat
  BY SizeAssumption
<1>2. IsFiniteSet(Bytes) /\ Cardinality(Bytes) = Top
  <2>1. IsFiniteSet(0 .. Top - 1) /\ Cardinality(0 .. Top - 1) = IF 0 > Top - 1 THEN 0 ELSE (Top - 1) - 0 + 1
    BY <1>1, FS_Interval
  <2>2. (IF 0 > Top - 1 THEN 0 ELSE (Top - 1) - 0 + 1) = Top
    BY <1>1
  <2> QED BY <2>1, <2>2 DEF Bytes
<1> DEFINE S == {b \in Bytes : Used(b)}
<1>3. S \in SUBSET Bytes
  OBVIOUS
<1> HIDE DEF S
<1>4. IsFiniteSet(S) /\ Cardinality(S) <= Top /\ Cardinality(S) \in Nat
  BY <1>2, <1>3, FS_Subset, FS_CardinalityType
<1> QED BY <1>1, <1>4 DEF S

\* A placed block was free, so it is apart from the others.
LEMMA PlacedFree ==
  ASSUME Memory, NEW i, NEW addr, NEW n, NEW a, NEW nbytes, FirstFit(i, addr, n, a, nbytes)
  PROVE  /\ addr \in Bytes /\ addr + nbytes <= Top /\ addr \notin DOMAIN addr2nbytes
         /\ \A b \in Nat : Within(b, addr, addr + nbytes) =>
              b \in Bytes /\ Free(freeSlots, b) /\ ~Used(b)
         /\ \A c \in DOMAIN addr2nbytes : c + addr2nbytes[c] <= addr \/ addr + nbytes <= c
<1>1. PICK start \in Nat, end \in Nat, mid \in Nat :
        start = freeSlots[i][1] /\ end = freeSlots[i][2] /\ mid = addr + nbytes
  BY SlotFacts DEF Memory, SlotsOK, FirstFit
<1>2. /\ start <= addr /\ addr < mid /\ mid <= end /\ end <= Top /\ Top \in Nat
      /\ addr \in Nat /\ i \in DOMAIN freeSlots
  BY <1>1, SizeAssumption, SlotFacts DEF Memory, SlotsOK, FirstFit
<1>3. ASSUME NEW b \in Nat, Within(b, addr, mid)
      PROVE  b \in Bytes /\ Free(freeSlots, b) /\ ~Used(b)
  <2>1. Within(b, start, end)
    BY <1>2, <1>3 DEF Within
  <2>2. b \in Bytes
    BY <1>2, <1>3 DEF Bytes, Within
  <2>3. Free(freeSlots, b)
    BY <1>1, <1>2, <2>1 DEF Free
  <2> QED BY <2>2, <2>3 DEF Memory, Cover
<1>4. addr \in Bytes
  BY <1>2 DEF Bytes
<1>5. Within(addr, addr, mid)
  BY <1>2 DEF Within
<1>6. ASSUME NEW c \in DOMAIN addr2nbytes
      PROVE  c # addr /\ (c + addr2nbytes[c] <= addr \/ mid <= c)
  <2>1. PICK d \in Nat : c \in Nat /\ addr2nbytes[c] \in Nat \ {0} /\ d = c + addr2nbytes[c] /\ c < d
    BY DEF Memory, Blocks
  <2>2. \A b \in Nat : Within(b, c, d) => ~Within(b, addr, mid)
    BY <2>1, <1>3 DEF Used
  <2>3. ~Within(c, addr, mid) /\ ~Within(addr, c, d)
    BY <2>1, <2>2, <1>2, <1>5 DEF Within
  <2> QED BY <2>1, <2>3, <1>2 DEF Within
<1> QED BY <1>1, <1>2, <1>3, <1>4, <1>6

LEMMA PlacedSlots ==
  ASSUME Memory, NEW o, NEW i, NEW addr, NEW n, NEW a, NEW nbytes,
         FirstFit(i, addr, n, a, nbytes), Placed(o, i, addr, nbytes)
  PROVE  /\ SlotList(freeSlots') /\ Ordered(freeSlots')
         /\ \A b \in Nat : Free(freeSlots', b) <=> Free(freeSlots, b) /\ ~Within(b, addr, addr + nbytes)
<1> DEFINE cut == RemoveAt(freeSlots, i) \o Leftovers(freeSlots[i], addr, nbytes)
<1>1. /\ SlotList(cut) /\ Separate(cut)
      /\ \A b \in Nat : Free(cut, b) <=> Free(freeSlots, b) /\ ~Within(b, addr, addr + nbytes)
  BY CutSlots DEF Memory, SlotsOK, FirstFit
<1>2. freeSlots' = Sorted(cut)
  BY DEF Placed
<1> HIDE DEF cut
<1> QED BY <1>1, <1>2, SortedOrdered

LEMMA PlacedUsed ==
  ASSUME Memory, NEW o, NEW i, NEW addr, NEW n, NEW a, NEW nbytes,
         FirstFit(i, addr, n, a, nbytes), Placed(o, i, addr, nbytes)
  PROVE  /\ DOMAIN addr2nbytes' = DOMAIN addr2nbytes \cup {addr}
         /\ addr2nbytes'[addr] = nbytes
         /\ \A c \in DOMAIN addr2nbytes : c # addr /\ addr2nbytes'[c] = addr2nbytes[c]
         /\ \A b \in Nat : Used(b)' <=> Used(b) \/ Within(b, addr, addr + nbytes)
<1>1. addr \notin DOMAIN addr2nbytes
  BY PlacedFree
<1>2. /\ DOMAIN addr2nbytes' = DOMAIN addr2nbytes \cup {addr}
      /\ addr2nbytes'[addr] = nbytes
      /\ \A c \in DOMAIN addr2nbytes : c # addr /\ addr2nbytes'[c] = addr2nbytes[c]
  BY <1>1 DEF Placed
<1>3. ASSUME NEW b \in Nat PROVE Used(b)' <=> Used(b) \/ Within(b, addr, addr + nbytes)
  <2>1. Used(b)' <=> \E c \in DOMAIN addr2nbytes' : Within(b, c, c + addr2nbytes'[c])
    BY DEF Used, Within
  <2> QED BY <1>2, <2>1 DEF Used
<1> QED BY <1>2, <1>3

LEMMA PlacedMemory ==
  ASSUME Memory, NEW o \in Owners \ DOMAIN addrOf, NEW i, NEW addr, NEW n, NEW a, NEW nbytes,
         FirstFit(i, addr, n, a, nbytes), Placed(o, i, addr, nbytes)
  PROVE  /\ Memory'
         /\ maximumAllocated <= maximumAllocated' /\ addr + nbytes <= maximumAllocated'
<1>1. PICK mid \in Nat : mid = addr + nbytes
  BY DEF FirstFit
<1>2. addr \in Nat /\ nbytes \in Nat \ {0} /\ addr < mid /\ mid <= Top /\ Top \in Nat
  BY <1>1, PlacedFree, SizeAssumption DEF FirstFit
<1>3. /\ DOMAIN addr2nbytes' = DOMAIN addr2nbytes \cup {addr}
      /\ addr2nbytes'[addr] = nbytes
      /\ \A c \in DOMAIN addr2nbytes : c # addr /\ addr2nbytes'[c] = addr2nbytes[c]
      /\ \A b \in Nat : Used(b)' <=> Used(b) \/ Within(b, addr, mid)
  BY <1>1, PlacedUsed
<1>4. /\ \A b \in Nat : Within(b, addr, mid) => b \in Bytes /\ ~Used(b)
      /\ \A c \in DOMAIN addr2nbytes : c + addr2nbytes[c] <= addr \/ mid <= c
  BY <1>1, PlacedFree
<1>5. maximumAllocated \in Nat /\ maximumAllocated <= Top
  BY SizeAssumption DEF Memory, Blocks
<1>6. maximumAllocated' = IF maximumAllocated < mid THEN mid ELSE maximumAllocated
  <2>1. maximumAllocated' = Max({maximumAllocated, mid})
    BY <1>1 DEF Placed
  <2> QED BY <2>1, <1>5, Larger
<1>7. /\ maximumAllocated' \in 0 .. Top
      /\ maximumAllocated <= maximumAllocated' /\ mid <= maximumAllocated'
  BY <1>2, <1>5, <1>6
<1>8. SlotsOK'
  <2>1. SlotList(freeSlots') /\ Ordered(freeSlots')
    BY PlacedSlots
  <2> QED BY <2>1 DEF SlotsOK, SlotList, Ordered
<1>9. Cover'
  <2> SUFFICES ASSUME NEW b \in Bytes PROVE Free(freeSlots', b) <=> ~Used(b)'
    BY DEF Cover, Bytes, Free, Within
  <2>1. b \in Nat
    BY DEF Bytes
  <2>2. Free(freeSlots', b) <=> Free(freeSlots, b) /\ ~Within(b, addr, mid)
    BY <1>1, <2>1, PlacedSlots
  <2>3. Free(freeSlots, b) <=> ~Used(b)
    BY DEF Memory, Cover
  <2> QED BY <1>3, <2>1, <2>2, <2>3
<1>10. Blocks'
  <2>1. ASSUME NEW c \in DOMAIN addr2nbytes'
        PROVE  c \in Nat /\ addr2nbytes'[c] \in Nat \ {0} /\ c + addr2nbytes'[c] <= maximumAllocated'
    <3>1. CASE c = addr
      BY <3>1, <1>1, <1>2, <1>3, <1>7
    <3>2. CASE c \in DOMAIN addr2nbytes
      <4>1. c \in Nat /\ addr2nbytes[c] \in Nat \ {0} /\ c + addr2nbytes[c] <= maximumAllocated
        BY <3>2 DEF Memory, Blocks
      <4> QED BY <3>2, <4>1, <1>3, <1>5, <1>7
    <3> QED BY <3>1, <3>2, <1>3
  <2>2. ASSUME NEW c \in DOMAIN addr2nbytes', NEW d \in DOMAIN addr2nbytes', c < d
        PROVE  c + addr2nbytes'[c] <= d
    <3>1. CASE c = addr
      <4>1. d \in DOMAIN addr2nbytes /\ d # addr
        BY <3>1, <2>2, <1>2, <1>3
      <4>2. d \in Nat /\ addr2nbytes[d] \in Nat \ {0}
        BY <4>1 DEF Memory, Blocks
      <4> QED BY <3>1, <4>1, <4>2, <2>2, <1>1, <1>2, <1>3, <1>4
    <3>2. CASE d = addr
      <4>1. c \in DOMAIN addr2nbytes /\ c # addr
        BY <3>2, <2>2, <1>2, <1>3
      <4>2. c \in Nat /\ addr2nbytes[c] \in Nat \ {0}
        BY <4>1 DEF Memory, Blocks
      <4>3. c + addr2nbytes[c] <= addr
        BY <3>2, <4>1, <4>2, <2>2, <1>2, <1>4
      <4> QED BY <3>2, <4>1, <4>3, <1>3
    <3>3. CASE c \in DOMAIN addr2nbytes /\ d \in DOMAIN addr2nbytes
      BY <3>3, <2>2, <1>3 DEF Memory, Blocks
    <3> QED BY <3>1, <3>2, <3>3, <1>3
  <2> QED BY <2>1, <2>2, <1>7 DEF Blocks
<1>11. Names'
  <2>1. /\ DOMAIN addrOf' = DOMAIN addrOf \cup {o} /\ addrOf'[o] = addr
        /\ \A u \in DOMAIN addrOf : u # o /\ addrOf'[u] = addrOf[u]
    BY DEF Placed
  <2>2. addr \notin DOMAIN addr2nbytes
    BY PlacedFree
  <2>3. /\ DOMAIN addrOf \subseteq Owners
        /\ \A u \in DOMAIN addrOf : addrOf[u] \in DOMAIN addr2nbytes
        /\ \A c \in DOMAIN addr2nbytes : \E u \in DOMAIN addrOf : addrOf[u] = c
        /\ \A u, v \in DOMAIN addrOf : addrOf[u] = addrOf[v] => u = v
    BY DEF Memory, Names
  <2>4. DOMAIN addrOf' \subseteq Owners
    BY <2>1, <2>3
  <2>5. \A u \in DOMAIN addrOf' : addrOf'[u] \in DOMAIN addr2nbytes'
    BY <1>3, <2>1, <2>3
  <2>6. ASSUME NEW c \in DOMAIN addr2nbytes' PROVE \E u \in DOMAIN addrOf' : addrOf'[u] = c
    <3>1. CASE c = addr
      BY <3>1, <2>1
    <3>2. CASE c \in DOMAIN addr2nbytes
      <4>1. PICK u \in DOMAIN addrOf : addrOf[u] = c
        BY <3>2, <2>3
      <4> QED BY <4>1, <2>1
    <3> QED BY <3>1, <3>2, <1>3
  <2>7. ASSUME NEW u \in DOMAIN addrOf', NEW v \in DOMAIN addrOf', addrOf'[u] = addrOf'[v]
        PROVE  u = v
    BY <2>1, <2>2, <2>3, <2>7
  <2> QED BY <2>4, <2>5, <2>6, <2>7 DEF Names
<1>12. Counted'
  <2> DEFINE S == {b \in Bytes : Used(b)}
  <2>1. {b \in Bytes : Used(b)'} = S \cup (addr .. mid - 1)
    <3>1. \A b \in Bytes : b \in Nat
      BY DEF Bytes
    <3>2. \A b : b \in addr .. mid - 1 <=> b \in Nat /\ Within(b, addr, mid)
      BY <1>2 DEF Within
    <3> QED BY <3>1, <3>2, <1>3, <1>4
  <2>2. IsFiniteSet(S) /\ Cardinality(S) \in Nat
    BY UsedFinite
  <2>3. \A b \in addr .. mid - 1 : b \notin S
    <3>1. \A b \in addr .. mid - 1 : b \in Nat /\ Within(b, addr, mid)
      BY <1>2 DEF Within
    <3> QED BY <3>1, <1>4
  <2>4. allocated' = allocated + nbytes /\ allocated = Cardinality(S)
    BY DEF Placed, Memory, Counted
  <2> HIDE DEF S
  <2>5. Cardinality(S \cup (addr .. mid - 1)) = Cardinality(S) + (mid - addr)
    BY <2>2, <2>3, <1>2, BlockCount
  <2>6. mid - addr = nbytes
    BY <1>1, <1>2
  <2> QED BY <2>1, <2>4, <2>5, <2>6 DEF Counted, Bytes
<1> QED BY <1>1, <1>7, <1>8, <1>9, <1>10, <1>11, <1>12 DEF Memory

LEMMA LiveBlock ==
  ASSUME Memory, NEW t \in DOMAIN addrOf
  PROVE  /\ addrOf[t] \in DOMAIN addr2nbytes
         /\ BlockAt(addrOf[t], addrOf[t] + addr2nbytes[addrOf[t]])
<1>1. addrOf[t] \in DOMAIN addr2nbytes
  BY DEF Memory, Names
<1>2. PICK addr, end \in Nat : addr = addrOf[t] /\ end = addr + addr2nbytes[addr]
  BY <1>1 DEF Memory, Blocks
<1>3. addr \in Nat /\ addr < end /\ end <= maximumAllocated
  BY <1>1, <1>2 DEF Memory, Blocks
<1>4. end <= Top /\ Top \in Nat
  BY <1>2, <1>3, SizeAssumption DEF Memory, Blocks
<1>5. ASSUME NEW k \in DOMAIN freeSlots
      PROVE  freeSlots[k][2] <= addr \/ end <= freeSlots[k][1]
  <2>1. PICK p \in Nat, q \in Nat : p = freeSlots[k][1] /\ q = freeSlots[k][2] /\ p < q /\ q <= Top
    BY SlotFacts DEF Memory, SlotsOK
  <2>2. \A b \in Nat : Within(b, p, q) => ~Within(b, addr, end)
    <3> SUFFICES ASSUME NEW b \in Nat, Within(b, p, q) PROVE ~Within(b, addr, end)
      OBVIOUS
    <3>1. b \in Bytes
      BY <2>1, <1>4 DEF Within, Bytes
    <3>2. Free(freeSlots, b)
      BY <2>1 DEF Free
    <3>3. ~Used(b)
      BY <3>1, <3>2 DEF Memory, Cover
    <3> QED BY <3>3, <1>1, <1>2 DEF Used
  <2>3. ~Within(p, addr, end) /\ ~Within(addr, p, q)
    <3>1. Within(p, p, q) /\ Within(addr, addr, end)
      BY <2>1, <1>2, <1>3 DEF Within
    <3> QED BY <3>1, <2>1, <2>2, <1>3
  <2> QED BY <2>1, <2>3, <1>2, <1>3 DEF Within
<1> QED BY <1>1, <1>2, <1>3, <1>4, <1>5 DEF BlockAt

\* What free does: neither the assertion nor the look-up fails.
Freed(t, addr) ==
    /\ freeSlots' = Merged(addr) /\ ~(TouchesLeft(addr) /\ TouchesRight(addr))
    /\ allocated' = allocated - addr2nbytes[addr]
    /\ addr2nbytes' = Without(addr2nbytes, addr)
    /\ addrOf' = Without(addrOf, t)
    /\ UNCHANGED <<maximumAllocated, phase>>

LEMMA FreeCases ==
  ASSUME Memory, ~bridged', NEW t, FreeShared(t)
  PROVE  t \in DOMAIN addrOf /\ phase = "body" /\ Freed(t, addrOf[t])
<1>1. t \in DOMAIN addrOf /\ phase = "body"
  BY DEF FreeShared
<1>2. Cardinality(Before(addrOf[t])) + Cardinality(After(addrOf[t])) = Len(freeSlots)
  BY <1>1, LiveBlock, SidesCount DEF Memory, SlotsOK
<1>3. addrOf[t] \in DOMAIN addr2nbytes
  BY <1>1, LiveBlock
<1> QED BY <1>1, <1>2, <1>3, Zenon DEF FreeShared, Freed

LEMMA FreedMemory ==
  ASSUME Memory, NEW t \in DOMAIN addrOf, Freed(t, addrOf[t])
  PROVE  Memory'
<1>1. PICK addr, end \in Nat : addr = addrOf[t] /\ end = addr + addr2nbytes[addr]
  BY LiveBlock DEF Memory, Blocks
<1>2. addr \in DOMAIN addr2nbytes /\ BlockAt(addr, end)
  BY <1>1, LiveBlock
<1>3. addr \in Nat /\ addr2nbytes[addr] \in Nat \ {0} /\ addr < end /\ end <= Top /\ Top \in Nat
  BY <1>1, <1>2, SizeAssumption DEF BlockAt, Memory, Blocks
<1>4. /\ DOMAIN addr2nbytes' = DOMAIN addr2nbytes \ {addr}
      /\ \A c \in DOMAIN addr2nbytes' : addr2nbytes'[c] = addr2nbytes[c]
      /\ DOMAIN addrOf' = DOMAIN addrOf \ {t}
      /\ \A u \in DOMAIN addrOf' : addrOf'[u] = addrOf[u]
      /\ maximumAllocated' = maximumAllocated
  BY <1>1 DEF Freed, Without
<1>5. ASSUME NEW c \in DOMAIN addr2nbytes, c # addr
      PROVE  /\ c \in Nat /\ addr2nbytes[c] \in Nat \ {0}
             /\ \A b \in Nat : Within(b, c, c + addr2nbytes[c]) => ~Within(b, addr, end)
  <2>1. c \in Nat /\ addr2nbytes[c] \in Nat \ {0}
    BY DEF Memory, Blocks
  <2>2. c + addr2nbytes[c] <= addr \/ end <= c
    <3>1. CASE c < addr
      BY <3>1, <1>2 DEF Memory, Blocks
    <3>2. CASE addr < c
      BY <3>2, <1>1, <1>2 DEF Memory, Blocks
    <3> QED BY <3>1, <3>2, <2>1, <1>3, <1>5
  <2> QED BY <2>1, <2>2, <1>1, <1>3 DEF Within
<1>6. ASSUME NEW b \in Nat PROVE Used(b)' <=> Used(b) /\ ~Within(b, addr, end)
  <2>1. Used(b)' <=> \E c \in DOMAIN addr2nbytes' : Within(b, c, c + addr2nbytes'[c])
    BY DEF Used, Within
  <2>2. ASSUME Used(b)' PROVE Used(b) /\ ~Within(b, addr, end)
    <3>1. PICK c \in DOMAIN addr2nbytes \ {addr} : Within(b, c, c + addr2nbytes[c])
      BY <2>1, <2>2, <1>4
    <3> QED BY <3>1, <1>5 DEF Used
  <2>3. ASSUME Used(b), ~Within(b, addr, end) PROVE Used(b)'
    <3>1. PICK c \in DOMAIN addr2nbytes : Within(b, c, c + addr2nbytes[c])
      BY <2>3 DEF Used
    <3>2. c # addr
      BY <3>1, <2>3, <1>1
    <3> QED BY <3>1, <3>2, <2>1, <1>4
  <2> QED BY <2>2, <2>3
<1>7. /\ SlotList(Merged(addr)) /\ Ordered(Merged(addr))
      /\ \A b \in Nat : Free(Merged(addr), b) <=> Free(freeSlots, b) \/ Within(b, addr, end)
  BY <1>1, <1>2, MergedIs DEF Freed, Memory, SlotsOK
<1>8. freeSlots' = Merged(addr)
  BY <1>1 DEF Freed
<1>9. SlotsOK'
  <2>1. SlotList(freeSlots') /\ Ordered(freeSlots')
    BY <1>7, <1>8
  <2> QED BY <2>1 DEF SlotsOK, SlotList, Ordered
<1>10. \A b \in Nat : Within(b, addr, end) => b \in Bytes /\ Used(b)
  BY <1>1, <1>2, <1>3 DEF Within, Bytes, Used
<1>11. Cover'
  <2> SUFFICES ASSUME NEW b \in Bytes PROVE Free(freeSlots', b) <=> ~Used(b)'
    BY DEF Cover, Bytes, Free, Within
  <2>1. b \in Nat
    BY DEF Bytes
  <2>2. Free(freeSlots', b) <=> Free(freeSlots, b) \/ Within(b, addr, end)
    BY <1>7, <1>8, <2>1
  <2>3. Free(freeSlots, b) <=> ~Used(b)
    BY DEF Memory, Cover
  <2> QED BY <1>6, <2>1, <2>2, <2>3
<1>12. Blocks'
  <2>1. DOMAIN addr2nbytes' \subseteq DOMAIN addr2nbytes
    BY <1>4
  <2>2. Blocks
    BY DEF Memory
  <2>3. \A c \in DOMAIN addr2nbytes' :
          c \in Nat /\ addr2nbytes'[c] \in Nat \ {0} /\ c + addr2nbytes'[c] <= maximumAllocated'
    BY <2>1, <2>2, <1>4 DEF Blocks
  <2>4. \A c, d \in DOMAIN addr2nbytes' : c < d => c + addr2nbytes'[c] <= d
    BY <2>1, <2>2, <1>4 DEF Blocks
  <2> QED BY <2>2, <2>3, <2>4, <1>4 DEF Blocks
<1>13. Names'
  <2>1. /\ DOMAIN addrOf \subseteq Owners
        /\ \A u \in DOMAIN addrOf : addrOf[u] \in DOMAIN addr2nbytes
        /\ \A c \in DOMAIN addr2nbytes : \E u \in DOMAIN addrOf : addrOf[u] = c
        /\ \A u, v \in DOMAIN addrOf : addrOf[u] = addrOf[v] => u = v
    BY DEF Memory, Names
  <2>2. \A u \in DOMAIN addrOf' : u \in DOMAIN addrOf /\ u # t /\ addrOf'[u] = addrOf[u]
    BY <1>4
  <2>3. \A u \in DOMAIN addrOf' : addrOf'[u] \in DOMAIN addr2nbytes'
    BY <2>1, <2>2, <1>1, <1>4
  <2>4. ASSUME NEW c \in DOMAIN addr2nbytes' PROVE \E u \in DOMAIN addrOf' : addrOf'[u] = c
    <3>1. PICK u \in DOMAIN addrOf : addrOf[u] = c
      BY <2>1, <1>4
    <3>2. u # t
      BY <3>1, <1>1, <1>4
    <3> QED BY <3>1, <3>2, <1>4
  <2>5. \A u, v \in DOMAIN addrOf' : addrOf'[u] = addrOf'[v] => u = v
    BY <2>1, <2>2
  <2>6. DOMAIN addrOf' \subseteq Owners
    BY <2>1, <2>2
  <2> QED BY <2>3, <2>4, <2>5, <2>6 DEF Names
<1>14. Counted'
  <2> DEFINE S == {b \in Bytes : Used(b)'}
             R == addr .. end - 1
  <2>1. IsFiniteSet({b \in Bytes : Used(b)}) /\ Cardinality({b \in Bytes : Used(b)}) \in 0 .. Top
    BY UsedFinite
  <2>2. S \in SUBSET {b \in Bytes : Used(b)}
    BY <1>6 DEF Bytes
  <2>3. \A b : b \in R <=> b \in Nat /\ Within(b, addr, end)
    BY <1>1, <1>3 DEF Within
  <2>4. {b \in Bytes : Used(b)} = S \cup R
    <3>1. \A b \in Bytes : b \in Nat
      BY DEF Bytes
    <3> QED BY <3>1, <2>3, <1>6, <1>10
  <2>5. \A b \in R : b \notin S
    BY <2>3, <1>6
  <2>6. allocated' = allocated - addr2nbytes[addr] /\ allocated = Cardinality({b \in Bytes : Used(b)})
    BY <1>1 DEF Freed, Memory, Counted
  <2>7. IsFiniteSet(S)
    BY <2>1, <2>2, FS_Subset
  <2>8. Cardinality(S) \in Nat
    BY <2>7, FS_CardinalityType
  <2>9. Cardinality(S \cup R) = Cardinality(S) + (end - addr)
    <3> HIDE DEF S
    <3> QED BY <2>5, <2>7, <1>1, <1>3, BlockCount
  <2>10. end - addr = addr2nbytes[addr]
    BY <1>1, <1>3
  <2>11. allocated' = Cardinality(S)
    <3> HIDE DEF S, R
    <3>1. allocated = Cardinality(S) + (end - addr)
      BY <2>4, <2>6, <2>9
    <3> QED BY <3>1, <2>6, <2>8, <2>10, <1>1, <1>3
  <2> QED BY <2>11 DEF Counted, Bytes
<1> QED BY <1>9, <1>11, <1>12, <1>13, <1>14 DEF Memory
-----------------------------------------------------------------------------
(* Every step keeps the invariant. *)

LEMMA InitIInv ==
  ASSUME Init
  PROVE  IInv
<1>1. Top \in Nat \ {0}
  BY SizeAssumption
<1>2. /\ freeSlots \in Seq(Nat \X Nat) /\ DOMAIN freeSlots = {1}
      /\ freeSlots[1][1] = 0 /\ freeSlots[1][2] = Top
  BY <1>1 DEF Init
<1>3. DOMAIN addr2nbytes = {} /\ DOMAIN addrOf = {} /\ maximumAllocated = 0 /\ touched = {}
  BY DEF Init
<1>4. \A b : ~Used(b)
  BY <1>3 DEF Used
<1>5. Counted
  <2>1. {b \in Bytes : Used(b)} = {}
    BY <1>4
  <2>2. Cardinality({}) = 0
    BY FS_EmptySet
  <2> QED BY <2>1, <2>2 DEF Counted, Init
<1>6. SlotsOK
  BY <1>1, <1>2 DEF SlotsOK, SlotList, Ordered
<1>7. Cover
  <2> SUFFICES ASSUME NEW b \in Bytes PROVE Free(freeSlots, b)
    BY <1>4 DEF Cover
  <2>1. Within(b, freeSlots[1][1], freeSlots[1][2])
    BY <1>1, <1>2 DEF Bytes, Within
  <2> QED BY <2>1, <1>2 DEF Free
<1>8. Blocks /\ Names
  BY <1>1, <1>3 DEF Blocks, Names
<1>9. Settled
  BY <1>3, SizeAssumption DEF Settled, Init
<1>10. Below
  BY <1>3 DEF Below
<1> QED BY <1>5, <1>6, <1>7, <1>8, <1>9, <1>10 DEF IInv, Memory

\* Nothing about the memory changes when its variables do not.
LEMMA SameMemory ==
  ASSUME Memory, UNCHANGED <<allocator, addrOf>>
  PROVE  Memory' /\ maximumAllocated' = maximumAllocated /\ addrOf' = addrOf
<1>1. /\ freeSlots' = freeSlots /\ addr2nbytes' = addr2nbytes /\ allocated' = allocated
      /\ maximumAllocated' = maximumAllocated /\ addrOf' = addrOf
  BY DEF allocator
<1>2. \A b : Used(b)' <=> Used(b)
  BY <1>1 DEF Used, Within
<1>3. SlotsOK' /\ Blocks' /\ Names'
  BY <1>1 DEF Memory, SlotsOK, SlotList, Ordered, Blocks, Names
<1>4. Cover'
  BY <1>1, <1>2 DEF Memory, Cover, Free, Within, Bytes
<1>5. Counted'
  <2>1. {b \in Bytes : Used(b)'} = {b \in Bytes : Used(b)}
    BY <1>2
  <2> QED BY <1>1, <2>1 DEF Memory, Counted, Bytes
<1> QED BY <1>1, <1>3, <1>4, <1>5 DEF Memory

LEMMA Requests ==
  ASSUME NEW n \in Sizes, NEW a \in Alignments
  PROVE  n \in Nat \ {0} /\ a \in Nat \ {0}
  BY SizeAssumption, AlignAssumption

LEMMA AllocateInv ==
  ASSUME Memory, NEW o \in Owners \ DOMAIN addrOf,
         NEW n \in Nat \ {0}, NEW a \in Nat \ {0}, NEW next, Allocate(o, n, a, next)
  PROVE  /\ Memory' /\ maximumAllocated <= maximumAllocated'
         /\ \/ phase' = "noSlot" /\ UNCHANGED <<allocator, addrOf>>
            \/ /\ phase' = next
               /\ \E i, addr, nbytes : FirstFit(i, addr, n, a, nbytes) /\ Placed(o, i, addr, nbytes)
<1>1. maximumAllocated \in Nat
  BY DEF Memory, Blocks
<1>2. CASE phase' = "noSlot" /\ UNCHANGED <<allocator, addrOf>>
  BY <1>1, <1>2, SameMemory
<1>3. CASE phase' = next /\ \E i, addr, nbytes : FirstFit(i, addr, n, a, nbytes) /\ Placed(o, i, addr, nbytes)
  <2>1. PICK i, addr, nbytes : FirstFit(i, addr, n, a, nbytes) /\ Placed(o, i, addr, nbytes)
    BY <1>3
  <2>2. Memory' /\ maximumAllocated <= maximumAllocated'
    BY <2>1, PlacedMemory
  <2> QED BY <1>3, <2>2
<1> QED BY <1>2, <1>3, AllocateCases DEF Memory

LEMMA AllocateSharedInv ==
  ASSUME IInv, NEW t \in Tensors, AllocateShared(t)
  PROVE  IInv'
<1>1. PICK n \in Sizes, a \in Alignments : Allocate(t, n, a, "body")
  BY DEF AllocateShared
<1>2. /\ phase = "body" /\ t \in Owners \ DOMAIN addrOf /\ BarrierTensor # t
      /\ UNCHANGED <<barriers, workspaceBytes, arena>>
      /\ touched' = IF t \in DOMAIN addrOf'
                      THEN touched \union (addrOf'[t] .. addrOf'[t] + addr2nbytes'[addrOf'[t]] - 1)
                      ELSE touched
  BY NameAssumption DEF AllocateShared, Owners
<1>3. /\ Memory' /\ maximumAllocated <= maximumAllocated'
      /\ \/ phase' = "noSlot" /\ UNCHANGED <<allocator, addrOf>>
         \/ /\ phase' = "body"
            /\ \E i, addr, nbytes : FirstFit(i, addr, n, a, nbytes) /\ Placed(t, i, addr, nbytes)
  BY <1>1, <1>2, Requests, AllocateInv DEF IInv
<1>4. maximumAllocated \in Nat /\ maximumAllocated' \in Nat
  BY <1>3 DEF IInv, Memory, Blocks
<1>5. CASE phase' = "noSlot" /\ UNCHANGED <<allocator, addrOf>>
  <2>1. touched' = touched
    BY <1>2, <1>5
  <2>2. Settled'
    BY <1>2, <1>5 DEF Settled, IInv
  <2>3. Below'
    BY <1>3, <1>4, <2>1 DEF Below, IInv
  <2> QED BY <1>3, <2>2, <2>3 DEF IInv
<1>6. CASE phase' = "body" /\ \E i, addr, nbytes : FirstFit(i, addr, n, a, nbytes) /\ Placed(t, i, addr, nbytes)
  <2>1. PICK i, addr, nbytes : FirstFit(i, addr, n, a, nbytes) /\ Placed(t, i, addr, nbytes)
    BY <1>6
  <2>2. /\ DOMAIN addrOf' = DOMAIN addrOf \cup {t} /\ addrOf'[t] = addr
        /\ addr2nbytes'[addr] = nbytes /\ addr \in Nat /\ nbytes \in Nat \ {0}
    BY <2>1 DEF Placed, FirstFit
  <2>3. addr + nbytes <= maximumAllocated'
    BY <2>1, <1>2, PlacedMemory DEF IInv
  <2>4. touched' = touched \cup (addr .. addr + nbytes - 1)
    BY <1>2, <2>2
  <2>5. Below'
    BY <1>3, <1>4, <2>2, <2>3, <2>4 DEF Below, IInv
  <2>6. Settled'
    BY <1>2, <1>6, <2>2 DEF Settled, IInv
  <2> QED BY <1>3, <2>5, <2>6 DEF IInv
<1> QED BY <1>3, <1>5, <1>6

LEMMA FreeSharedInv ==
  ASSUME IInv, ~bridged', NEW t \in Tensors, FreeShared(t)
  PROVE  IInv'
<1>1. t \in DOMAIN addrOf /\ phase = "body" /\ Freed(t, addrOf[t])
  BY FreeCases DEF IInv
<1>2. Memory'
  BY <1>1, FreedMemory DEF IInv
<1>3. /\ UNCHANGED <<barriers, workspaceBytes, arena, touched, maximumAllocated, phase>>
      /\ DOMAIN addrOf' \subseteq DOMAIN addrOf
  BY <1>1 DEF FreeShared, Freed, Without
<1>4. Settled' /\ Below'
  BY <1>1, <1>3 DEF IInv, Settled, Below
<1> QED BY <1>2, <1>4 DEF IInv

LEMMA FinalizeBarriersInv ==
  ASSUME IInv, FinalizeBarriers
  PROVE  IInv'
<1>1. /\ phase = "body" /\ BarrierTensor \in Owners \ DOMAIN addrOf /\ barriers \in 0 .. MaxBarriers
      /\ UNCHANGED <<barriers, workspaceBytes, arena, touched>>
  BY DEF FinalizeBarriers, IInv, Settled, Owners
<1>2. Memory' /\ maximumAllocated <= maximumAllocated' /\ phase' \in {"barriersPlaced", "noSlot"}
  <2>1. CASE barriers = 0
    <3>1. phase' = "barriersPlaced" /\ UNCHANGED <<allocator, addrOf>> /\ maximumAllocated \in Nat
      BY <2>1 DEF FinalizeBarriers, IInv, Memory, Blocks
    <3> QED BY <3>1, SameMemory DEF IInv
  <2>2. CASE barriers # 0
    <3>1. Allocate(BarrierTensor, barriers * BarrierBytes, MinAlign, "barriersPlaced")
      BY <2>2 DEF FinalizeBarriers
    <3>2. barriers * BarrierBytes \in Nat \ {0} /\ MinAlign \in Nat \ {0}
      BY <2>2, <1>1, SizeAssumption, AlignAssumption
    <3>3. /\ Memory' /\ maximumAllocated <= maximumAllocated'
          /\ phase' = "noSlot" \/ phase' = "barriersPlaced"
      BY <3>1, <3>2, <1>1, AllocateInv DEF IInv
    <3> QED BY <3>3
  <2> QED BY <2>1, <2>2
<1>3. maximumAllocated \in Nat /\ maximumAllocated' \in Nat
  BY <1>2 DEF IInv, Memory, Blocks
<1>4. Settled'
  BY <1>1, <1>2 DEF IInv, Settled
<1>5. Below'
  BY <1>1, <1>2, <1>3 DEF IInv, Below
<1> QED BY <1>2, <1>4, <1>5 DEF IInv

LEMMA FinalizeArenaInv ==
  ASSUME IInv, FinalizeArena
  PROVE  IInv'
<1>1. /\ phase = "barriersPlaced" /\ phase' = "sized"
      /\ UNCHANGED <<allocator, addrOf, barriers, workspaceBytes, touched>>
  BY DEF FinalizeArena
<1>2. Memory' /\ maximumAllocated' = maximumAllocated /\ addrOf' = addrOf
  BY <1>1, SameMemory DEF IInv
<1>3. maximumAllocated \in Nat /\ workspaceBytes \in Nat /\ MinAlign \in Nat \ {0}
  BY SizeAssumption, AlignAssumption DEF IInv, Memory, Blocks, Settled
<1>4. PICK offset \in Nat : offset = AlignUp(maximumAllocated, MinAlign) /\ offset >= maximumAllocated
  <2>1. AlignUp(maximumAllocated, MinAlign) \in maximumAllocated .. (maximumAllocated + MinAlign - 1)
    BY <1>3, AlignUpIs
  <2> QED BY <2>1, <1>3
<1>5. arena' = IF workspaceBytes = 0
                 THEN [workspace |-> 0, bytes |-> maximumAllocated]
                 ELSE [workspace |-> offset, bytes |-> offset + workspaceBytes]
  BY <1>4 DEF FinalizeArena
<1>6. /\ arena' \in [workspace : Nat, bytes : Nat] /\ arena'.bytes >= maximumAllocated
      /\ workspaceBytes > 0 => /\ arena'.workspace >= maximumAllocated
                               /\ arena'.bytes = arena'.workspace + workspaceBytes
  BY <1>3, <1>4, <1>5
<1>7. Settled'
  BY <1>1, <1>2, <1>6 DEF IInv, Settled
<1>8. Below'
  BY <1>1, <1>2 DEF IInv, Below
<1> QED BY <1>2, <1>7, <1>8 DEF IInv

LEMMA NextIInv ==
  ASSUME IInv, ~bridged', [Next]_vars
  PROVE  IInv'
<1>1. ASSUME NEW t \in Tensors, AllocateShared(t) PROVE IInv'
  BY <1>1, AllocateSharedInv
<1>2. ASSUME NEW t \in Tensors, FreeShared(t) PROVE IInv'
  BY <1>2, FreeSharedInv
<1>3. CASE RequestWorkspace
  <2>1. /\ phase = "body" /\ UNCHANGED <<allocator, addrOf, barriers, arena, phase, touched>>
        /\ workspaceBytes' \in Sizes \cup {0}
    <3>1. PICK n \in Sizes : workspaceBytes' = Max({workspaceBytes, n})
      BY <1>3 DEF RequestWorkspace
    <3>2. workspaceBytes \in Sizes \cup {0} /\ workspaceBytes \in Nat /\ n \in Nat
      BY SizeAssumption DEF IInv, Settled
    <3>3. workspaceBytes' = IF workspaceBytes < n THEN n ELSE workspaceBytes
      BY <3>1, <3>2, Larger
    <3> QED BY <1>3, <3>2, <3>3 DEF RequestWorkspace
  <2>2. Memory' /\ maximumAllocated' = maximumAllocated /\ addrOf' = addrOf
    BY <2>1, SameMemory DEF IInv
  <2>3. Settled' /\ Below'
    BY <2>1, <2>2 DEF IInv, Settled, Below
  <2> QED BY <2>2, <2>3 DEF IInv
<1>4. CASE AllocateBarriers
  <2>1. /\ phase = "body" /\ UNCHANGED <<allocator, addrOf, workspaceBytes, arena, phase, touched>>
        /\ barriers' \in 0 .. MaxBarriers
    BY <1>4, SizeAssumption DEF AllocateBarriers, IInv, Settled
  <2>2. Memory' /\ maximumAllocated' = maximumAllocated /\ addrOf' = addrOf
    BY <2>1, SameMemory DEF IInv
  <2>3. Settled' /\ Below'
    BY <2>1, <2>2 DEF IInv, Settled, Below
  <2> QED BY <2>2, <2>3 DEF IInv
<1>5. CASE FinalizeBarriers
  BY <1>5, FinalizeBarriersInv
<1>6. CASE FinalizeArena
  BY <1>6, FinalizeArenaInv
<1>7. CASE LaunchKernel
  <2>1. /\ phase = "sized" /\ UNCHANGED <<allocator, addrOf, barriers, workspaceBytes, arena, touched>>
        /\ phase' = IF arena.bytes > Limit THEN "tooLarge" ELSE "launched"
    BY <1>7 DEF LaunchKernel
  <2>2. Memory' /\ maximumAllocated' = maximumAllocated /\ addrOf' = addrOf
    BY <2>1, SameMemory DEF IInv
  <2>3. arena.bytes \in Nat /\ Limit \in Nat
    BY SizeAssumption DEF IInv, Settled
  <2>4. Settled'
    BY <2>1, <2>2, <2>3 DEF IInv, Settled
  <2>5. Below'
    BY <2>1, <2>2 DEF IInv, Below
  <2> QED BY <2>2, <2>4, <2>5 DEF IInv
<1>8. CASE UNCHANGED vars
  <2>1. UNCHANGED <<allocator, addrOf, barriers, workspaceBytes, arena, phase, touched>>
    BY <1>8 DEF vars
  <2>2. Memory' /\ maximumAllocated' = maximumAllocated /\ addrOf' = addrOf
    BY <2>1, SameMemory DEF IInv
  <2>3. Settled' /\ Below'
    BY <2>1, <2>2 DEF IInv, Settled, Below
  <2> QED BY <2>2, <2>3 DEF IInv
<1> QED BY <1>1, <1>2, <1>3, <1>4, <1>5, <1>6, <1>7, <1>8 DEF Next

\* Once such a tensor is freed it stays freed.
LEMMA BridgedStays ==
  ASSUME bridged \in BOOLEAN, [Next]_vars
  PROVE  bridged' \in BOOLEAN /\ (bridged => bridged')
<1>1. ASSUME NEW t \in Tensors, AllocateShared(t) PROVE bridged' = bridged
  BY <1>1 DEF AllocateShared, Allocate, allocator
<1>2. ASSUME NEW t \in Tensors, FreeShared(t) PROVE bridged' \in BOOLEAN /\ (bridged => bridged')
  BY <1>2, Zenon DEF FreeShared, allocator
<1>3. CASE FinalizeBarriers
  BY <1>3 DEF FinalizeBarriers, Allocate, allocator
<1>4. CASE RequestWorkspace \/ AllocateBarriers \/ FinalizeArena \/ LaunchKernel
  BY <1>4 DEF RequestWorkspace, AllocateBarriers, FinalizeArena, LaunchKernel, allocator
<1>5. CASE UNCHANGED vars
  BY <1>5 DEF vars, allocator
<1> QED BY <1>1, <1>2, <1>3, <1>4, <1>5 DEF Next

\* The inductive invariant: as long as no tensor between two free slots was freed, slots
\* and live blocks fill the memory up to what is allocated, without gap or overlap, and
\* every block is of one live tensor.
THEOREM Invariant == Spec => []Safe
<1>1. Init => Safe
  BY InitIInv DEF Safe, Init
<1>2. Safe /\ [Next]_vars => Safe'
  <2>1. ASSUME Safe, [Next]_vars, ~bridged' PROVE IInv'
    BY <2>1, BridgedStays, NextIInv DEF Safe
  <2>2. ASSUME Safe, [Next]_vars PROVE bridged' \in BOOLEAN
    BY <2>2, BridgedStays DEF Safe
  <2> QED BY <2>1, <2>2 DEF Safe
<1> QED BY <1>1, <1>2, PTL DEF Spec
-----------------------------------------------------------------------------
(* What the runs check. *)

LEMMA SlotsTyped ==
  ASSUME IInv, NEW i \in DOMAIN freeSlots
  PROVE  freeSlots[i] \in (0 .. Top) \X (0 .. Top)
<1>1. /\ freeSlots[i][1] \in Nat /\ freeSlots[i][2] \in Nat
      /\ freeSlots[i] = <<freeSlots[i][1], freeSlots[i][2]>>
      /\ freeSlots[i][1] < freeSlots[i][2] /\ freeSlots[i][2] <= Top
  BY SlotFacts DEF IInv, Memory, SlotsOK
<1>2. freeSlots[i][1] \in 0 .. Top /\ freeSlots[i][2] \in 0 .. Top
  BY <1>1, SizeAssumption
<1> QED BY <1>1, <1>2

LEMMA TypeOKHolds ==
  ASSUME IInv, bridged \in BOOLEAN
  PROVE  TypeOK
<1>1. Top \in Nat /\ maximumAllocated \in Nat /\ maximumAllocated <= Top
  BY SizeAssumption DEF IInv, Memory, Blocks
<1>2. \A i \in DOMAIN freeSlots : freeSlots[i] \in (0 .. Top) \X (0 .. Top)
  BY SlotsTyped
<1>3. \A a \in DOMAIN addr2nbytes :
        a \in Nat /\ addr2nbytes[a] \in Nat \ {0} /\ a + addr2nbytes[a] <= maximumAllocated
  BY DEF IInv, Memory, Blocks
<1>4. DOMAIN addr2nbytes \subseteq Bytes
  BY <1>1, <1>3 DEF Bytes
<1>5. \A a \in DOMAIN addr2nbytes : addr2nbytes[a] \in 1 .. Top - a
  BY <1>1, <1>3
<1>6. allocated \in 0 .. Top
  BY UsedFinite DEF IInv, Memory, Counted
<1>7. DOMAIN addrOf \subseteq Owners /\ Range(addrOf) \subseteq Bytes
  BY <1>4 DEF IInv, Memory, Names, Range
<1>8. touched \subseteq Bytes
  BY <1>1 DEF IInv, Below, Bytes
<1>9. /\ barriers \in 0 .. MaxBarriers /\ workspaceBytes \in Sizes \union {0}
      /\ arena \in [workspace : Nat, bytes : Nat]
      /\ phase \in {"body", "barriersPlaced", "sized", "launched"} \union Failures
  BY DEF IInv, Settled, Failures
<1> QED BY <1>1, <1>2, <1>4, <1>5, <1>6, <1>7, <1>8, <1>9 DEF TypeOK

\* The bytes of a tensor, as a range of numbers.
LEMMA BytesOfIs ==
  ASSUME Memory, NEW o \in DOMAIN addrOf
  PROVE  /\ addrOf[o] \in DOMAIN addr2nbytes
         /\ \A b : b \in BytesOf(o) <=>
              b \in Nat /\ Within(b, addrOf[o], addrOf[o] + addr2nbytes[addrOf[o]])
<1>1. PICK addr, end \in Nat : addr = addrOf[o] /\ end = addr + addr2nbytes[addr]
  BY LiveBlock DEF Memory, Blocks
<1>2. addr \in DOMAIN addr2nbytes /\ addr \in Nat
  BY <1>1, LiveBlock DEF Memory, Blocks
<1>3. BytesOf(o) = addr .. end - 1
  <2>1. BytesOf(o) = addr .. addr + addr2nbytes[addr] - 1
    BY <1>1, Zenon DEF BytesOf
  <2>2. addr + addr2nbytes[addr] - 1 = end - 1
    BY <1>1, <1>2 DEF Memory, Blocks
  <2> QED BY <2>1, <2>2
<1>4. \A b : b \in addr .. end - 1 <=> b \in Nat /\ Within(b, addr, end)
  BY <1>2 DEF Within
<1> QED BY <1>1, <1>2, <1>3, <1>4

LEMMA OwnedIsUsed ==
  ASSUME Memory, NEW b \in Nat
  PROVE  Used(b) <=> \E o \in DOMAIN addrOf : b \in BytesOf(o)
<1>1. ASSUME NEW o \in DOMAIN addrOf, b \in BytesOf(o) PROVE Used(b)
  BY <1>1, BytesOfIs DEF Used
<1>2. ASSUME Used(b) PROVE \E o \in DOMAIN addrOf : b \in BytesOf(o)
  <2>1. PICK a \in DOMAIN addr2nbytes : Within(b, a, a + addr2nbytes[a])
    BY <1>2 DEF Used
  <2>2. PICK o \in DOMAIN addrOf : addrOf[o] = a
    BY DEF Memory, Names
  <2> QED BY <2>1, <2>2, BytesOfIs
<1> QED BY <1>1, <1>2

LEMMA OneOwner ==
  ASSUME Memory, NEW o \in DOMAIN addrOf, NEW u \in DOMAIN addrOf, NEW b,
         b \in BytesOf(o), b \in BytesOf(u)
  PROVE  o = u
<1>1. PICK a, c : a = addrOf[o] /\ c = addrOf[u] /\ a \in DOMAIN addr2nbytes /\ c \in DOMAIN addr2nbytes
  BY BytesOfIs
<1>2. /\ a \in Nat /\ addr2nbytes[a] \in Nat /\ c \in Nat /\ addr2nbytes[c] \in Nat
      /\ a < c => a + addr2nbytes[a] <= c
      /\ c < a => c + addr2nbytes[c] <= a
  BY <1>1 DEF Memory, Blocks
<1>3. b \in Nat /\ Within(b, a, a + addr2nbytes[a]) /\ Within(b, c, c + addr2nbytes[c])
  BY <1>1, BytesOfIs
<1>4. a = c
  BY <1>2, <1>3 DEF Within
<1> QED BY <1>1, <1>4 DEF Memory, Names

LEMMA LiveApartHolds ==
  ASSUME IInv
  PROVE  LiveApart
  BY OneOwner DEF LiveApart, IInv

LEMMA FreeListExactHolds ==
  ASSUME IInv
  PROVE  FreeListExact
<1>1. \A i, j \in DOMAIN freeSlots : i < j => freeSlots[i][2] < freeSlots[j][1]
  BY DEF IInv, Memory, SlotsOK, Ordered
<1> DEFINE R(i) == freeSlots[i][1] .. freeSlots[i][2] - 1
           left == UNION {R(i) : i \in DOMAIN freeSlots}
           held == UNION {BytesOf(o) : o \in DOMAIN addrOf}
<1>2. ASSUME NEW i \in DOMAIN freeSlots, NEW b
      PROVE  b \in R(i) <=> b \in Bytes /\ Within(b, freeSlots[i][1], freeSlots[i][2])
  <2>1. /\ freeSlots[i][1] \in Nat /\ freeSlots[i][2] \in Nat /\ Top \in Nat
        /\ freeSlots[i][1] < freeSlots[i][2] /\ freeSlots[i][2] <= Top
    BY SlotFacts, SizeAssumption DEF IInv, Memory, SlotsOK
  <2> QED BY <2>1 DEF Within, Bytes
<1>3. \A b : b \in left <=> b \in Bytes /\ Free(freeSlots, b)
  <2>1. \A b : b \in left <=> \E i \in DOMAIN freeSlots : b \in R(i)
    OBVIOUS
  <2> HIDE DEF R, left
  <2> QED BY <1>2, <2>1 DEF Free
<1>4. \A b : b \in held <=> \E o \in DOMAIN addrOf : b \in BytesOf(o)
  OBVIOUS
<1>5. \A b \in Bytes : Free(freeSlots, b) <=> b \notin held
  <2> SUFFICES ASSUME NEW b \in Bytes PROVE Free(freeSlots, b) <=> b \notin held
    OBVIOUS
  <2>1. b \in Nat
    BY DEF Bytes
  <2>2. Used(b) <=> \E o \in DOMAIN addrOf : b \in BytesOf(o)
    BY <2>1, OwnedIsUsed DEF IInv
  <2>3. Free(freeSlots, b) <=> ~Used(b)
    BY DEF IInv, Memory, Cover
  <2> QED BY <2>2, <2>3, <1>4
<1>6. left = Bytes \ held
  <2> HIDE DEF left, held
  <2> QED BY <1>3, <1>5
<1> QED BY <1>1, <1>6 DEF FreeListExact

LEMMA ArenaHoldsHolds ==
  ASSUME IInv
  PROVE  ArenaHolds
<1> SUFFICES ASSUME phase = "launched" PROVE ArenaHolds
  BY DEF ArenaHolds
<1> DEFINE workspace == arena.workspace .. arena.workspace + workspaceBytes - 1
           held == UNION {BytesOf(o) : o \in DOMAIN addrOf}
           tensors == touched \union held
<1>1. PICK top \in Nat, offset \in Nat, size \in Nat, extra \in Nat :
        /\ top = maximumAllocated /\ offset = arena.workspace /\ size = arena.bytes
        /\ extra = workspaceBytes
  BY SizeAssumption DEF IInv, Memory, Blocks, Settled
<1>2. /\ size >= top
      /\ extra > 0 => offset >= top /\ size = offset + extra
      /\ size <= Limit
  BY <1>1 DEF IInv, Settled
<1>3. ASSUME NEW b \in tensors PROVE b \in Nat /\ b < top
  <2>1. CASE b \in touched
    BY <2>1, <1>1 DEF IInv, Below
  <2>2. CASE b \in held
    <3>1. PICK o \in DOMAIN addrOf : b \in BytesOf(o)
      BY <2>2
    <3>2. PICK a \in DOMAIN addr2nbytes : b \in Nat /\ Within(b, a, a + addr2nbytes[a])
      BY <3>1, BytesOfIs DEF IInv
    <3>3. a \in Nat /\ addr2nbytes[a] \in Nat /\ a + addr2nbytes[a] <= top
      BY <1>1 DEF IInv, Memory, Blocks
    <3> QED BY <3>2, <3>3 DEF Within
  <2> QED BY <2>1, <2>2
<1>4. ASSUME NEW b \in workspace PROVE b \in Nat /\ b >= top /\ b < size
  <2>1. workspace = offset .. offset + extra - 1
    BY <1>1
  <2>2. b \in offset .. offset + extra - 1
    BY <2>1, <1>4
  <2>3. b \in Nat /\ b >= offset /\ b < offset + extra /\ extra > 0
    BY <2>2
  <2> QED BY <2>3, <1>2
<1> HIDE DEF workspace, tensors, held
<1>5. tensors \union workspace \subseteq 0 .. arena.bytes - 1
  <2> SUFFICES ASSUME NEW b \in tensors \union workspace PROVE b \in 0 .. size - 1
    BY <1>1
  <2>1. b \in Nat /\ b < size
    BY <1>2, <1>3, <1>4
  <2> QED BY <2>1
<1>6. tensors \cap workspace = {}
  BY <1>1, <1>3, <1>4
<1>7. arena.bytes <= Limit
  BY <1>1, <1>2
<1> QED BY <1>5, <1>6, <1>7 DEF ArenaHolds, workspace, tensors, held

\* Until a tensor between two free slots is freed, the state has its types, whatever the
\* kernel allocates and frees otherwise.
THEOREM Typed == Spec => [](~bridged => TypeOK)
<1>1. Safe => (~bridged => TypeOK)
  BY TypeOKHolds DEF Safe
<1> QED BY <1>1, Invariant, PTL

\* Until a tensor between two free slots is freed, two live tensors never share a byte
\* (after it they do: run smem_bridge).
THEOREM TensorsApart == Spec => [](~bridged => LiveApart)
<1>1. Safe => (~bridged => LiveApart)
  BY LiveApartHolds DEF Safe
<1> QED BY <1>1, Invariant, PTL

\* Until a tensor between two free slots is freed, the free list stays in order, merged,
\* and exact: no byte is lost or given twice.
THEOREM FreeListStaysExact == Spec => [](~bridged => FreeListExact)
<1>1. Safe => (~bridged => FreeListExact)
  BY FreeListExactHolds DEF Safe
<1> QED BY <1>1, Invariant, PTL

\* Until a tensor between two free slots is freed, neither the assertion of free nor its
\* look-up of the size fails.
THEOREM FreesSucceed == Spec => [](~bridged => FreeNeverFails)
<1>1. Safe => (~bridged => FreeNeverFails)
  BY DEF Safe, IInv, Settled, FreeNeverFails
<1> QED BY <1>1, Invariant, PTL

\* A launched kernel that freed no tensor between two free slots stays inside the arena
\* it asked for, its workspace apart from every tensor it ever had.
THEOREM ArenaIsEnough == Spec => [](~bridged => ArenaHolds)
<1>1. Safe => (~bridged => ArenaHolds)
  BY ArenaHoldsHolds DEF Safe
<1> QED BY <1>1, Invariant, PTL
-----------------------------------------------------------------------------
(* The free list implements the arena of single bytes. *)

\* The owner of a byte is the tensor whose block holds it.
OwnersFollow ==
    \A b \in Bytes :
      /\ OwnerOfBytes[b] \in DOMAIN addrOf \cup {None}
      /\ \A o \in Owners : OwnerOfBytes[b] = o <=> o \in DOMAIN addrOf /\ b \in BytesOf(o)

LEMMA OwnersAre == Memory => OwnersFollow
<1> SUFFICES ASSUME Memory, NEW b \in Bytes
             PROVE  /\ OwnerOfBytes[b] \in DOMAIN addrOf \cup {None}
                    /\ \A o \in Owners :
                         OwnerOfBytes[b] = o <=> o \in DOMAIN addrOf /\ b \in BytesOf(o)
  BY DEF OwnersFollow
<1>1. None \notin Owners
  BY NameAssumption DEF Owners
<1>2. CASE \E o \in DOMAIN addrOf : b \in BytesOf(o)
  <2>1. PICK u : u = OwnerOfBytes[b] /\ u \in DOMAIN addrOf /\ b \in BytesOf(u)
    BY <1>2, Zenon DEF OwnerOfBytes
  <2>2. \A o \in DOMAIN addrOf : b \in BytesOf(o) => o = u
    BY <2>1, OneOwner
  <2> QED BY <2>1, <2>2
<1>3. CASE ~\E o \in DOMAIN addrOf : b \in BytesOf(o)
  <2>1. OwnerOfBytes[b] = None
    BY <1>3, Zenon DEF OwnerOfBytes
  <2> QED BY <2>1, <1>1, <1>3
<1> QED BY <1>2, <1>3

LEMMA RoundedIs ==
  ASSUME NEW n \in Nat, NEW a \in Nat \ {0}
  PROVE  (CHOOSE m \in n .. n + a - 1 : m % a = 0) = AlignUp(n, a)
<1>1. PICK r \in Nat : r = AlignUp(n, a)
  <2>1. AlignUp(n, a) \in n .. (n + a - 1)
    BY AlignUpIs
  <2> QED BY <2>1
<1>2. r \in n .. n + a - 1 /\ r % a = 0
  BY <1>1, AlignUpIs
<1>3. ASSUME NEW m \in n .. n + a - 1, m % a = 0 PROVE m = r
  <2>1. m \in Nat /\ m >= n /\ m <= n + a - 1
    OBVIOUS
  <2>2. m >= r
    BY <2>1, <1>1, <1>3, AlignUpIs
  <2>3. PICK p \in Nat, q \in Nat : r = p * a /\ m = q * a
    <3>1. /\ r \div a \in Nat /\ r = (r % a) + (r \div a) * a /\ (r \div a) * a \in Nat
          /\ m \div a \in Nat /\ m = (m % a) + (m \div a) * a /\ (m \div a) * a \in Nat
      BY <2>1, Division
    <3>2. r = (r \div a) * a
      BY <3>1, <1>2
    <3>3. m = (m \div a) * a
      BY <3>1, <1>3
    <3> QED BY <3>1, <3>2, <3>3, Zenon
  <2>4. ~(p < q)
    <3>1. SUFFICES ASSUME p < q PROVE FALSE
      OBVIOUS
    <3>2. p * a + a <= q * a
      BY <3>1, NextMultiple
    <3> QED BY <3>2, <2>1, <2>3, <1>2
  <2>5. ~(q < p)
    <3>1. SUFFICES ASSUME q < p PROVE FALSE
      OBVIOUS
    <3>2. q * a + a <= p * a
      BY <3>1, NextMultiple
    <3> QED BY <3>2, <2>1, <2>2, <2>3
  <2>6. p = q
    BY <2>4, <2>5
  <2> QED BY <2>3, <2>6
<1>4. (CHOOSE m \in n .. n + a - 1 : m % a = 0) = r
  BY <1>2, <1>3
<1> QED BY <1>1, <1>4

\* A run of free bytes lies in one slot: there is a used byte between slots.
LEMMA RunInSlot ==
  ASSUME Memory, NEW low \in Nat, NEW size \in Nat \ {0},
         \A b \in Nat : Within(b, low, low + size) => Free(freeSlots, b)
  PROVE  \E j \in DOMAIN freeSlots : freeSlots[j][1] <= low /\ low + size <= freeSlots[j][2]
<1>1. PICK end \in Nat : end = low + size
  OBVIOUS
<1>2. \A k \in DOMAIN freeSlots : /\ k \in Nat /\ freeSlots[k][1] \in Nat /\ freeSlots[k][2] \in Nat
                                  /\ freeSlots[k][1] < freeSlots[k][2]
  BY SlotFacts DEF Memory, SlotsOK
<1>3. PICK j \in DOMAIN freeSlots : Within(low, freeSlots[j][1], freeSlots[j][2])
  <2>1. Within(low, low, low + size)
    BY DEF Within
  <2> QED BY <2>1 DEF Free
<1>4. freeSlots[j][1] <= low /\ low < freeSlots[j][2]
  BY <1>3 DEF Within
<1>5. ~(freeSlots[j][2] < end)
  <2>1. SUFFICES ASSUME freeSlots[j][2] < end PROVE FALSE
    OBVIOUS
  <2>2. freeSlots[j][2] \in Nat /\ Within(freeSlots[j][2], low, low + size)
    BY <2>1, <1>1, <1>2, <1>4 DEF Within
  <2>3. PICK k \in DOMAIN freeSlots : Within(freeSlots[j][2], freeSlots[k][1], freeSlots[k][2])
    BY <2>2 DEF Free
  <2>4. freeSlots[k][1] <= freeSlots[j][2] /\ freeSlots[j][2] < freeSlots[k][2]
    BY <2>3 DEF Within
  <2>5. /\ j < k => freeSlots[j][2] < freeSlots[k][1]
        /\ k < j => freeSlots[k][2] < freeSlots[j][1]
    BY DEF Memory, SlotsOK, Ordered
  <2>6. ~(j < k)
    BY <2>4, <2>5, <1>2
  <2>7. ~(k < j)
    BY <2>4, <2>5, <1>2
  <2>8. j = k
    BY <2>6, <2>7, <1>2
  <2> QED BY <2>4, <2>8, <1>2
<1> QED BY <1>1, <1>2, <1>4, <1>5

\* First fit in list order is lowest fit in the arena.
LEMMA LowestFit ==
  ASSUME Memory, NEW i, NEW addr, NEW n \in Nat \ {0}, NEW a \in Nat \ {0}, NEW nbytes,
         FirstFit(i, addr, n, a, nbytes),
         NEW low \in Nat, low < addr, low % a = 0,
         \A b \in Nat : Within(b, low, low + nbytes) => Free(freeSlots, b)
  PROVE  FALSE
<1>1. /\ i \in DOMAIN freeSlots /\ addr \in Nat /\ nbytes \in Nat \ {0}
      /\ addr = AlignUp(freeSlots[i][1], a) /\ addr + nbytes <= freeSlots[i][2]
      /\ \A j \in DOMAIN freeSlots : j < i => ~Fits(freeSlots[j], nbytes, a)
  BY DEF FirstFit
<1>2. PICK j \in DOMAIN freeSlots : freeSlots[j][1] <= low /\ low + nbytes <= freeSlots[j][2]
  BY <1>1, RunInSlot
<1>3. /\ i \in Nat /\ freeSlots[i][1] \in Nat /\ freeSlots[i][2] \in Nat
      /\ j \in Nat /\ freeSlots[j][1] \in Nat /\ freeSlots[j][2] \in Nat
  BY <1>1, SlotFacts DEF Memory, SlotsOK
<1>4. PICK up \in Nat : up = AlignUp(freeSlots[j][1], a) /\ up <= low
  <2>1. AlignUp(freeSlots[j][1], a) \in freeSlots[j][1] .. (freeSlots[j][1] + a - 1)
    BY <1>3, AlignUpIs
  <2>2. low >= AlignUp(freeSlots[j][1], a)
    BY <1>2, <1>3, AlignUpIs
  <2> QED BY <2>1, <2>2, <1>3
<1>5. Fits(freeSlots[j], nbytes, a)
  BY <1>1, <1>2, <1>3, <1>4 DEF Fits
<1>6. ~(j < i)
  BY <1>1, <1>5
<1>7. j # i
  BY <1>1, <1>4
<1>8. i < j
  BY <1>3, <1>6, <1>7
<1>9. freeSlots[i][2] < freeSlots[j][1]
  BY <1>1, <1>8 DEF Memory, SlotsOK, Ordered
<1> QED BY <1>1, <1>2, <1>3, <1>9

\* What an allocation does to the owners.
LEMMA PlacedOwners ==
  ASSUME Memory, Memory', NEW o \in Owners \ DOMAIN addrOf, NEW i, NEW addr, NEW n, NEW a, NEW nbytes,
         FirstFit(i, addr, n, a, nbytes), Placed(o, i, addr, nbytes)
  PROVE  /\ \A b \in Bytes : OwnerOfBytes[b] # o
         /\ OwnerOfBytes' = [b \in Bytes |-> IF b \in addr .. addr + nbytes - 1 THEN o ELSE OwnerOfBytes[b]]
<1>1. OwnersFollow /\ OwnersFollow'
  <2>1. Memory' => OwnersFollow'
    BY OwnersAre, PTL
  <2> QED BY <2>1, OwnersAre
<1>2. \A b \in Bytes : OwnerOfBytes[b] # o
  BY <1>1 DEF OwnersFollow
<1>3. PICK mid \in Nat : mid = addr + nbytes
  BY DEF FirstFit
<1>4. addr \in Nat /\ nbytes \in Nat \ {0} /\ addr < mid /\ addr + nbytes - 1 = mid - 1
  BY <1>3 DEF FirstFit
<1>5. /\ DOMAIN addrOf' = DOMAIN addrOf \cup {o} /\ addrOf'[o] = addr
      /\ \A u \in DOMAIN addrOf : u # o /\ addrOf'[u] = addrOf[u]
  BY DEF Placed
<1>6. BytesOf(o)' = addr .. mid - 1
  <2>1. addr2nbytes'[addr] = nbytes
    BY PlacedUsed
  <2>2. BytesOf(o)' = addrOf'[o] .. addrOf'[o] + addr2nbytes'[addrOf'[o]] - 1
    BY DEF BytesOf
  <2> QED BY <2>1, <2>2, <1>4, <1>5
<1>7. ASSUME NEW u \in DOMAIN addrOf PROVE BytesOf(u)' = BytesOf(u)
  <2>1. addrOf[u] \in DOMAIN addr2nbytes
    BY DEF Memory, Names
  <2>2. addr2nbytes'[addrOf[u]] = addr2nbytes[addrOf[u]]
    BY <2>1, PlacedUsed
  <2>3. BytesOf(u)' = addrOf'[u] .. addrOf'[u] + addr2nbytes'[addrOf'[u]] - 1
    BY DEF BytesOf
  <2> QED BY <2>2, <2>3, <1>5 DEF BytesOf
<1>8. ASSUME NEW b \in Bytes
      PROVE  OwnerOfBytes'[b] = IF b \in addr .. mid - 1 THEN o ELSE OwnerOfBytes[b]
  <2>1. /\ OwnerOfBytes'[b] \in DOMAIN addrOf' \cup {None}
        /\ \A u \in Owners : OwnerOfBytes'[b] = u <=> u \in DOMAIN addrOf' /\ b \in BytesOf(u)'
    BY <1>1 DEF OwnersFollow, Bytes
  <2>2. /\ OwnerOfBytes[b] \in DOMAIN addrOf \cup {None}
        /\ \A u \in Owners : OwnerOfBytes[b] = u <=> u \in DOMAIN addrOf /\ b \in BytesOf(u)
    BY <1>1 DEF OwnersFollow
  <2>3. DOMAIN addrOf' \subseteq Owners /\ None \notin Owners
    BY NameAssumption DEF Memory, Names, Owners
  <2>4. CASE b \in addr .. mid - 1
    BY <2>1, <2>4, <1>5, <1>6
  <2>5. CASE b \notin addr .. mid - 1
    <3>1. OwnerOfBytes'[b] # o
      BY <2>1, <2>5, <1>6
    <3>2. ASSUME NEW u \in DOMAIN addrOf PROVE OwnerOfBytes'[b] = u <=> OwnerOfBytes[b] = u
      BY <2>1, <2>2, <2>3, <1>5, <1>7
    <3> QED BY <3>1, <3>2, <2>1, <2>2, <2>5, <1>5
  <2> QED BY <2>4, <2>5
<1>9. OwnerOfBytes' = [b \in Bytes |-> OwnerOfBytes'[b]]
  BY DEF OwnerOfBytes, Bytes
<1> QED BY <1>2, <1>4, <1>8, <1>9

\* An allocation takes the lowest aligned run of free bytes.
LEMMA PlacedTakes ==
  ASSUME Memory, Memory', NEW o \in Owners \ DOMAIN addrOf, NEW i, NEW addr,
         NEW n \in Nat \ {0}, NEW a \in Nat \ {0}, NEW nbytes,
         FirstFit(i, addr, n, a, nbytes), Placed(o, i, addr, nbytes)
  PROVE  Arena!Take(o, n, a)
<1>1. addr \in Nat /\ nbytes \in Nat \ {0} /\ nbytes = AlignUp(n, a) /\ addr = AlignUp(freeSlots[i][1], a)
  BY DEF FirstFit
<1>2. (CHOOSE m \in n .. n + a - 1 : m % a = 0) = nbytes
  BY <1>1, RoundedIs
<1>3. addr % a = 0
  <2>1. freeSlots[i][1] \in Nat
    BY SlotFacts DEF Memory, SlotsOK, FirstFit
  <2> QED BY <2>1, <1>1, AlignUpIs
<1>4. /\ addr \in Bytes /\ addr + nbytes <= Top /\ Top \in Nat
      /\ \A b \in Nat : Within(b, addr, addr + nbytes) => b \in Bytes /\ Free(freeSlots, b) /\ ~Used(b)
  BY PlacedFree, SizeAssumption
<1>5. \A b \in Bytes : OwnerOfBytes[b] = None <=> Free(freeSlots, b)
  <2> SUFFICES ASSUME NEW b \in Bytes PROVE OwnerOfBytes[b] = None <=> Free(freeSlots, b)
    OBVIOUS
  <2>1. b \in Nat
    BY DEF Bytes
  <2>2. Used(b) <=> \E u \in DOMAIN addrOf : b \in BytesOf(u)
    BY <2>1, OwnedIsUsed
  <2>3. Free(freeSlots, b) <=> ~Used(b)
    BY DEF Memory, Cover
  <2>4. /\ OwnerOfBytes[b] \in DOMAIN addrOf \cup {None}
        /\ \A u \in Owners : OwnerOfBytes[b] = u <=> u \in DOMAIN addrOf /\ b \in BytesOf(u)
    BY OwnersAre DEF OwnersFollow
  <2>5. DOMAIN addrOf \subseteq Owners /\ None \notin Owners
    BY NameAssumption DEF Memory, Names, Owners
  <2> QED BY <2>2, <2>3, <2>4, <2>5
<1>6. Arena!IsFree(addr, nbytes)
  <2> SUFFICES ASSUME NEW b \in addr .. addr + nbytes - 1
               PROVE  b < Top /\ OwnerOfBytes[b] = None
    BY DEF Arena!IsFree, Arena!Run
  <2>1. b \in Nat /\ Within(b, addr, addr + nbytes)
    BY <1>1 DEF Within
  <2>2. b \in Bytes /\ Free(freeSlots, b)
    BY <2>1, <1>4
  <2>3. b < Top
    BY <2>2, <1>4 DEF Bytes
  <2> QED BY <2>2, <2>3, <1>5
<1>7. ASSUME NEW low \in 0 .. addr - 1, low % a = 0, Arena!IsFree(low, nbytes)
      PROVE  FALSE
  <2>1. low \in Nat /\ low < addr
    BY <1>1
  <2>2. ASSUME NEW b \in Nat, Within(b, low, low + nbytes) PROVE Free(freeSlots, b)
    <3>1. b \in low .. low + nbytes - 1
      BY <2>1, <2>2, <1>1 DEF Within
    <3>2. b < Top /\ OwnerOfBytes[b] = None
      BY <3>1, <1>7 DEF Arena!IsFree, Arena!Run
    <3>3. b \in Bytes
      BY <3>2, <1>4 DEF Bytes
    <3> QED BY <3>2, <3>3, <1>5
  <2> QED BY <2>1, <2>2, <1>7, LowestFit
<1>8. OwnerOfBytes' = [b \in Bytes |-> IF b \in addr .. addr + nbytes - 1 THEN o ELSE OwnerOfBytes[b]]
  BY PlacedOwners
<1>9. Arena!Bytes = Bytes
  BY DEF Arena!Bytes, Bytes
<1> QED BY <1>2, <1>3, <1>4, <1>6, <1>7, <1>8, <1>9, Zenon DEF Arena!Take, Arena!Run

\* A free returns the bytes of its tensor and no others.
LEMMA FreedReturns ==
  ASSUME Memory, Memory', NEW t \in DOMAIN addrOf, Freed(t, addrOf[t])
  PROVE  Arena!Return(t)
<1>1. OwnersFollow /\ OwnersFollow'
  <2>1. Memory' => OwnersFollow'
    BY OwnersAre, PTL
  <2> QED BY <2>1, OwnersAre
<1>2. /\ DOMAIN addrOf' = DOMAIN addrOf \ {t}
      /\ \A u \in DOMAIN addrOf' : addrOf'[u] = addrOf[u]
      /\ DOMAIN addr2nbytes' = DOMAIN addr2nbytes \ {addrOf[t]}
      /\ \A c \in DOMAIN addr2nbytes' : addr2nbytes'[c] = addr2nbytes[c]
  BY DEF Freed, Without
<1>3. ASSUME NEW u \in DOMAIN addrOf, u # t PROVE BytesOf(u)' = BytesOf(u)
  <2>1. addrOf[u] \in DOMAIN addr2nbytes /\ addrOf[u] # addrOf[t]
    BY <1>3 DEF Memory, Names
  <2>2. addrOf'[u] = addrOf[u] /\ addr2nbytes'[addrOf[u]] = addr2nbytes[addrOf[u]]
    BY <2>1, <1>2, <1>3
  <2>3. BytesOf(u)' = addrOf'[u] .. addrOf'[u] + addr2nbytes'[addrOf'[u]] - 1
    BY DEF BytesOf
  <2> QED BY <2>2, <2>3 DEF BytesOf
<1>4. DOMAIN addrOf \subseteq Owners /\ t \in Owners /\ None \notin Owners
  BY NameAssumption DEF Memory, Names, Owners
<1>5. ASSUME NEW b \in Bytes
      PROVE  OwnerOfBytes'[b] = IF OwnerOfBytes[b] = t THEN None ELSE OwnerOfBytes[b]
  <2>1. /\ OwnerOfBytes'[b] \in DOMAIN addrOf' \cup {None}
        /\ \A u \in Owners : OwnerOfBytes'[b] = u <=> u \in DOMAIN addrOf' /\ b \in BytesOf(u)'
    BY <1>1 DEF OwnersFollow, Bytes
  <2>2. /\ OwnerOfBytes[b] \in DOMAIN addrOf \cup {None}
        /\ \A u \in Owners : OwnerOfBytes[b] = u <=> u \in DOMAIN addrOf /\ b \in BytesOf(u)
    BY <1>1 DEF OwnersFollow
  <2>3. ASSUME NEW u \in DOMAIN addrOf, u # t PROVE OwnerOfBytes'[b] = u <=> OwnerOfBytes[b] = u
    BY <2>1, <2>2, <2>3, <1>2, <1>3, <1>4
  <2> QED BY <2>1, <2>2, <2>3, <1>2, <1>4
<1>6. \E b \in Bytes : OwnerOfBytes[b] = t
  <2>1. PICK addr, end \in Nat : addr = addrOf[t] /\ end = addr + addr2nbytes[addr]
    BY LiveBlock DEF Memory, Blocks
  <2>2. BlockAt(addr, end) /\ addr \in DOMAIN addr2nbytes
    BY <2>1, LiveBlock
  <2>3. addr \in Bytes /\ addr < end /\ addr \in Nat
    BY <2>2, SizeAssumption DEF BlockAt, Bytes
  <2>4. addr \in BytesOf(t)
    BY <2>1, <2>3, BytesOfIs DEF Within
  <2> QED BY <2>3, <2>4, <1>1, <1>4 DEF OwnersFollow
<1>7. OwnerOfBytes' = [b \in Bytes |-> OwnerOfBytes'[b]]
  BY DEF OwnerOfBytes, Bytes
<1>8. Arena!Bytes = Bytes
  BY DEF Arena!Bytes, Bytes
<1> QED BY <1>5, <1>6, <1>7, <1>8 DEF Arena!Return

ArenaSizes == Sizes \union {b * BarrierBytes : b \in 1 .. MaxBarriers}

\* An allocation that succeeds is a step of the arena; one that finds no slot changes nothing.
LEMMA AllocateTakes ==
  ASSUME IInv, IInv', NEW o \in Owners \ DOMAIN addrOf,
         NEW n \in ArenaSizes, NEW a \in Alignments, NEW next, Allocate(o, n, a, next)
  PROVE  \/ UNCHANGED <<addrOf, addr2nbytes>>
         \/ addrOf' # addrOf /\ Arena!Next
<1>1. n \in Nat \ {0} /\ a \in Nat \ {0}
  BY SizeAssumption, AlignAssumption DEF ArenaSizes
<1>2. CASE UNCHANGED <<allocator, addrOf>>
  BY <1>2 DEF allocator
<1>3. CASE \E i, addr, nbytes : FirstFit(i, addr, n, a, nbytes) /\ Placed(o, i, addr, nbytes)
  <2>1. PICK i, addr, nbytes : FirstFit(i, addr, n, a, nbytes) /\ Placed(o, i, addr, nbytes)
    BY <1>3
  <2>2. Arena!Take(o, n, a)
    BY <2>1, <1>1, PlacedTakes DEF IInv
  <2>3. \A b \in Bytes : OwnerOfBytes[b] # o
    BY <2>1, PlacedOwners DEF IInv
  <2>4. Arena!Next
    BY <2>2, <2>3 DEF Arena!Next, Arena!Bytes, Bytes, ArenaSizes
  <2>5. DOMAIN addrOf' = DOMAIN addrOf \cup {o}
    BY <2>1 DEF Placed
  <2> QED BY <2>4, <2>5
<1> QED BY <1>1, <1>2, <1>3, AllocateInv DEF IInv

LEMMA NextImplements ==
  ASSUME IInv, IInv', ~bridged', [Next]_vars
  PROVE  [addrOf' # addrOf /\ Arena!Next]_<<addrOf, addr2nbytes>>
<1> SUFFICES \/ UNCHANGED <<addrOf, addr2nbytes>>
             \/ addrOf' # addrOf /\ Arena!Next
  OBVIOUS
<1>1. ASSUME NEW t \in Tensors, AllocateShared(t)
      PROVE  UNCHANGED <<addrOf, addr2nbytes>> \/ (addrOf' # addrOf /\ Arena!Next)
  <2>1. PICK n \in Sizes, a \in Alignments : Allocate(t, n, a, "body")
    BY <1>1 DEF AllocateShared
  <2>2. t \in Owners \ DOMAIN addrOf /\ n \in ArenaSizes
    BY <1>1 DEF AllocateShared, Owners, ArenaSizes
  <2> QED BY <2>1, <2>2, AllocateTakes
<1>2. ASSUME NEW t \in Tensors, FreeShared(t)
      PROVE  addrOf' # addrOf /\ Arena!Next
  <2>1. t \in DOMAIN addrOf /\ t \in Owners /\ Freed(t, addrOf[t])
    BY <1>2, FreeCases DEF IInv, Owners
  <2>2. Arena!Return(t)
    BY <2>1, FreedReturns DEF IInv
  <2>3. DOMAIN addrOf' = DOMAIN addrOf \ {t}
    BY <2>1 DEF Freed, Without
  <2> QED BY <2>1, <2>2, <2>3 DEF Arena!Next
<1>3. CASE FinalizeBarriers
  <2>1. CASE barriers = 0
    BY <1>3, <2>1 DEF FinalizeBarriers, allocator
  <2>2. CASE barriers # 0
    <3>1. Allocate(BarrierTensor, barriers * BarrierBytes, MinAlign, "barriersPlaced")
      BY <1>3, <2>2 DEF FinalizeBarriers
    <3>2. BarrierTensor \in Owners \ DOMAIN addrOf
      BY <1>3 DEF FinalizeBarriers, IInv, Settled, Owners
    <3>3. barriers \in 1 .. MaxBarriers
      BY <2>2, SizeAssumption DEF IInv, Settled
    <3>4. barriers * BarrierBytes \in ArenaSizes /\ MinAlign \in Alignments
      BY <3>3, AlignAssumption DEF ArenaSizes
    <3> QED BY <3>1, <3>2, <3>4, AllocateTakes
  <2> QED BY <2>1, <2>2
<1>4. CASE RequestWorkspace \/ AllocateBarriers \/ FinalizeArena \/ LaunchKernel
  BY <1>4 DEF RequestWorkspace, AllocateBarriers, FinalizeArena, LaunchKernel, allocator
<1>5. CASE UNCHANGED vars
  BY <1>5 DEF vars, allocator
<1> QED BY <1>1, <1>2, <1>3, <1>4, <1>5 DEF Next

LEMMA InitImplements ==
  ASSUME Init
  PROVE  Arena!Init
<1>1. OwnersFollow /\ DOMAIN addrOf = {}
  <2>1. Memory
    BY InitIInv DEF IInv
  <2>2. DOMAIN addrOf = {}
    BY DEF Init
  <2> QED BY <2>1, <2>2, OwnersAre
<1>2. \A b \in Bytes : OwnerOfBytes[b] = None
  BY <1>1 DEF OwnersFollow
<1>3. OwnerOfBytes = [b \in Bytes |-> OwnerOfBytes[b]]
  BY DEF OwnerOfBytes
<1> QED BY <1>2, <1>3 DEF Arena!Init, Arena!Bytes, Bytes

\* A kernel that frees no tensor between two free slots is placed as in the arena of
\* single bytes: room is never hidden by fragmentation, and an allocation is at the
\* lowest aligned run that is free.
THEOREM FreeListImplements == Spec /\ []~bridged => ImplementsArena
<1>1. Init => Arena!Init
  BY InitImplements
<1>2. /\ Safe /\ ~bridged /\ Safe' /\ ~bridged' /\ [Next]_vars
      => [addrOf' # addrOf /\ Arena!Next]_<<addrOf, addr2nbytes>>
  BY NextImplements DEF Safe
<1> QED BY <1>1, <1>2, Invariant, PTL DEF Spec, ImplementsArena

\* Hence every such behaviour of the allocator is one of the arena.
THEOREM ArenaImplemented == Spec /\ []~bridged => Arena!Spec
<1>1. Init => Arena!Init
  BY InitImplements
<1>2. UNCHANGED <<addrOf, addr2nbytes>> => UNCHANGED OwnerOfBytes
  BY DEF OwnerOfBytes, BytesOf, Bytes
<1>3. Safe /\ ~bridged /\ Safe' /\ ~bridged' /\ [Next]_vars => [Arena!Next]_OwnerOfBytes
  BY <1>2, NextImplements DEF Safe
<1> QED BY <1>1, <1>3, Invariant, PTL DEF Spec, Arena!Spec
=============================================================================
