---------------------------- MODULE LayoutProofs ----------------------------
(***************************************************************************)
(* Register layouts of any shape, for any number of threads and any         *)
(* sequence of operations.                                                  *)
(*                                                                         *)
(* A layout is well-formed when its modes split its shape, are above 1, and *)
(* each is listed once, among the threads or among the registers.  This is  *)
(* what validation and the canonical form leave, and what every operation   *)
(* keeps.  A well-formed layout is consistent: the index of an element, the *)
(* indices of its modes, and the numbers of its thread and its register are *)
(* digits of one another.                                                   *)
(***************************************************************************)
EXTENDS RegisterLayouts, SequenceTheorems, FiniteSetTheorems, NaturalsInduction,
        WellFoundedInduction, TLAPS

-----------------------------------------------------------------------------
(* Induction over numbers below a bound, and recursive functions. *)

\* What holds of 0 and passes on from every number to the next holds of all.
LEMMA Induct ==
  ASSUME NEW S, 0 \in S, \A n \in Nat : n \in S => n + 1 \in S
  PROVE  \A n \in Nat : n \in S
<1> DEFINE T == Nat \ S
<1> SUFFICES ASSUME T # {} PROVE FALSE
  OBVIOUS
<1>1. PICK m \in T : \A k \in T : <<k, m>> \notin OpToRel(<, Nat)
  BY NatLessThanWellFounded, WFMin, Zenon
<1>2. m # 0 /\ m - 1 \in Nat /\ m - 1 < m /\ (m - 1) + 1 = m
  BY SMT
<1>3. m - 1 \notin T
  BY <1>1, <1>2 DEF OpToRel
<1>4. m \in S
  BY <1>2, <1>3
<1> QED BY <1>4

\* What holds of 0 and passes on holds up to a number.
LEMMA InductUpto ==
  ASSUME NEW n \in Nat, NEW S, 0 \in S, \A i \in 0..(n - 1) : i \in S => i + 1 \in S
  PROVE  \A i \in 0..n : i \in S
<1> DEFINE T == {i \in Nat : i <= n => i \in S}
<1>1. 0 \in T
  OBVIOUS
<1>2. ASSUME NEW i \in Nat, i \in T PROVE i + 1 \in T
  BY <1>2
<1> HIDE DEF T
<1>3. \A i \in Nat : i \in T
  BY <1>1, <1>2, Induct
<1> QED BY <1>3 DEF T

\* The same from a number down.
LEMMA InductDown ==
  ASSUME NEW n \in Nat, NEW S, n \in S, \A i \in 1..n : i \in S => i - 1 \in S
  PROVE  \A i \in 0..n : i \in S
<1> DEFINE T == {i \in 0..n : n - i \in S}
<1>1. 0 \in T
  OBVIOUS
<1>2. ASSUME NEW i \in 0..(n - 1), i \in T PROVE i + 1 \in T
  <2>1. n - i \in 1..n /\ n - i \in S /\ (n - i) - 1 = n - (i + 1)
    BY <1>2
  <2> QED BY <2>1
<1> HIDE DEF T
<1>3. \A i \in 0..n : i \in T
  BY <1>1, <1>2, InductUpto
<1>4. ASSUME NEW i \in 0..n PROVE i \in S
  <2>1. n - i \in 0..n /\ n - (n - i) = i
    OBVIOUS
  <2> QED BY <1>3, <2>1 DEF T
<1> QED BY <1>4

LEMMA FunctionIsSeq ==
  ASSUME NEW X, NEW n \in Nat, NEW f \in [1..n -> X]
  PROVE  f \in Seq(X) /\ Len(f) = n
  OBVIOUS

\* A function defined by recursion up to a number.
Recurs(f, n, X, x, g) ==
  /\ f \in [0..n -> X] /\ f[0] = x
  /\ \A j \in 1..n : f[j] = g[<<j, f[j - 1]>>]

\* There is such a function.
LEMMA Recursion ==
  ASSUME NEW n \in Nat, NEW X, NEW x \in X, NEW g \in [(1..n) \X X -> X]
  PROVE  \E f : Recurs(f, n, X, x, g)
<1> DEFINE Runs(f, m) == f \in [0..m -> X] /\ f[0] = x /\ \A j \in 1..m : f[j] = g[<<j, f[j - 1]>>]
           S == {m \in 0..n : \E f : Runs(f, m)}
<1>1. 0 \in S
  <2>1. Runs([j \in 0..0 |-> x], 0)
    OBVIOUS
  <2> HIDE DEF Runs
  <2> QED BY <2>1
<1>2. ASSUME NEW m \in 0..(n - 1), m \in S PROVE m + 1 \in S
  <2>1. PICK f : Runs(f, m)
    BY <1>2
  <2> DEFINE h == [j \in 0..(m + 1) |-> IF j = m + 1 THEN g[<<m + 1, f[m]>>] ELSE f[j]]
  <2>2. g[<<m + 1, f[m]>>] \in X
    <3>1. m + 1 \in 1..n /\ f[m] \in X
      BY <2>1
    <3> QED BY <3>1
  <2>3. h \in [0..(m + 1) -> X] /\ h[0] = x
    BY <2>1, <2>2
  <2>4. ASSUME NEW j \in 1..(m + 1) PROVE h[j] = g[<<j, h[j - 1]>>]
    <3>1. h[j - 1] = f[j - 1]
      OBVIOUS
    <3>2. CASE j = m + 1
      <4>1. h[j] = g[<<m + 1, f[m]>>] /\ j - 1 = m
        BY <3>2
      <4> HIDE DEF h
      <4> QED BY <3>1, <3>2, <4>1
    <3>3. CASE j # m + 1
      <4>1. h[j] = f[j] /\ j \in 1..m
        BY <3>3
      <4> QED BY <2>1, <3>1, <4>1
    <3> QED BY <3>2, <3>3
  <2>5. Runs(h, m + 1)
    BY <2>3, <2>4
  <2> HIDE DEF Runs, h
  <2> QED BY <2>5
<1> HIDE DEF Runs, S
<1>3. n \in S
  BY <1>1, <1>2, InductUpto
<1> QED BY <1>3 DEF S, Runs, Recurs

-----------------------------------------------------------------------------
(* Products of extents. *)

Extents(s, n) == n \in Nat /\ \A i \in 1..n : s[i] \in Nat \ {0}

\* The products of the first extents.
LEMMA PrefixIs ==
  ASSUME NEW s, NEW n, Extents(s, n)
  PROVE  /\ Prefix(s, 0) = 1
         /\ \A i \in 1..n : Prefix(s, i) = Prefix(s, i - 1) * s[i]
         /\ \A i \in 0..n : Prefix(s, i) \in Nat \ {0}
<1> n \in Nat /\ \A i \in 1..n : s[i] \in Nat \ {0}
  BY DEF Extents
<1> DEFINE X == Nat \ {0}
           g == [p \in (1..n) \X X |-> p[2] * s[p[1]]]
<1>1. g \in [(1..n) \X X -> X]
  <2>1. ASSUME NEW p \in (1..n) \X X PROVE p[2] * s[p[1]] \in X
    <3>1. p[2] \in X /\ s[p[1]] \in X
      OBVIOUS
    <3>2. \A a, b \in X : a * b \in X
      OBVIOUS
    <3> HIDE DEF X
    <3> QED BY <3>1, <3>2
  <2> QED BY <2>1
<1>2. PICK f : Recurs(f, n, X, 1, g)
  <2> HIDE DEF g
  <2>1. 1 \in X
    OBVIOUS
  <2> HIDE DEF X
  <2> QED BY <1>1, <2>1, Recursion
<1>3. ASSUME NEW j \in 1..n PROVE f[j] = f[j - 1] * s[j]
  <2>1. j - 1 \in 0..n
    OBVIOUS
  <2>2. f[j - 1] \in X
    BY <1>2, <2>1 DEF Recurs
  <2>3. <<j, f[j - 1]>> \in (1..n) \X X
    BY <2>2
  <2>4. f[j] = g[<<j, f[j - 1]>>]
    <3> HIDE DEF g
    <3> QED BY <1>2 DEF Recurs
  <2> HIDE DEF X
  <2> QED BY <2>3, <2>4
<1>4. ASSUME NEW i \in 0..n PROVE Prefix(s, i) = f[i]
  <2> DEFINE Whole(h) == h = [j \in 0..i |-> IF j = 0 THEN 1 ELSE h[j - 1] * s[j]]
             k == [j \in 0..i |-> f[j]]
             p == CHOOSE h : Whole(h)
  <2>1. Whole(k)
    <3>1. ASSUME NEW j \in 0..i PROVE k[j] = IF j = 0 THEN 1 ELSE k[j - 1] * s[j]
      <4>1. CASE j = 0
        BY <1>2, <4>1 DEF Recurs
      <4>2. CASE j # 0
        <5>1. j \in 1..n /\ j - 1 \in 0..i
          BY <4>2
        <5>2. k[j] = f[j] /\ k[j - 1] = f[j - 1]
          BY <5>1
        <5> HIDE DEF k
        <5> QED BY <1>3, <4>2, <5>1, <5>2
      <4> QED BY <4>1, <4>2
    <3> QED BY <3>1
  <2>2. Whole(p)
    <3> HIDE DEF Whole, k
    <3> QED BY <2>1
  <2>3. \A j \in 0..i : p[j] = f[j]
    <3> DEFINE S == {j \in 0..i : p[j] = f[j]}
    <3> HIDE DEF p
    <3>1. 0 \in S
      BY <1>2, <2>2 DEF Recurs
    <3>2. ASSUME NEW j \in 0..(i - 1), j \in S PROVE j + 1 \in S
      <4>1. j + 1 \in 1..n /\ j + 1 \in 0..i /\ j + 1 # 0 /\ (j + 1) - 1 = j /\ p[j] = f[j]
        BY <3>2
      <4>2. p[j + 1] = p[j] * s[j + 1]
        BY <2>2, <4>1
      <4>3. f[j + 1] = f[j] * s[j + 1]
        BY <1>3, <4>1
      <4> QED BY <4>1, <4>2, <4>3
    <3> HIDE DEF S
    <3>3. \A j \in 0..i : j \in S
      <4>1. i \in Nat
        OBVIOUS
      <4> QED BY <3>1, <3>2, <4>1, InductUpto
    <3> QED BY <3>3 DEF S
  <2>4. Prefix(s, i) = p[i]
    BY DEF Prefix, With
  <2> HIDE DEF p
  <2> QED BY <2>3, <2>4
<1>5. 0 \in 0..n /\ \A i \in 1..n : i - 1 \in 0..n /\ i \in 0..n
  OBVIOUS
<1>6. f \in [0..n -> X] /\ f[0] = 1
  BY <1>2 DEF Recurs
<1> QED BY <1>3, <1>4, <1>5, <1>6

\* Positive factors are cancelled.
LEMMA Cancel ==
  ASSUME NEW a \in Int, NEW b \in Int, NEW c \in Nat \ {0}, a * c = b * c
  PROVE  a = b
<1>1. \A x \in Int, d \in Nat \ {0} : (x + d) * c = x * c + d * c /\ d * c > 0
  BY Z3
<1>2. ~(a < b)
  <2> SUFFICES ASSUME a < b PROVE FALSE
    OBVIOUS
  <2>1. b - a \in Nat \ {0} /\ a + (b - a) = b
    OBVIOUS
  <2>2. b * c = a * c + (b - a) * c /\ (b - a) * c > 0
    BY <1>1, <2>1
  <2>3. a * c \in Int /\ (b - a) * c \in Int
    OBVIOUS
  <2> QED BY <2>2, <2>3
<1>3. ~(b < a)
  <2> SUFFICES ASSUME b < a PROVE FALSE
    OBVIOUS
  <2>1. a - b \in Nat \ {0} /\ b + (a - b) = a
    OBVIOUS
  <2>2. a * c = b * c + (a - b) * c /\ (a - b) * c > 0
    BY <1>1, <2>1
  <2>3. b * c \in Int /\ (a - b) * c \in Int
    OBVIOUS
  <2> QED BY <2>2, <2>3
<1> QED BY <1>2, <1>3

LEMMA Factor ==
  ASSUME NEW a \in Nat \ {0}, NEW b \in Nat \ {0}
  PROVE  a * b \in Nat \ {0}
  OBVIOUS

LEMMA Associate ==
  ASSUME NEW a \in Int, NEW b \in Int, NEW c \in Int
  PROVE  /\ (a * b) * c = a * (b * c) /\ (a * b) * c = (a * c) * b
         /\ a * b = b * a /\ a * b \in Int
  OBVIOUS

\* t is the part of s behind its first k extents.
Part(t, s, k, n) ==
  k \in Nat /\ n \in Nat /\ Extents(s, k + n) /\ \A i \in 1..n : t[i] = s[k + i]

\* The products of a part, times what is before it, are those of the whole.
LEMMA PartPrefix ==
  ASSUME NEW s, NEW t, NEW k, NEW n, Part(t, s, k, n)
  PROVE  /\ Extents(t, n)
         /\ \A i \in 0..n : Prefix(s, k + i) = Prefix(s, k) * Prefix(t, i)
<1> DEFINE S == {i \in 0..n : Prefix(s, k + i) = Prefix(s, k) * Prefix(t, i)}
<1>0. /\ k \in Nat /\ n \in Nat /\ k + n \in Nat /\ Extents(s, k + n) /\ Extents(t, n)
      /\ \A i \in 1..n : t[i] = s[k + i]
  <2>1. k \in Nat /\ n \in Nat /\ k + n \in Nat
    BY DEF Part
  <2>2. \A i \in 1..n : k + i \in 1..(k + n)
    BY <2>1
  <2> QED BY <2>1, <2>2 DEF Part, Extents
<1>a. Prefix(s, k) \in Int
  <2>1. k \in 0..(k + n)
    BY <1>0
  <2>2. Prefix(s, k) \in Nat \ {0}
    BY <1>0, <2>1, PrefixIs
  <2> QED BY <2>2
<1>1. 0 \in S
  <2>1. Prefix(t, 0) = 1
    BY <1>0, PrefixIs
  <2>2. k + 0 = k /\ 0 \in 0..n
    BY <1>0
  <2> QED BY <1>a, <2>1, <2>2
<1>2. ASSUME NEW i \in 0..(n - 1), i \in S PROVE i + 1 \in S
  <2>1. /\ i + 1 \in 1..n /\ (i + 1) - 1 = i /\ i + 1 \in 0..n /\ i \in 0..n
        /\ k + (i + 1) \in 1..(k + n) /\ (k + (i + 1)) - 1 = k + i
    BY <1>0
  <2>2. Prefix(t, i + 1) = Prefix(t, i) * t[i + 1] /\ Prefix(t, i) \in Nat \ {0}
    BY <1>0, <2>1, PrefixIs
  <2>3. Prefix(s, k + (i + 1)) = Prefix(s, k + i) * s[k + (i + 1)]
    BY <1>0, <2>1, PrefixIs
  <2>4. Prefix(s, k + i) = Prefix(s, k) * Prefix(t, i) /\ t[i + 1] = s[k + (i + 1)] /\ t[i + 1] \in Nat \ {0}
    BY <1>0, <1>2, <2>1 DEF Extents
  <2>5. (Prefix(s, k) * Prefix(t, i)) * t[i + 1] = Prefix(s, k) * (Prefix(t, i) * t[i + 1])
    BY <1>a, <2>2, <2>4, Associate
  <2> QED BY <2>1, <2>2, <2>3, <2>4, <2>5
<1> HIDE DEF S
<1>3. \A i \in 0..n : i \in S
  BY <1>0, <1>1, <1>2, InductUpto
<1> QED BY <1>0, <1>3 DEF S

\* Products of the same extents.
LEMMA SamePrefix ==
  ASSUME NEW s, NEW t, NEW n, Extents(s, n), \A i \in 1..n : t[i] = s[i]
  PROVE  \A i \in 0..n : Prefix(t, i) = Prefix(s, i)
<1>1. n \in Nat /\ 0 \in Nat /\ 0 + n = n /\ \A i \in 0..n : 0 + i = i /\ i \in Nat
  BY DEF Extents
<1>2. Part(t, s, 0, n)
  BY <1>1 DEF Part
<1>3. Prefix(s, 0) = 1
  BY PrefixIs
<1>4. \A i \in 0..n : Prefix(t, i) \in Nat \ {0}
  <2>1. Extents(t, n)
    BY DEF Extents
  <2> QED BY <2>1, PrefixIs
<1> QED
  <2>1. ASSUME NEW i \in 0..n PROVE Prefix(t, i) = Prefix(s, i)
    <3>1. Prefix(s, 0 + i) = Prefix(s, 0) * Prefix(t, i)
      BY <1>2, PartPrefix
    <3> QED BY <1>1, <1>3, <1>4, <3>1
  <2> QED BY <2>1

LEMMA SeqExtents ==
  ASSUME NEW s \in Seq(Nat \ {0})
  PROVE  Extents(s, Len(s)) /\ Len(s) \in Nat /\ Len(s) \in 0..Len(s)
  BY DEF Extents

\* What precedes a part, times the part, is what precedes its end.
LEMMA PartProduct ==
  ASSUME NEW s \in Seq(Nat \ {0}), NEW i \in 0..Len(s), NEW k \in i..Len(s)
  PROVE  /\ SubSeq(s, i + 1, k) \in Seq(Nat \ {0})
         /\ Product(SubSeq(s, i + 1, k)) \in Nat \ {0}
         /\ Prefix(s, k) = Prefix(s, i) * Product(SubSeq(s, i + 1, k))
<1> DEFINE t == SubSeq(s, i + 1, k)
           n == k - i
<1>1. n \in Nat /\ t \in Seq(Nat \ {0}) /\ Len(t) = n /\ i + n = k /\ i \in Nat /\ n \in 0..n
  OBVIOUS
<1>2. \A j \in 1..n : t[j] = s[i + j]
  <2>1. \A j \in 1..n : t[j] = s[(i + 1) + j - 1]
    BY <1>1, SubSeqProperties
  <2>2. \A j \in 1..n : (i + 1) + j - 1 = i + j
    BY <1>1
  <2> HIDE DEF t, n
  <2> QED BY <2>1, <2>2
<1>3. Extents(s, i + n)
  BY <1>1 DEF Extents
<1> HIDE DEF t, n
<1>4. Part(t, s, i, n)
  BY <1>1, <1>2, <1>3 DEF Part
<1>5. Prefix(s, i + n) = Prefix(s, i) * Prefix(t, n) /\ Prefix(t, n) \in Nat \ {0}
  BY <1>1, <1>4, PartPrefix, PrefixIs
<1>6. Product(t) = Prefix(t, n)
  BY <1>1 DEF Product
<1> QED BY <1>1, <1>5, <1>6 DEF t

\* The stride of an extent is the product of those behind it.
LEMMA StrideIs ==
  ASSUME NEW s \in Seq(Nat \ {0})
  PROVE  /\ \A i \in 0..Len(s) : Stride(s, i) \in Nat \ {0} /\ Product(s) = Prefix(s, i) * Stride(s, i)
         /\ Stride(s, Len(s)) = 1
         /\ \A i \in 1..Len(s) : Stride(s, i - 1) = s[i] * Stride(s, i)
         /\ Product(s) \in Nat \ {0} /\ Stride(s, 0) = Product(s)
<1>0. Extents(s, Len(s)) /\ Len(s) \in Nat /\ Len(s) \in 0..Len(s) /\ \A i \in 1..Len(s) : s[i] \in Nat \ {0}
  BY SeqExtents
<1>1. ASSUME NEW i \in 0..Len(s)
      PROVE  Stride(s, i) \in Nat \ {0} /\ Product(s) = Prefix(s, i) * Stride(s, i)
  <2>1. Len(s) \in i..Len(s)
    OBVIOUS
  <2> QED BY <2>1, PartProduct DEF Stride, Product
<1>2. Product(s) \in Nat \ {0}
  <2>1. Len(s) \in 0..Len(s)
    BY <1>0
  <2> QED BY <1>0, <2>1, PrefixIs DEF Product
<1>3. \A i \in 0..Len(s) : Prefix(s, i) \in Nat \ {0}
  BY <1>0, PrefixIs
<1>4. Stride(s, 0) = Product(s)
  <2>1. Prefix(s, 0) = 1 /\ 0 \in 0..Len(s)
    BY <1>0, PrefixIs
  <2> QED BY <1>1, <2>1
<1>5. Stride(s, Len(s)) = 1
  <2>1. Product(s) = Product(s) * Stride(s, Len(s)) /\ Stride(s, Len(s)) \in Nat \ {0}
    BY <1>0, <1>1 DEF Product
  <2>2. 1 * Product(s) = Stride(s, Len(s)) * Product(s)
    BY <1>2, <2>1
  <2> QED BY <1>2, <2>1, <2>2, Cancel
<1>6. ASSUME NEW i \in 1..Len(s) PROVE Stride(s, i - 1) = s[i] * Stride(s, i)
  <2> DEFINE p == Prefix(s, i - 1)
             a == Stride(s, i - 1)
             b == Stride(s, i)
             e == s[i]
  <2>1. i - 1 \in 0..Len(s) /\ i \in 0..Len(s)
    OBVIOUS
  <2>2. Product(s) = p * a /\ Product(s) = Prefix(s, i) * b /\ Prefix(s, i) = p * e
    BY <1>0, <1>1, <2>1, PrefixIs
  <2>3. p \in Nat \ {0} /\ a \in Nat \ {0} /\ b \in Nat \ {0} /\ e \in Nat \ {0}
    BY <1>0, <1>1, <1>3, <2>1
  <2> HIDE DEF p, a, b, e
  <2>4. a * p = (e * b) * p
    BY <2>2, <2>3
  <2>5. a = e * b
    BY <2>3, <2>4, Cancel
  <2> QED BY <2>5 DEF a, b, e
<1> QED BY <1>1, <1>2, <1>4, <1>5, <1>6

-----------------------------------------------------------------------------
(* Division. *)

LEMMA Division ==
  ASSUME NEW x \in Int, NEW n \in Nat \ {0}
  PROVE  /\ x \div n \in Int /\ x % n \in 0 .. n - 1
         /\ x = (x % n) + (x \div n) * n
  OBVIOUS

LEMMA Monotone ==
  ASSUME NEW p \in Int, NEW q \in Int, NEW n \in Nat, p <= q
  PROVE  p * n <= q * n
<1>1. PICK d \in Nat : q = p + d
  BY q = p + (q - p)
<1>2. q * n = p * n + d * n /\ d * n >= 0
  BY <1>1
<1> QED BY <1>2

LEMMA QuotientIs ==
  ASSUME NEW x \in Int, NEW n \in Nat \ {0}, NEW q \in Int, NEW r \in 0 .. n - 1, x = r + q * n
  PROVE  x \div n = q /\ x % n = r
<1>1. PICK p \in Int, s \in 0 .. n - 1 : p = x \div n /\ s = x % n /\ x = s + p * n
  BY Division
<1>2. ~(p < q)
  <2> SUFFICES ASSUME p < q PROVE FALSE
    OBVIOUS
  <2>1. (p + 1) * n <= q * n
    BY Monotone
  <2>2. (p + 1) * n = p * n + n /\ p * n \in Int /\ q * n \in Int
    OBVIOUS
  <2> QED BY <2>1, <2>2, <1>1
<1>3. ~(q < p)
  <2> SUFFICES ASSUME q < p PROVE FALSE
    OBVIOUS
  <2>1. (q + 1) * n <= p * n
    BY Monotone
  <2>2. (q + 1) * n = q * n + n /\ p * n \in Int /\ q * n \in Int
    OBVIOUS
  <2> QED BY <2>1, <2>2, <1>1
<1>4. p = q
  BY <1>2, <1>3
<1>5. s = r
  <2>1. p * n = q * n /\ p * n \in Int
    BY <1>4
  <2> QED BY <2>1, <1>1
<1> QED BY <1>1, <1>4, <1>5

-----------------------------------------------------------------------------
(* Indices and their serial numbers. *)

\* The indices of a shape.
Box(s) == {d \in Seq(Nat) : Len(d) = Len(s) /\ \A i \in 1..Len(s) : d[i] < s[i]}

Sums(f, a, b) ==
  /\ f \in [0..Len(a) -> Int] /\ f[0] = 0
  /\ \A j \in 1..Len(a) : f[j] = f[j - 1] + a[j] * b[j]

\* A sum of products, folded from the left.
LEMMA DotIs ==
  ASSUME NEW a \in Seq(Int), NEW b, \A i \in 1..Len(a) : b[i] \in Int, NEW f, Sums(f, a, b)
  PROVE  Dot(a, b) = f[Len(a)]
<1> DEFINE n == Len(a)
           Whole(h) == h = [j \in 0..n |-> IF j = 0 THEN 0 ELSE h[j - 1] + a[j] * b[j]]
           k == [j \in 0..n |-> f[j]]
           p == CHOOSE h : Whole(h)
<1>1. n \in Nat
  OBVIOUS
<1>2. Whole(k)
  <2>1. ASSUME NEW j \in 0..n PROVE k[j] = IF j = 0 THEN 0 ELSE k[j - 1] + a[j] * b[j]
    <3>1. CASE j = 0
      BY <3>1 DEF Sums
    <3>2. CASE j # 0
      <4>1. j \in 1..n /\ j - 1 \in 0..n
        BY <1>1, <3>2
      <4>2. k[j] = f[j] /\ k[j - 1] = f[j - 1]
        BY <4>1
      <4>3. f[j] = f[j - 1] + a[j] * b[j]
        BY <4>1 DEF Sums
      <4> HIDE DEF k
      <4> QED BY <3>2, <4>2, <4>3
    <3> QED BY <3>1, <3>2
  <2> QED BY <2>1
<1>3. Whole(p)
  <2> HIDE DEF Whole, k
  <2> QED BY <1>2
<1>4. \A j \in 0..n : p[j] = f[j]
  <2> DEFINE S == {j \in 0..n : p[j] = f[j]}
  <2> HIDE DEF p
  <2>1. 0 \in S
    BY <1>1, <1>3 DEF Sums
  <2>2. ASSUME NEW j \in 0..(n - 1), j \in S PROVE j + 1 \in S
    <3>1. j + 1 \in 1..n /\ j + 1 \in 0..n /\ j + 1 # 0 /\ (j + 1) - 1 = j /\ p[j] = f[j]
      BY <2>2
    <3>2. p[j + 1] = p[j] + a[j + 1] * b[j + 1]
      BY <1>3, <3>1
    <3>3. f[j + 1] = f[j] + a[j + 1] * b[j + 1]
      BY <3>1 DEF Sums
    <3> QED BY <3>1, <3>2, <3>3
  <2> HIDE DEF S
  <2>3. \A j \in 0..n : j \in S
    BY <1>1, <2>1, <2>2, InductUpto
  <2> QED BY <2>3 DEF S
<1>5. Dot(a, b) = p[n]
  BY DEF Dot, With
<1> HIDE DEF p
<1> QED BY <1>1, <1>4, <1>5

\* The number of an index, one extent after another.
Horner(w, d, s) ==
  /\ w \in [0..Len(s) -> Nat] /\ w[0] = 0
  /\ \A j \in 1..Len(s) : w[j] = w[j - 1] * s[j] + d[j]

\* An index of a shape is a number below each extent.
LEMMA BoxIs ==
  ASSUME NEW s \in Seq(Nat \ {0}), NEW d \in Box(s)
  PROVE  /\ d \in Seq(Int) /\ Len(d) = Len(s) /\ Len(s) \in Nat /\ d \in Seq(Nat)
         /\ DOMAIN d = 1..Len(s) /\ DOMAIN s = 1..Len(s)
         /\ \A i \in 1..Len(s) : d[i] \in Nat /\ s[i] \in Nat \ {0} /\ d[i] < s[i]
  BY DEF Box

\* The number, extent by extent.
LEMMA HornerExists ==
  ASSUME NEW s \in Seq(Nat \ {0}), NEW d \in Box(s)
  PROVE  \E w : Horner(w, d, s)
<1> DEFINE n == Len(s)
           g == [p \in (1..n) \X Nat |-> p[2] * s[p[1]] + d[p[1]]]
<1>0. n \in Nat /\ \A i \in 1..n : d[i] \in Nat /\ s[i] \in Nat
  BY BoxIs
<1>1. g \in [(1..n) \X Nat -> Nat]
  <2>1. ASSUME NEW p \in (1..n) \X Nat PROVE p[2] * s[p[1]] + d[p[1]] \in Nat
    <3>1. p[2] \in Nat /\ s[p[1]] \in Nat /\ d[p[1]] \in Nat
      BY <1>0
    <3>2. \A x, y, z \in Nat : x * y + z \in Nat
      OBVIOUS
    <3> QED BY <3>1, <3>2
  <2> QED BY <2>1
<1>2. PICK w : Recurs(w, n, Nat, 0, g)
  <2> HIDE DEF g
  <2> QED BY <1>0, <1>1, Recursion
<1>3. w \in [0..n -> Nat] /\ w[0] = 0 /\ \A j \in 1..n : w[j] = g[<<j, w[j - 1]>>]
  BY <1>2 DEF Recurs
<1>4. ASSUME NEW j \in 1..n PROVE w[j] = w[j - 1] * s[j] + d[j]
  <2>1. j - 1 \in 0..n
    BY <1>0
  <2>2. <<j, w[j - 1]>> \in (1..n) \X Nat
    BY <1>3, <2>1
  <2>3. w[j] = g[<<j, w[j - 1]>>]
    BY <1>3
  <2> QED BY <2>2, <2>3
<1> QED BY <1>3, <1>4 DEF Horner

\* index_serialize adds up the same number by strides.
LEMMA SerializeIs ==
  ASSUME NEW s \in Seq(Nat \ {0}), NEW d \in Box(s), NEW w, Horner(w, d, s)
  PROVE  IndexSerialize(d, s) = w[Len(s)]
<1> DEFINE n == Len(s)
           St == [i \in 1..n |-> Stride(s, i)]
           f == [j \in 0..n |-> w[j] * Stride(s, j)]
<1>0. /\ n \in Nat /\ d \in Seq(Int) /\ Len(d) = n /\ DOMAIN s = 1..n
      /\ \A i \in 1..n : d[i] \in Nat /\ s[i] \in Nat
  BY BoxIs
<1>1. /\ \A i \in 0..n : Stride(s, i) \in Nat
      /\ \A i \in 1..n : Stride(s, i - 1) = s[i] * Stride(s, i)
      /\ Stride(s, n) = 1
  BY StrideIs
<1>2. w \in [0..n -> Nat] /\ w[0] = 0 /\ \A j \in 1..n : w[j] = w[j - 1] * s[j] + d[j]
  BY DEF Horner
<1>3. \A j \in 0..n : f[j] = w[j] * Stride(s, j) /\ w[j] \in Nat /\ Stride(s, j) \in Nat
  BY <1>1, <1>2
<1>4. \A i \in 1..n : St[i] = Stride(s, i) /\ St[i] \in Int
  BY <1>0, <1>1
<1>5. f \in [0..n -> Int]
  <2>1. \A j \in 0..n : w[j] * Stride(s, j) \in Int
    BY <1>3
  <2> QED BY <2>1
<1>6. f[0] = 0
  <2>1. 0 \in 0..n
    BY <1>0
  <2>2. f[0] = 0 * Stride(s, 0)
    BY <1>2, <2>1
  <2> QED BY <1>1, <2>1, <2>2
<1> HIDE DEF f, St
<1>7. ASSUME NEW j \in 1..n PROVE f[j] = f[j - 1] + d[j] * St[j]
  <2>1. j - 1 \in 0..n /\ j \in 0..n
    BY <1>0
  <2> DEFINE x == w[j - 1]
             e == s[j]
             t == Stride(s, j)
             c == d[j]
  <2>2. f[j] = (x * e + c) * t /\ f[j - 1] = x * (e * t) /\ St[j] = t
    BY <1>1, <1>2, <1>3, <1>4, <2>1
  <2>3. x \in Nat /\ e \in Nat /\ t \in Nat /\ c \in Nat
    BY <1>0, <1>3, <2>1
  <2> HIDE DEF x, e, t, c
  <2>4. (x * e + c) * t = x * (e * t) + c * t
    BY <2>3, Z3
  <2> QED BY <2>2, <2>4 DEF c
<1>8. Sums(f, d, St)
  BY <1>0, <1>5, <1>6, <1>7 DEF Sums
<1>9. Dot(d, St) = f[n]
  BY <1>0, <1>4, <1>8, DotIs
<1>10. f[n] = w[n]
  <2>1. n \in 0..n
    BY <1>0
  <2>2. f[n] = w[n] * 1 /\ w[n] \in Nat
    BY <1>1, <1>3, <2>1
  <2> QED BY <2>2
<1>11. IndexSerialize(d, s) = Dot(d, St)
  BY <1>0 DEF IndexSerialize, St
<1> QED BY <1>9, <1>10, <1>11

-----------------------------------------------------------------------------
(* Indices of a shape: the digits of their serial numbers. *)

\* A number has one remainder and one quotient.
LEMMA SameDigits ==
  ASSUME NEW x \in Int, NEW y \in Int, NEW t \in Nat \ {0},
         NEW c \in 0 .. t - 1, NEW e \in 0 .. t - 1, x * t + c = y * t + e
  PROVE  x = y /\ c = e
<1>1. x * t \in Int /\ y * t \in Int
  OBVIOUS
<1>2. x * t + c = c + x * t /\ x * t + c = e + y * t /\ x * t + c \in Int
  BY <1>1
<1> QED BY <1>2, QuotientIs

\* Dividing twice is dividing by the product.
LEMMA NestedQuotient ==
  ASSUME NEW n \in Nat, NEW e \in Nat \ {0}, NEW t \in Nat \ {0}
  PROVE  \E q \in Int, c \in 0 .. e - 1 :
           n \div (e * t) = q /\ (n \div t) % e = c /\ n \div t = q * e + c
<1>1. PICK p \in Int, r \in 0 .. t - 1 : p = n \div t /\ n = r + p * t
  BY Division
<1>2. PICK q \in Int, c \in 0 .. e - 1 : q = p \div e /\ c = p % e /\ p = c + q * e
  BY Division
<1>3. n = (r + c * t) + q * (e * t)
  <2>1. (c + q * e) * t = c * t + q * (e * t)
    OBVIOUS
  <2>2. n = r + (c + q * e) * t
    BY <1>1, <1>2
  <2>3. c * t \in Int /\ q * (e * t) \in Int
    OBVIOUS
  <2> QED BY <2>1, <2>2, <2>3
<1>4. r + c * t \in 0 .. e * t - 1
  <2>1. (c + 1) * t <= e * t /\ 0 * t <= c * t
    BY Monotone
  <2>2. (c + 1) * t = c * t + t /\ 0 * t = 0 /\ c * t \in Int /\ e * t \in Int
    OBVIOUS
  <2> QED BY <2>1, <2>2
<1>5. e * t \in Nat \ {0}
  BY Factor
<1>6. n \div (e * t) = q
  BY <1>3, <1>4, <1>5, QuotientIs
<1>7. c + q * e = q * e + c
  OBVIOUS
<1>8. p = q * e + c
  BY <1>2, <1>7
<1>9. n \div t = p /\ (n \div t) % e = c
  BY <1>1, <1>2
<1> QED BY <1>6, <1>8, <1>9

\* The numbers of indices are below the number of elements.
LEMMA HornerBound ==
  ASSUME NEW s \in Seq(Nat \ {0}), NEW d \in Box(s), NEW w, Horner(w, d, s)
  PROVE  \A j \in 0..Len(s) : w[j] \in Nat /\ w[j] < Prefix(s, j)
<1> DEFINE n == Len(s)
           S == {j \in 0..n : w[j] < Prefix(s, j)}
<1>0. n \in Nat /\ \A i \in 1..n : d[i] \in Nat /\ s[i] \in Nat \ {0} /\ d[i] < s[i]
  BY BoxIs
<1>1. w \in [0..n -> Nat] /\ w[0] = 0 /\ \A j \in 1..n : w[j] = w[j - 1] * s[j] + d[j]
  BY DEF Horner
<1>2. /\ Prefix(s, 0) = 1
      /\ \A i \in 1..n : Prefix(s, i) = Prefix(s, i - 1) * s[i]
      /\ \A i \in 0..n : Prefix(s, i) \in Nat \ {0}
  BY SeqExtents, PrefixIs
<1>3. 0 \in S
  BY <1>0, <1>1, <1>2
<1>4. ASSUME NEW j \in 0..(n - 1), j \in S PROVE j + 1 \in S
  <2>1. j + 1 \in 1..n /\ (j + 1) - 1 = j /\ j \in 0..n /\ j + 1 \in 0..n
    BY <1>0
  <2> DEFINE x == w[j]
             p == Prefix(s, j)
             e == s[j + 1]
             c == d[j + 1]
  <2>2. w[j + 1] = x * e + c /\ Prefix(s, j + 1) = p * e /\ x < p /\ c < e
    BY <1>0, <1>1, <1>2, <1>4, <2>1
  <2>3. x \in Nat /\ p \in Nat /\ e \in Nat \ {0} /\ c \in Nat
    BY <1>0, <1>1, <1>2, <2>1
  <2> HIDE DEF x, p, e, c
  <2>4. (x + 1) * e <= p * e
    BY <2>2, <2>3, Monotone
  <2>5. (x + 1) * e = x * e + e /\ x * e \in Int /\ p * e \in Int
    BY <2>3
  <2>6. x * e + c < p * e
    BY <2>2, <2>3, <2>4, <2>5
  <2> QED BY <2>1, <2>2, <2>6
<1> HIDE DEF S
<1>5. \A j \in 0..n : j \in S
  BY <1>0, <1>3, <1>4, InductUpto
<1> QED BY <1>1, <1>5 DEF S

\* Different indices have different numbers.
LEMMA HornerUnique ==
  ASSUME NEW s \in Seq(Nat \ {0}), NEW d \in Box(s), NEW e \in Box(s),
         NEW w, Horner(w, d, s), NEW v, Horner(v, e, s), w[Len(s)] = v[Len(s)]
  PROVE  d = e
<1> DEFINE n == Len(s)
           S == {j \in 0..n : w[j] = v[j]}
<1>0. n \in Nat /\ \A i \in 1..n : /\ d[i] \in Nat /\ s[i] \in Nat \ {0} /\ d[i] < s[i]
                                  /\ e[i] \in Nat /\ e[i] < s[i]
  BY BoxIs
<1>1. /\ w \in [0..n -> Nat] /\ \A j \in 1..n : w[j] = w[j - 1] * s[j] + d[j]
      /\ v \in [0..n -> Nat] /\ \A j \in 1..n : v[j] = v[j - 1] * s[j] + e[j]
  BY DEF Horner
<1>2. ASSUME NEW j \in 1..n, w[j] = v[j] PROVE w[j - 1] = v[j - 1] /\ d[j] = e[j]
  <2>1. j - 1 \in 0..n /\ j \in 0..n
    BY <1>0
  <2>2. w[j - 1] * s[j] + d[j] = v[j - 1] * s[j] + e[j]
    BY <1>1, <1>2
  <2>3. w[j - 1] \in Int /\ v[j - 1] \in Int /\ s[j] \in Nat \ {0}
    <3>1. w[j - 1] \in Nat
      BY <1>1, <2>1
    <3>2. v[j - 1] \in Nat
      BY <1>1, <2>1
    <3> QED BY <1>0, <3>1, <3>2
  <2>4. d[j] \in 0 .. s[j] - 1 /\ e[j] \in 0 .. s[j] - 1
    BY <1>0
  <2> DEFINE x == w[j - 1]
             y == v[j - 1]
             t == s[j]
             c == d[j]
             f == e[j]
  <2>5. x * t + c = y * t + f /\ x \in Int /\ y \in Int /\ t \in Nat \ {0} /\ c \in 0 .. t - 1 /\ f \in 0 .. t - 1
    BY <2>2, <2>3, <2>4
  <2> HIDE DEF x, y, t, c, f
  <2>6. x = y /\ c = f
    BY <2>5, SameDigits
  <2> QED BY <2>6 DEF x, y, c, f
<1>3. n \in S
  BY <1>0
<1>4. ASSUME NEW j \in 1..n, j \in S PROVE j - 1 \in S
  BY <1>0, <1>2, <1>4
<1>5. \A j \in 0..n : j \in S
  <2> HIDE DEF S
  <2> QED BY <1>0, <1>3, <1>4, InductDown
<1>6. \A j \in 1..n : d[j] = e[j]
  BY <1>0, <1>2, <1>5
<1> QED
  <2>1. d \in Seq(Nat) /\ e \in Seq(Nat) /\ Len(d) = n /\ Len(e) = n
    BY BoxIs
  <2> HIDE DEF n
  <2> QED BY <1>6, <2>1, SeqEqual

\* The digits of a number of the shape.
LEMMA DeserializeIs ==
  ASSUME NEW s \in Seq(Nat \ {0}), NEW n \in 0..(Product(s) - 1)
  PROVE  /\ IndexDeserialize(n, s) \in Box(s)
         /\ IndexSerialize(IndexDeserialize(n, s), s) = n
<1> DEFINE m == Len(s)
           D == IndexDeserialize(n, s)
           w == [j \in 0..m |-> n \div Stride(s, j)]
<1>0. m \in Nat /\ DOMAIN s = 1..m /\ \A i \in 1..m : s[i] \in Nat \ {0}
  BY SeqExtents DEF Extents
<1>1. /\ \A i \in 0..m : Stride(s, i) \in Nat \ {0}
      /\ \A i \in 1..m : Stride(s, i - 1) = s[i] * Stride(s, i)
      /\ Stride(s, m) = 1 /\ Stride(s, 0) = Product(s) /\ Product(s) \in Nat \ {0}
  BY StrideIs
<1>n. n \in Nat /\ n < Product(s)
  BY <1>1
<1>2. ASSUME NEW j \in 0..m PROVE w[j] = n \div Stride(s, j) /\ w[j] \in Nat
  <2>1. Stride(s, j) \in Nat \ {0}
    BY <1>1
  <2>2. n \div Stride(s, j) \in Nat
    BY <1>n, <2>1, Z3
  <2> QED BY <2>2
<1>3. w[0] = 0
  <2>1. n \in 0 .. Product(s) - 1 /\ n = n + 0 * Product(s)
    BY <1>1, <1>n
  <2>2. n \div Product(s) = 0
    BY <1>1, <1>n, <2>1, QuotientIs
  <2>3. 0 \in 0..m
    BY <1>0
  <2> QED BY <1>1, <2>2, <2>3
<1>4. w[m] = n
  <2>1. n \div 1 = n
    BY <1>n
  <2>2. m \in 0..m
    BY <1>0
  <2> QED BY <1>1, <2>1, <2>2
<1> HIDE DEF w
<1>5. ASSUME NEW j \in 1..m
      PROVE  \E c \in 0 .. s[j] - 1 : w[j] % s[j] = c /\ w[j] = w[j - 1] * s[j] + c
  <2>1. j - 1 \in 0..m /\ j \in 0..m
    BY <1>0
  <2> DEFINE t == Stride(s, j)
             e == s[j]
  <2>2. t \in Nat \ {0} /\ e \in Nat \ {0} /\ Stride(s, j - 1) = e * t
    BY <1>0, <1>1, <2>1
  <2>3. w[j] = n \div t /\ w[j - 1] = n \div (e * t) /\ w[j] \in Nat
    BY <1>2, <2>1, <2>2
  <2> HIDE DEF t, e
  <2>4. PICK q \in Int, c \in 0 .. e - 1 :
          n \div (e * t) = q /\ (n \div t) % e = c /\ n \div t = q * e + c
    BY <1>n, <2>2, NestedQuotient
  <2>5. w[j] % e = c /\ w[j] = w[j - 1] * e + c
    BY <2>3, <2>4
  <2> QED BY <2>5 DEF e
<1>6. ASSUME NEW j \in 1..m PROVE D[j] = w[j] % s[j]
  <2>1. D[j] = IF j = 1 THEN n \div Stride(s, 1) ELSE (n \div Stride(s, j)) % s[j]
    BY <1>0 DEF IndexDeserialize
  <2>2. w[j] = n \div Stride(s, j) /\ w[j] \in Nat
    BY <1>0, <1>2
  <2>3. CASE j = 1
    <3>1. w[j - 1] = 0
      BY <1>3, <2>3
    <3>2. PICK c \in 0 .. s[j] - 1 : w[j] % s[j] = c /\ w[j] = 0 * s[j] + c
      BY <1>5, <3>1
    <3>3. s[j] \in Nat /\ 0 * s[j] = 0
      BY <1>0
    <3>4. w[j] % s[j] = w[j]
      BY <3>2, <3>3
    <3> QED BY <2>1, <2>2, <2>3, <3>4
  <2>4. CASE j # 1
    BY <2>1, <2>2, <2>4
  <2> QED BY <2>3, <2>4
<1>7. D \in Seq(Nat) /\ Len(D) = m
  <2>1. D = [i \in 1..m |-> D[i]]
    BY <1>0 DEF IndexDeserialize
  <2>2. \A i \in 1..m : D[i] \in Nat
    BY <1>0, <1>5, <1>6
  <2> HIDE DEF D, m
  <2>3. D \in [1..m -> Nat]
    BY <2>1, <2>2
  <2> QED BY <1>0, <2>3
<1>8. D \in Box(s)
  BY <1>0, <1>5, <1>6, <1>7 DEF Box
<1>9. Horner(w, D, s)
  <2>1. w \in [0..m -> Nat]
    <3>1. \A j \in 0..m : n \div Stride(s, j) \in Nat
      BY <1>2
    <3> QED BY <3>1 DEF w
  <2>2. ASSUME NEW j \in 1..m PROVE w[j] = w[j - 1] * s[j] + D[j]
    <3>1. PICK c \in 0 .. s[j] - 1 : w[j] % s[j] = c /\ w[j] = w[j - 1] * s[j] + c
      BY <1>5
    <3>2. D[j] = c
      BY <1>6, <3>1
    <3> QED BY <3>1, <3>2
  <2> HIDE DEF D
  <2> QED BY <1>3, <2>1, <2>2 DEF Horner
<1> HIDE DEF D
<1>10. IndexSerialize(D, s) = w[m]
  BY <1>8, <1>9, SerializeIs
<1> QED BY <1>4, <1>8, <1>10 DEF D

\* Each index has its number and each number its index.
LEMMA SerializeRange ==
  ASSUME NEW s \in Seq(Nat \ {0}), NEW d \in Box(s)
  PROVE  /\ IndexSerialize(d, s) \in 0..(Product(s) - 1)
         /\ IndexDeserialize(IndexSerialize(d, s), s) = d
<1> DEFINE n == IndexSerialize(d, s)
           e == IndexDeserialize(n, s)
<1>1. PICK w : Horner(w, d, s)
  BY HornerExists
<1>2. n = w[Len(s)]
  BY <1>1, SerializeIs
<1>3. n \in 0..(Product(s) - 1)
  <2>1. Len(s) \in 0..Len(s)
    BY SeqExtents
  <2>2. w[Len(s)] \in Nat /\ w[Len(s)] < Product(s)
    BY <1>1, <2>1, HornerBound DEF Product
  <2>3. Product(s) \in Nat
    BY StrideIs
  <2> QED BY <1>2, <2>2, <2>3
<1> HIDE DEF n
<1>4. e \in Box(s) /\ IndexSerialize(e, s) = n
  BY <1>3, DeserializeIs
<1> HIDE DEF e
<1>5. PICK v : Horner(v, e, s)
  BY <1>4, HornerExists
<1>6. v[Len(s)] = n
  BY <1>4, <1>5, SerializeIs
<1>7. d = e
  BY <1>1, <1>2, <1>4, <1>5, <1>6, HornerUnique
<1> QED BY <1>3, <1>7 DEF n, e

\* The indices of a shape are the numbers below its extents.
LEMMA IndexesAre ==
  ASSUME NEW s \in Seq(Nat \ {0})
  PROVE  Indexes(s) = Box(s)
<1>1. ASSUME NEW d \in Indexes(s) PROVE d \in Box(s)
  <2>1. PICK n \in 0..(Product(s) - 1) : d = IndexDeserialize(n, s)
    BY DEF Indexes
  <2> QED BY <2>1, DeserializeIs
<1>2. ASSUME NEW d \in Box(s) PROVE d \in Indexes(s)
  BY SerializeRange DEF Indexes
<1> QED BY <1>1, <1>2

\* A set of numbers up to a bound has a greatest one.
LEMMA GreatestOf ==
  ASSUME NEW n \in Nat, NEW T \in SUBSET (0..n), T # {}
  PROVE  \E k \in T : \A m \in T : m <= k
<1> DEFINE S == {j \in 0..n : (\E m \in T : m <= j) => \E k \in T : k <= j /\ \A m \in T : m <= j => m <= k}
<1>1. 0 \in S
  OBVIOUS
<1>2. ASSUME NEW j \in 0..(n - 1), j \in S PROVE j + 1 \in S
  <2>1. CASE j + 1 \in T
    <3>1. \A m \in T : m <= j + 1 => m <= j + 1
      OBVIOUS
    <3> QED BY <2>1
  <2>2. CASE j + 1 \notin T
    <3>1. \A m \in T : m <= j + 1 => m <= j
      BY <2>2
    <3>2. \A m \in T : m <= j => m <= j + 1
      OBVIOUS
    <3> QED BY <1>2, <3>1, <3>2
  <2> QED BY <2>1, <2>2
<1>3. n \in S
  <2> HIDE DEF S
  <2>1. \A j \in 0..n : j \in S
    BY <1>1, <1>2, InductUpto
  <2> QED BY <2>1
<1>4. \A m \in T : m <= n
  OBVIOUS
<1> QED BY <1>3, <1>4

-----------------------------------------------------------------------------
(* Modes: sizes above 1, whose products grow. *)

Sizes(M) == M \in Seq(Nat \ {0, 1})

\* Modes are extents.
LEMMA SizesAre ==
  ASSUME NEW M, Sizes(M)
  PROVE  /\ M \in Seq(Nat \ {0}) /\ Len(M) \in Nat /\ DOMAIN M = 1..Len(M)
         /\ Extents(M, Len(M))
         /\ \A i \in 1..Len(M) : M[i] \in Nat /\ M[i] > 1
  BY DEF Sizes, Extents

\* A product of more modes is greater.
LEMMA SizesGrow ==
  ASSUME NEW M, Sizes(M), NEW i \in 0..Len(M), NEW j \in 0..Len(M)
  PROVE  /\ Prefix(M, i) \in Nat \ {0}
         /\ i < j => Prefix(M, i) < Prefix(M, j)
<1> DEFINE n == Len(M)
           S == {k \in 0..n : i < k => Prefix(M, i) < Prefix(M, k)}
<1>0. n \in Nat /\ \A k \in 1..n : M[k] \in Nat /\ M[k] > 1
  BY SizesAre
<1>1. /\ \A k \in 1..n : Prefix(M, k) = Prefix(M, k - 1) * M[k]
      /\ \A k \in 0..n : Prefix(M, k) \in Nat \ {0}
  BY SizesAre, PrefixIs
<1>2. 0 \in S
  BY <1>0
<1>3. ASSUME NEW k \in 0..(n - 1), k \in S PROVE k + 1 \in S
  <2>1. k + 1 \in 1..n /\ (k + 1) - 1 = k /\ k \in 0..n /\ k + 1 \in 0..n
    BY <1>0
  <2> DEFINE p == Prefix(M, k)
             e == M[k + 1]
  <2>2. Prefix(M, k + 1) = p * e /\ p \in Nat \ {0} /\ e \in Nat /\ e > 1
    BY <1>0, <1>1, <2>1
  <2> HIDE DEF p, e
  <2>3. 2 * p <= e * p /\ e * p = p * e /\ 2 * p = p + p /\ p * e \in Int
    BY <2>2, Monotone
  <2>4. Prefix(M, k) < Prefix(M, k + 1)
    BY <2>2, <2>3 DEF p
  <2>5. Prefix(M, k) \in Int /\ Prefix(M, k + 1) \in Int /\ Prefix(M, i) \in Int
    BY <1>1, <2>1
  <2>6. i < k + 1 => i = k \/ i < k
    BY <1>0
  <2> QED BY <1>3, <2>1, <2>4, <2>5, <2>6
<1> HIDE DEF S
<1>4. \A k \in 0..n : k \in S
  BY <1>0, <1>2, <1>3, InductUpto
<1> QED BY <1>1, <1>4 DEF S

\* How many modes fit below a number.
Below(M, c) == Cardinality({m \in DOMAIN M : Prefix(M, m) <= c})

\* Those that fit are the first ones.
LEMMA BelowIs ==
  ASSUME NEW M, Sizes(M), NEW c \in Nat \ {0}
  PROVE  /\ Below(M, c) \in 0..Len(M)
         /\ \A m \in 0..Len(M) : m <= Below(M, c) <=> Prefix(M, m) <= c
<1> DEFINE n == Len(M)
           T == {m \in 0..n : Prefix(M, m) <= c}
<1>0. n \in Nat /\ DOMAIN M = 1..n
  BY SizesAre
<1>1. 0 \in T
  <2>1. Prefix(M, 0) = 1
    BY SizesAre, PrefixIs
  <2> QED BY <1>0, <2>1
<1>2. PICK k \in T : \A m \in T : m <= k
  BY <1>0, <1>1, GreatestOf
<1>3. ASSUME NEW m \in 0..n PROVE m <= k <=> Prefix(M, m) <= c
  <2>1. CASE m \in T
    BY <1>2, <2>1
  <2>2. CASE m \notin T
    <3>1. m # k /\ ~(Prefix(M, m) <= c) /\ Prefix(M, k) <= c
      BY <1>2, <2>2
    <3>2. Prefix(M, m) \in Nat /\ Prefix(M, k) \in Nat /\ (m < k => Prefix(M, m) < Prefix(M, k))
      BY SizesGrow
    <3> QED BY <3>1, <3>2
  <2> QED BY <2>1, <2>2
<1>4. {m \in DOMAIN M : Prefix(M, m) <= c} = 1..k
  <2>1. \A m \in 1..n : m \in 0..n
    OBVIOUS
  <2>2. \A m \in 1..k : m \in 1..n
    BY <1>0
  <2> QED BY <1>0, <1>3, <2>1, <2>2
<1>5. Below(M, c) = k
  <2>1. k \in Nat
    BY <1>0
  <2>2. Cardinality(1..k) = k
    BY <2>1, FS_Interval
  <2> QED BY <1>4, <2>2 DEF Below
<1> QED BY <1>3, <1>5

-----------------------------------------------------------------------------
(* Sequences one after another. *)

Offsets(u, f) ==
  /\ u \in [0..Len(f) -> Nat] /\ u[0] = 0
  /\ \A d \in 1..Len(f) : u[d] = u[d - 1] + Len(f[d])

\* The places at which the parts end.
LEMMA OffsetsExist ==
  ASSUME NEW X, NEW f \in Seq(Seq(X))
  PROVE  \E u : Offsets(u, f)
<1> DEFINE n == Len(f)
           g == [p \in (1..n) \X Nat |-> p[2] + Len(f[p[1]])]
<1>0. n \in Nat /\ \A d \in 1..n : Len(f[d]) \in Nat
  OBVIOUS
<1>1. g \in [(1..n) \X Nat -> Nat]
  <2>1. ASSUME NEW p \in (1..n) \X Nat PROVE p[2] + Len(f[p[1]]) \in Nat
    <3>1. p[2] \in Nat /\ Len(f[p[1]]) \in Nat
      BY <1>0
    <3> QED BY <3>1
  <2> QED BY <2>1
<1>2. PICK u : Recurs(u, n, Nat, 0, g)
  <2> HIDE DEF g
  <2> QED BY <1>0, <1>1, Recursion
<1>3. u \in [0..n -> Nat] /\ u[0] = 0 /\ \A j \in 1..n : u[j] = g[<<j, u[j - 1]>>]
  BY <1>2 DEF Recurs
<1>4. ASSUME NEW j \in 1..n PROVE u[j] = u[j - 1] + Len(f[j])
  <2>1. j - 1 \in 0..n
    BY <1>0
  <2>2. <<j, u[j - 1]>> \in (1..n) \X Nat
    BY <1>3, <2>1
  <2>3. u[j] = g[<<j, u[j - 1]>>]
    BY <1>3
  <2> QED BY <2>2, <2>3
<1> QED BY <1>3, <1>4 DEF Offsets

\* They grow, up to the length of the whole.
LEMMA OffsetsAre ==
  ASSUME NEW X, NEW f \in Seq(Seq(X)), NEW u, Offsets(u, f)
  PROVE  /\ \A d \in 0..Len(f) : u[d] \in Nat
         /\ u[0] = 0
         /\ \A d \in 1..Len(f) : u[d] = u[d - 1] + Len(f[d]) /\ Len(f[d]) \in Nat
         /\ Len(f) \in Nat
         /\ \A c, d \in 0..Len(f) : c <= d => u[c] <= u[d]
<1> DEFINE n == Len(f)
<1>1. /\ n \in Nat /\ u[0] = 0 /\ \A d \in 0..n : u[d] \in Nat
      /\ \A d \in 1..n : u[d] = u[d - 1] + Len(f[d]) /\ Len(f[d]) \in Nat
  <2>1. n \in Nat /\ \A d \in 1..n : Len(f[d]) \in Nat
    OBVIOUS
  <2>2. u[0] = 0 /\ u \in [0..n -> Nat] /\ \A d \in 1..n : u[d] = u[d - 1] + Len(f[d])
    BY DEF Offsets
  <2> QED BY <2>1, <2>2
<1>2. ASSUME NEW c \in 0..n PROVE \A d \in 0..n : c <= d => u[c] <= u[d]
  <2> DEFINE S == {d \in 0..n : c <= d => u[c] <= u[d]}
  <2>1. 0 \in S
    BY <1>1
  <2>2. ASSUME NEW d \in 0..(n - 1), d \in S PROVE d + 1 \in S
    <3>1. d + 1 \in 1..n /\ (d + 1) - 1 = d /\ d \in 0..n /\ d + 1 \in 0..n
      BY <1>1
    <3>2. u[d + 1] = u[d] + Len(f[d + 1]) /\ Len(f[d + 1]) \in Nat /\ u[d] \in Nat /\ u[c] \in Nat
      BY <1>1, <3>1
    <3>3. c <= d + 1 => c = d + 1 \/ c <= d
      BY <3>1
    <3> QED BY <2>2, <3>1, <3>2, <3>3
  <2> HIDE DEF S
  <2>3. \A d \in 0..n : d \in S
    BY <1>1, <2>1, <2>2, InductUpto
  <2> QED BY <2>3 DEF S
<1> QED BY <1>1, <1>2

\* Every place of the whole is a place of one part.
LEMMA PlaceOf ==
  ASSUME NEW X, NEW f \in Seq(Seq(X)), NEW u, Offsets(u, f), NEW m \in 1..u[Len(f)]
  PROVE  \E d \in 1..Len(f) : \E i \in 1..Len(f[d]) : m = u[d - 1] + i
<1> DEFINE n == Len(f)
           T == {d \in 0..n : u[d] < m}
<1>1. /\ n \in Nat /\ u[0] = 0 /\ \A d \in 0..n : u[d] \in Nat
      /\ \A d \in 1..n : u[d] = u[d - 1] + Len(f[d]) /\ Len(f[d]) \in Nat
  BY OffsetsAre
<1>2. 0 \in T /\ n \in 0..n
  BY <1>1
<1>3. m \in Nat /\ m <= u[n] /\ u[n] \in Nat
  BY <1>1, <1>2
<1>4. PICK c \in T : \A d \in T : d <= c
  BY <1>1, <1>2, GreatestOf
<1>5. c # n /\ c + 1 \in 1..n /\ c + 1 \in 0..n /\ (c + 1) - 1 = c /\ u[c] < m
  BY <1>1, <1>3, <1>4
<1>6. ~(u[c + 1] < m)
  BY <1>4, <1>5
<1>7. u[c + 1] = u[c] + Len(f[c + 1]) /\ Len(f[c + 1]) \in Nat /\ u[c] \in Nat
  BY <1>1, <1>5
<1>8. m - u[c] \in 1..Len(f[c + 1]) /\ m = u[c] + (m - u[c])
  BY <1>3, <1>5, <1>6, <1>7
<1> QED BY <1>5, <1>8

Places(u, f) == \A m \in 1..u[Len(f)] : \E d \in 1..Len(f) : \E i \in 1..Len(f[d]) : m = u[d - 1] + i

\* Every place of the whole is a place of one part.
LEMMA PlacesAre ==
  ASSUME NEW X, NEW f \in Seq(Seq(X)), NEW u, Offsets(u, f)
  PROVE  Places(u, f)
  BY PlaceOf, SMTT(40) DEF Places

\* The parts do not overlap.
LEMMA PlaceOnce ==
  ASSUME NEW X, NEW f \in Seq(Seq(X)), NEW u, Offsets(u, f),
         NEW c \in 1..Len(f), NEW d \in 1..Len(f), NEW i \in 1..Len(f[c]), NEW j \in 1..Len(f[d]),
         u[c - 1] + i = u[d - 1] + j
  PROVE  c = d /\ i = j
<1> DEFINE n == Len(f)
<1>1. /\ n \in Nat /\ \A e \in 0..n : u[e] \in Nat
      /\ \A e \in 1..n : u[e] = u[e - 1] + Len(f[e]) /\ Len(f[e]) \in Nat
      /\ \A a, b \in 0..n : a <= b => u[a] <= u[b]
  BY OffsetsAre
<1>2. c - 1 \in 0..n /\ d - 1 \in 0..n /\ c \in 0..n /\ d \in 0..n
  BY <1>1
<1>3. /\ u[c - 1] + i <= u[c] /\ u[d - 1] + j <= u[d]
      /\ u[c - 1] \in Nat /\ u[d - 1] \in Nat /\ u[c] \in Nat /\ u[d] \in Nat
      /\ i \in Nat \ {0} /\ j \in Nat \ {0}
  <2>1. /\ u[c - 1] \in Nat /\ u[d - 1] \in Nat /\ u[c] \in Nat /\ u[d] \in Nat
        /\ u[c] = u[c - 1] + Len(f[c]) /\ u[d] = u[d - 1] + Len(f[d])
        /\ Len(f[c]) \in Nat /\ Len(f[d]) \in Nat
    BY <1>1, <1>2
  <2>2. i \in Nat /\ i >= 1 /\ i <= Len(f[c])
    BY <2>1
  <2>3. j \in Nat /\ j >= 1 /\ j <= Len(f[d])
    BY <2>1
  <2> DEFINE a == u[c - 1]
             b == u[d - 1]
             p == Len(f[c])
             q == Len(f[d])
  <2>4. /\ a \in Nat /\ b \in Nat /\ p \in Nat /\ q \in Nat /\ u[c] = a + p /\ u[d] = b + q
        /\ i \in Nat /\ i >= 1 /\ i <= p /\ j \in Nat /\ j >= 1 /\ j <= q
    BY <2>1, <2>2, <2>3
  <2> HIDE DEF a, b, p, q
  <2>5. a + i <= u[c] /\ b + j <= u[d] /\ u[c] \in Nat /\ u[d] \in Nat /\ i \in Nat \ {0} /\ j \in Nat \ {0}
    BY <2>4
  <2> QED BY <2>4, <2>5 DEF a, b
<1>4. ~(c < d)
  <2> SUFFICES ASSUME c < d PROVE FALSE
    OBVIOUS
  <2>1. c <= d - 1
    BY <1>1
  <2>2. u[c] <= u[d - 1]
    BY <1>1, <1>2, <2>1
  <2> QED BY <1>3, <2>2
<1>5. ~(d < c)
  <2> SUFFICES ASSUME d < c PROVE FALSE
    OBVIOUS
  <2>1. d <= c - 1
    BY <1>1
  <2>2. u[d] <= u[c - 1]
    BY <1>1, <1>2, <2>1
  <2> QED BY <1>3, <2>2
<1>6. c = d
  BY <1>4, <1>5
<1>7. i = j
  BY <1>3, <1>6
<1> QED BY <1>6, <1>7

\* Two sequences joined.
LEMMA JoinIs ==
  ASSUME NEW X, NEW s \in Seq(X), NEW t \in Seq(X)
  PROVE  /\ s \o t \in Seq(X) /\ Len(s \o t) = Len(s) + Len(t) /\ Len(s) \in Nat /\ Len(t) \in Nat
         /\ \A i \in 1..Len(s) : (s \o t)[i] = s[i]
         /\ \A i \in 1..Len(t) : (s \o t)[Len(s) + i] = t[i]
<1>1. \A i \in 1..Len(t) : Len(s) + i \in (Len(s) + 1)..(Len(s) + Len(t)) /\ (Len(s) + i) - Len(s) = i
  OBVIOUS
<1>2. /\ s \o t \in Seq(X) /\ Len(s \o t) = Len(s) + Len(t)
      /\ \A i \in 1..(Len(s) + Len(t)) : (s \o t)[i] = IF i <= Len(s) THEN s[i] ELSE t[i - Len(s)]
  BY ConcatProperties
<1>3. Len(s) \in Nat /\ Len(t) \in Nat
  OBVIOUS
<1> QED BY <1>1, <1>2, <1>3

\* The elements of the whole are those of the parts, at their places.
LEMMA FlattenIs ==
  ASSUME NEW X, NEW f \in Seq(Seq(X)), NEW u, Offsets(u, f)
  PROVE  /\ Flat(f) \in Seq(X) /\ Len(Flat(f)) = u[Len(f)]
         /\ \A d \in 1..Len(f) : \A i \in 1..Len(f[d]) : Flat(f)[u[d - 1] + i] = f[d][i]
<1> DEFINE n == Len(f)
           Next(h, i) == IF i = 1 THEN f[i] ELSE h[i - 1] \o f[i]
           Runs(h, m) == h = [i \in 1..m |-> Next(h, i)]
           F == CHOOSE h : Runs(h, n)
           Holds(h, m) == /\ h[m] \in Seq(X) /\ Len(h[m]) = u[m]
                          /\ \A d \in 1..m : \A i \in 1..Len(f[d]) : h[m][u[d - 1] + i] = f[d][i]
<1>1. /\ n \in Nat /\ u[0] = 0 /\ \A d \in 0..n : u[d] \in Nat
      /\ \A d \in 1..n : u[d] = u[d - 1] + Len(f[d]) /\ Len(f[d]) \in Nat
      /\ \A d \in 1..n : f[d] \in Seq(X)
      /\ \A a, b \in 0..n : a <= b => u[a] <= u[b]
  <2>1. \A d \in 1..n : f[d] \in Seq(X)
    OBVIOUS
  <2> QED BY <2>1, OffsetsAre
<1>2. \A m \in Nat : \E h : Runs(h, m)
  <2> DEFINE A == {m \in Nat : \E h : Runs(h, m)}
  <2>1. 0 \in A
    <3>1. Runs([i \in {} |-> 0], 0)
      OBVIOUS
    <3> QED BY <3>1
  <2>2. ASSUME NEW m \in Nat, m \in A PROVE m + 1 \in A
    <3>1. PICK h : Runs(h, m)
      BY <2>2
    <3> DEFINE k == [i \in 1..(m + 1) |-> IF i = m + 1 THEN Next(h, i) ELSE h[i]]
    <3>2. ASSUME NEW i \in 1..(m + 1) PROVE k[i] = Next(k, i)
      <4>1. CASE i = m + 1
        <5>1. i # 1 => m \in 1..(m + 1) /\ m # m + 1 /\ i - 1 = m
          BY <4>1
        <5> QED BY <4>1, <5>1
      <4>2. CASE i # m + 1
        <5>1. i \in 1..m /\ (i # 1 => i - 1 \in 1..m /\ i - 1 # m + 1 /\ i - 1 \in 1..(m + 1))
          BY <4>2
        <5>2. k[i] = Next(h, i)
          BY <3>1, <4>2, <5>1
        <5> QED BY <5>1, <5>2
      <4> QED BY <4>1, <4>2
    <3>3. Runs(k, m + 1)
      BY <3>2
    <3> HIDE DEF k, Runs
    <3> QED BY <3>3
  <2> HIDE DEF Runs
  <2> HIDE DEF A
  <2>3. \A m \in Nat : m \in A
    BY <2>1, <2>2, Induct
  <2> QED BY <2>3 DEF A
<1>3. Runs(F, n)
  BY <1>1, <1>2, Zenon
<1>4. \A i \in 1..n : F[i] = Next(F, i)
  <2> HIDE DEF F, Next
  <2> QED BY <1>3
<1> HIDE DEF F
<1>5. \A m \in 1..n : Holds(F, m)
  <2> DEFINE S == {m \in 0..n : m # 0 => Holds(F, m)}
  <2>1. 0 \in S
    BY <1>1
  <2>2. ASSUME NEW m \in 0..(n - 1), m \in S PROVE m + 1 \in S
    <3>1. m + 1 \in 1..n /\ m + 1 \in 0..n /\ (m + 1) - 1 = m /\ m \in 0..n
      BY <1>1
    <3>2. u[m + 1] = u[m] + Len(f[m + 1]) /\ u[m] \in Nat /\ f[m + 1] \in Seq(X)
      BY <1>1, <3>1
    <3>3. F[m + 1] = IF m = 0 THEN f[m + 1] ELSE F[m] \o f[m + 1]
      BY <1>4, <3>1
    <3>4. CASE m = 0
      <4>1. F[1] = f[1] /\ u[1] = Len(f[1]) /\ u[1 - 1] = 0 /\ Len(f[1]) \in Nat /\ f[1] \in Seq(X)
        BY <1>1, <3>1, <3>2, <3>3, <3>4
      <4>2. \A d \in 1..1 : d = 1
        OBVIOUS
      <4>3. \A i \in 1..Len(f[1]) : 0 + i = i
        OBVIOUS
      <4>4. Holds(F, 1)
        BY <4>1, <4>2, <4>3
      <4> QED BY <3>1, <3>4, <4>4
    <3>5. CASE m # 0
      <4>1. F[m + 1] = F[m] \o f[m + 1] /\ F[m] \in Seq(X) /\ Len(F[m]) = u[m]
        BY <2>2, <3>3, <3>5
      <4> DEFINE s == F[m]
                 r == f[m + 1]
      <4>2. /\ s \o r \in Seq(X) /\ Len(s \o r) = Len(s) + Len(r) /\ Len(s) \in Nat /\ Len(r) \in Nat
            /\ \A i \in 1..Len(s) : (s \o r)[i] = s[i]
            /\ \A i \in 1..Len(r) : (s \o r)[Len(s) + i] = r[i]
        <5>1. s \in Seq(X) /\ r \in Seq(X)
          BY <3>2, <4>1
        <5> HIDE DEF s, r
        <5> QED BY <5>1, JoinIs
      <4>3. F[m + 1] = s \o r /\ Len(s) = u[m] /\ u[m + 1] = u[m] + Len(r)
        BY <3>2, <4>1
      <4>4. ASSUME NEW d \in 1..(m + 1), NEW i \in 1..Len(f[d])
            PROVE  F[m + 1][u[d - 1] + i] = f[d][i]
        <5>1. CASE d = m + 1
          <6>1. u[d - 1] = u[m] /\ f[d] = r /\ i \in 1..Len(r)
            BY <3>1, <5>1
          <6> HIDE DEF s, r
          <6> QED BY <4>2, <4>3, <6>1
        <5>2. CASE d # m + 1
          <6>1. d \in 1..m /\ d \in 1..n /\ d \in 0..n /\ d - 1 \in 0..n /\ d <= m
            BY <3>1, <5>2
          <6>2. s[u[d - 1] + i] = f[d][i]
            BY <2>2, <3>5, <6>1
          <6>3. u[d] = u[d - 1] + Len(f[d]) /\ u[d - 1] \in Nat /\ Len(f[d]) \in Nat
            BY <1>1, <6>1
          <6>4. u[d] <= u[m] /\ u[d] \in Nat
            BY <1>1, <3>1, <6>1
          <6> HIDE DEF s, r
          <6>5. u[d - 1] + i \in 1..Len(s)
            <7> DEFINE b == Len(f[d])
                       a == u[d - 1]
            <7>1. a \in Nat /\ b \in Nat /\ i \in 1..b /\ u[d] = a + b /\ u[d] <= Len(s) /\ Len(s) \in Nat
              BY <3>2, <4>3, <6>3, <6>4
            <7> HIDE DEF a, b
            <7>2. a + i \in 1..Len(s)
              BY <7>1
            <7> QED BY <7>2 DEF a
          <6> QED BY <4>2, <4>3, <6>2, <6>5
        <5> QED BY <5>1, <5>2
      <4>5. F[m + 1] \in Seq(X) /\ Len(F[m + 1]) = u[m + 1]
        <5> HIDE DEF s, r
        <5> QED BY <4>2, <4>3
      <4> QED BY <3>1, <4>4, <4>5
    <3> QED BY <3>4, <3>5
  <2> HIDE DEF S
  <2>3. \A m \in 0..n : m \in S
    BY <1>1, <2>1, <2>2, InductUpto
  <2> QED BY <2>3 DEF S
<1>6. Flat(f) = FlattenSeq(f)
  BY DEF Flat, With
<1>7. CASE n = 0
  <2>1. FlattenSeq(f) = f /\ f = <<>>
    BY <1>7, EmptySeq DEF FlattenSeq
  <2> QED BY <1>1, <1>6, <1>7, <2>1
<1>8. CASE n # 0
  <2>1. FlattenSeq(f) = F[n]
    BY <1>8 DEF FlattenSeq, F
  <2>2. n \in 1..n
    BY <1>1, <1>8
  <2>3. Holds(F, n)
    BY <1>5, <2>2
  <2> HIDE DEF n
  <2> QED BY <1>6, <2>1, <2>3, ZenonT(60) DEF n
<1> QED BY <1>7, <1>8

-----------------------------------------------------------------------------
(* The modes of the dimensions of a shape. *)

\* A shape and modes of as many elements; the modes may cut it anywhere.
Shaped(S, M) == S \in Seq(Nat \ {0}) /\ Sizes(M) /\ Product(S) = Product(M)

Upto(S, M) == [d \in 0..Len(S) |-> Below(M, Prefix(S, d))]

\* Products of extents do not fall.
LEMMA PrefixOrder ==
  ASSUME NEW S \in Seq(Nat \ {0}), NEW d \in 1..Len(S)
  PROVE  /\ Prefix(S, d - 1) \in Nat \ {0} /\ Prefix(S, d) \in Nat \ {0}
         /\ Prefix(S, d) = Prefix(S, d - 1) * S[d] /\ S[d] \in Nat \ {0}
         /\ Prefix(S, d - 1) <= Prefix(S, d)
<1>1. d - 1 \in 0..Len(S) /\ d \in 0..Len(S) /\ S[d] \in Nat \ {0}
  OBVIOUS
<1>2. /\ Prefix(S, d - 1) \in Nat \ {0} /\ Prefix(S, d) \in Nat \ {0}
      /\ Prefix(S, d) = Prefix(S, d - 1) * S[d]
  BY <1>1, SeqExtents, PrefixIs
<1> DEFINE p == Prefix(S, d - 1)
           e == S[d]
<1>3. p \in Nat \ {0} /\ e \in Nat \ {0} /\ Prefix(S, d) = p * e
  BY <1>1, <1>2
<1> HIDE DEF p, e
<1>4. 1 * p <= e * p /\ e * p = p * e /\ 1 * p = p
  BY <1>3, Monotone
<1>5. p <= p * e
  BY <1>4
<1> QED BY <1>1, <1>2, <1>3, <1>5 DEF p

\* The modes of the first dimensions are the first modes.
LEMMA UptoIs ==
  ASSUME NEW S, NEW M, Shaped(S, M)
  PROVE  /\ Upto(S, M) \in [0..Len(S) -> 0..Len(M)] /\ Len(S) \in Nat /\ Len(M) \in Nat
         /\ Upto(S, M)[0] = 0 /\ Upto(S, M)[Len(S)] = Len(M)
         /\ \A d \in 1..Len(S) : Upto(S, M)[d - 1] <= Upto(S, M)[d]
<1> DEFINE n == Len(S)
           u == Upto(S, M)
<1>1. /\ S \in Seq(Nat \ {0}) /\ Sizes(M) /\ Product(S) = Product(M)
      /\ n \in Nat /\ Len(M) \in Nat /\ n \in 0..n /\ 0 \in 0..n
  BY SizesAre, SeqExtents DEF Shaped
<1>2. \A d \in 0..n : Prefix(S, d) \in Nat \ {0} /\ u[d] = Below(M, Prefix(S, d))
  BY <1>1, SeqExtents, PrefixIs DEF Upto
<1>3. \A d \in 0..n : u[d] \in 0..Len(M) /\ \A m \in 0..Len(M) : m <= u[d] <=> Prefix(M, m) <= Prefix(S, d)
  BY <1>1, <1>2, BelowIs
<1>4. u \in [0..n -> 0..Len(M)]
  <2>1. u = [d \in 0..n |-> u[d]]
    BY DEF Upto
  <2> HIDE DEF u
  <2> QED BY <1>3, <2>1
<1> HIDE DEF u
<1>5. u[0] = 0
  <2>1. Prefix(S, 0) = 1 /\ Prefix(M, 0) = 1
    BY <1>1, SeqExtents, SizesAre, PrefixIs
  <2>2. u[0] \in 0..Len(M) /\ 0 \in 0..Len(M)
    BY <1>1, <1>3
  <2>3. Prefix(M, u[0]) <= 1
    BY <1>1, <1>3, <2>1, <2>2
  <2>4. Prefix(M, u[0]) \in Nat /\ (0 < u[0] => 1 < Prefix(M, u[0]))
    BY <1>1, <2>1, <2>2, SizesGrow
  <2> QED BY <2>2, <2>3, <2>4
<1>6. u[n] = Len(M)
  <2>1. Prefix(S, n) = Prefix(M, Len(M)) /\ Prefix(M, Len(M)) \in Nat /\ Len(M) \in 0..Len(M)
    BY <1>1, <1>2 DEF Product
  <2>2. Len(M) <= u[n]
    BY <1>1, <1>3, <2>1
  <2> QED BY <1>1, <1>3, <2>2
<1>7. ASSUME NEW d \in 1..n PROVE u[d - 1] <= u[d]
  <2>1. d - 1 \in 0..n /\ d \in 0..n
    BY <1>1
  <2>2. Prefix(S, d - 1) <= Prefix(S, d) /\ Prefix(S, d) \in Nat /\ Prefix(S, d - 1) \in Nat
    BY <1>1, PrefixOrder
  <2>3. u[d - 1] \in 0..Len(M) /\ Prefix(M, u[d - 1]) <= Prefix(S, d - 1)
    BY <1>3, <2>1
  <2>4. Prefix(M, u[d - 1]) \in Nat
    BY <1>1, <2>3, SizesGrow
  <2>5. Prefix(M, u[d - 1]) <= Prefix(S, d)
    BY <2>2, <2>3, <2>4
  <2> QED BY <1>3, <2>1, <2>3, <2>5
<1> QED BY <1>1, <1>4, <1>5, <1>6, <1>7 DEF u

\* The modes of the dimensions: G[d] are those from u[d - 1] + 1 to u[d].
Grouped(S, M, u, G) ==
  /\ G \in Seq(Seq(1..Len(M))) /\ Len(G) = Len(S) /\ DOMAIN G = 1..Len(S) /\ DOMAIN S = 1..Len(S)
  /\ Offsets(u, G) /\ u[Len(G)] = Len(M) /\ Len(M) \in Nat
  /\ \A d \in 1..Len(S) : /\ DOMAIN G[d] = 1..Len(G[d]) /\ Len(G[d]) \in Nat
                         /\ \A i \in 1..Len(G[d]) : G[d][i] = u[d - 1] + i /\ G[d][i] \in 1..Len(M)

\* GetModeGroups deals the modes out to the dimensions in their order.
LEMMA GroupsAre ==
  ASSUME NEW S, NEW M, Shaped(S, M), NEW u, u = Upto(S, M), NEW G, G = GetModeGroups(S, M)
  PROVE  Grouped(S, M, u, G)
<1> DEFINE n == Len(S)
           g(d) == [i \in 1..(u[d] - u[d - 1]) |-> u[d - 1] + i]
<1>1. /\ u \in [0..n -> 0..Len(M)] /\ u[0] = 0 /\ u[n] = Len(M)
      /\ n \in Nat /\ Len(M) \in Nat
      /\ \A d \in 1..n : u[d - 1] <= u[d]
  BY UptoIs
<1>2. DOMAIN S = 1..n
  BY DEF Shaped
<1>3. G = [d \in 1..n |-> g(d)]
  <2>1. \A d \in 0..n : ModesUpto(S, M, d) = Below(M, Prefix(S, d))
    BY DEF ModesUpto, With, Below
  <2>2. [d \in 0..n |-> ModesUpto(S, M, d)] = u
    BY <2>1 DEF Upto
  <2>3. G = [d \in DOMAIN S |-> g(d)]
    BY <2>2 DEF GetModeGroups, With
  <2> QED BY <1>2, <2>3
<1>4. ASSUME NEW d \in 1..n
      PROVE  /\ g(d) \in Seq(1..Len(M)) /\ Len(g(d)) = u[d] - u[d - 1] /\ DOMAIN g(d) = 1..(u[d] - u[d - 1])
             /\ u[d] - u[d - 1] \in Nat
             /\ \A i \in 1..(u[d] - u[d - 1]) : g(d)[i] = u[d - 1] + i /\ g(d)[i] \in 1..Len(M)
  <2>1. d - 1 \in 0..n /\ d \in 0..n
    BY <1>1
  <2> DEFINE a == u[d - 1]
             b == u[d]
  <2>2. a \in Nat /\ b \in Nat /\ a <= b /\ b <= Len(M)
    BY <1>1, <2>1
  <2> HIDE DEF a, b
  <2>3. b - a \in Nat /\ \A i \in 1..(b - a) : a + i \in 1..Len(M)
    BY <1>1, <2>2
  <2>4. [i \in 1..(b - a) |-> a + i] \in [1..(b - a) -> 1..Len(M)]
    BY <2>3
  <2> QED BY <2>3, <2>4 DEF a, b
<1> HIDE DEF g
<1>5. \A d \in 1..n : G[d] = g(d)
  BY <1>3
<1>6. G \in Seq(Seq(1..Len(M))) /\ Len(G) = n /\ DOMAIN G = 1..n
  <2>1. G \in [1..n -> Seq(1..Len(M))]
    BY <1>3, <1>4
  <2> QED BY <1>1, <2>1
<1>7. Offsets(u, G)
  <2>1. u \in [0..Len(G) -> Nat]
    BY <1>1, <1>6
  <2>2. ASSUME NEW d \in 1..n PROVE u[d] = u[d - 1] + Len(G[d])
    <3>1. d - 1 \in 0..n /\ d \in 0..n
      BY <1>1
    <3>2. Len(G[d]) = u[d] - u[d - 1]
      BY <1>4, <1>5
    <3>3. u[d] \in Nat /\ u[d - 1] \in Nat
      BY <1>1, <3>1
    <3> DEFINE a == u[d - 1]
               b == u[d]
    <3> HIDE DEF a, b
    <3>4. b = a + (b - a)
      BY <3>3 DEF a, b
    <3> QED BY <3>2, <3>4 DEF a, b
  <2> QED BY <1>1, <1>6, <2>1, <2>2 DEF Offsets
<1>8. ASSUME NEW d \in 1..n
      PROVE  /\ DOMAIN G[d] = 1..Len(G[d]) /\ Len(G[d]) \in Nat
             /\ \A i \in 1..Len(G[d]) : G[d][i] = u[d - 1] + i /\ G[d][i] \in 1..Len(M)
  BY <1>4, <1>5
<1> QED BY <1>1, <1>2, <1>6, <1>7, <1>8 DEF Grouped

\* The modes of the first dimensions are as many elements as the dimensions.
LEMMA UptoCut ==
  ASSUME NEW S, NEW M, Shaped(S, M), Splits(S, M), NEW c \in 0..Len(S)
  PROVE  Upto(S, M)[c] \in 0..Len(M) /\ Prefix(M, Upto(S, M)[c]) = Prefix(S, c)
<1> DEFINE u == Upto(S, M)
<1>0. S \in Seq(Nat \ {0}) /\ Sizes(M) /\ Len(S) \in Nat
  BY DEF Shaped
<1>1. Prefix(S, c) \in Cuts(M)
  BY DEF Splits, Cuts
<1>2. PICK m \in 0..Len(M) : Prefix(S, c) = Prefix(M, m)
  BY <1>1 DEF Cuts
<1>3. Prefix(S, c) \in Nat \ {0} /\ u[c] = Below(M, Prefix(S, c))
  BY <1>0, SeqExtents, PrefixIs DEF Upto
<1>4. u[c] \in 0..Len(M) /\ \A x \in 0..Len(M) : x <= u[c] <=> Prefix(M, x) <= Prefix(S, c)
  BY <1>0, <1>3, BelowIs
<1>5. m <= u[c] /\ Prefix(M, u[c]) <= Prefix(M, m)
  BY <1>2, <1>3, <1>4
<1>6. Prefix(M, m) \in Nat /\ Prefix(M, u[c]) \in Nat /\ (m < u[c] => Prefix(M, m) < Prefix(M, u[c]))
  BY <1>0, <1>4, SizesGrow
<1>7. m = u[c]
  BY <1>4, <1>5, <1>6
<1> QED BY <1>2, <1>7

GroupShape(S, M, d) ==
  [i \in DOMAIN GetModeGroups(S, M)[d] |-> M[GetModeGroups(S, M)[d][i]]]

\* The modes of a dimension are as many elements as it has.
LEMMA GroupShapeIs ==
  ASSUME NEW S, NEW M, Shaped(S, M), Splits(S, M), NEW d \in 1..Len(S)
  PROVE  /\ GroupShape(S, M, d) \in Seq(Nat \ {0})
         /\ Len(GroupShape(S, M, d)) = Len(GetModeGroups(S, M)[d])
         /\ Product(GroupShape(S, M, d)) = S[d]
<1> DEFINE u == Upto(S, M)
           G == GetModeGroups(S, M)
           t == GroupShape(S, M, d)
           n == Len(G[d])
           k == u[d - 1]
<1>1. /\ DOMAIN G[d] = 1..n /\ n \in Nat
      /\ \A i \in 1..n : G[d][i] = u[d - 1] + i /\ G[d][i] \in 1..Len(M)
      /\ Offsets(u, G) /\ G \in Seq(Seq(1..Len(M))) /\ Len(G) = Len(S)
  <2>1. Grouped(S, M, u, G)
    BY GroupsAre
  <2> HIDE DEF u, G
  <2> QED BY <2>1 DEF Grouped
<1>2. S \in Seq(Nat \ {0}) /\ Sizes(M) /\ Len(S) \in Nat
  BY DEF Shaped
<1>3. d - 1 \in 0..Len(S) /\ d \in 0..Len(S)
  BY <1>2
<1>4. /\ k \in Nat /\ u[d] = k + n /\ u[d] \in 0..Len(M) /\ k \in 0..Len(M)
  <2>1. u[d] = u[d - 1] + Len(G[d])
    BY <1>1, <1>3 DEF Offsets
  <2>2. u[d] \in 0..Len(M) /\ u[d - 1] \in 0..Len(M)
    BY <1>3, UptoIs
  <2> QED BY <2>1, <2>2
<1>5. \A c \in 0..Len(S) : Prefix(M, u[c]) = Prefix(S, c)
  BY UptoCut
<1>6. \A i \in 1..n : t[i] = M[k + i] /\ k + i \in 1..Len(M)
  BY <1>1 DEF GroupShape
<1>7. t \in Seq(Nat \ {0}) /\ Len(t) = n
  <2>1. \A i \in 1..Len(M) : M[i] \in Nat \ {0}
    BY <1>2, SizesAre
  <2>2. t = [i \in 1..n |-> t[i]]
    BY <1>1 DEF GroupShape
  <2> HIDE DEF t, n, k
  <2>3. t \in [1..n -> Nat \ {0}]
    BY <1>6, <2>1, <2>2
  <2>4. n \in Nat
    BY <1>1
  <2> QED BY <2>3, <2>4
<1> HIDE DEF t, n
<1>8. Part(t, M, k, n)
  <2>1. Extents(M, k + n)
    <3>1. \A i \in 1..(k + n) : i \in 1..Len(M)
      BY <1>1, <1>4
    <3> QED BY <1>1, <1>2, <1>4, <3>1, SizesAre DEF Extents
  <2> QED BY <1>1, <1>4, <1>6, <2>1 DEF Part
<1>9. Prefix(M, k + n) = Prefix(M, k) * Prefix(t, n) /\ Prefix(t, n) \in Nat \ {0}
  <2>1. n \in 0..n
    BY <1>1
  <2> QED BY <1>8, <2>1, PartPrefix, PrefixIs
<1>10. Prefix(S, d) = Prefix(S, d - 1) * S[d] /\ Prefix(S, d - 1) \in Nat \ {0} /\ S[d] \in Nat \ {0}
  BY <1>2, PrefixOrder
<1>11. Prefix(M, k + n) = Prefix(S, d) /\ Prefix(M, k) = Prefix(S, d - 1)
  BY <1>3, <1>4, <1>5
<1>12. Prefix(t, n) * Prefix(S, d - 1) = S[d] * Prefix(S, d - 1)
  BY <1>9, <1>10, <1>11, Associate
<1>13. Prefix(t, n) = S[d]
  BY <1>9, <1>10, <1>12, Cancel
<1> QED BY <1>7, <1>13 DEF t, n, Product

-----------------------------------------------------------------------------
(* The indices of the modes, from the index of the dimensions and back. *)

Digits(g, S, M) == [d \in DOMAIN S |-> IndexDeserialize(g[d], GroupShape(S, M, d))]

\* The index of every mode of a dimension is a digit of the index of the dimension.
Dealt(k, g, S, M) ==
  \A d \in 1..Len(S) : \A i \in 1..Len(GetModeGroups(S, M)[d]) :
    k[GetModeGroups(S, M)[d][i]] = IndexDeserialize(g[d], GroupShape(S, M, d))[i]

\* The index of a dimension has an index in its modes.
LEMMA BoxDim ==
  ASSUME NEW S, NEW M, Shaped(S, M), Splits(S, M), NEW g \in Box(S), NEW d \in 1..Len(S)
  PROVE  /\ g[d] \in 0..(Product(GroupShape(S, M, d)) - 1)
         /\ IndexDeserialize(g[d], GroupShape(S, M, d)) \in Box(GroupShape(S, M, d))
         /\ IndexSerialize(IndexDeserialize(g[d], GroupShape(S, M, d)), GroupShape(S, M, d)) = g[d]
<1> DEFINE t == GroupShape(S, M, d)
<1>1. t \in Seq(Nat \ {0}) /\ Product(t) = S[d]
  BY GroupShapeIs
<1>2. S \in Seq(Nat \ {0})
  BY DEF Shaped
<1>3. g[d] \in Nat /\ g[d] < S[d] /\ S[d] \in Nat
  BY <1>2, BoxIs
<1> HIDE DEF t
<1>4. g[d] \in 0..(Product(t) - 1)
  BY <1>1, <1>3
<1> QED BY <1>1, <1>4, DeserializeIs DEF t

\* The index of the modes, found dimension by dimension.
LEMMA ModeIndexIs ==
  ASSUME NEW S, NEW M, Shaped(S, M), Splits(S, M), NEW g \in Box(S)
  PROVE  ModeIndex(g, S, M) \in Box(M) /\ Dealt(ModeIndex(g, S, M), g, S, M)
<1> DEFINE u == Upto(S, M)
           G == GetModeGroups(S, M)
           f == Digits(g, S, M)
           t(d) == GroupShape(S, M, d)
           n == Len(S)
<1>1. Grouped(S, M, u, G)
  BY GroupsAre
<1>2. S \in Seq(Nat \ {0}) /\ Sizes(M) /\ n \in Nat /\ Len(M) \in Nat /\ DOMAIN S = 1..n
  BY SizesAre DEF Shaped
<1>3. ModeIndex(g, S, M) = Flat(f)
  BY DEF ModeIndex, Digits, GroupShape
<1>4. \A d \in 1..n : f[d] = IndexDeserialize(g[d], t(d))
  BY <1>2 DEF Digits
<1>5. ASSUME NEW d \in 1..n
      PROVE  /\ f[d] \in Seq(Nat) /\ Len(f[d]) = Len(G[d]) /\ Len(G[d]) \in Nat
             /\ \A i \in 1..Len(G[d]) : /\ f[d][i] \in Nat /\ f[d][i] < M[G[d][i]]
                                       /\ G[d][i] = u[d - 1] + i /\ G[d][i] \in 1..Len(M)
  <2>1. f[d] \in Box(t(d))
    BY <1>4, BoxDim
  <2>2. t(d) \in Seq(Nat \ {0}) /\ Len(t(d)) = Len(G[d])
    BY GroupShapeIs
  <2>3. \A i \in DOMAIN G[d] : t(d)[i] = M[G[d][i]]
    BY DEF GroupShape
  <2> HIDE DEF t, u, G, f
  <2>4. /\ DOMAIN G[d] = 1..Len(G[d]) /\ Len(G[d]) \in Nat
        /\ \A i \in 1..Len(G[d]) : G[d][i] = u[d - 1] + i /\ G[d][i] \in 1..Len(M)
    BY <1>1 DEF Grouped
  <2>5. /\ f[d] \in Seq(Nat) /\ Len(f[d]) = Len(t(d))
        /\ \A i \in 1..Len(t(d)) : f[d][i] \in Nat /\ f[d][i] < t(d)[i]
    BY <2>1, <2>2, BoxIs
  <2> QED BY <2>2, <2>3, <2>4, <2>5
<1>6. f = [d \in 1..n |-> f[d]]
  BY <1>2 DEF Digits
<1> HIDE DEF t, u, G, f
<1>g. /\ G \in Seq(Seq(1..Len(M))) /\ Len(G) = n /\ Offsets(u, G) /\ u[n] = Len(M)
  BY <1>1 DEF Grouped
<1>7. f \in Seq(Seq(Nat)) /\ Len(f) = n
  <2>1. f \in [1..n -> Seq(Nat)]
    BY <1>5, <1>6
  <2> QED BY <1>2, <2>1
<1>8. Offsets(u, f)
  BY <1>5, <1>7, <1>g DEF Offsets
<1>9. /\ Flat(f) \in Seq(Nat) /\ Len(Flat(f)) = Len(M)
      /\ \A d \in 1..n : \A i \in 1..Len(f[d]) : Flat(f)[u[d - 1] + i] = f[d][i]
  BY <1>7, <1>8, <1>g, FlattenIs
<1> DEFINE k == Flat(f)
<1> HIDE DEF k
<1>10. k \in Seq(Nat) /\ Len(k) = Len(M) /\ \A d \in 1..n : \A i \in 1..Len(G[d]) : k[G[d][i]] = f[d][i]
  BY <1>5, <1>9, ZenonT(60) DEF k
<1>11. ASSUME NEW m \in 1..Len(M) PROVE k[m] < M[m]
  <2> DEFINE X == 1..Len(M)
  <2>1. m \in 1..u[Len(G)] /\ G \in Seq(Seq(X)) /\ Offsets(u, G)
    BY <1>g
  <2> HIDE DEF X
  <2>2. PICK d \in 1..Len(G) : \E i \in 1..Len(G[d]) : m = u[d - 1] + i
    BY <2>1, PlaceOf, SMTT(40)
  <2>3. PICK i \in 1..Len(G[d]) : m = u[d - 1] + i
    BY <2>2
  <2>4. d \in 1..n
    BY <1>g
  <2>5. m = G[d][i] /\ f[d][i] \in Nat /\ f[d][i] < M[m]
    BY <1>5, <2>3, <2>4
  <2>6. k[m] = f[d][i]
    BY <1>10, <2>4, <2>5
  <2> QED BY <2>5, <2>6
<1>12. k \in Box(M)
  BY <1>10, <1>11 DEF Box
<1>13. Dealt(k, g, S, M)
  BY <1>4, <1>10 DEF Dealt, G, t
<1> QED BY <1>3, <1>12, <1>13 DEF k

\* Indices of the modes that agree on every digit are the same.
LEMMA DealtOnce ==
  ASSUME NEW S, NEW M, Shaped(S, M), NEW k \in Box(M), NEW j \in Box(M),
         \A d \in 1..Len(S) : \A i \in 1..Len(GetModeGroups(S, M)[d]) :
           k[GetModeGroups(S, M)[d][i]] = j[GetModeGroups(S, M)[d][i]]
  PROVE  k = j
<1> DEFINE u == Upto(S, M)
           G == GetModeGroups(S, M)
<1>1. Grouped(S, M, u, G)
  BY GroupsAre
<1>2. \A d \in 1..Len(S) : \A i \in 1..Len(G[d]) : k[G[d][i]] = j[G[d][i]]
  OBVIOUS
<1>3. Sizes(M)
  BY DEF Shaped
<1> HIDE DEF u, G
<1>4. /\ G \in Seq(Seq(1..Len(M))) /\ Len(G) = Len(S) /\ Offsets(u, G) /\ u[Len(G)] = Len(M)
      /\ \A d \in 1..Len(S) : \A i \in 1..Len(G[d]) : G[d][i] = u[d - 1] + i
  BY <1>1 DEF Grouped
<1>5. ASSUME NEW m \in 1..Len(M) PROVE k[m] = j[m]
  <2> DEFINE X == 1..Len(M)
  <2>0. m \in 1..u[Len(G)] /\ G \in Seq(Seq(X))
    BY <1>4
  <2> HIDE DEF X
  <2>1. PICK d \in 1..Len(G) : \E i \in 1..Len(G[d]) : m = u[d - 1] + i
    BY <1>4, <2>0, PlaceOf
  <2>2. PICK i \in 1..Len(G[d]) : m = u[d - 1] + i
    BY <2>1
  <2>3. d \in 1..Len(S) /\ m = G[d][i]
    BY <1>4, <2>2
  <2> QED BY <1>2, <2>3
<1>6. M \in Seq(Nat \ {0})
  BY <1>3, SizesAre
<1>7. k \in Seq(Nat) /\ j \in Seq(Nat) /\ Len(k) = Len(M) /\ Len(j) = Len(M)
  BY <1>6, BoxIs
<1>8. k = [m \in 1..Len(M) |-> k[m]] /\ j = [m \in 1..Len(M) |-> j[m]]
  BY <1>7
<1>9. [m \in 1..Len(M) |-> k[m]] = [m \in 1..Len(M) |-> j[m]]
  BY <1>5
<1> QED BY <1>8, <1>9

\* The index of the dimensions whose modes have the indices k.
Collect(k, S, M) ==
  [d \in DOMAIN S |->
     IndexSerialize([i \in DOMAIN GetModeGroups(S, M)[d] |-> k[GetModeGroups(S, M)[d][i]]],
                    GroupShape(S, M, d))]

\* It is an index of the dimensions, and has those indices of modes.
LEMMA CollectIs ==
  ASSUME NEW S, NEW M, Shaped(S, M), Splits(S, M), NEW k \in Box(M)
  PROVE  Collect(k, S, M) \in Box(S) /\ ModeIndex(Collect(k, S, M), S, M) = k
<1> DEFINE u == Upto(S, M)
           G == GetModeGroups(S, M)
           g == Collect(k, S, M)
           t(d) == GroupShape(S, M, d)
           e(d) == [i \in DOMAIN G[d] |-> k[G[d][i]]]
           n == Len(S)
<1>1. Grouped(S, M, u, G)
  BY GroupsAre
<1>2. S \in Seq(Nat \ {0}) /\ Sizes(M) /\ n \in Nat /\ Len(M) \in Nat /\ DOMAIN S = 1..n
  BY SizesAre DEF Shaped
<1>3. g = [d \in 1..n |-> g[d]] /\ \A d \in 1..n : g[d] = IndexSerialize(e(d), t(d))
  BY <1>2 DEF Collect
<1>4. ASSUME NEW d \in 1..n
      PROVE  e(d) \in Box(t(d)) /\ t(d) \in Seq(Nat \ {0}) /\ Product(t(d)) = S[d]
  <2>1. t(d) \in Seq(Nat \ {0}) /\ Len(t(d)) = Len(G[d]) /\ Product(t(d)) = S[d]
    BY GroupShapeIs
  <2>2. \A i \in DOMAIN G[d] : t(d)[i] = M[G[d][i]]
    BY DEF GroupShape
  <2> DEFINE a == e(d)
  <2>3. a = [i \in DOMAIN G[d] |-> k[G[d][i]]]
    OBVIOUS
  <2> HIDE DEF t, u, G, g, a
  <2>4. /\ DOMAIN G[d] = 1..Len(G[d]) /\ Len(G[d]) \in Nat
        /\ \A i \in 1..Len(G[d]) : G[d][i] \in 1..Len(M)
    BY <1>1 DEF Grouped
  <2>5. \A m \in 1..Len(M) : k[m] \in Nat /\ k[m] < M[m]
    BY <1>2, SizesAre, BoxIs
  <2>6. a \in [1..Len(G[d]) -> Nat]
    BY <2>3, <2>4, <2>5
  <2>7. a \in Seq(Nat) /\ Len(a) = Len(G[d])
    BY <2>4, <2>6
  <2>8. \A i \in 1..Len(G[d]) : a[i] < t(d)[i]
    BY <2>2, <2>3, <2>4, <2>5
  <2> QED BY <2>1, <2>7, <2>8 DEF Box, a, G
<1>5. ASSUME NEW d \in 1..n
      PROVE  g[d] \in Nat /\ g[d] < S[d] /\ IndexDeserialize(g[d], t(d)) = e(d)
  <2>1. g[d] \in 0..(Product(t(d)) - 1) /\ IndexDeserialize(g[d], t(d)) = e(d)
    BY <1>3, <1>4, SerializeRange
  <2>2. Product(t(d)) = S[d]
    BY <1>4
  <2>3. S[d] \in Nat
    BY <1>2
  <2> HIDE DEF t, u, G, g, e
  <2> QED BY <2>1, <2>2, <2>3
<1>6. g \in Box(S)
  <2> HIDE DEF g, t, e
  <2>1. g \in [1..n -> Nat]
    BY <1>3, <1>5
  <2>2. g \in Seq(Nat) /\ Len(g) = n
    BY <1>2, <2>1
  <2> QED BY <1>5, <2>2 DEF Box
<1> DEFINE j == ModeIndex(g, S, M)
<1>7. j \in Box(M) /\ Dealt(j, g, S, M)
  <2> HIDE DEF g
  <2> QED BY <1>6, ModeIndexIs
<1>8. ASSUME NEW d \in 1..n, NEW i \in 1..Len(G[d]) PROVE j[G[d][i]] = k[G[d][i]]
  <2>1. j[G[d][i]] = IndexDeserialize(g[d], t(d))[i]
    <3> HIDE DEF g, j
    <3> QED BY <1>7 DEF Dealt
  <2>2. i \in DOMAIN G[d]
    <3> HIDE DEF u, G
    <3> QED BY <1>1 DEF Grouped
  <2>3. e(d)[i] = k[G[d][i]]
    BY <2>2
  <2> HIDE DEF g, j, t, e
  <2> QED BY <1>5, <2>1, <2>3
<1>9. j = k
  <2> HIDE DEF j, g, t, e
  <2> QED BY <1>7, <1>8, DealtOnce
<1> QED BY <1>6, <1>9 DEF j, g

\* Collecting the digits of an index gives the index.
LEMMA CollectBack ==
  ASSUME NEW S, NEW M, Shaped(S, M), Splits(S, M), NEW g \in Box(S)
  PROVE  Collect(ModeIndex(g, S, M), S, M) = g
<1> DEFINE k == ModeIndex(g, S, M)
           G == GetModeGroups(S, M)
           t(d) == GroupShape(S, M, d)
           n == Len(S)
<1>1. k \in Box(M) /\ Dealt(k, g, S, M)
  BY ModeIndexIs
<1> HIDE DEF k
<1>2. S \in Seq(Nat \ {0}) /\ n \in Nat /\ DOMAIN S = 1..n
  BY DEF Shaped
<1>3. ASSUME NEW d \in 1..n
      PROVE  IndexSerialize([i \in DOMAIN G[d] |-> k[G[d][i]]], t(d)) = g[d]
  <2> DEFINE D == IndexDeserialize(g[d], t(d))
  <2>1. D \in Box(t(d)) /\ IndexSerialize(D, t(d)) = g[d]
    BY BoxDim
  <2>2. t(d) \in Seq(Nat \ {0}) /\ Len(t(d)) = Len(G[d])
    BY GroupShapeIs
  <2>3. DOMAIN G[d] = 1..Len(G[d])
    BY GroupsAre DEF Grouped
  <2>4. \A i \in 1..Len(G[d]) : k[G[d][i]] = D[i]
    BY <1>1 DEF Dealt
  <2> HIDE DEF t, G, D
  <2>5. D \in Seq(Nat) /\ Len(D) = Len(G[d])
    BY <2>1, <2>2, BoxIs
  <2>6. [i \in DOMAIN G[d] |-> k[G[d][i]]] = D
    BY <2>3, <2>4, <2>5
  <2> QED BY <2>1, <2>6
<1>4. Collect(k, S, M) = [d \in 1..n |-> g[d]]
  BY <1>2, <1>3 DEF Collect
<1>5. g = [d \in 1..n |-> g[d]]
  BY <1>2, BoxIs
<1> QED BY <1>4, <1>5 DEF k

-----------------------------------------------------------------------------
(* The threads and the registers of a well-formed layout. *)

\* Where a mode is listed.
At(P, m) == SelectInSeq(P, LAMBDA x : x = m)

\* Where the first of a kind is.
LEMMA SelectIs ==
  ASSUME NEW P, NEW n \in Nat, Len(P) = n, NEW i \in 1..n, \A j \in 1..n : P[j] = P[i] => j = i
  PROVE  At(P, P[i]) = i
<1>1. {j \in 1..n : P[j] = P[i]} = {i}
  OBVIOUS
<1>2. Min({i}) = i
  BY DEF Min
<1> QED BY <1>1, <1>2 DEF At, SelectInSeq

\* What a layout is made of.
Parts(l, S, M, P, Q, A, B) ==
  /\ S = l.shape /\ M = l.mode_shape /\ P = l.spatial_modes /\ Q = l.local_modes
  /\ A = SpatialShape(l) /\ B = LocalShape(l)

\* Every mode is listed.
Covered(M, P, Q) ==
  \A m \in 1..Len(M) : (\E i \in 1..Len(P) : P[i] = m) \/ (\E i \in 1..Len(Q) : Q[i] = m)

\* The modes listed exist, and no mode is listed twice.
Modal(M, P, Q) ==
  /\ \A i \in 1..Len(P) : P[i] > 0 => P[i] \in 1..Len(M)
  /\ \A i \in 1..Len(Q) : Q[i] \in 1..Len(M)

Once(P, Q) ==
  /\ \A i, j \in 1..Len(P) : P[i] = P[j] /\ P[i] > 0 => i = j
  /\ \A i, j \in 1..Len(Q) : Q[i] = Q[j] => i = j
  /\ \A i \in 1..Len(P), j \in 1..Len(Q) : P[i] # Q[j]

\* What validation and coverage say, list by list.
LEMMA ListedIs ==
  ASSUME NEW M \in Seq(Nat \ {0}), NEW P \in Seq(Int \ {0}), NEW Q \in Seq(Nat \ {0}),
         NEW L, L = P \o Q
  PROVE  /\ (\A i \in DOMAIN L : L[i] > 0 => L[i] \in DOMAIN M) <=> Modal(M, P, Q)
         /\ (\A i, j \in DOMAIN L : L[i] = L[j] /\ L[i] > 0 => i = j) <=> Once(P, Q)
         /\ DOMAIN M \subseteq Range(L) <=> Covered(M, P, Q)
<1> DEFINE a == Len(P)
           b == Len(Q)
<1>1. a \in Nat /\ b \in Nat /\ DOMAIN P = 1..a /\ DOMAIN Q = 1..b /\ DOMAIN M = 1..Len(M)
  OBVIOUS
<1>2. Q \in Seq(Int \ {0})
  OBVIOUS
<1>3. /\ L \in Seq(Int \ {0}) /\ Len(L) = a + b
      /\ \A i \in 1..a : L[i] = P[i]
      /\ \A i \in 1..b : L[a + i] = Q[i]
  BY <1>2, JoinIs
<1>4. \A i \in 1..b : Q[i] \in Nat \ {0} /\ Q[i] > 0
  BY <1>1
<1>5. \A i \in 1..a : P[i] \in Int
  BY <1>1
<1> HIDE DEF a, b
<1>6. DOMAIN L = 1..(a + b)
  BY <1>3
<1>7. \A i \in 1..a : i \in DOMAIN L /\ L[i] = P[i] /\ i \in Nat /\ i <= a
  BY <1>1, <1>3, <1>6
<1>8. \A i \in 1..b : a + i \in DOMAIN L /\ L[a + i] = Q[i] /\ a + i \in Nat /\ ~(a + i <= a)
  BY <1>1, <1>3, <1>6
<1>9. ASSUME NEW k \in DOMAIN L PROVE k \in 1..a \/ \E i \in 1..b : k = a + i
  <2>1. CASE k <= a
    BY <1>1, <1>6, <2>1
  <2>2. CASE ~(k <= a)
    <3>1. k - a \in 1..b /\ k = a + (k - a)
      BY <1>1, <1>6, <2>2
    <3> QED BY <3>1
  <2> QED BY <2>1, <2>2
<1>10. (\A i \in DOMAIN L : L[i] > 0 => L[i] \in DOMAIN M) <=> Modal(M, P, Q)
  <2>1. ASSUME \A i \in DOMAIN L : L[i] > 0 => L[i] \in DOMAIN M PROVE Modal(M, P, Q)
    <3>1. \A i \in 1..a : P[i] > 0 => P[i] \in 1..Len(M)
      BY <1>1, <1>7, <2>1
    <3>2. ASSUME NEW i \in 1..b PROVE Q[i] \in 1..Len(M)
      <4>1. a + i \in DOMAIN L /\ L[a + i] = Q[i] /\ L[a + i] > 0
        BY <1>4, <1>8
      <4> QED BY <1>1, <2>1, <4>1
    <3> QED BY <3>1, <3>2 DEF Modal, a, b
  <2>2. ASSUME Modal(M, P, Q), NEW k \in DOMAIN L, L[k] > 0 PROVE L[k] \in DOMAIN M
    <3>1. CASE k \in 1..a
      BY <1>1, <1>7, <2>2, <3>1 DEF Modal, a
    <3>2. CASE \E i \in 1..b : k = a + i
      BY <1>1, <1>8, <2>2, <3>2 DEF Modal, b
    <3> QED BY <1>9, <3>1, <3>2
  <2> QED BY <2>1, <2>2
<1>11. (\A i, j \in DOMAIN L : L[i] = L[j] /\ L[i] > 0 => i = j) <=> Once(P, Q)
  <2>1. ASSUME \A i, j \in DOMAIN L : L[i] = L[j] /\ L[i] > 0 => i = j PROVE Once(P, Q)
    <3>1. \A i, j \in 1..a : P[i] = P[j] /\ P[i] > 0 => i = j
      BY <1>7, <2>1
    <3>2. ASSUME NEW i \in 1..b, NEW j \in 1..b, Q[i] = Q[j] PROVE i = j
      <4>1. a + i = a + j
        BY <1>4, <1>8, <2>1, <3>2
      <4> QED BY <1>1, <4>1
    <3>3. ASSUME NEW i \in 1..a, NEW j \in 1..b PROVE P[i] # Q[j]
      <4> SUFFICES ASSUME P[i] = Q[j] PROVE FALSE
        OBVIOUS
      <4>1. L[i] = L[a + j] /\ L[i] > 0
        BY <1>4, <1>7, <1>8
      <4>2. i = a + j
        BY <1>7, <1>8, <2>1, <4>1
      <4> QED BY <1>7, <1>8, <4>2
    <3> QED BY <3>1, <3>2, <3>3 DEF Once, a, b
  <2>2. ASSUME Once(P, Q), NEW k \in DOMAIN L, NEW m \in DOMAIN L, L[k] = L[m], L[k] > 0 PROVE k = m
    <3>0. /\ \A i, j \in 1..a : P[i] = P[j] /\ P[i] > 0 => i = j
          /\ \A i, j \in 1..b : Q[i] = Q[j] => i = j
          /\ \A i \in 1..a, j \in 1..b : P[i] # Q[j]
      BY <2>2 DEF Once, a, b
    <3>1. CASE k \in 1..a /\ m \in 1..a
      BY <1>7, <2>2, <3>0, <3>1
    <3>2. CASE k \in 1..a /\ \E j \in 1..b : m = a + j
      <4>1. PICK j \in 1..b : m = a + j
        BY <3>2
      <4>2. L[k] = P[k] /\ L[m] = Q[j]
        BY <1>7, <1>8, <3>2, <4>1
      <4> QED BY <2>2, <3>0, <3>2, <4>2
    <3>3. CASE m \in 1..a /\ \E i \in 1..b : k = a + i
      <4>1. PICK i \in 1..b : k = a + i
        BY <3>3
      <4>2. L[m] = P[m] /\ L[k] = Q[i]
        BY <1>7, <1>8, <3>3, <4>1
      <4> QED BY <2>2, <3>0, <3>3, <4>2
    <3>4. CASE (\E i \in 1..b : k = a + i) /\ (\E j \in 1..b : m = a + j)
      <4>1. PICK i \in 1..b, j \in 1..b : k = a + i /\ m = a + j
        BY <3>4
      <4>2. Q[i] = Q[j]
        BY <1>8, <2>2, <4>1
      <4>3. i = j
        BY <3>0, <4>2
      <4> QED BY <4>1, <4>3
    <3> QED BY <1>9, <3>1, <3>2, <3>3, <3>4
  <2> QED BY <2>1, <2>2
<1>12. DOMAIN M \subseteq Range(L) <=> Covered(M, P, Q)
  <2>1. ASSUME DOMAIN M \subseteq Range(L), NEW m \in 1..Len(M)
        PROVE  (\E i \in 1..a : P[i] = m) \/ (\E i \in 1..b : Q[i] = m)
    <3>1. PICK k \in DOMAIN L : L[k] = m
      BY <1>1, <2>1 DEF Range
    <3>2. CASE k \in 1..a
      BY <1>7, <3>1, <3>2
    <3>3. CASE \E i \in 1..b : k = a + i
      BY <1>8, <3>1, <3>3
    <3> QED BY <1>9, <3>2, <3>3
  <2>2. ASSUME Covered(M, P, Q), NEW m \in 1..Len(M) PROVE m \in Range(L)
    <3>1. (\E i \in 1..a : P[i] = m) \/ (\E i \in 1..b : Q[i] = m)
      BY <2>2 DEF Covered, a, b
    <3>2. CASE \E i \in 1..a : P[i] = m
      BY <1>7, <3>2 DEF Range
    <3>3. CASE \E i \in 1..b : Q[i] = m
      BY <1>8, <3>3 DEF Range
    <3> QED BY <3>1, <3>2, <3>3
  <2> QED BY <1>1, <2>1, <2>2 DEF Covered, a, b
<1> QED BY <1>10, <1>11, <1>12

\* The shapes of the threads and of the registers are extents.
LEMMA PartsAre ==
  ASSUME NEW l, WellFormedLayout(l), NEW S, NEW M, NEW P, NEW Q, NEW A, NEW B, Parts(l, S, M, P, Q, A, B)
  PROVE  /\ Shaped(S, M) /\ Splits(S, M)
         /\ P \in Seq(Int \ {0}) /\ Q \in Seq(Nat \ {0}) /\ DOMAIN P = 1..Len(P) /\ DOMAIN Q = 1..Len(Q)
         /\ Len(P) \in Nat /\ Len(Q) \in Nat
         /\ Modal(M, P, Q) /\ Once(P, Q) /\ Covered(M, P, Q)
<1>1. /\ S \in Seq(Nat \ {0}) /\ M \in Seq(Nat \ {0, 1}) /\ P \in Seq(Int \ {0}) /\ Q \in Seq(Nat \ {0})
      /\ Splits(S, M)
      /\ \A i \in DOMAIN (P \o Q) : (P \o Q)[i] > 0 => (P \o Q)[i] \in DOMAIN M
      /\ \A i, j \in DOMAIN (P \o Q) : (P \o Q)[i] = (P \o Q)[j] /\ (P \o Q)[i] > 0 => i = j
      /\ DOMAIN M \subseteq Range(P \o Q)
  BY DEF WellFormedLayout, Parts, ValidateLayout, Listed, Modes
<1>2. Shaped(S, M) /\ M \in Seq(Nat \ {0})
  BY <1>1, SizesAre DEF Shaped, Sizes, Splits
<1> DEFINE L == P \o Q
<1>3. Modal(M, P, Q) /\ Once(P, Q) /\ Covered(M, P, Q)
  <2>1. /\ \A i \in DOMAIN L : L[i] > 0 => L[i] \in DOMAIN M
        /\ \A i, j \in DOMAIN L : L[i] = L[j] /\ L[i] > 0 => i = j
        /\ DOMAIN M \subseteq Range(L)
    BY <1>1
  <2>2. L = P \o Q
    OBVIOUS
  <2> HIDE DEF L
  <2> QED BY <1>1, <1>2, <2>1, <2>2, ListedIs
<1> QED BY <1>1, <1>2, <1>3

\* As many threads and registers as their shapes have elements.
LEMMA ExtentsAre ==
  ASSUME NEW l, WellFormedLayout(l), NEW S, NEW M, NEW P, NEW Q, NEW A, NEW B, Parts(l, S, M, P, Q, A, B)
  PROVE  /\ A \in Seq(Nat \ {0}) /\ Len(A) = Len(P)
         /\ B \in Seq(Nat \ {0}) /\ Len(B) = Len(Q)
         /\ \A i \in 1..Len(P) : P[i] > 0 => A[i] = M[P[i]]
         /\ \A i \in 1..Len(Q) : B[i] = M[Q[i]]
<1> DEFINE a == Len(P)
           b == Len(Q)
<1>1. /\ P \in Seq(Int \ {0}) /\ Q \in Seq(Nat \ {0}) /\ DOMAIN P = 1..a /\ DOMAIN Q = 1..b
      /\ a \in Nat /\ b \in Nat
      /\ \A i \in 1..a : P[i] > 0 => P[i] \in 1..Len(M)
      /\ \A i \in 1..b : Q[i] \in 1..Len(M)
  BY PartsAre DEF Modal
<1>2. \A m \in 1..Len(M) : M[m] \in Nat \ {0}
  BY PartsAre, SizesAre DEF Shaped
<1>3. \A i \in 1..a : P[i] \in Int \ {0}
  BY <1>1
<1>4. A = [i \in 1..a |-> IF P[i] < 0 THEN -P[i] ELSE M[P[i]]]
  BY <1>1 DEF Parts, SpatialShape
<1>5. B = [i \in 1..b |-> M[Q[i]]]
  BY <1>1 DEF Parts, LocalShape
<1> HIDE DEF a, b
<1>6. ASSUME NEW i \in 1..a
      PROVE  A[i] \in Nat \ {0} /\ (P[i] > 0 => A[i] = M[P[i]])
  <2>1. CASE P[i] < 0
    BY <1>3, <1>4, <2>1
  <2>2. CASE P[i] > 0
    BY <1>1, <1>2, <1>4, <2>2
  <2> QED BY <1>3, <2>1, <2>2
<1>7. \A i \in 1..b : B[i] \in Nat \ {0} /\ B[i] = M[Q[i]]
  BY <1>1, <1>2, <1>5
<1>8. A \in [1..a -> Nat \ {0}] /\ B \in [1..b -> Nat \ {0}]
  BY <1>4, <1>5, <1>6, <1>7
<1>9. A \in Seq(Nat \ {0}) /\ Len(A) = a /\ B \in Seq(Nat \ {0}) /\ Len(B) = b
  BY <1>1, <1>8
<1> QED BY <1>6, <1>7, <1>9 DEF a, b

\* The index of every mode, from those of the threads and of the registers.
Placed(l, a, r) ==
  [m \in Modes(l) |->
     IF \E i \in DOMAIN a : l.spatial_modes[i] = m
     THEN a[At(l.spatial_modes, m)]
     ELSE IF \E i \in DOMAIN r : l.local_modes[i] = m
          THEN r[At(l.local_modes, m)]
          ELSE 0]

\* It is an index of the modes, with the digits of the thread and of the register.
LEMMA PlacedIs ==
  ASSUME NEW l, WellFormedLayout(l), NEW S, NEW M, NEW P, NEW Q, NEW A, NEW B, Parts(l, S, M, P, Q, A, B),
         NEW a \in Box(A), NEW r \in Box(B)
  PROVE  /\ Placed(l, a, r) \in Box(M)
         /\ \A i \in 1..Len(P) : P[i] > 0 => Placed(l, a, r)[P[i]] = a[i]
         /\ \A i \in 1..Len(Q) : Placed(l, a, r)[Q[i]] = r[i]
<1> DEFINE K == Placed(l, a, r)
<1>1. /\ Sizes(M) /\ Len(M) \in Nat /\ DOMAIN M = 1..Len(M)
      /\ \A m \in 1..Len(M) : M[m] \in Nat /\ M[m] > 1
  BY PartsAre, SizesAre DEF Shaped
<1>2. /\ A \in Seq(Nat \ {0}) /\ Len(A) = Len(P) /\ B \in Seq(Nat \ {0}) /\ Len(B) = Len(Q)
      /\ \A i \in 1..Len(P) : P[i] > 0 => A[i] = M[P[i]]
      /\ \A i \in 1..Len(Q) : B[i] = M[Q[i]]
  BY ExtentsAre
<1>3. /\ DOMAIN a = 1..Len(P) /\ \A i \in 1..Len(P) : a[i] \in Nat /\ a[i] < A[i]
      /\ DOMAIN r = 1..Len(Q) /\ \A i \in 1..Len(Q) : r[i] \in Nat /\ r[i] < B[i]
  BY <1>2, BoxIs
<1>4. /\ Len(P) \in Nat /\ Len(Q) \in Nat
      /\ \A i \in 1..Len(P) : P[i] > 0 => P[i] \in 1..Len(M)
      /\ \A i \in 1..Len(Q) : Q[i] > 0 /\ Q[i] \in 1..Len(M)
      /\ \A i, j \in 1..Len(P) : P[i] = P[j] /\ P[i] > 0 => i = j
      /\ \A i, j \in 1..Len(Q) : Q[i] = Q[j] => i = j
      /\ \A i \in 1..Len(P), j \in 1..Len(Q) : P[i] # Q[j]
      /\ \A m \in 1..Len(M) : (\E i \in 1..Len(P) : P[i] = m) \/ (\E i \in 1..Len(Q) : Q[i] = m)
  <2>1. /\ Len(P) \in Nat /\ Len(Q) \in Nat /\ Q \in Seq(Nat \ {0})
        /\ Modal(M, P, Q) /\ Once(P, Q) /\ Covered(M, P, Q)
    BY PartsAre
  <2>2. \A i \in 1..Len(Q) : Q[i] > 0
    BY <2>1
  <2>3. \A i, j \in 1..Len(P) : P[i] = P[j] /\ P[i] > 0 => i = j
    BY <2>1 DEF Once
  <2> QED BY <2>1, <2>2, <2>3 DEF Modal, Once, Covered
<1>5. K = [m \in 1..Len(M) |->
             IF \E i \in 1..Len(P) : P[i] = m THEN a[At(P, m)]
             ELSE IF \E i \in 1..Len(Q) : Q[i] = m THEN r[At(Q, m)] ELSE 0]
  BY <1>1, <1>3 DEF Placed, Parts, Modes
<1>6. ASSUME NEW i \in 1..Len(P), P[i] > 0
      PROVE  K[P[i]] = a[i]
  <2>1. P[i] \in 1..Len(M)
    BY <1>4, <1>6
  <2>2. At(P, P[i]) = i
    BY <1>4, <1>6, SelectIs
  <2>3. K[P[i]] = a[At(P, P[i])]
    <3> HIDE DEF K
    <3> QED BY <1>5, <2>1
  <2> QED BY <2>2, <2>3
<1>7. ASSUME NEW i \in 1..Len(Q)
      PROVE  K[Q[i]] = r[i]
  <2>1. Q[i] \in 1..Len(M)
    BY <1>4
  <2>2. At(Q, Q[i]) = i
    BY <1>4, SelectIs
  <2>3. ~\E j \in 1..Len(P) : P[j] = Q[i]
    BY <1>4
  <2>4. K[Q[i]] = r[At(Q, Q[i])]
    <3> HIDE DEF K
    <3> QED BY <1>5, <2>1, <2>3
  <2> QED BY <2>2, <2>4
<1>8. K = [m \in 1..Len(M) |-> K[m]]
  BY <1>1 DEF Placed, Parts, Modes
<1> HIDE DEF K
<1>9. ASSUME NEW m \in 1..Len(M) PROVE K[m] \in Nat /\ K[m] < M[m]
  <2>1. CASE \E i \in 1..Len(P) : P[i] = m
    <3>1. PICK i \in 1..Len(P) : P[i] = m
      BY <2>1
    <3>2. P[i] > 0
      BY <1>1, <3>1
    <3> QED BY <1>2, <1>3, <1>6, <3>1, <3>2
  <2>2. CASE \E i \in 1..Len(Q) : Q[i] = m
    BY <1>2, <1>3, <1>7, <2>2, ZenonT(60)
  <2> QED BY <1>4, <2>1, <2>2
<1>10. K \in Seq(Nat) /\ Len(K) = Len(M)
  <2>1. K \in [1..Len(M) -> Nat]
    BY <1>8, <1>9
  <2> QED BY <1>1, <2>1
<1>11. K \in Box(M)
  BY <1>9, <1>10 DEF Box
<1> QED BY <1>6, <1>7, <1>11 DEF K

\* get_global collects those indices.
LEMMA GlobalIs ==
  ASSUME NEW l, WellFormedLayout(l), NEW s \in Threads(l), NEW x \in Registers(l)
  PROVE  GetGlobal(l, s, x) =
           Collect(Placed(l, IndexDeserialize(s, SpatialShape(l)), IndexDeserialize(x, LocalShape(l))),
                   l.shape, l.mode_shape)
<1> DEFINE S == l.shape
           M == l.mode_shape
           G == GetModeGroups(S, M)
           a == IndexDeserialize(s, SpatialShape(l))
           r == IndexDeserialize(x, LocalShape(l))
           K == Placed(l, a, r)
           index(m) == IF \E i \in DOMAIN a : l.spatial_modes[i] = m
                       THEN a[At(l.spatial_modes, m)]
                       ELSE IF \E i \in DOMAIN r : l.local_modes[i] = m
                            THEN r[At(l.local_modes, m)]
                            ELSE 0
<1>1. Shaped(S, M)
  BY PartsAre DEF Parts
<1>2. \A m \in Modes(l) : K[m] = index(m)
  BY DEF Placed
<1>3. Modes(l) = 1..Len(M) /\ DOMAIN S = 1..Len(S)
  BY <1>1, SizesAre DEF Modes, Shaped
<1>4. ASSUME NEW d \in 1..Len(S)
      PROVE  [i \in DOMAIN G[d] |-> index(G[d][i])] = [i \in DOMAIN G[d] |-> K[G[d][i]]]
  <2>1. DOMAIN G[d] = 1..Len(G[d]) /\ \A i \in 1..Len(G[d]) : G[d][i] \in 1..Len(M)
    <3>1. Grouped(S, M, Upto(S, M), G)
      BY <1>1, GroupsAre
    <3> HIDE DEF S, M, G
    <3> QED BY <3>1 DEF Grouped
  <2> HIDE DEF K, index, G, M, S
  <2> QED BY <1>2, <1>3, <2>1
<1>5. GetGlobal(l, s, x) =
        [d \in DOMAIN S |-> IndexSerialize([i \in DOMAIN G[d] |-> index(G[d][i])],
                                           [i \in DOMAIN G[d] |-> M[G[d][i]]])]
  BY DEF GetGlobal, Groups, At
<1>6. Collect(K, S, M) =
        [d \in DOMAIN S |-> IndexSerialize([i \in DOMAIN G[d] |-> K[G[d][i]]],
                                           [i \in DOMAIN G[d] |-> M[G[d][i]]])]
  BY DEF Collect, GroupShape
<1> HIDE DEF K, index, G, M, S
<1>7. Collect(K, S, M) = GetGlobal(l, s, x)
  BY <1>3, <1>4, <1>5, <1>6
<1> QED BY <1>7 DEF K, S, M

\* The threads of an element are those whose digits agree with its modes.
LEMMA SpatialIs ==
  ASSUME NEW l, WellFormedLayout(l), NEW g \in Box(l.shape)
  PROVE  GetSpatial(l, g) = {s \in Threads(l) : LocateAt(l, g, s)}
<1> DEFINE k == ModeIndex(g, l.shape, l.mode_shape)
           A == SpatialShape(l)
           P == l.spatial_modes
           Agrees(s) == \A i \in DOMAIN s : P[i] > 0 => s[i] = k[P[i]]
<1>1. A \in Seq(Nat \ {0})
  BY ExtentsAre DEF Parts
<1>2. GetSpatial(l, g) = {IndexSerialize(s, A) : s \in {s \in Box(A) : Agrees(s)}}
  BY <1>1, IndexesAre DEF GetSpatial
<1>3. \A s : LocateAt(l, g, s) <=> Agrees(IndexDeserialize(s, A))
  BY DEF LocateAt
<1>4. Threads(l) = 0..(Product(A) - 1)
  BY DEF Threads, SpatialSize
<1> HIDE DEF Agrees, A
<1>5. ASSUME NEW s \in GetSpatial(l, g) PROVE s \in Threads(l) /\ LocateAt(l, g, s)
  <2>1. PICK e \in Box(A) : Agrees(e) /\ s = IndexSerialize(e, A)
    BY <1>2
  <2>2. s \in 0..(Product(A) - 1) /\ IndexDeserialize(s, A) = e
    BY <1>1, <2>1, SerializeRange
  <2> QED BY <1>3, <1>4, <2>1, <2>2
<1>6. ASSUME NEW s \in Threads(l), LocateAt(l, g, s) PROVE s \in GetSpatial(l, g)
  <2>1. IndexDeserialize(s, A) \in Box(A) /\ IndexSerialize(IndexDeserialize(s, A), A) = s
    BY <1>1, <1>4, DeserializeIs
  <2>2. Agrees(IndexDeserialize(s, A))
    BY <1>3, <1>6
  <2> QED BY <1>2, <2>1, <2>2
<1> QED BY <1>5, <1>6

\* The register of an element has the digits of its modes.
LEMMA LocalIs ==
  ASSUME NEW l, WellFormedLayout(l), NEW k \in Box(l.mode_shape)
  PROVE  /\ [i \in DOMAIN l.local_modes |-> k[l.local_modes[i]]] \in Box(LocalShape(l))
         /\ DOMAIN l.local_modes = 1..Len(l.local_modes) /\ Len(l.local_modes) \in Nat
<1> DEFINE Q == l.local_modes
           M == l.mode_shape
           B == LocalShape(l)
           b == Len(Q)
           r == [i \in DOMAIN Q |-> k[Q[i]]]
<1>1. /\ DOMAIN Q = 1..b /\ b \in Nat
      /\ \A i \in 1..b : Q[i] \in 1..Len(M)
  BY PartsAre DEF Parts, Modal
<1>2. B \in Seq(Nat \ {0}) /\ Len(B) = b /\ \A i \in 1..b : B[i] = M[Q[i]]
  BY ExtentsAre DEF Parts
<1>3. Sizes(M)
  BY PartsAre DEF Parts, Shaped
<1> HIDE DEF M, Q, B, b
<1>4. \A m \in 1..Len(M) : k[m] \in Nat /\ k[m] < M[m]
  BY <1>3, SizesAre, BoxIs DEF M
<1>5. r \in [1..b -> Nat] /\ \A i \in 1..b : r[i] < B[i]
  BY <1>1, <1>2, <1>4
<1> HIDE DEF r
<1>6. r \in Seq(Nat) /\ Len(r) = b
  BY <1>1, <1>5
<1>7. r \in Box(B)
  BY <1>2, <1>5, <1>6 DEF Box
<1> QED BY <1>1, <1>7 DEF r, B, Q, b

\* Every mode is among the threads or the registers.
LEMMA ModesListed ==
  ASSUME NEW l, WellFormedLayout(l), NEW m \in 1..Len(l.mode_shape)
  PROVE  \/ \E i \in 1..Len(l.spatial_modes) : l.spatial_modes[i] = m
         \/ \E i \in 1..Len(l.local_modes) : l.local_modes[i] = m
<1>1. Covered(l.mode_shape, l.spatial_modes, l.local_modes)
  BY PartsAre DEF Parts
<1> QED BY <1>1 DEF Covered

\* The element a thread finds in the register of an element is that element.
LEMMA ElementBack ==
  ASSUME NEW l, WellFormedLayout(l), NEW g \in Box(l.shape), NEW s \in Threads(l), LocateAt(l, g, s)
  PROVE  GetGlobal(l, s, GetLocal(l, g)) = g
<1> DEFINE S == l.shape
           M == l.mode_shape
           P == l.spatial_modes
           Q == l.local_modes
           A == SpatialShape(l)
           B == LocalShape(l)
           k == ModeIndex(g, S, M)
           a == IndexDeserialize(s, A)
           r == [i \in DOMAIN Q |-> k[Q[i]]]
           x == GetLocal(l, g)
           K == Placed(l, a, r)
<1>1. Parts(l, S, M, P, Q, A, B)
  BY DEF Parts
<1>2. Shaped(S, M) /\ Splits(S, M)
  BY <1>1, PartsAre
<1>3. k \in Box(M)
  BY <1>2, ModeIndexIs
<1>4. A \in Seq(Nat \ {0}) /\ B \in Seq(Nat \ {0}) /\ Len(A) = Len(P)
  BY <1>1, ExtentsAre
<1>5. a \in Box(A)
  BY <1>4, DeserializeIs DEF Threads, SpatialSize
<1>6. r \in Box(B) /\ DOMAIN Q = 1..Len(Q)
  BY <1>3, LocalIs
<1>7. x = IndexSerialize(r, B)
  BY DEF GetLocal
<1>8. x \in Registers(l) /\ IndexDeserialize(x, B) = r
  BY <1>4, <1>6, <1>7, SerializeRange DEF Registers, LocalSize
<1>9. \A i \in DOMAIN a : P[i] > 0 => k[P[i]] = a[i]
  BY DEF LocateAt
<1>10. GetGlobal(l, s, x) = Collect(K, S, M)
  <2>1. x \in Registers(l)
    BY <1>8
  <2> HIDE DEF x, r
  <2> QED BY <1>8, <2>1, GlobalIs
<1>l. \A m \in 1..Len(M) : (\E i \in 1..Len(P) : P[i] = m) \/ (\E i \in 1..Len(Q) : Q[i] = m)
  BY ModesListed
<1>11. /\ K \in Box(M)
       /\ \A i \in 1..Len(P) : P[i] > 0 => K[P[i]] = a[i]
       /\ \A i \in 1..Len(Q) : K[Q[i]] = r[i]
  <2> HIDE DEF a, r, S, M, P, Q, A, B
  <2> QED BY <1>1, <1>5, <1>6, PlacedIs
<1>12. ASSUME NEW m \in 1..Len(M) PROVE K[m] = k[m]
  <2>1. (\E i \in 1..Len(P) : P[i] = m) \/ (\E i \in 1..Len(Q) : Q[i] = m)
    BY <1>l
  <2>2. DOMAIN a = 1..Len(P)
    BY <1>4, <1>5, BoxIs
  <2>3. \A i \in 1..Len(Q) : r[i] = k[Q[i]]
    BY <1>6
  <2>4. m > 0
    OBVIOUS
  <2> HIDE DEF a, r, S, M, P, Q, A, B, k, K
  <2>5. CASE \E i \in 1..Len(P) : P[i] = m
    BY <1>9, <1>11, <2>2, <2>4, <2>5
  <2>6. CASE \E i \in 1..Len(Q) : Q[i] = m
    BY <1>11, <2>3, <2>6
  <2> QED BY <2>1, <2>5, <2>6
<1>13. K = k
  <2>1. M \in Seq(Nat \ {0})
    BY <1>2, SizesAre DEF Shaped
  <2> HIDE DEF a, r, S, M, P, Q, A, B, k, K
  <2>2. K \in Seq(Nat) /\ k \in Seq(Nat) /\ Len(K) = Len(M) /\ Len(k) = Len(M)
    BY <1>3, <1>11, <2>1, BoxIs
  <2>3. K = [m \in 1..Len(M) |-> K[m]] /\ k = [m \in 1..Len(M) |-> k[m]]
    BY <2>2
  <2>4. [m \in 1..Len(M) |-> K[m]] = [m \in 1..Len(M) |-> k[m]]
    BY <1>12
  <2> QED BY <2>3, <2>4
<1>14. Collect(k, S, M) = g
  BY <1>2, CollectBack
<1> HIDE DEF a, r, S, M, P, Q, A, B, k, K
<1> QED BY <1>10, <1>13, <1>14

\* The element in a register of a thread is found there.
LEMMA RegisterBack ==
  ASSUME NEW l, WellFormedLayout(l), NEW s \in Threads(l), NEW x \in Registers(l), NEW g, g = GetGlobal(l, s, x)
  PROVE  g \in Box(l.shape) /\ LocateAt(l, g, s) /\ GetLocal(l, g) = x
<1> DEFINE S == l.shape
           M == l.mode_shape
           P == l.spatial_modes
           Q == l.local_modes
           A == SpatialShape(l)
           B == LocalShape(l)
           a == IndexDeserialize(s, A)
           r == IndexDeserialize(x, B)
           K == Placed(l, a, r)
<1>1. Parts(l, S, M, P, Q, A, B)
  BY DEF Parts
<1>2. Shaped(S, M) /\ Splits(S, M) /\ DOMAIN Q = 1..Len(Q) /\ Len(Q) \in Nat
  BY <1>1, PartsAre
<1>3. A \in Seq(Nat \ {0}) /\ B \in Seq(Nat \ {0}) /\ Len(A) = Len(P) /\ Len(B) = Len(Q)
  BY <1>1, ExtentsAre
<1>4. a \in Box(A)
  BY <1>3, DeserializeIs DEF Threads, SpatialSize
<1>5. r \in Box(B) /\ IndexSerialize(r, B) = x
  BY <1>3, DeserializeIs DEF Registers, LocalSize
<1>6. g = Collect(K, S, M)
  BY GlobalIs
<1>7. /\ K \in Box(M)
      /\ \A i \in 1..Len(P) : P[i] > 0 => K[P[i]] = a[i]
      /\ \A i \in 1..Len(Q) : K[Q[i]] = r[i]
  <2> HIDE DEF a, r, S, M, P, Q, A, B
  <2> QED BY <1>1, <1>4, <1>5, PlacedIs
<1>8. g \in Box(S) /\ ModeIndex(g, S, M) = K
  <2> HIDE DEF K, S, M
  <2> QED BY <1>2, <1>6, <1>7, CollectIs
<1>9. LocateAt(l, g, s)
  <2>1. DOMAIN a = 1..Len(P)
    BY <1>3, <1>4, BoxIs
  <2>2. LocateAt(l, g, s) <=> \A i \in DOMAIN a : P[i] > 0 => ModeIndex(g, S, M)[P[i]] = a[i]
    BY DEF LocateAt
  <2> HIDE DEF a, r, S, M, P, Q, A, B, K
  <2> QED BY <1>7, <1>8, <2>1, <2>2
<1>10. [i \in DOMAIN Q |-> K[Q[i]]] = r
  <2>1. r \in Seq(Nat) /\ Len(r) = Len(Q)
    BY <1>3, <1>5, BoxIs
  <2> HIDE DEF a, r, S, M, P, Q, A, B, K
  <2>2. r = [i \in 1..Len(Q) |-> r[i]]
    BY <2>1
  <2> QED BY <1>2, <1>7, <2>2
<1>11. GetLocal(l, g) = IndexSerialize([i \in DOMAIN Q |-> ModeIndex(g, S, M)[Q[i]]], B)
  BY DEF GetLocal
<1> HIDE DEF a, r, M, P, Q, A, B, K
<1>12. GetLocal(l, g) = x
  BY <1>5, <1>8, <1>10, <1>11
<1> QED BY <1>8, <1>9, <1>12

\* Register layouts mean one thing: whichever shape and modes, get_spatial finds the threads
\* of an element that locate_at accepts, and get_global in such a thread at the register of
\* get_local is that element; and what a thread has in a register is found there
\* (register_layout.py).
THEOREM LayoutsAreConsistent ==
  ASSUME NEW l, WellFormedLayout(l)
  PROVE  Consistent(l)
<1>1. l.shape \in Seq(Nat \ {0})
  BY DEF WellFormedLayout
<1>2. Indexes(l.shape) = Box(l.shape)
  BY <1>1, IndexesAre
<1>3. ASSUME NEW g \in Indexes(l.shape)
      PROVE  GetSpatial(l, g) = {s \in Threads(l) : LocateAt(l, g, s)}
  BY <1>2, SpatialIs
<1>4. ASSUME NEW g \in Indexes(l.shape), NEW s \in GetSpatial(l, g)
      PROVE  GetGlobal(l, s, GetLocal(l, g)) = g
  BY <1>2, <1>3, ElementBack
<1>5. ASSUME NEW s \in Threads(l), NEW x \in Registers(l)
      PROVE  LET g == GetGlobal(l, s, x) IN s \in GetSpatial(l, g) /\ GetLocal(l, g) = x
  <2> DEFINE g == GetGlobal(l, s, x)
  <2>1. g \in Box(l.shape) /\ LocateAt(l, g, s) /\ GetLocal(l, g) = x
    BY RegisterBack
  <2> HIDE DEF g
  <2>2. s \in GetSpatial(l, g)
    BY <1>2, <1>3, <2>1
  <2> QED BY <2>1, <2>2 DEF g
<1> QED BY <1>3, <1>4, <1>5 DEF Consistent

-----------------------------------------------------------------------------
(* The numbers of a set in increasing order. *)

\* How many numbers of a set are at most k.
Rank(S, k) == Cardinality({j \in S : j <= k})

\* The rank of a number is that of the one below it, or one more.
LEMMA RankStep ==
  ASSUME NEW n \in Nat, NEW S \in SUBSET (1..n)
  PROVE  /\ Rank(S, 0) = 0 /\ Rank(S, n) = Cardinality(S) /\ Cardinality(S) \in Nat
         /\ \A k \in 0..n : Rank(S, k) \in Nat
         /\ \A k \in 1..n : Rank(S, k) = Rank(S, k - 1) + (IF k \in S THEN 1 ELSE 0)
<1>0. \A j \in S : j \in Int /\ 0 < j /\ j <= n /\ ~(j <= 0)
  OBVIOUS
<1>1. IsFiniteSet(1..n)
  BY FS_Interval
<1>2. IsFiniteSet(S)
  BY <1>1, FS_Subset
<1>3. {j \in S : j <= 0} = {} /\ {j \in S : j <= n} = S
  BY <1>0
<1>4. Rank(S, 0) = 0 /\ Rank(S, n) = Cardinality(S)
  BY <1>3, FS_EmptySet DEF Rank
<1>5. ASSUME NEW k \in 0..n PROVE Rank(S, k) \in Nat /\ IsFiniteSet({j \in S : j <= k})
  <2>1. IsFiniteSet({j \in S : j <= k})
    BY <1>2, FS_Subset
  <2> QED BY <2>1, FS_CardinalityType DEF Rank
<1>6. ASSUME NEW k \in 1..n PROVE Rank(S, k) = Rank(S, k - 1) + (IF k \in S THEN 1 ELSE 0)
  <2> DEFINE T == {j \in S : j <= k - 1}
  <2>1. k - 1 \in 0..n
    OBVIOUS
  <2>0. \A j \in S : (j <= k <=> j <= k - 1 \/ j = k) /\ ~(k <= k - 1)
    BY <1>0
  <2>2. IsFiniteSet(T) /\ Cardinality(T) \in Nat /\ Rank(S, k - 1) = Cardinality(T)
    BY <1>5, <2>1 DEF Rank
  <2>3. CASE k \in S
    <3>1. {j \in S : j <= k} = T \union {k} /\ k \notin T
      BY <2>0, <2>3
    <3> HIDE DEF T
    <3>2. Cardinality(T \union {k}) = Cardinality(T) + 1
      BY <2>2, <3>1, FS_AddElement
    <3> QED BY <2>2, <2>3, <3>1, <3>2 DEF Rank
  <2>4. CASE k \notin S
    <3>1. {j \in S : j <= k} = T
      BY <2>0, <2>4
    <3> HIDE DEF T
    <3>2. Rank(S, k) = Cardinality(T)
      BY <3>1 DEF Rank
    <3> QED BY <2>2, <2>4, <3>2
  <2> QED BY <2>3, <2>4
<1>7. Cardinality(S) \in Nat
  BY <1>2, FS_CardinalityType
<1> QED BY <1>4, <1>5, <1>6, <1>7

\* Ranks do not fall.
LEMMA RankOrder ==
  ASSUME NEW n \in Nat, NEW S \in SUBSET (1..n)
  PROVE  \A j, k \in 0..n : j <= k => Rank(S, j) <= Rank(S, k)
<1>0. \A k \in 1..n : Rank(S, k) = Rank(S, k - 1) + (IF k \in S THEN 1 ELSE 0)
  BY RankStep
<1>1. ASSUME NEW j \in 0..n PROVE \A k \in 0..n : j <= k => Rank(S, j) <= Rank(S, k)
  <2> DEFINE T == {k \in 0..n : j <= k => Rank(S, j) <= Rank(S, k)}
  <2>1. 0 \in T
    BY RankStep
  <2>2. ASSUME NEW k \in 0..(n - 1), k \in T PROVE k + 1 \in T
    <3>1. k + 1 \in 1..n /\ (k + 1) - 1 = k /\ k \in 0..n /\ k + 1 \in 0..n
      OBVIOUS
    <3>a. Rank(S, k + 1) = Rank(S, (k + 1) - 1) + (IF k + 1 \in S THEN 1 ELSE 0)
      BY <1>0, <3>1
    <3>2. Rank(S, k + 1) = Rank(S, k) + (IF k + 1 \in S THEN 1 ELSE 0)
      BY <3>1, <3>a
    <3>3. Rank(S, k) \in Nat /\ Rank(S, j) \in Nat
      BY <3>1, RankStep
    <3>4. j <= k + 1 => j = k + 1 \/ j <= k
      BY <3>1
    <3>5. Rank(S, k) <= Rank(S, k + 1) /\ Rank(S, k + 1) \in Nat
      BY <3>2, <3>3
    <3> QED BY <2>2, <3>1, <3>3, <3>4, <3>5
  <2> HIDE DEF T
  <2>3. \A k \in 0..n : k \in T
    BY <2>1, <2>2, InductUpto
  <2> QED BY <2>3 DEF T
<1> QED BY <1>1

\* The numbers of a set and their ranks.
LEMMA RankIs ==
  ASSUME NEW n \in Nat, NEW S \in SUBSET (1..n)
  PROVE  /\ \A k \in S : Rank(S, k) \in 1..Cardinality(S) /\ Rank(S, k - 1) = Rank(S, k) - 1
         /\ \A j, k \in S : j < k => Rank(S, j) < Rank(S, k)
         /\ \A i \in 1..Cardinality(S) : \E k \in S : Rank(S, k) = i
<1>1. ASSUME NEW k \in S PROVE Rank(S, k) \in 1..Cardinality(S) /\ Rank(S, k - 1) = Rank(S, k) - 1
  <2>1. k \in 1..n /\ k - 1 \in 0..n /\ k \in 0..n /\ n \in 0..n /\ k <= n
    OBVIOUS
  <2>2. Rank(S, k) = Rank(S, k - 1) + 1 /\ Rank(S, k - 1) \in Nat /\ Rank(S, k) <= Rank(S, n) /\ Rank(S, n) = Cardinality(S)
    BY <2>1, RankStep, RankOrder, ZenonT(60)
  <2>3. Cardinality(S) \in Nat
    BY RankStep
  <2> QED BY <2>2, <2>3
<1>2. ASSUME NEW j \in S, NEW k \in S, j < k PROVE Rank(S, j) < Rank(S, k)
  <2>1. j \in 0..n /\ k - 1 \in 0..n /\ j <= k - 1
    BY <1>2
  <2>2. Rank(S, j) <= Rank(S, k - 1) /\ Rank(S, k - 1) = Rank(S, k) - 1 /\ Rank(S, k) \in 1..Cardinality(S)
    BY <1>1, <2>1, RankOrder
  <2>3. Rank(S, j) \in Nat
    BY <2>1, RankStep
  <2> QED BY <2>2, <2>3
<1>3. ASSUME NEW i \in 1..Cardinality(S) PROVE \E k \in S : Rank(S, k) = i
  <2> DEFINE T == {m \in 0..n : i <= Rank(S, m) => \E k \in S : Rank(S, k) = i}
  <2>0. i \in Nat /\ i > 0 /\ i <= Rank(S, n)
    BY RankStep
  <2>1. 0 \in T
    BY <2>0, RankStep
  <2>2. ASSUME NEW m \in 0..(n - 1), m \in T PROVE m + 1 \in T
    <3>1. m + 1 \in 1..n /\ (m + 1) - 1 = m /\ m \in 0..n /\ m + 1 \in 0..n
      OBVIOUS
    <3>a. Rank(S, m + 1) = Rank(S, (m + 1) - 1) + (IF m + 1 \in S THEN 1 ELSE 0) /\ Rank(S, m) \in Nat
      BY <3>1, RankStep
    <3>2. Rank(S, m + 1) = Rank(S, m) + (IF m + 1 \in S THEN 1 ELSE 0) /\ Rank(S, m) \in Nat
      BY <3>1, <3>a
    <3>3. CASE i <= Rank(S, m)
      BY <2>2, <3>1, <3>3
    <3>4. CASE ~(i <= Rank(S, m))
      <4>1. i <= Rank(S, m + 1) => m + 1 \in S /\ Rank(S, m + 1) = i
        BY <2>0, <3>2, <3>4
      <4> QED BY <3>1, <4>1
    <3> QED BY <3>3, <3>4
  <2> HIDE DEF T
  <2>3. \A m \in 0..n : m \in T
    BY <2>1, <2>2, InductUpto
  <2>4. n \in T
    BY <2>3
  <2> QED BY <2>0, <2>4 DEF T
<1> QED BY <1>1, <1>2, <1>3

\* The number of a rank.
LEMMA NthIs ==
  ASSUME NEW n \in Nat, NEW S \in SUBSET (1..n)
  PROVE  /\ \A i \in 1..Cardinality(S) : Nth(S, i) \in S /\ Rank(S, Nth(S, i)) = i
         /\ \A k \in S : Nth(S, Rank(S, k)) = k
         /\ \A i, j \in 1..Cardinality(S) : i < j => Nth(S, i) < Nth(S, j)
<1>0. Cardinality(S) \in Nat /\ \A k \in S : k \in Nat /\ Rank(S, k) \in 1..Cardinality(S)
  <2>1. \A k \in S : k \in Nat
    OBVIOUS
  <2> QED BY <2>1, RankIs, RankStep
<1>r. \A j, k \in S : j < k => Rank(S, j) < Rank(S, k)
  BY RankIs
<1>1. ASSUME NEW i \in 1..Cardinality(S) PROVE Nth(S, i) \in S /\ Rank(S, Nth(S, i)) = i
  <2>1. \E k \in S : Cardinality({j \in S : j <= k}) = i
    BY RankIs DEF Rank
  <2> QED BY <2>1 DEF Nth, Rank
<1>2. \A j, k \in S : Rank(S, j) = Rank(S, k) => j = k
  <2>1. ASSUME NEW j \in S, NEW k \in S, Rank(S, j) = Rank(S, k) PROVE j = k
    <3>1. ~(j < k) /\ ~(k < j)
      <4>1. Rank(S, j) \in Nat /\ Rank(S, k) = Rank(S, j)
        BY <1>0, <2>1
      <4> QED BY <1>r, <4>1
    <3> QED BY <1>0, <3>1
  <2> QED BY <2>1
<1>3. \A k \in S : Nth(S, Rank(S, k)) = k
  BY <1>0, <1>1, <1>2
<1>4. ASSUME NEW i \in 1..Cardinality(S), NEW j \in 1..Cardinality(S), i < j PROVE Nth(S, i) < Nth(S, j)
  <2>1. /\ Nth(S, i) \in S /\ Nth(S, j) \in S /\ Rank(S, Nth(S, i)) = i /\ Rank(S, Nth(S, j)) = j
    BY <1>1
  <2>2. Nth(S, j) < Nth(S, i) => j < i
    BY <1>r, <2>1
  <2>3. Nth(S, i) # Nth(S, j)
    BY <1>4, <2>1
  <2>4. Nth(S, i) \in Nat /\ Nth(S, j) \in Nat /\ i \in Nat /\ j \in Nat
    <3>1. i \in Nat /\ j \in Nat
      BY <1>0
    <3> QED BY <1>0, <2>1, <3>1
  <2> QED BY <1>4, <2>2, <2>3, <2>4
<1> QED BY <1>1, <1>3, <1>4

-----------------------------------------------------------------------------
(* Some of the modes, numbered anew. *)

\* The elements at some of the places, in their order.
LEMMA SiftedIs ==
  ASSUME NEW X, NEW s \in Seq(X), NEW T \in SUBSET (1..Len(s))
  PROVE  /\ Sifted(s, T) \in Seq(X) /\ Len(Sifted(s, T)) = Cardinality(T) /\ Cardinality(T) \in Nat
         /\ \A i \in 1..Cardinality(T) : Sifted(s, T)[i] = s[Nth(T, i)] /\ Nth(T, i) \in T
         /\ \A k \in T : Rank(T, k) \in 1..Cardinality(T) /\ Sifted(s, T)[Rank(T, k)] = s[k]
<1> DEFINE c == Cardinality(T)
           t == Sifted(s, T)
<1>1. Len(s) \in Nat
  OBVIOUS
<1>2. c \in Nat
  BY <1>1, RankStep
<1>3. \A i \in 1..c : Nth(T, i) \in T
  BY <1>1, NthIs
<1>4. \A k \in T : Rank(T, k) \in 1..c /\ Nth(T, Rank(T, k)) = k
  BY <1>1, NthIs, RankIs
<1>5. t = [i \in 1..c |-> s[Nth(T, i)]]
  BY DEF Sifted
<1> HIDE DEF c, t
<1>6. t \in [1..c -> X]
  <2>1. \A k \in T : s[k] \in X
    OBVIOUS
  <2> QED BY <1>3, <1>5, <2>1
<1>7. t \in Seq(X) /\ Len(t) = c
  BY <1>2, <1>6
<1>8. \A i \in 1..c : t[i] = s[Nth(T, i)]
  BY <1>5
<1>9. \A k \in T : t[Rank(T, k)] = s[k]
  BY <1>4, <1>8
<1> QED BY <1>2, <1>3, <1>4, <1>7, <1>8, <1>9 DEF c, t

\* What becomes of a list of modes when some modes are kept.
Stays(P, kept) == {i \in DOMAIN P : P[i] < 0 \/ P[i] \in kept}
KeptModes(P, kept) == Renamed(Sifted(P, Stays(P, kept)), LAMBDA m : Cardinality({k \in kept : k <= m}))

\* R lists the modes of P that are kept, in their order, by their new numbers.
Thinned(P, kept, T, R) ==
  /\ R \in Seq(Int \ {0}) /\ Len(R) \in Nat
  /\ (\A i \in 1..Len(P) : P[i] > 0) => R \in Seq(Nat \ {0})
  /\ \A j \in 1..Len(R) : /\ Nth(T, j) \in 1..Len(P)
                          /\ R[j] > 0 => P[Nth(T, j)] \in kept /\ R[j] = Rank(kept, P[Nth(T, j)])
  /\ \A i, j \in 1..Len(R) : i < j => Nth(T, i) < Nth(T, j)
  /\ \A i \in 1..Len(P) : P[i] \in kept => \E j \in 1..Len(R) : R[j] = Rank(kept, P[i])

\* A list without the modes dropped, renamed.
LEMMA KeptIs ==
  ASSUME NEW n \in Nat, NEW kept \in SUBSET (1..n), NEW P \in Seq(Int \ {0})
  PROVE  Thinned(P, kept, Stays(P, kept), KeptModes(P, kept))
<1> DEFINE T == Stays(P, kept)
           R == KeptModes(P, kept)
           s == Sifted(P, T)
           c == Cardinality(T)
<1>1. Len(P) \in Nat /\ DOMAIN P = 1..Len(P) /\ \A i \in 1..Len(P) : P[i] \in Int \ {0}
  OBVIOUS
<1>2. T \in SUBSET (1..Len(P)) /\ \A i \in T : P[i] < 0 \/ P[i] \in kept
  BY DEF Stays
<1>a. \A i \in 1..Len(P) : P[i] \in kept => i \in T
  BY DEF Stays
<1> HIDE DEF T
<1>3. /\ s \in Seq(Int \ {0}) /\ Len(s) = c /\ c \in Nat
      /\ \A i \in 1..c : s[i] = P[Nth(T, i)] /\ Nth(T, i) \in T
      /\ \A k \in T : Rank(T, k) \in 1..c /\ s[Rank(T, k)] = P[k]
  BY <1>2, SiftedIs
<1>4. \A i, j \in 1..c : i < j => Nth(T, i) < Nth(T, j)
  BY <1>1, <1>2, NthIs
<1>5. R = [i \in DOMAIN s |-> IF s[i] < 0 THEN s[i] ELSE Rank(kept, s[i])]
  BY DEF KeptModes, Renamed, Rank, T
<1> HIDE DEF s, c, R
<1>6. DOMAIN s = 1..c
  BY <1>3
<1>7. \A k \in kept : Rank(kept, k) \in Nat \ {0} /\ k \in Nat /\ k > 0
  <2>1. \A k \in kept : Rank(kept, k) \in 1..Cardinality(kept)
    BY RankIs
  <2>2. Cardinality(kept) \in Nat
    BY RankStep
  <2>3. \A k \in kept : k \in 1..n
    OBVIOUS
  <2> QED BY <2>1, <2>2, <2>3
<1>8. ASSUME NEW j \in 1..c
      PROVE  /\ R[j] \in Int \ {0} /\ Nth(T, j) \in 1..Len(P)
             /\ R[j] > 0 => P[Nth(T, j)] \in kept /\ R[j] = Rank(kept, P[Nth(T, j)])
             /\ P[Nth(T, j)] > 0 => R[j] \in Nat \ {0}
  <2>1. Nth(T, j) \in T /\ s[j] = P[Nth(T, j)] /\ Nth(T, j) \in 1..Len(P)
    BY <1>2, <1>3
  <2>2. R[j] = IF s[j] < 0 THEN s[j] ELSE Rank(kept, s[j])
    BY <1>5, <1>6
  <2>3. s[j] \in Int \ {0}
    BY <1>1, <2>1
  <2>4. CASE s[j] < 0
    BY <2>1, <2>2, <2>3, <2>4
  <2>5. CASE ~(s[j] < 0)
    <3>1. s[j] \in kept /\ R[j] = Rank(kept, s[j])
      BY <1>2, <2>1, <2>2, <2>5
    <3> QED BY <1>7, <2>1, <3>1
  <2> QED BY <2>4, <2>5
<1>9. R = [j \in 1..c |-> R[j]]
  BY <1>5, <1>6
<1>10. R \in Seq(Int \ {0}) /\ Len(R) = c
  <2>1. R \in [1..c -> Int \ {0}]
    BY <1>8, <1>9
  <2>2. c \in Nat
    BY <1>3
  <2> QED BY <2>1, <2>2, FunctionIsSeq
<1>11. ASSUME \A i \in 1..Len(P) : P[i] > 0 PROVE R \in Seq(Nat \ {0})
  <2>1. R \in [1..c -> Nat \ {0}]
    BY <1>8, <1>9, <1>11
  <2>2. c \in Nat
    BY <1>3
  <2> QED BY <2>1, <2>2
<1>12. ASSUME NEW i \in 1..Len(P), P[i] \in kept PROVE \E j \in 1..c : R[j] = Rank(kept, P[i])
  <2>1. i \in T
    BY <1>a, <1>12
  <2>2. Rank(T, i) \in 1..c /\ s[Rank(T, i)] = P[i]
    BY <1>3, <2>1
  <2>3. ~(P[i] < 0)
    BY <1>7, <1>12
  <2>4. R[Rank(T, i)] = Rank(kept, P[i])
    BY <1>5, <1>6, <2>2, <2>3
  <2> QED BY <2>2, <2>4
<1> QED BY <1>3, <1>4, <1>8, <1>10, <1>11, <1>12 DEF R, T, Thinned

\* Keep drops modes from the shape and from both lists.
LEMMA KeepIs ==
  ASSUME NEW l, NEW M, NEW P, NEW Q, NEW kept \in SUBSET (1..Len(M)),
         M = l.mode_shape, P = l.spatial_modes, Q = l.local_modes,
         M \in Seq(Nat \ {0}), P \in Seq(Int \ {0}), Q \in Seq(Nat \ {0})
  PROVE  Keep(l, kept) = [shape |-> l.shape, mode_shape |-> Sifted(M, kept),
                          spatial_modes |-> KeptModes(P, kept), local_modes |-> KeptModes(Q, kept)]
  BY DEF Keep, KeptModes, Stays

\* The modes kept and their lists, anew.
Kept(M, P, Q, kept, N, R, U) ==
  /\ M \in Seq(Nat \ {0}) /\ P \in Seq(Int \ {0}) /\ Q \in Seq(Nat \ {0}) /\ kept \in SUBSET (1..Len(M))
  /\ \A m \in kept : (\E i \in 1..Len(P) : P[i] = m) \/ (\E i \in 1..Len(Q) : Q[i] = m)
  /\ N = Sifted(M, kept) /\ R = KeptModes(P, kept) /\ U = KeptModes(Q, kept)

\* The new lists name every new mode once.
LEMMA KeptModal ==
  ASSUME NEW M, NEW P, NEW Q, NEW kept, NEW N, NEW R, NEW U, Kept(M, P, Q, kept, N, R, U)
  PROVE  /\ N \in Seq(Nat \ {0}) /\ R \in Seq(Int \ {0}) /\ U \in Seq(Nat \ {0})
         /\ Modal(N, R, U) /\ Covered(N, R, U)
         /\ Once(P, Q) => Once(R, U)
<1>0. /\ M \in Seq(Nat \ {0}) /\ P \in Seq(Int \ {0}) /\ Q \in Seq(Nat \ {0}) /\ kept \in SUBSET (1..Len(M))
      /\ \A m \in kept : (\E i \in 1..Len(P) : P[i] = m) \/ (\E i \in 1..Len(Q) : Q[i] = m)
      /\ N = Sifted(M, kept) /\ R = KeptModes(P, kept) /\ U = KeptModes(Q, kept)
  BY DEF Kept
<1> DEFINE c == Cardinality(kept)
           T == Stays(P, kept)
           V == Stays(Q, kept)
<1>1. Len(M) \in Nat /\ Len(P) \in Nat /\ Len(Q) \in Nat /\ Q \in Seq(Int \ {0}) /\ \A i \in 1..Len(Q) : Q[i] > 0
  BY <1>0
<1>2. N \in Seq(Nat \ {0}) /\ Len(N) = c /\ c \in Nat
  BY <1>0, SiftedIs
<1>a. Thinned(P, kept, T, R) /\ Thinned(Q, kept, V, U)
  BY <1>0, <1>1, KeptIs
<1> HIDE DEF T, V
<1>3. R \in Seq(Int \ {0}) /\ Len(R) \in Nat
  BY <1>a DEF Thinned
<1>3a. ASSUME NEW j \in 1..Len(R), R[j] > 0
      PROVE  /\ Nth(T, j) \in 1..Len(P) /\ P[Nth(T, j)] \in kept
             /\ R[j] = Rank(kept, P[Nth(T, j)])
  BY <1>a, <1>3a DEF Thinned
<1>3b. ASSUME NEW i \in 1..Len(R), NEW j \in 1..Len(R), i < j PROVE Nth(T, i) < Nth(T, j)
  BY <1>a, <1>3b DEF Thinned
<1>3c. ASSUME NEW i \in 1..Len(P), P[i] \in kept PROVE \E j \in 1..Len(R) : R[j] = Rank(kept, P[i])
  BY <1>a, <1>3c DEF Thinned
<1>4. U \in Seq(Nat \ {0}) /\ Len(U) \in Nat
  BY <1>1, <1>a DEF Thinned
<1>4a. ASSUME NEW j \in 1..Len(U), U[j] > 0
      PROVE  /\ Nth(V, j) \in 1..Len(Q) /\ Q[Nth(V, j)] \in kept
             /\ U[j] = Rank(kept, Q[Nth(V, j)])
  BY <1>a, <1>4a DEF Thinned
<1>4b. ASSUME NEW i \in 1..Len(U), NEW j \in 1..Len(U), i < j PROVE Nth(V, i) < Nth(V, j)
  BY <1>a, <1>4b DEF Thinned
<1>4c. ASSUME NEW i \in 1..Len(Q), Q[i] \in kept PROVE \E j \in 1..Len(U) : U[j] = Rank(kept, Q[i])
  BY <1>a, <1>4c DEF Thinned
<1> HIDE DEF c
<1>5. \A j \in 1..Len(U) : U[j] > 0
  BY <1>4
<1>6. \A k \in kept : k \in 1..Len(M) /\ Rank(kept, k) \in 1..c
  BY <1>0, <1>1, RankIs DEF c
<1>7. ASSUME NEW i \in kept, NEW j \in kept, Rank(kept, i) = Rank(kept, j) PROVE i = j
  <2>1. Nth(kept, Rank(kept, i)) = i /\ Nth(kept, Rank(kept, j)) = j
    BY <1>0, <1>1, NthIs
  <2> QED BY <1>7, <2>1
<1>8. Modal(N, R, U)
  <2>1. \A i \in 1..Len(R) : R[i] > 0 => R[i] \in 1..c
    BY <1>3a, <1>6
  <2>2. \A i \in 1..Len(U) : U[i] \in 1..c
    BY <1>4a, <1>5, <1>6
  <2> QED BY <1>2, <2>1, <2>2 DEF Modal
<1>9. Covered(N, R, U)
  <2>1. ASSUME NEW m \in 1..c PROVE (\E i \in 1..Len(R) : R[i] = m) \/ (\E i \in 1..Len(U) : U[i] = m)
    <3>1. Nth(kept, m) \in kept /\ Rank(kept, Nth(kept, m)) = m
      BY <1>0, <1>1, NthIs DEF c
    <3>2. (\E i \in 1..Len(P) : P[i] = Nth(kept, m)) \/ (\E i \in 1..Len(Q) : Q[i] = Nth(kept, m))
      BY <1>0, <3>1
    <3>3. CASE \E i \in 1..Len(P) : P[i] = Nth(kept, m)
      BY <1>3c, <3>1, <3>3
    <3>4. CASE \E i \in 1..Len(Q) : Q[i] = Nth(kept, m)
      BY <1>4c, <3>1, <3>4
    <3> QED BY <3>2, <3>3, <3>4
  <2> QED BY <1>2, <2>1 DEF Covered
<1>10. ASSUME Once(P, Q) PROVE Once(R, U)
  <2>0. /\ \A i, j \in 1..Len(P) : P[i] = P[j] /\ P[i] > 0 => i = j
        /\ \A i, j \in 1..Len(Q) : Q[i] = Q[j] => i = j
        /\ \A i \in 1..Len(P), j \in 1..Len(Q) : P[i] # Q[j]
    BY <1>10 DEF Once
  <2>p. \A k \in kept : k > 0
    BY <1>6
  <2>1. ASSUME NEW i \in 1..Len(R), NEW j \in 1..Len(R), R[i] = R[j], R[i] > 0 PROVE i = j
    <3>1. P[Nth(T, i)] \in kept /\ P[Nth(T, j)] \in kept /\ P[Nth(T, i)] = P[Nth(T, j)]
      <4>1. /\ P[Nth(T, i)] \in kept /\ R[i] = Rank(kept, P[Nth(T, i)])
            /\ P[Nth(T, j)] \in kept /\ R[j] = Rank(kept, P[Nth(T, j)])
        BY <1>3a, <2>1
      <4> QED BY <1>7, <2>1, <4>1
    <3>2. Nth(T, i) = Nth(T, j) /\ Nth(T, i) \in Nat
      <4>1. Nth(T, i) \in 1..Len(P) /\ Nth(T, j) \in 1..Len(P) /\ P[Nth(T, i)] > 0
        BY <1>3a, <2>p, <2>1, <3>1
      <4>2. \A x, y \in 1..Len(P) : P[x] = P[y] /\ P[x] > 0 => x = y
        BY <2>0
      <4>3. Nth(T, i) = Nth(T, j)
        BY <3>1, <4>1, <4>2
      <4>4. \A x \in 1..Len(P) : x \in Nat
        BY <1>1
      <4> QED BY <4>1, <4>3, <4>4
    <3>3. ~(i < j) /\ ~(j < i)
      BY <1>3b, <3>2
    <3> QED BY <3>3
  <2>2. ASSUME NEW i \in 1..Len(U), NEW j \in 1..Len(U), U[i] = U[j] PROVE i = j
    <3>1. Q[Nth(V, i)] \in kept /\ Q[Nth(V, j)] \in kept /\ Q[Nth(V, i)] = Q[Nth(V, j)]
      <4>1. /\ Q[Nth(V, i)] \in kept /\ U[i] = Rank(kept, Q[Nth(V, i)])
            /\ Q[Nth(V, j)] \in kept /\ U[j] = Rank(kept, Q[Nth(V, j)])
        BY <1>4a, <1>5
      <4> QED BY <1>7, <2>2, <4>1
    <3>2. Nth(V, i) = Nth(V, j) /\ Nth(V, i) \in Nat
      <4>1. Nth(V, i) \in 1..Len(Q) /\ Nth(V, j) \in 1..Len(Q)
        BY <1>4a, <1>5
      <4>2. \A x, y \in 1..Len(Q) : Q[x] = Q[y] => x = y
        BY <2>0
      <4>3. Nth(V, i) = Nth(V, j)
        BY <3>1, <4>1, <4>2
      <4>4. \A x \in 1..Len(Q) : x \in Nat
        BY <1>1
      <4> QED BY <4>1, <4>3, <4>4
    <3>3. ~(i < j) /\ ~(j < i)
      BY <1>4b, <3>2
    <3> QED BY <3>3
  <2>3. ASSUME NEW i \in 1..Len(R), NEW j \in 1..Len(U) PROVE R[i] # U[j]
    <3> SUFFICES ASSUME R[i] = U[j] PROVE FALSE
      OBVIOUS
    <3>1. P[Nth(T, i)] \in kept /\ Q[Nth(V, j)] \in kept /\ P[Nth(T, i)] = Q[Nth(V, j)]
      <4>1. /\ P[Nth(T, i)] \in kept /\ R[i] = Rank(kept, P[Nth(T, i)])
            /\ Q[Nth(V, j)] \in kept /\ U[j] = Rank(kept, Q[Nth(V, j)])
        BY <1>3a, <1>4a, <1>5
      <4> QED BY <1>7, <4>1
    <3>2. Nth(T, i) \in 1..Len(P) /\ Nth(V, j) \in 1..Len(Q)
      BY <1>3a, <1>4a, <1>5
    <3> QED BY <2>0, <3>1, <3>2
  <2> QED BY <2>1, <2>2, <2>3 DEF Once
<1> QED BY <1>2, <1>3, <1>4, <1>8, <1>9, <1>10

-----------------------------------------------------------------------------
(* The canonical form of a valid layout is well-formed. *)

Layout(S, M, P, Q) == [shape |-> S, mode_shape |-> M, spatial_modes |-> P, local_modes |-> Q]

Typed(S, M, P, Q) ==
  S \in Seq(Nat \ {0}) /\ M \in Seq(Nat \ {0}) /\ P \in Seq(Int \ {0}) /\ Q \in Seq(Nat \ {0})

\* Valid, and every mode is listed; a mode may be of size 1.
SoundLayout(S, M, P, Q) ==
  Typed(S, M, P, Q) /\ Splits(S, M) /\ Modal(M, P, Q) /\ Once(P, Q) /\ Covered(M, P, Q)

\* What validation says of the parts.
LEMMA ValidIs ==
  ASSUME NEW S, NEW M, NEW P, NEW Q, Typed(S, M, P, Q)
  PROVE  ValidateLayout(Layout(S, M, P, Q)) <=> Splits(S, M) /\ Modal(M, P, Q) /\ Once(P, Q)
<1> DEFINE L == P \o Q
<1>1. M \in Seq(Nat \ {0}) /\ P \in Seq(Int \ {0}) /\ Q \in Seq(Nat \ {0}) /\ L = P \o Q
  BY DEF Typed
<1>2. ValidateLayout(Layout(S, M, P, Q)) <=>
        /\ Splits(S, M)
        /\ \A i \in DOMAIN L : L[i] > 0 => L[i] \in DOMAIN M
        /\ \A i, j \in DOMAIN L : L[i] = L[j] /\ L[i] > 0 => i = j
  BY DEF ValidateLayout, Listed, Layout, Modes
<1> HIDE DEF L
<1> QED BY <1>1, <1>2, ListedIs

\* Well-formed is valid, with every mode listed and above 1.
LEMMA WellFormedIs ==
  ASSUME NEW S, NEW M, NEW P, NEW Q
  PROVE  WellFormedLayout(Layout(S, M, P, Q)) <=> SoundLayout(S, M, P, Q) /\ Sizes(M)
<1> DEFINE l == Layout(S, M, P, Q)
           L == P \o Q
<1>1. l \in [shape : Seq(Nat \ {0}), mode_shape : Seq(Nat \ {0, 1}),
             spatial_modes : Seq(Int \ {0}), local_modes : Seq(Nat \ {0})]
      <=> Typed(S, M, P, Q) /\ Sizes(M)
  <2>1. Sizes(M) => M \in Seq(Nat \ {0})
    BY SizesAre
  <2> QED BY <2>1 DEF Layout, Typed, Sizes
<1>2. ASSUME Typed(S, M, P, Q) PROVE Modes(l) \subseteq Range(Listed(l)) <=> Covered(M, P, Q)
  <2>1. M \in Seq(Nat \ {0}) /\ P \in Seq(Int \ {0}) /\ Q \in Seq(Nat \ {0}) /\ L = P \o Q
    BY <1>2 DEF Typed
  <2>2. Modes(l) = DOMAIN M /\ Listed(l) = L
    BY DEF Modes, Listed, Layout
  <2> HIDE DEF L, l
  <2> QED BY <2>1, <2>2, ListedIs
<1>3. ASSUME Typed(S, M, P, Q) PROVE ValidateLayout(l) <=> Splits(S, M) /\ Modal(M, P, Q) /\ Once(P, Q)
  BY <1>3, ValidIs
<1> HIDE DEF l
<1> QED BY <1>1, <1>2, <1>3 DEF WellFormedLayout, SoundLayout, l

\* Without sizes of 1 the products are the same.
LEMMA PrefixSifted ==
  ASSUME NEW M \in Seq(Nat \ {0}), NEW kept \in SUBSET (1..Len(M)), \A m \in 1..Len(M) : m \notin kept => M[m] = 1
  PROVE  \A m \in 0..Len(M) : Prefix(Sifted(M, kept), Rank(kept, m)) = Prefix(M, m)
<1> DEFINE n == Len(M)
           N == Sifted(M, kept)
           c == Cardinality(kept)
           T == {m \in 0..n : Prefix(N, Rank(kept, m)) = Prefix(M, m)}
<1>1. n \in Nat /\ kept \in SUBSET (1..n) /\ \A m \in 1..n : M[m] \in Nat \ {0}
  OBVIOUS
<1>2. /\ N \in Seq(Nat \ {0}) /\ Len(N) = c /\ c \in Nat
      /\ \A k \in kept : Rank(kept, k) \in 1..c /\ N[Rank(kept, k)] = M[k]
  BY <1>1, SiftedIs
<1>3. /\ Rank(kept, 0) = 0
      /\ \A k \in 0..n : Rank(kept, k) \in Nat
      /\ \A k \in 1..n : Rank(kept, k) = Rank(kept, k - 1) + (IF k \in kept THEN 1 ELSE 0)
  BY <1>1, RankStep
<1> HIDE DEF N
<1>4. Extents(N, c) /\ Extents(M, n)
  BY <1>2, SeqExtents
<1> HIDE DEF c, n
<1>5. 0 \in T
  <2>1. Prefix(N, 0) = 1 /\ Prefix(M, 0) = 1
    BY <1>4, PrefixIs
  <2> QED BY <1>1, <1>3, <2>1
<1>6. ASSUME NEW m \in 0..(n - 1), m \in T PROVE m + 1 \in T
  <2>1. m + 1 \in 1..n /\ (m + 1) - 1 = m /\ m \in 0..n /\ m + 1 \in 0..n
    BY <1>1
  <2>2. Prefix(M, m + 1) = Prefix(M, m) * M[m + 1] /\ Prefix(M, m) \in Nat \ {0}
    BY <1>4, <2>1, PrefixIs
  <2>3. Rank(kept, m + 1) = Rank(kept, m) + (IF m + 1 \in kept THEN 1 ELSE 0) /\ Rank(kept, m) \in Nat
    BY <1>3, <2>1
  <2>4. CASE m + 1 \in kept
    <3> DEFINE r == Rank(kept, m + 1)
    <3>1. r \in 1..c /\ N[r] = M[m + 1]
      BY <1>2, <2>4
    <3>a. r - 1 = Rank(kept, m)
      BY <2>3, <2>4
    <3> HIDE DEF r
    <3>2. Prefix(N, r) = Prefix(N, r - 1) * N[r]
      BY <1>4, <3>1, PrefixIs
    <3>3. Prefix(N, r) = Prefix(M, m + 1)
      BY <1>6, <2>2, <3>1, <3>a, <3>2
    <3> QED BY <2>1, <3>3 DEF r
  <2>5. CASE m + 1 \notin kept
    <3>1. M[m + 1] = 1
      BY <2>1, <2>5 DEF n
    <3>2. Prefix(M, m + 1) = Prefix(M, m)
      BY <2>2, <3>1
    <3>3. Rank(kept, m + 1) = Rank(kept, m)
      BY <2>3, <2>5
    <3> QED BY <1>6, <2>1, <3>2, <3>3
  <2> QED BY <2>4, <2>5
<1> HIDE DEF T
<1>7. \A m \in 0..n : m \in T
  BY <1>1, <1>5, <1>6, InductUpto
<1> QED BY <1>7 DEF T, N, n

\* canonicalize_singleton_modes leaves a valid layout with sizes above 1.
LEMMA SingletonsAre ==
  ASSUME NEW S, NEW M, NEW P, NEW Q, SoundLayout(S, M, P, Q)
  PROVE  \E N, R, U : /\ CanonicalizeSingletons(Layout(S, M, P, Q)) = Layout(S, N, R, U)
                      /\ SoundLayout(S, N, R, U) /\ Sizes(N)
<1> DEFINE kept == {m \in 1..Len(M) : M[m] > 1}
           N == Sifted(M, kept)
           R == KeptModes(P, kept)
           U == KeptModes(Q, kept)
           c == Cardinality(kept)
           l == Layout(S, M, P, Q)
<1>1. /\ S \in Seq(Nat \ {0}) /\ M \in Seq(Nat \ {0}) /\ P \in Seq(Int \ {0}) /\ Q \in Seq(Nat \ {0})
      /\ Splits(S, M) /\ Modal(M, P, Q) /\ Once(P, Q) /\ Covered(M, P, Q) /\ Len(M) \in Nat /\ DOMAIN M = 1..Len(M)
  BY DEF SoundLayout, Typed
<1>2. kept \in SUBSET (1..Len(M)) /\ {m \in Modes(l) : l.mode_shape[m] > 1} = kept
  BY <1>1 DEF Modes, Layout
<1>3. l.shape = S /\ M = l.mode_shape /\ P = l.spatial_modes /\ Q = l.local_modes
  BY DEF Layout
<1>4. \A m \in 0..Len(M) : Prefix(N, Rank(kept, m)) = Prefix(M, m)
  <2>1. \A m \in 1..Len(M) : m \notin kept => M[m] = 1
    <3>1. \A m \in 1..Len(M) : M[m] \in Nat \ {0}
      BY <1>1
    <3> QED BY <3>1
  <2> HIDE DEF kept
  <2> QED BY <1>1, <1>2, <2>1, PrefixSifted
<1>5. \A m \in kept : M[m] > 1 /\ M[m] \in Nat
  BY <1>1
<1> HIDE DEF kept, l
<1>6. CanonicalizeSingletons(l) = Layout(S, N, R, U)
  BY <1>1, <1>2, <1>3, KeepIs DEF CanonicalizeSingletons, Layout
<1>7. /\ N \in Seq(Nat \ {0}) /\ R \in Seq(Int \ {0}) /\ U \in Seq(Nat \ {0})
      /\ Modal(N, R, U) /\ Covered(N, R, U) /\ Once(R, U)
  <2>1. \A m \in kept : (\E i \in 1..Len(P) : P[i] = m) \/ (\E i \in 1..Len(Q) : Q[i] = m)
    BY <1>1, <1>2 DEF Covered
  <2>2. N = Sifted(M, kept) /\ R = KeptModes(P, kept) /\ U = KeptModes(Q, kept)
    OBVIOUS
  <2> HIDE DEF N, R, U
  <2>3. Kept(M, P, Q, kept, N, R, U)
    BY <1>1, <1>2, <2>1, <2>2 DEF Kept
  <2> QED BY <1>1, <2>3, KeptModal
<1>8. /\ Len(N) = c /\ c \in Nat
      /\ \A i \in 1..c : N[i] = M[Nth(kept, i)] /\ Nth(kept, i) \in kept
  BY <1>1, <1>2, SiftedIs, SMTT(40)
<1> HIDE DEF N, R, U, c
<1>9. Sizes(N)
  <2>1. \A i \in 1..c : N[i] \in Nat \ {0, 1}
    BY <1>5, <1>8
  <2>2. N = [i \in 1..c |-> N[i]]
    BY <1>7, <1>8
  <2>3. N \in [1..c -> Nat \ {0, 1}]
    BY <2>1, <2>2
  <2> QED BY <1>8, <2>3 DEF Sizes
<1>10. Splits(S, N)
  <2>1. Rank(kept, Len(M)) = c /\ \A m \in 0..Len(M) : Rank(kept, m) \in Nat
    BY <1>1, <1>2, RankStep DEF c
  <2>2. Product(N) = Product(M)
    <3>1. Len(M) \in 0..Len(M)
      BY <1>1
    <3> QED BY <1>4, <1>8, <2>1, <3>1 DEF Product
  <2>3. ASSUME NEW x \in Cuts(M) PROVE x \in Cuts(N)
    <3>1. PICK m \in 0..Len(M) : x = Prefix(M, m)
      BY DEF Cuts
    <3>2. Rank(kept, m) <= c
      <4>1. Len(M) \in 0..Len(M) /\ m <= Len(M)
        BY <1>1
      <4> QED BY <1>1, <1>2, <2>1, <4>1, RankOrder
    <3>3. Rank(kept, m) \in 0..Len(N) /\ x = Prefix(N, Rank(kept, m))
      BY <1>4, <1>8, <2>1, <3>1, <3>2
    <3> QED BY <3>3 DEF Cuts
  <2> QED BY <1>1, <2>2, <2>3 DEF Splits
<1>11. SoundLayout(S, N, R, U)
  BY <1>1, <1>7, <1>10 DEF SoundLayout, Typed
<1> QED BY <1>6, <1>9, <1>11 DEF l

\* The modes from m up to the next head, and their size together.
Run(n, H, m) == {k \in 1..n : k >= m /\ \A h \in H : h > m => k < h}
RunSize(M, H, m) == Product(SubSeq(M, m, m + Cardinality(Run(Len(M), H, m)) - 1))

\* A run begins with its mode.
LEMMA RunIs ==
  ASSUME NEW n \in Nat, NEW H \in SUBSET (1..n), NEW m \in 1..n
  PROVE  m + Cardinality(Run(n, H, m)) - 1 \in m..n
<1> DEFINE R == Run(n, H, m)
<1>1. R \in SUBSET (m..n)
  BY DEF Run
<1>2. m \in R
  <2>1. \A h \in H : h \in Nat
    OBVIOUS
  <2> QED BY <2>1 DEF Run
<1> HIDE DEF R
<1>3. IsFiniteSet(m..n) /\ Cardinality(m..n) = n - m + 1
  BY FS_Interval
<1>4. IsFiniteSet(R) /\ Cardinality(R) <= n - m + 1
  BY <1>1, <1>3, FS_Subset, ZenonT(60)
<1>5. Cardinality(R) \in Nat /\ Cardinality(R) # 0
  BY <1>2, <1>4, FS_CardinalityType, FS_EmptySet
<1>6. m + Cardinality(R) - 1 \in m..n
  BY <1>4, <1>5
<1> QED BY <1>6 DEF R

\* The run of a head is the modes up to the next head.
LEMMA RunOfHead ==
  ASSUME NEW n \in Nat, NEW H \in SUBSET (1..n), NEW i \in 1..Cardinality(H),
         NEW e, e = IF i = Cardinality(H) THEN n ELSE Nth(H, i + 1) - 1
  PROVE  /\ Nth(H, i) \in 1..n /\ e \in Nth(H, i)..n
         /\ Nth(H, i) + Cardinality(Run(n, H, Nth(H, i))) - 1 = e
<1> DEFINE c == Cardinality(H)
           h == Nth(H, i)
<1>0. c \in Nat /\ \A k \in H : k \in 1..n
  BY RankStep
<1>1. /\ \A j \in 1..c : Nth(H, j) \in H /\ Rank(H, Nth(H, j)) = j
      /\ \A j, k \in 1..c : j < k => Nth(H, j) < Nth(H, k)
  BY NthIs
<1>2. /\ \A k \in H : Rank(H, k) \in 1..c /\ Nth(H, Rank(H, k)) = k
      /\ \A j, k \in H : j < k => Rank(H, j) < Rank(H, k)
  BY RankIs, NthIs
<1>3. h \in H /\ h \in 1..n /\ Rank(H, h) = i
  BY <1>0, <1>1
<1>4. e \in h..n /\ \A k \in 1..n : k <= e <=> \A g \in H : g > h => k < g
  <2>1. CASE i = c
    <3>1. e = n
      BY <2>1
    <3>2. ASSUME NEW g \in H, g > h PROVE FALSE
      <4>1. Rank(H, h) < Rank(H, g) /\ Rank(H, g) \in 1..c
        BY <1>0, <1>2, <1>3, <3>2
      <4> QED BY <1>0, <1>3, <2>1, <4>1
    <3> QED BY <1>3, <3>1, <3>2
  <2>2. CASE i # c
    <3>1. i + 1 \in 1..c /\ i < i + 1 /\ i \in 1..c
      BY <1>0, <2>2
    <3> DEFINE g == Nth(H, i + 1)
    <3>2. g \in H /\ Rank(H, g) = i + 1 /\ h < g /\ g \in 1..n
      BY <1>0, <1>1, <3>1
    <3>3. e = g - 1
      BY <2>2
    <3> HIDE DEF g, h, c
    <3>4. ASSUME NEW f \in H, f > h PROVE g <= f
      <4>1. Rank(H, h) < Rank(H, f) /\ Rank(H, f) \in 1..c /\ f \in 1..n
        BY <1>0, <1>2, <1>3, <3>4
      <4>2. f < g => Rank(H, f) < i + 1
        BY <1>2, <3>2
      <4> QED BY <1>0, <1>3, <3>1, <3>2, <4>1, <4>2
    <3>5. ASSUME NEW k \in 1..n PROVE k <= e <=> \A f \in H : f > h => k < f
      <4>1. k <= e <=> k < g
        BY <3>2, <3>3
      <4>2. ASSUME k < g, NEW f \in H, f > h PROVE k < f
        BY <1>0, <3>2, <3>4, <4>2
      <4> QED BY <3>2, <4>1, <4>2
    <3>6. e \in h..n
      BY <1>3, <3>2, <3>3
    <3> QED BY <3>5, <3>6
  <2> QED BY <2>1, <2>2
<1> HIDE DEF h, c
<1>5. Run(n, H, h) = h..e
  <2>1. \A k \in h..e : k \in 1..n /\ k >= h /\ k <= e
    BY <1>3, <1>4
  <2>2. \A k \in 1..n : k >= h /\ k <= e => k \in h..e
    BY <1>3, <1>4
  <2> QED BY <1>4, <2>1, <2>2 DEF Run
<1>6. Cardinality(h..e) = e - h + 1
  <2>1. h \in Int /\ e \in Int /\ ~(h > e)
    BY <1>3, <1>4
  <2> QED BY <2>1, FS_Interval
<1>7. h + (e - h + 1) - 1 = e
  BY <1>3, <1>4
<1> QED BY <1>3, <1>4, <1>5, <1>6, <1>7 DEF h

\* Merged modes have the same products at the ends of their runs.
Merges(M, H, K) ==
  /\ Sizes(M) /\ H \in SUBSET (1..Len(M)) /\ (Len(M) > 0 => 1 \in H)
  /\ K = [m \in 1..Len(M) |-> RunSize(M, H, m)]

\* Merged modes are above 1.
LEMMA MergedSizes ==
  ASSUME NEW M, NEW H, NEW K, Merges(M, H, K)
  PROVE  K \in Seq(Nat \ {0}) /\ Len(K) = Len(M)
<1>1. /\ M \in Seq(Nat \ {0}) /\ H \in SUBSET (1..Len(M)) /\ Len(M) \in Nat
      /\ K = [m \in 1..Len(M) |-> RunSize(M, H, m)]
  BY SizesAre DEF Merges
<1>2. ASSUME NEW m \in 1..Len(M) PROVE RunSize(M, H, m) \in Nat \ {0}
  <2> DEFINE e == m + Cardinality(Run(Len(M), H, m)) - 1
             i == m - 1
  <2>1. e \in m..Len(M)
    BY <1>1, RunIs
  <2> HIDE DEF e
  <2>2. i \in 0..Len(M) /\ e \in i..Len(M) /\ i + 1 = m
    BY <1>1, <2>1
  <2> HIDE DEF i
  <2>3. Product(SubSeq(M, i + 1, e)) \in Nat \ {0}
    BY <1>1, <2>2, PartProduct
  <2> QED BY <2>2, <2>3 DEF RunSize, e
<1>3. K \in [1..Len(M) -> Nat \ {0}]
  BY <1>1, <1>2
<1> QED BY <1>1, <1>3

\* The products of the heads are those of the modes before the next head.
LEMMA MergedPrefix ==
  ASSUME NEW M, NEW H, NEW K, Merges(M, H, K), NEW N, N = Sifted(K, H)
  PROVE  /\ Sizes(N) /\ Len(N) = Cardinality(H)
         /\ Prefix(N, Len(N)) = Prefix(M, Len(M))
         /\ \A m \in 0..(Len(M) - 1) : m + 1 \in H =>
              Rank(H, m) \in 0..Len(N) /\ Prefix(N, Rank(H, m)) = Prefix(M, m)
<1> DEFINE n == Len(M)
           c == Cardinality(H)
           End(i) == IF i = c THEN n ELSE Nth(H, i + 1) - 1
<1>1. /\ M \in Seq(Nat \ {0}) /\ Sizes(M) /\ H \in SUBSET (1..n) /\ n \in Nat /\ (n > 0 => 1 \in H)
      /\ K = [m \in 1..n |-> RunSize(M, H, m)]
  BY SizesAre DEF Merges
<1>2. K \in Seq(Nat \ {0}) /\ Len(K) = n
  BY MergedSizes
<1>3. /\ N \in Seq(Nat \ {0}) /\ Len(N) = c /\ c \in Nat
      /\ \A i \in 1..c : N[i] = K[Nth(H, i)] /\ Nth(H, i) \in H
  <2> DEFINE X == Nat \ {0}
  <2>1. H \in SUBSET (1..Len(K)) /\ N = Sifted(K, H)
    BY <1>1, <1>2
  <2>2. K \in Seq(X)
    BY <1>2
  <2> HIDE DEF X
  <2>3. N \in Seq(X) /\ Len(N) = c /\ c \in Nat /\ \A i \in 1..c : N[i] = K[Nth(H, i)] /\ Nth(H, i) \in H
    BY <2>1, <2>2, SiftedIs
  <2> QED BY <2>3 DEF X
<1>4. /\ Rank(H, 0) = 0
      /\ \A k \in 0..n : Rank(H, k) \in Nat
      /\ \A k \in 1..n : Rank(H, k) = Rank(H, k - 1) + (IF k \in H THEN 1 ELSE 0)
  BY <1>1, RankStep
<1>5. \A k \in H : k \in 1..n /\ Rank(H, k) \in 1..c /\ Nth(H, Rank(H, k)) = k
  BY <1>1, RankIs, NthIs
<1>6. ASSUME NEW i \in 1..c
      PROVE  /\ Nth(H, i) \in 1..n /\ End(i) \in Nth(H, i)..n /\ End(i - 1) = Nth(H, i) - 1
             /\ N[i] \in Nat \ {0, 1} /\ Prefix(M, End(i)) = Prefix(M, End(i - 1)) * N[i]
  <2> DEFINE h == Nth(H, i)
             e == End(i)
             k == h - 1
  <2>1. h \in 1..n /\ e \in h..n /\ h + Cardinality(Run(n, H, h)) - 1 = e
    BY <1>1, RunOfHead
  <2>2. End(i - 1) = h - 1
    BY <1>3
  <2>3. N[i] = K[h]
    BY <1>3
  <2> HIDE DEF h, e
  <2>4. K[h] = Product(SubSeq(M, h, e))
    BY <1>1, <2>1 DEF RunSize
  <2>5. k \in 0..n /\ e \in k..n /\ k + 1 = h /\ k < e /\ e \in 0..n
    BY <1>1, <2>1
  <2> HIDE DEF k
  <2>6. /\ Product(SubSeq(M, k + 1, e)) \in Nat \ {0}
        /\ Prefix(M, e) = Prefix(M, k) * Product(SubSeq(M, k + 1, e))
    BY <1>1, <2>5, PartProduct
  <2>7. N[i] \in Nat \ {0} /\ Prefix(M, e) = Prefix(M, k) * N[i]
    BY <2>3, <2>4, <2>5, <2>6
  <2>8. Prefix(M, k) < Prefix(M, e) /\ Prefix(M, k) \in Nat \ {0}
    BY <1>1, <2>5, SizesGrow
  <2>9. N[i] # 1
    BY <2>7, <2>8
  <2> QED BY <2>1, <2>2, <2>5, <2>7, <2>9 DEF h, e, k
<1>7. End(0) = 0 /\ End(c) = n
  <2>1. CASE n = 0
    <3>1. c = 0
      <4>1. \A i \in 1..c : FALSE
        BY <1>6, <2>1
      <4> QED BY <1>3, <4>1
    <3> QED BY <2>1, <3>1
  <2>2. CASE n # 0
    <3>1. 1 \in H /\ 1 \in 1..n
      BY <1>1, <2>2
    <3>2. Rank(H, 1) = 1
      <4>1. Rank(H, 1) = Rank(H, 1 - 1) + 1
        BY <1>4, <3>1
      <4> QED BY <1>4, <4>1
    <3>3. 1 \in 1..c /\ Nth(H, 1) = 1
      BY <1>5, <3>1, <3>2
    <3> QED BY <1>3, <3>3
  <2> QED BY <2>1, <2>2
<1>8. Extents(N, c) /\ Extents(M, n)
  BY <1>1, <1>3, SeqExtents
<1> DEFINE T == {i \in 0..c : Prefix(N, i) = Prefix(M, End(i))}
<1>9. 0 \in T
  <2>1. Prefix(N, 0) = 1 /\ Prefix(M, 0) = 1
    BY <1>8, PrefixIs
  <2> HIDE DEF End
  <2> QED BY <1>3, <1>7, <2>1
<1>10. ASSUME NEW i \in 0..(c - 1), i \in T PROVE i + 1 \in T
  <2> HIDE DEF End, c
  <2>1. i + 1 \in 1..c /\ (i + 1) - 1 = i /\ i + 1 \in 0..c
    BY <1>3
  <2>2. Prefix(N, i + 1) = Prefix(N, i) * N[i + 1]
    BY <1>8, <2>1, PrefixIs
  <2>3. Prefix(M, End(i + 1)) = Prefix(M, End(i)) * N[i + 1]
    BY <1>6, <2>1
  <2> QED BY <1>10, <2>1, <2>2, <2>3
<1> HIDE DEF T
<1>11. \A i \in 0..c : i \in T
  BY <1>3, <1>9, <1>10, InductUpto
<1>12. \A i \in 0..c : Prefix(N, i) = Prefix(M, End(i))
  BY <1>11 DEF T
<1>13. Sizes(N)
  <2>1. N = [i \in 1..c |-> N[i]]
    BY <1>3
  <2>2. N \in [1..c -> Nat \ {0, 1}]
    BY <1>6, <2>1
  <2> QED BY <1>3, <2>2 DEF Sizes
<1>14. Prefix(N, c) = Prefix(M, n)
  <2>1. c \in 0..c
    BY <1>3
  <2> QED BY <1>7, <1>12, <2>1
<1>15. ASSUME NEW m \in 0..(n - 1), m + 1 \in H
       PROVE  Rank(H, m) \in 0..c /\ Prefix(N, Rank(H, m)) = Prefix(M, m)
  <2> DEFINE i == Rank(H, m)
  <2>1. m + 1 \in 1..n /\ (m + 1) - 1 = m /\ m \in 0..n
    BY <1>1
  <2>2. Rank(H, m + 1) = i + 1 /\ i \in Nat
    BY <1>4, <1>15, <2>1
  <2>3. i + 1 \in 1..c /\ Nth(H, i + 1) = m + 1
    BY <1>5, <1>15, <2>2
  <2> HIDE DEF i, c
  <2>4. i \in 0..c /\ i # c
    BY <1>3, <2>2, <2>3
  <2>5. End(i) = m
    BY <2>1, <2>3, <2>4
  <2> HIDE DEF End
  <2>6. i \in 0..c /\ Prefix(N, i) = Prefix(M, m)
    BY <1>12, <2>4, <2>5
  <2> QED BY <2>6 DEF i
<1> QED BY <1>3, <1>13, <1>14, <1>15

\* The dimensions of a shape begin where no mode follows.
LEMMA DimensionsBegin ==
  ASSUME NEW S, NEW M, Shaped(S, M), NEW u, u = Upto(S, M), NEW G, G = GetModeGroups(S, M), NEW d \in 0..Len(S)
  PROVE  \A e \in DOMAIN S : ~({u[d], u[d] + 1} \subseteq Range(G[e]))
<1>1. Grouped(S, M, u, G)
  BY GroupsAre
<1>2. /\ G \in Seq(Seq(1..Len(M))) /\ Len(G) = Len(S) /\ DOMAIN S = 1..Len(S) /\ Offsets(u, G)
      /\ \A e \in 1..Len(S) : /\ DOMAIN G[e] = 1..Len(G[e]) /\ Len(G[e]) \in Nat
                             /\ \A i \in 1..Len(G[e]) : G[e][i] = u[e - 1] + i
  BY <1>1 DEF Grouped
<1>3. /\ \A c \in 0..Len(S) : u[c] \in Nat
      /\ \A e \in 1..Len(S) : u[e] = u[e - 1] + Len(G[e])
      /\ Len(S) \in Nat
      /\ \A b, c \in 0..Len(S) : b <= c => u[b] <= u[c]
  BY <1>2, OffsetsAre
<1> SUFFICES ASSUME NEW e \in 1..Len(S), {u[d], u[d] + 1} \subseteq Range(G[e]) PROVE FALSE
  BY <1>2
<1>r. /\ \E i \in 1..Len(G[e]) : u[d] = G[e][i]
      /\ \E i \in 1..Len(G[e]) : u[d] + 1 = G[e][i]
  <2>1. u[d] \in Range(G[e]) /\ u[d] + 1 \in Range(G[e]) /\ DOMAIN G[e] = 1..Len(G[e])
    BY <1>2
  <2> QED BY <2>1 DEF Range
<1>4. PICK i \in 1..Len(G[e]) : u[d] = u[e - 1] + i
  BY <1>2, <1>r
<1>5. PICK j \in 1..Len(G[e]) : u[d] + 1 = u[e - 1] + j
  BY <1>2, <1>r, SMTT(40)
<1>6. e - 1 \in 0..Len(S) /\ e \in 0..Len(S)
  BY <1>3
<1> DEFINE a == u[e - 1]
           b == u[d]
           k == Len(G[e])
<1>7. a \in Nat /\ b \in Nat /\ k \in Nat /\ b = a + i /\ b + 1 = a + j /\ u[e] = a + k
  BY <1>2, <1>3, <1>4, <1>5, <1>6
<1>8. d <= e - 1 => b <= a
  BY <1>3, <1>6
<1>9. ~(d <= e - 1) => a + k <= b
  <2>1. ~(d <= e - 1) => e <= d
    BY <1>3
  <2> QED BY <1>3, <1>6, <1>7, <2>1
<1> HIDE DEF a, b, k
<1>10. i \in 1..k /\ j \in 1..k
  BY DEF k
<1> QED BY <1>7, <1>8, <1>9, <1>10

\* Merging within the dimensions splits the shape still.
LEMMA MergedSplits ==
  ASSUME NEW S, NEW M, Shaped(S, M), Splits(S, M), NEW H, NEW K, Merges(M, H, K), NEW N, N = Sifted(K, H),
         \A d \in 0..Len(S) : Upto(S, M)[d] < Len(M) => Upto(S, M)[d] + 1 \in H
  PROVE  Splits(S, N)
<1> DEFINE u == Upto(S, M)
<1>1. /\ Sizes(N) /\ Len(N) \in Nat /\ Prefix(N, Len(N)) = Prefix(M, Len(M))
      /\ \A m \in 0..(Len(M) - 1) : m + 1 \in H =>
           Rank(H, m) \in 0..Len(N) /\ Prefix(N, Rank(H, m)) = Prefix(M, m)
  BY MergedPrefix, SizesAre
<1>2. Product(S) = Product(N)
  BY <1>1 DEF Shaped, Product
<1>3. ASSUME NEW d \in 0..Len(S) PROVE Prefix(S, d) \in Cuts(N)
  <2>1. u[d] \in 0..Len(M) /\ Prefix(M, u[d]) = Prefix(S, d)
    BY UptoCut
  <2>2. Len(M) \in Nat
    BY SizesAre DEF Shaped
  <2>3. u[d] < Len(M) => u[d] + 1 \in H
    OBVIOUS
  <2> HIDE DEF u
  <2>4. CASE u[d] = Len(M)
    <3>1. Len(N) \in 0..Len(N)
      BY <1>1
    <3>2. Prefix(S, d) = Prefix(N, Len(N))
      BY <1>1, <2>1, <2>4
    <3> QED BY <3>1, <3>2 DEF Cuts
  <2>5. CASE u[d] # Len(M)
    <3>1. u[d] \in 0..(Len(M) - 1) /\ u[d] < Len(M)
      BY <2>1, <2>2, <2>5
    <3>2. Rank(H, u[d]) \in 0..Len(N) /\ Prefix(N, Rank(H, u[d])) = Prefix(S, d)
      BY <1>1, <2>1, <2>3, <3>1
    <3> QED BY <3>2 DEF Cuts
  <2> QED BY <2>4, <2>5
<1>4. Cuts(S) \subseteq Cuts(N)
  BY <1>3 DEF Cuts
<1> QED BY <1>2, <1>4 DEF Splits

\* canonicalize_contiguous_modes leaves a valid layout with sizes above 1.
LEMMA ContiguousAre ==
  ASSUME NEW S, NEW M, NEW P, NEW Q, SoundLayout(S, M, P, Q), Sizes(M)
  PROVE  \E N, R, U : /\ CanonicalizeContiguous(Layout(S, M, P, Q)) = Layout(S, N, R, U)
                      /\ SoundLayout(S, N, R, U) /\ Sizes(N)
<1> DEFINE l == Layout(S, M, P, Q)
           n == Len(M)
           G == GetModeGroups(S, M)
           u == Upto(S, M)
           H == {m \in 1..n : ~Follows(l, m)}
           K == [m \in 1..n |-> RunSize(M, H, m)]
           N == Sifted(K, H)
           R == KeptModes(P, H)
           U == KeptModes(Q, H)
<1>1. /\ S \in Seq(Nat \ {0}) /\ M \in Seq(Nat \ {0}) /\ P \in Seq(Int \ {0}) /\ Q \in Seq(Nat \ {0})
      /\ Splits(S, M) /\ Modal(M, P, Q) /\ Once(P, Q) /\ Covered(M, P, Q) /\ n \in Nat /\ DOMAIN M = 1..n
      /\ Shaped(S, M)
  BY DEF SoundLayout, Typed, Shaped, Splits
<1>2. l.shape = S /\ l.mode_shape = M /\ l.spatial_modes = P /\ l.local_modes = Q /\ Modes(l) = 1..n /\ Groups(l) = G
  BY <1>1 DEF Layout, Modes, Groups
<1>3. Grouped(S, M, u, G)
  BY <1>1, GroupsAre
<1>4. \A e \in DOMAIN S : Range(G[e]) \subseteq 1..n
  <2> HIDE DEF G, u
  <2>1. /\ DOMAIN S = 1..Len(S)
        /\ \A e \in 1..Len(S) : DOMAIN G[e] = 1..Len(G[e]) /\ \A i \in 1..Len(G[e]) : G[e][i] \in 1..n
    BY <1>3 DEF Grouped
  <2> QED BY <2>1 DEF Range
<1>5. ASSUME NEW m, Follows(l, m) PROVE \E e \in DOMAIN S : {m - 1, m} \subseteq Range(G[e])
  BY <1>2, <1>5 DEF Follows
<1> HIDE DEF l
<1>6. n > 0 => 1 \in H
  <2> SUFFICES ASSUME n > 0, Follows(l, 1) PROVE FALSE
    BY <1>1
  <2>1. PICK e \in DOMAIN S : {1 - 1, 1} \subseteq Range(G[e])
    BY <1>5
  <2>2. 1 - 1 \in 1..n
    BY <1>4, <2>1
  <2> QED BY <1>1, <2>2
<1>7. Merges(M, H, K)
  BY <1>1, <1>6 DEF Merges
<1>8. ASSUME NEW d \in 0..Len(S), u[d] < n PROVE u[d] + 1 \in H
  <2>1. u[d] \in 0..n
    BY <1>1, UptoCut
  <2>2. u[d] + 1 \in 1..n /\ (u[d] + 1) - 1 = u[d]
    <3> DEFINE a == u[d]
    <3>1. a \in 0..n /\ a < n /\ n \in Nat
      BY <1>1, <1>8, <2>1
    <3> HIDE DEF a, n
    <3>2. a + 1 \in 1..n /\ (a + 1) - 1 = a
      BY <3>1
    <3> QED BY <3>2 DEF a
  <2>3. \A e \in DOMAIN S : ~({u[d], u[d] + 1} \subseteq Range(G[e]))
    <3> HIDE DEF n, H, K, N, R, U
    <3>1. Shaped(S, M)
      BY <1>1
    <3> QED BY <3>1, DimensionsBegin, SMTT(30)
  <2>4. ~Follows(l, u[d] + 1)
    <3> HIDE DEF u, G
    <3> QED BY <1>5, <2>2, <2>3
  <2> HIDE DEF u
  <2> QED BY <2>2, <2>4
<1>9. K \in Seq(Nat \ {0}) /\ Len(K) = n
  BY <1>7, MergedSizes
<1>10. Sizes(N) /\ Splits(S, N)
  <2> HIDE DEF H, K, n
  <2>1. Sizes(N)
    BY <1>7, MergedPrefix
  <2>2. \A d \in 0..Len(S) : Upto(S, M)[d] < Len(M) => Upto(S, M)[d] + 1 \in H
    BY <1>8 DEF n
  <2>3. N = Sifted(K, H)
    OBVIOUS
  <2> HIDE DEF N
  <2>4. Splits(S, N)
    BY <1>1, <1>7, <2>2, <2>3, MergedSplits
  <2> QED BY <2>1, <2>4
<1>11. H \in SUBSET (1..n)
  OBVIOUS
<1>12. CanonicalizeContiguous(l) = Keep([l EXCEPT !.mode_shape = K], H)
  <2>1. \A m \in 1..n : RunSize(M, H, m) =
          Product(SubSeq(M, m, m + Cardinality({k \in 1..n : k >= m /\ \A h \in H : h > m => k < h}) - 1))
    BY DEF RunSize, Run
  <2>2. CanonicalizeContiguous(l) =
          Keep([l EXCEPT !.mode_shape =
            [m \in 1..n |-> Product(SubSeq(M, m, m + Cardinality({k \in 1..n : k >= m /\ \A h \in H : h > m => k < h}) - 1))]], H)
    BY <1>2 DEF CanonicalizeContiguous
  <2> HIDE DEF H, n
  <2> QED BY <2>1, <2>2
<1>13. [l EXCEPT !.mode_shape = K] = Layout(S, K, P, Q)
  <2> HIDE DEF K
  <2> QED BY DEF l, Layout
<1> HIDE DEF H, K
<1>14. Keep(Layout(S, K, P, Q), H) = Layout(S, N, R, U)
  <2> DEFINE k == Layout(S, K, P, Q)
  <2>1. K = k.mode_shape /\ P = k.spatial_modes /\ Q = k.local_modes /\ k.shape = S
    BY DEF Layout
  <2>2. H \in SUBSET (1..Len(K))
    BY <1>9, <1>11
  <2> HIDE DEF k, n
  <2>3. Keep(k, H) = [shape |-> k.shape, mode_shape |-> Sifted(K, H),
                      spatial_modes |-> KeptModes(P, H), local_modes |-> KeptModes(Q, H)]
    BY <1>1, <1>9, <2>1, <2>2, KeepIs
  <2> QED BY <2>1, <2>3 DEF k, Layout
<1>15. /\ N \in Seq(Nat \ {0}) /\ R \in Seq(Int \ {0}) /\ U \in Seq(Nat \ {0})
       /\ Modal(N, R, U) /\ Covered(N, R, U) /\ Once(R, U)
  <2>1. \A m \in H : (\E i \in 1..Len(P) : P[i] = m) \/ (\E i \in 1..Len(Q) : Q[i] = m)
    BY <1>1, <1>11 DEF Covered
  <2>2. N = Sifted(K, H) /\ R = KeptModes(P, H) /\ U = KeptModes(Q, H)
    OBVIOUS
  <2> HIDE DEF N, R, U
  <2>3. Kept(K, P, Q, H, N, R, U)
    BY <1>1, <1>9, <1>11, <2>1, <2>2 DEF Kept
  <2> QED BY <1>1, <2>3, KeptModal
<1> HIDE DEF N, R, U
<1>16. SoundLayout(S, N, R, U)
  BY <1>1, <1>10, <1>15 DEF SoundLayout, Typed
<1>17. CanonicalizeContiguous(l) = Layout(S, N, R, U)
  BY <1>12, <1>13, <1>14
<1> QED BY <1>10, <1>16, <1>17 DEF l

\* The canonical form of a valid layout is well-formed.
LEMMA CanonicalIs ==
  ASSUME NEW S, NEW M, NEW P, NEW Q, SoundLayout(S, M, P, Q)
  PROVE  \E N, R, U : /\ CanonicalizeLayout(Layout(S, M, P, Q)) = Layout(S, N, R, U)
                      /\ SoundLayout(S, N, R, U) /\ Sizes(N)
<1>1. PICK M1, P1, Q1 : /\ CanonicalizeSingletons(Layout(S, M, P, Q)) = Layout(S, M1, P1, Q1)
                        /\ SoundLayout(S, M1, P1, Q1) /\ Sizes(M1)
  BY SingletonsAre
<1>2. CanonicalizeLayout(Layout(S, M, P, Q)) = CanonicalizeContiguous(Layout(S, M1, P1, Q1))
  BY <1>1 DEF CanonicalizeLayout, With
<1> QED BY <1>1, <1>2, ContiguousAre

\* register_layout makes a well-formed layout whenever it does not raise.
LEMMA RegisterLayoutIs ==
  ASSUME NEW S, NEW M, NEW P, NEW Q, Typed(S, M, P, Q), Covered(M, P, Q)
  PROVE  /\ RegisterLayout(S, M, P, Q) # Raise => WellFormedLayout(RegisterLayout(S, M, P, Q)) /\ RegisterLayout(S, M, P, Q).shape = S
         /\ Splits(S, M) /\ Modal(M, P, Q) /\ Once(P, Q) => WellFormedLayout(RegisterLayout(S, M, P, Q)) /\ RegisterLayout(S, M, P, Q).shape = S
<1> DEFINE l == Layout(S, M, P, Q)
<1>1. RegisterLayout(S, M, P, Q) = IF ValidateLayout(l) THEN CanonicalizeLayout(l) ELSE Raise
  BY DEF RegisterLayout, With, Layout
<1>2. ValidateLayout(l) <=> Splits(S, M) /\ Modal(M, P, Q) /\ Once(P, Q)
  BY ValidIs
<1>3. ASSUME Splits(S, M), Modal(M, P, Q), Once(P, Q)
      PROVE  WellFormedLayout(CanonicalizeLayout(l)) /\ CanonicalizeLayout(l).shape = S
  <2>1. SoundLayout(S, M, P, Q)
    BY <1>3 DEF SoundLayout
  <2>2. PICK N, R, U : CanonicalizeLayout(l) = Layout(S, N, R, U) /\ SoundLayout(S, N, R, U) /\ Sizes(N)
    BY <2>1, CanonicalIs
  <2>3. WellFormedLayout(Layout(S, N, R, U)) /\ Layout(S, N, R, U).shape = S
    BY <2>2, WellFormedIs DEF Layout
  <2> QED BY <2>2, <2>3
<1> HIDE DEF l
<1> QED BY <1>1, <1>2, <1>3

-----------------------------------------------------------------------------
(* The operations: each keeps a layout well-formed, where it has a result. *)

\* A layout is its four parts.
LEMMA LayoutOf ==
  ASSUME NEW l, WellFormedLayout(l), NEW S, NEW M, NEW P, NEW Q,
         S = l.shape, M = l.mode_shape, P = l.spatial_modes, Q = l.local_modes
  PROVE  l = Layout(S, M, P, Q) /\ SoundLayout(S, M, P, Q) /\ Sizes(M)
<1>1. l = Layout(S, M, P, Q)
  BY DEF WellFormedLayout, Layout
<1> QED BY <1>1, WellFormedIs

\* What a layout is made of, one fact at a time.
LEMMA SoundIs ==
  ASSUME NEW S, NEW M, NEW P, NEW Q, SoundLayout(S, M, P, Q)
  PROVE  /\ S \in Seq(Nat \ {0}) /\ M \in Seq(Nat \ {0}) /\ P \in Seq(Int \ {0}) /\ Q \in Seq(Nat \ {0})
         /\ Q \in Seq(Int \ {0})
         /\ DOMAIN S = 1..Len(S) /\ DOMAIN M = 1..Len(M) /\ DOMAIN P = 1..Len(P) /\ DOMAIN Q = 1..Len(Q)
         /\ Len(S) \in Nat /\ Len(M) \in Nat /\ Len(P) \in Nat /\ Len(Q) \in Nat
         /\ Splits(S, M) /\ Modal(M, P, Q) /\ Once(P, Q) /\ Covered(M, P, Q)
<1>1. S \in Seq(Nat \ {0}) /\ M \in Seq(Nat \ {0}) /\ P \in Seq(Int \ {0}) /\ Q \in Seq(Nat \ {0})
  BY DEF SoundLayout, Typed
<1> QED BY <1>1 DEF SoundLayout

\* Another shape with the same products.
LEMMA WithShapeIs ==
  ASSUME NEW l, WellFormedLayout(l), NEW S \in Seq(Nat \ {0}), Splits(S, l.mode_shape)
  PROVE  WellFormedLayout(WithShape(l, S)) /\ WithShape(l, S).shape = S
<1> DEFINE M == l.mode_shape
           P == l.spatial_modes
           Q == l.local_modes
<1>1. l = Layout(l.shape, M, P, Q) /\ SoundLayout(l.shape, M, P, Q) /\ Sizes(M)
  BY LayoutOf
<1>2. WithShape(l, S) = Layout(S, M, P, Q)
  BY <1>1 DEF WithShape, Layout
<1> HIDE DEF M, P, Q
<1>3. SoundLayout(S, M, P, Q)
  BY <1>1 DEF SoundLayout, Typed, M
<1> QED BY <1>1, <1>2, <1>3, WellFormedIs DEF Layout

\* Dimensions of size 1 in front change no product.
LEMMA OnesBefore ==
  ASSUME NEW S \in Seq(Nat \ {0}), NEW n \in Nat, NEW R, R = [i \in 1..n |-> 1] \o S
  PROVE  /\ R \in Seq(Nat \ {0}) /\ Len(R) = n + Len(S)
         /\ \A i \in 1..n : R[i] = 1
         /\ \A i \in 1..Len(S) : R[n + i] = S[i]
         /\ Product(R) = Product(S) /\ Cuts(R) = Cuts(S)
<1> DEFINE ones == [i \in 1..n |-> 1]
           s == Len(S)
<1>1. ones \in Seq(Nat \ {0}) /\ Len(ones) = n /\ \A i \in 1..n : ones[i] = 1
  <2>1. ones \in [1..n -> Nat \ {0}]
    OBVIOUS
  <2> QED BY <2>1
<1> HIDE DEF ones
<1>2. /\ R \in Seq(Nat \ {0}) /\ Len(R) = n + s /\ s \in Nat
      /\ \A i \in 1..n : R[i] = 1
      /\ \A i \in 1..s : R[n + i] = S[i]
  <2>1. R = ones \o S
    BY DEF ones
  <2>2. /\ ones \o S \in Seq(Nat \ {0}) /\ Len(ones \o S) = Len(ones) + Len(S) /\ Len(S) \in Nat
        /\ \A i \in 1..Len(ones) : (ones \o S)[i] = ones[i]
        /\ \A i \in 1..Len(S) : (ones \o S)[Len(ones) + i] = S[i]
    <3>1. ones \in Seq(Nat \ {0}) /\ S \in Seq(Nat \ {0})
      BY <1>1
    <3> HIDE DEF s
    <3> QED BY <3>1, JoinIs
  <2> QED BY <1>1, <2>1, <2>2
<1> HIDE DEF s
<1>3. Extents(R, n + s)
  BY <1>2, SeqExtents
<1>4. \A i \in 0..n : Prefix(R, i) = 1
  <2> DEFINE T == {i \in 0..n : Prefix(R, i) = 1}
  <2>1. 0 \in T
    BY <1>3, PrefixIs
  <2>2. ASSUME NEW i \in 0..(n - 1), i \in T PROVE i + 1 \in T
    <3>1. i + 1 \in 1..n /\ i + 1 \in 1..(n + s) /\ (i + 1) - 1 = i /\ i + 1 \in 0..n
      BY <1>2
    <3>2. Prefix(R, i + 1) = Prefix(R, (i + 1) - 1) * R[i + 1]
      BY <1>3, <3>1, PrefixIs
    <3> QED BY <1>2, <2>2, <3>1, <3>2
  <2> HIDE DEF T
  <2>3. \A i \in 0..n : i \in T
    BY <2>1, <2>2, InductUpto
  <2> QED BY <2>3 DEF T
<1>5. Part(S, R, n, s)
  BY <1>2, <1>3 DEF Part
<1>6. ASSUME NEW i \in 0..s PROVE Prefix(R, n + i) = Prefix(S, i)
  <2>1. Prefix(R, n + i) = Prefix(R, n) * Prefix(S, i) /\ Prefix(S, i) \in Nat \ {0}
    BY <1>5, PartPrefix, PrefixIs
  <2>2. Prefix(R, n) = 1
    <3>1. n \in 0..n
      OBVIOUS
    <3> QED BY <1>4, <3>1
  <2> DEFINE p == Prefix(S, i)
  <2>3. p \in Nat /\ Prefix(R, n + i) = 1 * p
    BY <2>1, <2>2
  <2> HIDE DEF p
  <2>4. Prefix(R, n + i) = p
    BY <2>3
  <2> QED BY <2>4 DEF p
<1>7. Product(R) = Product(S)
  <2>1. s \in 0..s
    BY <1>2
  <2> QED BY <1>2, <1>6, <2>1 DEF Product, s
<1>8. Cuts(R) = Cuts(S)
  <2>1. ASSUME NEW i \in 0..(n + s) PROVE Prefix(R, i) \in Cuts(S)
    <3>1. CASE i <= n
      <4>1. i \in 0..n /\ 0 \in 0..s
        BY <1>2, <3>1
      <4>2. Extents(S, s)
        BY SeqExtents DEF s
      <4>3. Prefix(S, 0) = 1
        BY <4>2, PrefixIs
      <4> QED BY <1>4, <4>1, <4>3 DEF Cuts, s
    <3>2. CASE ~(i <= n)
      <4>1. i - n \in 0..s /\ n + (i - n) = i
        BY <1>2, <3>2
      <4>2. Prefix(R, i) = Prefix(S, i - n)
        BY <1>6, <4>1
      <4> QED BY <4>1, <4>2 DEF Cuts, s
    <3> QED BY <3>1, <3>2
  <2>2. ASSUME NEW i \in 0..s PROVE Prefix(S, i) \in Cuts(R)
    <3>1. n + i \in 0..(n + s)
      BY <1>2
    <3> QED BY <1>2, <1>6, <3>1 DEF Cuts
  <2>3. Cuts(R) = {Prefix(R, i) : i \in 0..(n + s)} /\ Cuts(S) = {Prefix(S, i) : i \in 0..s}
    BY <1>2 DEF Cuts, s
  <2> QED BY <2>1, <2>2, <2>3
<1> QED BY <1>2, <1>7, <1>8 DEF s

\* unsqueeze keeps a layout well-formed.
LEMMA UnsqueezeIs ==
  ASSUME NEW l, WellFormedLayout(l), NEW n \in Nat
  PROVE  WellFormedLayout(Unsqueeze(l, n)) /\ Len(Unsqueeze(l, n).shape) = n + Len(l.shape)
<1> DEFINE S == l.shape
           R == [i \in 1..n |-> 1] \o S
<1>1. S \in Seq(Nat \ {0}) /\ Splits(S, l.mode_shape)
  BY DEF WellFormedLayout, ValidateLayout
<1>2. R \in Seq(Nat \ {0}) /\ Len(R) = n + Len(S) /\ Product(R) = Product(S) /\ Cuts(R) = Cuts(S)
  <2>1. R = [i \in 1..n |-> 1] \o S
    OBVIOUS
  <2> HIDE DEF R, S
  <2> QED BY <1>1, <2>1, OnesBefore
<1>3. Unsqueeze(l, n) = WithShape(l, R)
  BY DEF Unsqueeze
<1> HIDE DEF R
<1>4. Splits(R, l.mode_shape)
  BY <1>1, <1>2 DEF Splits
<1> QED BY <1>2, <1>3, <1>4, WithShapeIs

\* A layout and another one get as many dimensions.
LEMMA AlignedIs ==
  ASSUME NEW a, NEW b, WellFormedLayout(a), WellFormedLayout(b)
  PROVE  /\ WellFormedLayout(Aligned(a, b)) /\ WellFormedLayout(Aligned(b, a))
         /\ Len(Aligned(a, b).shape) = Len(Aligned(b, a).shape)
         /\ Len(a.shape) >= Len(b.shape) => Len(Aligned(b, a).shape) = Len(a.shape)
<1> DEFINE p == Len(a.shape)
           q == Len(b.shape)
           i == IF q > p THEN q - p ELSE 0
           j == IF p > q THEN p - q ELSE 0
<1>1. p \in Nat /\ q \in Nat
  BY DEF WellFormedLayout
<1>2. Aligned(a, b) = Unsqueeze(a, i) /\ Aligned(b, a) = Unsqueeze(b, j)
  BY DEF Aligned
<1> HIDE DEF p, q
<1>3. i \in Nat /\ j \in Nat /\ i + p = j + q /\ (p >= q => j + q = p)
  BY <1>1
<1> HIDE DEF i, j
<1>4. /\ WellFormedLayout(Unsqueeze(a, i)) /\ Len(Unsqueeze(a, i).shape) = i + p
      /\ WellFormedLayout(Unsqueeze(b, j)) /\ Len(Unsqueeze(b, j).shape) = j + q
  BY <1>3, UnsqueezeIs DEF p, q
<1>5. Len(Unsqueeze(a, i).shape) = Len(Unsqueeze(b, j).shape)
  BY <1>3, <1>4
<1>6. p >= q => Len(Unsqueeze(b, j).shape) = p
  BY <1>3, <1>4
<1> QED BY <1>2, <1>4, <1>5, <1>6 DEF p, q

\* squeeze keeps a layout well-formed.
LEMMA SqueezeIs ==
  ASSUME NEW l, WellFormedLayout(l), NEW dims, Squeeze(l, dims) # Raise
  PROVE  WellFormedLayout(Squeeze(l, dims))
<1> DEFINE S == l.shape
           n == Len(S)
           kept == DOMAIN S \ dims
           c == Cardinality(kept)
           R == Sifted(S, kept)
<1>1. S \in Seq(Nat \ {0}) /\ Splits(S, l.mode_shape) /\ n \in Nat /\ DOMAIN S = 1..n
  BY DEF WellFormedLayout, ValidateLayout
<1>2. (\A d \in dims : S[d] = 1) /\ Squeeze(l, dims) = WithShape(l, R)
  BY DEF Squeeze
<1>3. kept \in SUBSET (1..n) /\ \A m \in 1..n : m \notin kept => S[m] = 1
  BY <1>1, <1>2
<1> HIDE DEF kept, S
<1>4. \A m \in 0..n : Prefix(R, Rank(kept, m)) = Prefix(S, m)
  BY <1>1, <1>3, PrefixSifted
<1>5. R \in Seq(Nat \ {0}) /\ Len(R) = c /\ c \in Nat
  BY <1>1, <1>3, SiftedIs
<1>6. /\ \A i \in 1..c : \E k \in kept : Rank(kept, k) = i
      /\ Rank(kept, 0) = 0 /\ Rank(kept, n) = c
  BY <1>1, <1>3, RankIs, RankStep
<1> HIDE DEF R, c
<1>7. Product(R) = Product(S)
  <2>1. n \in 0..n
    BY <1>1
  <2> QED BY <1>4, <1>5, <1>6, <2>1 DEF Product
<1>8. ASSUME NEW i \in 0..c PROVE Prefix(R, i) \in Cuts(S)
  <2>1. PICK m \in 0..n : Rank(kept, m) = i
    <3>1. CASE i = 0
      BY <1>1, <1>6, <3>1
    <3>2. CASE i # 0
      <4>1. i \in 1..c /\ \A k \in kept : k \in 0..n
        BY <1>1, <1>3, <1>5, <3>2
      <4> QED BY <1>6, <4>1
    <3> QED BY <3>1, <3>2
  <2> QED BY <1>4, <2>1 DEF Cuts
<1>9. Splits(R, l.mode_shape)
  <2>1. Cuts(R) \subseteq Cuts(S)
    BY <1>5, <1>8 DEF Cuts
  <2> QED BY <1>1, <1>7, <2>1 DEF Splits
<1> QED BY <1>2, <1>5, <1>9, WithShapeIs

\* The dimensions in some order.
Orders(S, o) ==
  /\ o \in Seq(Nat \ {0}) /\ Len(o) = Len(S)
  /\ \A i \in 1..Len(S) : o[i] \in 1..Len(S)
  /\ \A i, j \in 1..Len(S) : o[i] = o[j] => i = j
  /\ \A m \in 1..Len(S) : \E i \in 1..Len(S) : o[i] = m

\* An order of the dimensions is two lists of modes, one of them empty.
LEMMA OrdersAre ==
  ASSUME NEW S \in Seq(Nat \ {0})
  PROVE  Orders(S, RowOrder(S)) /\ Orders(S, ColumnOrder(S))
<1> DEFINE n == Len(S)
           r == RowOrder(S)
           c == ColumnOrder(S)
<1>1. n \in Nat /\ DOMAIN S = 1..n
  OBVIOUS
<1>2. r = [i \in 1..n |-> i]
  BY <1>1 DEF RowOrder
<1> HIDE DEF n, r
<1>3. r \in Seq(Nat \ {0}) /\ Len(r) = n
  <2>1. r \in [1..n -> Nat \ {0}]
    BY <1>1, <1>2
  <2> QED BY <1>1, <2>1
<1>4. c = [i \in 1..n |-> r[(n - i) + 1]]
  BY <1>3 DEF ColumnOrder, Reverse, r
<1>5. \A i \in 1..n : (n - i) + 1 \in 1..n /\ (n - ((n - i) + 1)) + 1 = i
  BY <1>1
<1>6. c = [i \in 1..n |-> (n - i) + 1]
  BY <1>2, <1>4, <1>5
<1> HIDE DEF c
<1>7. c \in Seq(Nat \ {0}) /\ Len(c) = n
  <2>1. \A i \in 1..n : (n - i) + 1 \in Nat \ {0}
    BY <1>1
  <2>2. c \in [1..n -> Nat \ {0}]
    BY <1>6, <2>1
  <2> QED BY <1>1, <2>2
<1>8. Orders(S, r)
  <2>1. \A i \in 1..n : r[i] = i
    BY <1>2
  <2> QED BY <1>3, <2>1 DEF Orders, n
<1>9. Orders(S, c)
  <2>1. \A i \in 1..n : c[i] = (n - i) + 1 /\ c[i] \in 1..n
    BY <1>5, <1>6
  <2>2. ASSUME NEW i \in 1..n, NEW j \in 1..n, c[i] = c[j] PROVE i = j
    <3>1. (n - i) + 1 = (n - j) + 1
      BY <2>1, <2>2
    <3> QED BY <1>1, <3>1
  <2>3. ASSUME NEW m \in 1..n PROVE \E i \in 1..n : c[i] = m
    <3>1. (n - m) + 1 \in 1..n /\ c[(n - m) + 1] = m
      BY <1>5, <1>6
    <3> QED BY <3>1
  <2> QED BY <1>7, <2>1, <2>2, <2>3 DEF Orders, n
<1> QED BY <1>8, <1>9 DEF r, c

\* spatial and local make well-formed layouts, in any order of the dimensions.
LEMMA ElementaryIs ==
  ASSUME NEW S \in Seq(Nat \ {0}), NEW o, Orders(S, o)
  PROVE  /\ WellFormedLayout(Spatial(S, o)) /\ Spatial(S, o).shape = S
         /\ WellFormedLayout(Local(S, o)) /\ Local(S, o).shape = S
<1>1. /\ o \in Seq(Nat \ {0}) /\ o \in Seq(Int \ {0}) /\ Len(o) = Len(S) /\ Len(S) \in Nat
      /\ \A i \in 1..Len(S) : o[i] \in 1..Len(S)
      /\ \A i, j \in 1..Len(S) : o[i] = o[j] => i = j
      /\ \A m \in 1..Len(S) : \E i \in 1..Len(S) : o[i] = m
  <2>1. o \in Seq(Nat \ {0})
    BY DEF Orders
  <2> QED BY <2>1 DEF Orders
<1>2. <<>> \in Seq(Int \ {0}) /\ <<>> \in Seq(Nat \ {0}) /\ Len(<<>>) = 0
  OBVIOUS
<1>3. Splits(S, S)
  BY DEF Splits
<1>4. Typed(S, S, o, <<>>) /\ Typed(S, S, <<>>, o)
  BY <1>1, <1>2 DEF Typed
<1>5. Covered(S, o, <<>>) /\ Covered(S, <<>>, o)
  BY <1>1 DEF Covered
<1>6. Modal(S, o, <<>>) /\ Modal(S, <<>>, o)
  BY <1>1, <1>2 DEF Modal
<1>7. Once(o, <<>>) /\ Once(<<>>, o)
  BY <1>1, <1>2 DEF Once
<1>8. WellFormedLayout(RegisterLayout(S, S, o, <<>>)) /\ RegisterLayout(S, S, o, <<>>).shape = S
  BY <1>3, <1>4, <1>5, <1>6, <1>7, RegisterLayoutIs
<1>9. WellFormedLayout(RegisterLayout(S, S, <<>>, o)) /\ RegisterLayout(S, S, <<>>, o).shape = S
  BY <1>3, <1>4, <1>5, <1>6, <1>7, RegisterLayoutIs
<1> QED BY <1>8, <1>9 DEF Spatial, Local

-----------------------------------------------------------------------------
(* Lists of modes renamed. *)

Renames(R, P, f) == R = [i \in 1..Len(P) |-> IF P[i] < 0 THEN P[i] ELSE f[P[i]]]

\* Modes and their lists.
Lists(M, P, Q) ==
  P \in Seq(Int \ {0}) /\ Q \in Seq(Nat \ {0}) /\ Len(M) \in Nat /\ Modal(M, P, Q) /\ Covered(M, P, Q)

\* Every mode is listed by its new name.
Mapped(M, f, R, U) ==
  /\ R \in Seq(Int \ {0}) /\ U \in Seq(Nat \ {0})
  /\ \A m \in 1..Len(M) : (\E i \in 1..Len(R) : R[i] = f[m]) \/ (\E i \in 1..Len(U) : U[i] = f[m])

\* Renamed lists have the modes of their names.
LEMMA RenamesAre ==
  ASSUME NEW M, NEW P, NEW Q, Lists(M, P, Q), NEW f \in [1..Len(M) -> Nat \ {0}],
         NEW R, NEW U, Renames(R, P, f), Renames(U, Q, f)
  PROVE  Mapped(M, f, R, U)
<1> DEFINE a == Len(P)
           b == Len(Q)
<1>1. /\ P \in Seq(Int \ {0}) /\ Q \in Seq(Nat \ {0}) /\ a \in Nat /\ b \in Nat
      /\ \A i \in 1..a : P[i] > 0 => P[i] \in 1..Len(M)
      /\ \A i \in 1..b : Q[i] \in 1..Len(M)
  BY DEF Lists, Modal
<1>2. (\A i \in 1..a : P[i] \in Int \ {0}) /\ (\A i \in 1..b : Q[i] \in Nat \ {0})
  BY <1>1
<1>3. \A m \in 1..Len(M) : (\E i \in 1..a : P[i] = m) \/ (\E i \in 1..b : Q[i] = m)
  BY DEF Lists, Covered
<1>4. /\ R = [i \in 1..a |-> IF P[i] < 0 THEN P[i] ELSE f[P[i]]]
      /\ U = [i \in 1..b |-> IF Q[i] < 0 THEN Q[i] ELSE f[Q[i]]]
  BY DEF Renames
<1> HIDE DEF a, b
<1>5. ASSUME NEW i \in 1..a PROVE R[i] \in Int \ {0} /\ (P[i] > 0 => R[i] = f[P[i]])
  <2>1. CASE P[i] < 0
    BY <1>2, <1>4, <2>1
  <2>2. CASE ~(P[i] < 0)
    <3>1. P[i] > 0
      BY <1>2, <2>2
    <3>2. P[i] \in 1..Len(M) /\ R[i] = f[P[i]]
      BY <1>1, <1>4, <2>2, <3>1
    <3>3. f[P[i]] \in Nat \ {0}
      BY <3>2
    <3> QED BY <3>2, <3>3
  <2> QED BY <2>1, <2>2
<1>6. ASSUME NEW i \in 1..b PROVE U[i] \in Nat \ {0} /\ U[i] = f[Q[i]]
  <2>1. Q[i] \in 1..Len(M) /\ ~(Q[i] < 0)
    BY <1>1, <1>2
  <2>2. U[i] = f[Q[i]]
    BY <1>4, <2>1
  <2>3. f[Q[i]] \in Nat \ {0}
    BY <2>1
  <2> QED BY <2>2, <2>3
<1>7. R \in Seq(Int \ {0}) /\ Len(R) = a
  <2>1. R \in [1..a -> Int \ {0}]
    BY <1>4, <1>5
  <2> QED BY <1>1, <2>1
<1>8. U \in Seq(Nat \ {0}) /\ Len(U) = b
  <2>1. U \in [1..b -> Nat \ {0}]
    BY <1>4, <1>6
  <2> QED BY <1>1, <2>1
<1>9. ASSUME NEW m \in 1..Len(M) PROVE (\E i \in 1..a : R[i] = f[m]) \/ (\E i \in 1..b : U[i] = f[m])
  <2>1. CASE \E i \in 1..a : P[i] = m
    <3>1. PICK i \in 1..a : P[i] = m
      BY <2>1
    <3>2. P[i] > 0
      BY <3>1
    <3> QED BY <1>5, <3>1, <3>2
  <2>2. CASE \E i \in 1..b : Q[i] = m
    BY <1>6, <2>2
  <2> QED BY <1>3, <2>1, <2>2
<1> QED BY <1>7, <1>8, <1>9 DEF Mapped

\* Every mode is a renamed one.
Spanned(N, M, f, M2, f2) ==
  \A m \in 1..Len(N) : (\E k \in 1..Len(M) : m = f[k]) \/ (\E k \in 1..Len(M2) : m = f2[k])

\* The lists of two layouts joined, when every new mode is one of theirs.
LEMMA JoinedCover ==
  ASSUME NEW M, NEW f, NEW R, NEW U, Mapped(M, f, R, U),
         NEW M2, NEW f2, NEW R2, NEW U2, Mapped(M2, f2, R2, U2),
         NEW N, Spanned(N, M, f, M2, f2),
         NEW R3, R3 = R \o R2, NEW U3, U3 = U \o U2
  PROVE  R3 \in Seq(Int \ {0}) /\ U3 \in Seq(Nat \ {0}) /\ Covered(N, R3, U3)
<1>1. R \in Seq(Int \ {0}) /\ U \in Seq(Nat \ {0}) /\ R2 \in Seq(Int \ {0}) /\ U2 \in Seq(Nat \ {0})
  BY DEF Mapped
<1>2. /\ R3 \in Seq(Int \ {0}) /\ Len(R3) = Len(R) + Len(R2) /\ Len(R) \in Nat /\ Len(R2) \in Nat
      /\ \A i \in 1..Len(R) : R3[i] = R[i]
      /\ \A i \in 1..Len(R2) : R3[Len(R) + i] = R2[i]
  BY <1>1, JoinIs
<1>3. /\ U3 \in Seq(Nat \ {0}) /\ Len(U3) = Len(U) + Len(U2) /\ Len(U) \in Nat /\ Len(U2) \in Nat
      /\ \A i \in 1..Len(U) : U3[i] = U[i]
      /\ \A i \in 1..Len(U2) : U3[Len(U) + i] = U2[i]
  BY <1>1, JoinIs
<1>4. /\ \A i \in 1..Len(R) : i \in 1..Len(R3)
      /\ \A i \in 1..Len(R2) : Len(R) + i \in 1..Len(R3)
  BY <1>2
<1>5. /\ \A i \in 1..Len(U) : i \in 1..Len(U3)
      /\ \A i \in 1..Len(U2) : Len(U) + i \in 1..Len(U3)
  BY <1>3
<1>6. ASSUME NEW x, (\E i \in 1..Len(R) : R[i] = x) \/ (\E i \in 1..Len(R2) : R2[i] = x)
      PROVE  \E i \in 1..Len(R3) : R3[i] = x
  BY <1>2, <1>4, <1>6
<1>7. ASSUME NEW x, (\E i \in 1..Len(U) : U[i] = x) \/ (\E i \in 1..Len(U2) : U2[i] = x)
      PROVE  \E i \in 1..Len(U3) : U3[i] = x
  BY <1>3, <1>5, <1>7
<1>8. \A k \in 1..Len(M) : (\E i \in 1..Len(R) : R[i] = f[k]) \/ (\E i \in 1..Len(U) : U[i] = f[k])
  BY DEF Mapped
<1>9. \A k \in 1..Len(M2) : (\E i \in 1..Len(R2) : R2[i] = f2[k]) \/ (\E i \in 1..Len(U2) : U2[i] = f2[k])
  BY DEF Mapped
<1>10. ASSUME NEW m \in 1..Len(N)
       PROVE  (\E i \in 1..Len(R3) : R3[i] = m) \/ (\E i \in 1..Len(U3) : U3[i] = m)
  <2>0. (\E k \in 1..Len(M) : m = f[k]) \/ (\E k \in 1..Len(M2) : m = f2[k])
    BY DEF Spanned
  <2>1. CASE \E k \in 1..Len(M) : m = f[k]
    <3>1. (\E i \in 1..Len(R) : R[i] = m) \/ (\E i \in 1..Len(U) : U[i] = m)
      BY <1>8, <2>1
    <3> QED BY <1>6, <1>7, <3>1
  <2>2. CASE \E k \in 1..Len(M2) : m = f2[k]
    <3>1. (\E i \in 1..Len(R2) : R2[i] = m) \/ (\E i \in 1..Len(U2) : U2[i] = m)
      BY <1>9, <2>2
    <3> QED BY <1>6, <1>7, <3>1
  <2> QED BY <2>0, <2>1, <2>2
<1> QED BY <1>2, <1>3, <1>10 DEF Covered

\* The modes listed are modes of the layout.
LEMMA ListedModes ==
  ASSUME NEW M, NEW P, NEW Q, Lists(M, P, Q)
  PROVE  /\ DOMAIN P = 1..Len(P) /\ DOMAIN Q = 1..Len(Q) /\ Len(P) \in Nat /\ Len(Q) \in Nat /\ Len(M) \in Nat
         /\ \A i \in 1..Len(P) : ~(P[i] < 0) => P[i] \in 1..Len(M)
         /\ \A i \in 1..Len(Q) : Q[i] \in 1..Len(M) /\ ~(Q[i] < 0)
<1>1. P \in Seq(Int \ {0}) /\ Q \in Seq(Nat \ {0}) /\ Len(M) \in Nat
  BY DEF Lists
<1>2. /\ \A i \in 1..Len(P) : P[i] > 0 => P[i] \in 1..Len(M)
      /\ \A i \in 1..Len(Q) : Q[i] \in 1..Len(M)
  BY DEF Lists, Modal
<1>3. \A i \in 1..Len(P) : P[i] \in Int \ {0}
  BY <1>1
<1>4. \A i \in 1..Len(Q) : Q[i] \in Nat
  BY <1>1
<1> QED BY <1>1, <1>2, <1>3, <1>4

\* A valid layout has its lists.
LEMMA SoundLists ==
  ASSUME NEW S, NEW M, NEW P, NEW Q, SoundLayout(S, M, P, Q)
  PROVE  Lists(M, P, Q)
  BY SoundIs DEF Lists

\* A layout's own names.
LEMMA MappedSame ==
  ASSUME NEW M, NEW P, NEW Q, Lists(M, P, Q)
  PROVE  Mapped(M, [m \in 1..Len(M) |-> m], P, Q)
  BY DEF Lists, Mapped, Covered

\* concat keeps layouts well-formed.
LEMMA ConcatIs ==
  ASSUME NEW l, NEW r, WellFormedLayout(l), WellFormedLayout(r), Concat(l, r) # Raise
  PROVE  WellFormedLayout(Concat(l, r))
<1> DEFINE S == l.shape
           M == l.mode_shape
           P == l.spatial_modes
           Q == l.local_modes
           S2 == r.shape
           M2 == r.mode_shape
           P2 == r.spatial_modes
           Q2 == r.local_modes
           n == Len(M)
           f == [m \in 1..n |-> m]
           f2 == [m \in 1..Len(M2) |-> m + n]
           R2 == Renamed(P2, LAMBDA m : m + n)
           U2 == Renamed(Q2, LAMBDA m : m + n)
           N == M \o M2
<1>1. SoundLayout(S, M, P, Q) /\ SoundLayout(S2, M2, P2, Q2)
  BY LayoutOf
<1>2. Concat(l, r) = RegisterLayout(S \o S2, N, P \o R2, Q \o U2)
  BY DEF Concat
<1>3. Lists(M, P, Q) /\ Lists(M2, P2, Q2) /\ n \in Nat
  BY <1>1, SoundLists DEF Lists
<1>4. Mapped(M, f, P, Q)
  BY <1>3, MappedSame
<1>5. Renames(R2, P2, f2) /\ Renames(U2, Q2, f2)
  <2>1. /\ DOMAIN P2 = 1..Len(P2) /\ DOMAIN Q2 = 1..Len(Q2)
        /\ \A i \in 1..Len(P2) : ~(P2[i] < 0) => P2[i] \in 1..Len(M2)
        /\ \A i \in 1..Len(Q2) : Q2[i] \in 1..Len(M2)
    BY <1>3, ListedModes
  <2> HIDE DEF P2, Q2, M2, n
  <2> QED BY <2>1 DEF Renames, Renamed
<1>6. f2 \in [1..Len(M2) -> Nat \ {0}]
  BY <1>3
<1>7. Mapped(M2, f2, R2, U2)
  <2> HIDE DEF R2, U2, f2, M2, P2, Q2
  <2> QED BY <1>3, <1>5, <1>6, RenamesAre
<1>8. M \in Seq(Nat \ {0}) /\ M2 \in Seq(Nat \ {0}) /\ S \in Seq(Nat \ {0}) /\ S2 \in Seq(Nat \ {0})
  BY <1>1, SoundIs
<1>9. N \in Seq(Nat \ {0}) /\ Len(N) = n + Len(M2) /\ S \o S2 \in Seq(Nat \ {0})
  <2> HIDE DEF M, M2, S, S2
  <2> QED BY <1>8, JoinIs
<1> HIDE DEF R2, U2, M, M2, N, P, Q
<1>10. ASSUME NEW m \in 1..Len(N) PROVE (\E k \in 1..Len(M) : m = f[k]) \/ (\E k \in 1..Len(M2) : m = f2[k])
  <2>1. Len(M2) \in Nat
    BY <1>8
  <2>2. CASE m <= n
    <3>1. m \in 1..n
      BY <1>3, <1>9, <2>1, <2>2
    <3> QED BY <3>1
  <2>3. CASE ~(m <= n)
    <3>1. m - n \in 1..Len(M2) /\ m = (m - n) + n
      BY <1>3, <1>9, <2>1, <2>3
    <3> QED BY <3>1
  <2> QED BY <2>2, <2>3
<1> HIDE DEF f, f2
<1> DEFINE R3 == P \o R2
           U3 == Q \o U2
<1>11. R3 \in Seq(Int \ {0}) /\ U3 \in Seq(Nat \ {0}) /\ Covered(N, R3, U3)
  <2>1. R3 = P \o R2 /\ U3 = Q \o U2
    OBVIOUS
  <2> HIDE DEF R3, U3
  <2>2. Spanned(N, M, f, M2, f2)
    BY <1>10 DEF Spanned
  <2> QED BY <1>4, <1>7, <2>1, <2>2, JoinedCover
<1>12. Typed(S \o S2, N, P \o R2, Q \o U2)
  BY <1>9, <1>11 DEF Typed
<1> QED BY <1>2, <1>11, <1>12, RegisterLayoutIs

\* reduce keeps a layout well-formed.
LEMMA ReduceIs ==
  ASSUME NEW l, WellFormedLayout(l), NEW dims \in SUBSET DOMAIN l.shape, NEW keepdims \in BOOLEAN, Reduce(l, dims, keepdims) # Raise
  PROVE  /\ WellFormedLayout(Reduce(l, dims, keepdims))
         /\ keepdims => Len(Reduce(l, dims, keepdims).shape) = Len(l.shape)
<1> DEFINE S == l.shape
           M == l.mode_shape
           P == l.spatial_modes
           Q == l.local_modes
           n == Len(M)
           gone == UNION {Range(Groups(l)[d]) : d \in dims}
           P1 == [i \in 1..Len(P) |-> IF P[i] \in gone THEN -M[P[i]] ELSE P[i]]
           kept == (1..n) \ gone
           l1 == Layout(S, M, P1, Q)
           N == Sifted(M, kept)
           R == KeptModes(P1, kept)
           U == KeptModes(Q, kept)
           ones == [d \in 1..Len(S) |-> IF d \in dims THEN 1 ELSE S[d]]
           T == IF keepdims THEN ones ELSE Sifted(S, (1..Len(S)) \ dims)
<1>1. SoundLayout(S, M, P, Q) /\ l = Layout(S, M, P, Q)
  BY LayoutOf
<1>2. /\ S \in Seq(Nat \ {0}) /\ M \in Seq(Nat \ {0}) /\ P \in Seq(Int \ {0}) /\ Q \in Seq(Nat \ {0})
      /\ DOMAIN S = 1..Len(S) /\ DOMAIN M = 1..n /\ DOMAIN P = 1..Len(P) /\ Len(S) \in Nat /\ n \in Nat /\ Len(P) \in Nat
      /\ Modal(M, P, Q) /\ Covered(M, P, Q) /\ Splits(S, M)
  BY <1>1, SoundIs
<1>g. gone \subseteq 1..n
  <2> DEFINE G == GetModeGroups(S, M)
             u == Upto(S, M)
  <2>1. Shaped(S, M)
    <3>1. Sizes(M)
      BY LayoutOf
    <3> QED BY <1>2, <3>1 DEF Shaped, Splits
  <2>2. Grouped(S, M, u, G)
    BY <2>1, GroupsAre
  <2>3. Groups(l) = G
    BY DEF Groups
  <2> HIDE DEF G, u
  <2>4. \A d \in 1..Len(S) : DOMAIN G[d] = 1..Len(G[d]) /\ \A i \in 1..Len(G[d]) : G[d][i] \in 1..n
    BY <2>2 DEF Grouped
  <2>5. \A d \in dims : Range(Groups(l)[d]) \subseteq 1..n
    BY <1>2, <2>3, <2>4 DEF Range
  <2> QED BY <2>5
<1> HIDE DEF S, M, P, Q
<1>3. [l EXCEPT !.spatial_modes = [i \in DOMAIN @ |-> IF @[i] \in gone THEN -l.mode_shape[@[i]] ELSE @[i]]] = l1
  <2> HIDE DEF gone
  <2>1. l.spatial_modes = P /\ l.mode_shape = M
    BY DEF P, M
  <2>2. [l EXCEPT !.spatial_modes = [i \in DOMAIN @ |-> IF @[i] \in gone THEN -l.mode_shape[@[i]] ELSE @[i]]]
        = [l EXCEPT !.spatial_modes = P1]
    BY <1>2, <2>1
  <2> HIDE DEF P1
  <2> QED BY <1>1, <2>2 DEF Layout
<1>4. Modes(l) \ gone = kept
  BY <1>2, SMTT(40) DEF Modes, M
<1> HIDE DEF gone
<1>5. Reduce(l, dims, keepdims) = RegisterLayout(T, Keep(l1, kept).mode_shape, Keep(l1, kept).spatial_modes, Keep(l1, kept).local_modes)
  <2>1. [d \in DOMAIN l.shape |-> IF d \in dims THEN 1 ELSE l.shape[d]] = ones /\ DOMAIN l.shape = 1..Len(S) /\ l.shape = S
    BY <1>2 DEF S
  <2> HIDE DEF kept, l1, ones
  <2> QED BY <1>3, <1>4, <2>1 DEF Reduce, gone
<1>6. P1 \in Seq(Int \ {0}) /\ Len(P1) = Len(P)
  <2>1. ASSUME NEW i \in 1..Len(P) PROVE P1[i] \in Int \ {0}
    <3>1. P[i] \in Int \ {0} /\ (P[i] > 0 => P[i] \in 1..n) /\ \A m \in 1..n : M[m] \in Nat \ {0}
      BY <1>2 DEF Modal
    <3>2. CASE P[i] \in gone
      <4>1. M[P[i]] \in Nat \ {0} /\ P1[i] = -M[P[i]]
        BY <1>g, <3>1, <3>2
      <4> QED BY <4>1
    <3>3. CASE P[i] \notin gone
      BY <3>1, <3>3
    <3> QED BY <3>2, <3>3
  <2>2. P1 \in [1..Len(P) -> Int \ {0}]
    BY <2>1
  <2>3. Len(P) \in Nat
    BY <1>2
  <2> HIDE DEF P1
  <2> QED BY <2>2, <2>3
<1>7. \A m \in kept : (\E i \in 1..Len(P1) : P1[i] = m) \/ (\E i \in 1..Len(Q) : Q[i] = m)
  <2> SUFFICES ASSUME NEW m \in kept
               PROVE  (\E i \in 1..Len(P) : P1[i] = m) \/ (\E i \in 1..Len(Q) : Q[i] = m)
    BY <1>6
  <2>1. (\E i \in 1..Len(P) : P[i] = m) \/ (\E i \in 1..Len(Q) : Q[i] = m)
    BY <1>2 DEF Covered
  <2>2. m \notin gone
    OBVIOUS
  <2>3. ASSUME NEW i \in 1..Len(P), P[i] = m PROVE P1[i] = m
    BY <2>2, <2>3
  <2> HIDE DEF P1
  <2> QED BY <2>1, <2>3
<1>8. kept \in SUBSET (1..n) /\ kept \in SUBSET (1..Len(M))
  OBVIOUS
<1> HIDE DEF P1, kept
<1>9. Keep(l1, kept) = [shape |-> l1.shape, mode_shape |-> N, spatial_modes |-> R, local_modes |-> U]
  <2>1. M = l1.mode_shape /\ P1 = l1.spatial_modes /\ Q = l1.local_modes
    BY DEF Layout
  <2> HIDE DEF l1
  <2> QED BY <1>2, <1>6, <1>8, <2>1, KeepIs
<1>10. N \in Seq(Nat \ {0}) /\ R \in Seq(Int \ {0}) /\ U \in Seq(Nat \ {0}) /\ Covered(N, R, U)
  <2>1. N = Sifted(M, kept) /\ R = KeptModes(P1, kept) /\ U = KeptModes(Q, kept)
    OBVIOUS
  <2> HIDE DEF N, R, U
  <2>2. Kept(M, P1, Q, kept, N, R, U)
    BY <1>2, <1>6, <1>7, <1>8, <2>1 DEF Kept
  <2> QED BY <2>2, KeptModal
<1>11. T \in Seq(Nat \ {0}) /\ (keepdims => Len(T) = Len(S))
  <2>1. ones \in Seq(Nat \ {0}) /\ Len(ones) = Len(S)
    <3>1. ones \in [1..Len(S) -> Nat \ {0}]
      BY <1>2
    <3> QED BY <1>2, <3>1
  <2>2. Sifted(S, (1..Len(S)) \ dims) \in Seq(Nat \ {0})
    BY <1>2, SiftedIs
  <2> QED BY <2>1, <2>2
<1> HIDE DEF T, N, R, U
<1>12. Reduce(l, dims, keepdims) = RegisterLayout(T, N, R, U)
  BY <1>5, <1>9
<1>13. Typed(T, N, R, U)
  BY <1>10, <1>11 DEF Typed
<1> QED BY <1>10, <1>11, <1>12, <1>13, RegisterLayoutIs DEF S

\* reduce_to keeps a layout well-formed.
LEMMA ReduceToIs ==
  ASSUME NEW l, WellFormedLayout(l), NEW shape \in Seq(Nat \ {0}), ReduceTo(l, shape) # Raise
  PROVE  WellFormedLayout(ReduceTo(l, shape))
<1> DEFINE diff == Len(l.shape) - Len(shape)
           ones == {d \in DOMAIN l.shape : d > diff /\ l.shape[d] # shape[d - diff]}
           kept == IF ones = {} THEN l ELSE Reduce(l, ones, TRUE)
<1>1. l.shape \in Seq(Nat \ {0}) /\ Len(l.shape) \in Nat /\ Len(shape) \in Nat
  BY DEF WellFormedLayout
<1>2. ReduceTo(l, shape) = IF diff <= 0 \/ kept = Raise THEN kept ELSE Reduce(kept, 1..diff, FALSE)
  <2>1. ~\E d \in ones : shape[d - diff] # 1
    BY DEF ReduceTo
  <2> QED BY <2>1 DEF ReduceTo, With
<1>3. ones \in SUBSET DOMAIN l.shape
  OBVIOUS
<1> HIDE DEF ones
<1>4. ASSUME kept # Raise PROVE WellFormedLayout(kept) /\ Len(kept.shape) = Len(l.shape)
  BY <1>3, <1>4, ReduceIs
<1> HIDE DEF kept
<1>5. CASE diff <= 0 \/ kept = Raise
  BY <1>2, <1>4, <1>5
<1>6. CASE ~(diff <= 0 \/ kept = Raise)
  <2>1. WellFormedLayout(kept) /\ Len(kept.shape) = Len(l.shape) /\ ReduceTo(l, shape) = Reduce(kept, 1..diff, FALSE)
    BY <1>2, <1>4, <1>6
  <2>2. kept.shape \in Seq(Nat \ {0})
    BY <2>1 DEF WellFormedLayout
  <2>3. DOMAIN kept.shape = 1..Len(l.shape)
    BY <2>1, <2>2
  <2>4. 1..diff \in SUBSET DOMAIN kept.shape
    BY <1>1, <2>3
  <2> QED BY <2>1, <2>4, ReduceIs
<1> QED BY <1>5, <1>6

\* Names that are all used cover the modes.
LEMMA MappedCover ==
  ASSUME NEW M, NEW f, NEW R, NEW U, Mapped(M, f, R, U),
         NEW N, \A m \in 1..Len(N) : \E k \in 1..Len(M) : m = f[k]
  PROVE  Covered(N, R, U)
<1>1. \A m \in 1..Len(M) : (\E i \in 1..Len(R) : R[i] = f[m]) \/ (\E i \in 1..Len(U) : U[i] = f[m])
  BY DEF Mapped
<1>2. ASSUME NEW m \in 1..Len(N) PROVE (\E i \in 1..Len(R) : R[i] = m) \/ (\E i \in 1..Len(U) : U[i] = m)
  <2>1. PICK k \in 1..Len(M) : m = f[k]
    OBVIOUS
  <2> QED BY <1>1, <2>1
<1> QED BY <1>2 DEF Covered

\* The elements of sequences one after another.
LEMMA FlatHolds ==
  ASSUME NEW X, NEW f \in Seq(Seq(X))
  PROVE  /\ Flat(f) \in Seq(X)
         /\ \A d \in 1..Len(f) : \A i \in 1..Len(f[d]) : \E p \in 1..Len(Flat(f)) : Flat(f)[p] = f[d][i]
         /\ \A p \in 1..Len(Flat(f)) : \E d \in 1..Len(f) : \E i \in 1..Len(f[d]) : Flat(f)[p] = f[d][i]
<1>1. PICK u : Offsets(u, f)
  BY OffsetsExist
<1>2. /\ Flat(f) \in Seq(X) /\ Len(Flat(f)) = u[Len(f)]
      /\ \A d \in 1..Len(f) : \A i \in 1..Len(f[d]) : Flat(f)[u[d - 1] + i] = f[d][i]
  BY <1>1, FlattenIs
<1>3. /\ \A d \in 0..Len(f) : u[d] \in Nat
      /\ \A d \in 1..Len(f) : u[d] = u[d - 1] + Len(f[d]) /\ Len(f[d]) \in Nat
      /\ Len(f) \in Nat
      /\ \A c, d \in 0..Len(f) : c <= d => u[c] <= u[d]
  BY <1>1, OffsetsAre
<1>4. ASSUME NEW d \in 1..Len(f), NEW i \in 1..Len(f[d])
      PROVE  u[d - 1] + i \in 1..Len(Flat(f))
  <2>1. d - 1 \in 0..Len(f) /\ d \in 0..Len(f) /\ Len(f) \in 0..Len(f) /\ d <= Len(f)
    BY <1>3
  <2> DEFINE a == u[d - 1]
             b == Len(f[d])
  <2>2. a \in Nat /\ b \in Nat /\ u[d] = a + b /\ u[d] <= u[Len(f)] /\ u[Len(f)] \in Nat
    BY <1>3, <2>1
  <2>3. i \in 1..b
    OBVIOUS
  <2> HIDE DEF a, b
  <2>4. a + i \in 1..u[Len(f)]
    BY <2>2, <2>3
  <2> QED BY <1>2, <2>4 DEF a
<1>5. ASSUME NEW p \in 1..Len(Flat(f))
      PROVE  \E d \in 1..Len(f) : \E i \in 1..Len(f[d]) : Flat(f)[p] = f[d][i]
  <2>1. PICK d \in 1..Len(f) : \E i \in 1..Len(f[d]) : p = u[d - 1] + i
    BY <1>1, <1>2, PlaceOf
  <2>2. PICK i \in 1..Len(f[d]) : p = u[d - 1] + i
    BY <2>1
  <2> QED BY <1>2, <2>2
<1>6. ASSUME NEW d \in 1..Len(f), NEW i \in 1..Len(f[d])
      PROVE  \E p \in 1..Len(Flat(f)) : Flat(f)[p] = f[d][i]
  BY <1>2, <1>4
<1> QED BY <1>2, <1>5, <1>6

\* The modes split further are all listed.
LEMMA FineIs ==
  ASSUME NEW S, NEW M, NEW P, NEW Q, SoundLayout(S, M, P, Q), NEW N, Shaped(M, N)
  PROVE  \E R, U : /\ LayoutWithModeShape(Layout(S, M, P, Q), N) = Layout(S, N, R, U)
                   /\ Typed(S, N, R, U) /\ Covered(N, R, U)
<1> DEFINE G == GetModeGroups(M, N)
           w == Upto(M, N)
           p == [i \in DOMAIN P |-> IF P[i] < 0 THEN <<P[i]>> ELSE G[P[i]]]
           q == [i \in DOMAIN Q |-> IF Q[i] < 0 THEN <<Q[i]>> ELSE G[Q[i]]]
           R == Flat(p)
           U == Flat(q)
<1>1. LayoutWithModeShape(Layout(S, M, P, Q), N) = Layout(S, N, R, U)
  BY DEF LayoutWithModeShape, Layout
<1>2. Grouped(M, N, w, G)
  BY GroupsAre
<1>3. /\ DOMAIN P = 1..Len(P) /\ DOMAIN Q = 1..Len(Q) /\ Len(P) \in Nat /\ Len(Q) \in Nat
      /\ \A i \in 1..Len(P) : ~(P[i] < 0) => P[i] \in 1..Len(M)
      /\ \A i \in 1..Len(Q) : Q[i] \in 1..Len(M) /\ ~(Q[i] < 0)
  BY SoundLists, ListedModes
<1>4. /\ P \in Seq(Int \ {0}) /\ S \in Seq(Nat \ {0}) /\ Len(M) \in Nat
      /\ \A m \in 1..Len(M) : (\E i \in 1..Len(P) : P[i] = m) \/ (\E i \in 1..Len(Q) : Q[i] = m)
  <2>1. P \in Seq(Int \ {0}) /\ S \in Seq(Nat \ {0}) /\ Len(M) \in Nat /\ Covered(M, P, Q)
    BY SoundIs
  <2> QED BY <2>1 DEF Covered
<1> HIDE DEF G, w
<1>5. /\ G \in Seq(Seq(1..Len(N))) /\ Len(G) = Len(M) /\ DOMAIN G = 1..Len(M) /\ Offsets(w, G) /\ w[Len(G)] = Len(N)
      /\ \A m \in 1..Len(M) : DOMAIN G[m] = 1..Len(G[m]) /\ \A i \in 1..Len(G[m]) : G[m][i] = w[m - 1] + i
  BY <1>2 DEF Grouped
<1>6. Len(N) \in Nat /\ N \in Seq(Nat \ {0})
  BY SizesAre DEF Shaped
<1>7. ASSUME NEW m \in 1..Len(M) PROVE G[m] \in Seq(Int \ {0}) /\ G[m] \in Seq(Nat \ {0})
  <2>1. G[m] \in Seq(1..Len(N))
    BY <1>5
  <2>2. 1..Len(N) \subseteq Int \ {0} /\ 1..Len(N) \subseteq Nat \ {0}
    BY <1>6
  <2>3. G[m] \in [1..Len(G[m]) -> 1..Len(N)] /\ Len(G[m]) \in Nat
    BY <2>1
  <2>4. G[m] \in [1..Len(G[m]) -> Int \ {0}] /\ G[m] \in [1..Len(G[m]) -> Nat \ {0}]
    BY <2>2, <2>3
  <2> QED BY <2>3, <2>4
<1>8. p \in Seq(Seq(Int \ {0})) /\ Len(p) = Len(P) /\ \A i \in 1..Len(P) : P[i] > 0 => p[i] = G[P[i]]
  <2>1. ASSUME NEW i \in 1..Len(P)
        PROVE  p[i] \in Seq(Int \ {0}) /\ (P[i] > 0 => p[i] = G[P[i]])
    <3>1. P[i] \in Int \ {0}
      BY <1>4
    <3>2. CASE P[i] < 0
      <4>1. p[i] = <<P[i]>>
        BY <1>3, <3>2
      <4>2. <<P[i]>> \in Seq(Int \ {0})
        BY <3>1
      <4>3. ~(P[i] > 0)
        BY <3>1, <3>2
      <4> QED BY <4>1, <4>2, <4>3
    <3>3. CASE ~(P[i] < 0)
      <4>1. p[i] = G[P[i]] /\ P[i] \in 1..Len(M)
        BY <1>3, <3>3
      <4> QED BY <1>7, <4>1
    <3> QED BY <3>2, <3>3
  <2>2. p = [i \in 1..Len(P) |-> p[i]]
    BY <1>3
  <2> HIDE DEF p
  <2>3. p \in [1..Len(P) -> Seq(Int \ {0})]
    BY <2>1, <2>2
  <2>4. Len(P) \in Nat
    BY <1>3
  <2>5. p \in Seq(Seq(Int \ {0})) /\ Len(p) = Len(P)
    BY <2>3, <2>4
  <2> QED BY <2>1, <2>5
<1>9. q \in Seq(Seq(Nat \ {0})) /\ Len(q) = Len(Q) /\ \A i \in 1..Len(Q) : q[i] = G[Q[i]]
  <2>1. ASSUME NEW i \in 1..Len(Q) PROVE q[i] \in Seq(Nat \ {0}) /\ q[i] = G[Q[i]]
    <3>1. q[i] = G[Q[i]] /\ Q[i] \in 1..Len(M)
      BY <1>3
    <3> QED BY <1>7, <3>1
  <2>2. q = [i \in 1..Len(Q) |-> q[i]]
    BY <1>3
  <2> HIDE DEF q
  <2>3. q \in [1..Len(Q) -> Seq(Nat \ {0})]
    BY <2>1, <2>2
  <2>4. Len(Q) \in Nat
    BY <1>3
  <2>5. q \in Seq(Seq(Nat \ {0})) /\ Len(q) = Len(Q)
    BY <2>3, <2>4
  <2> QED BY <2>1, <2>5
<1> HIDE DEF p, q
<1>10. /\ R \in Seq(Int \ {0})
       /\ \A d \in 1..Len(p) : \A i \in 1..Len(p[d]) : \E k \in 1..Len(R) : R[k] = p[d][i]
  BY <1>8, FlatHolds
<1>11. /\ U \in Seq(Nat \ {0})
       /\ \A d \in 1..Len(q) : \A i \in 1..Len(q[d]) : \E k \in 1..Len(U) : U[k] = q[d][i]
  BY <1>9, FlatHolds
<1> HIDE DEF R, U
<1>12. ASSUME NEW k \in 1..Len(N)
       PROVE  (\E i \in 1..Len(R) : R[i] = k) \/ (\E i \in 1..Len(U) : U[i] = k)
  <2>1. PICK m \in 1..Len(G) : \E i \in 1..Len(G[m]) : k = w[m - 1] + i
    <3> DEFINE X == 1..Len(N)
    <3>1. G \in Seq(Seq(X)) /\ Offsets(w, G) /\ k \in 1..w[Len(G)]
      BY <1>5
    <3> HIDE DEF X
    <3> QED BY <3>1, PlaceOf, SMTT(40)
  <2>2. PICK i \in 1..Len(G[m]) : k = w[m - 1] + i
    BY <2>1
  <2>3. m \in 1..Len(M) /\ G[m][i] = k /\ m > 0
    BY <1>5, <2>2
  <2>4. CASE \E j \in 1..Len(P) : P[j] = m
    <3>1. PICK j \in 1..Len(P) : P[j] = m
      BY <2>4
    <3>2. p[j] = G[m] /\ j \in 1..Len(p)
      BY <1>8, <2>3, <3>1
    <3> QED BY <1>10, <2>3, <3>2, ZenonT(60)
  <2>5. CASE \E j \in 1..Len(Q) : Q[j] = m
    <3>1. PICK j \in 1..Len(Q) : Q[j] = m
      BY <2>5
    <3>2. q[j] = G[m] /\ j \in 1..Len(q)
      BY <1>9, <3>1
    <3> QED BY <1>11, <2>3, <3>2, ZenonT(60)
  <2> QED BY <1>4, <2>3, <2>4, <2>5
<1>13. Typed(S, N, R, U)
  BY <1>4, <1>6, <1>10, <1>11 DEF Typed
<1>14. Covered(N, R, U)
  BY <1>12 DEF Covered
<1> QED BY <1>1, <1>13, <1>14

\* The modes of the dimensions in another order.
Reordered(h, G, o) == h = [i \in DOMAIN o |-> G[o[i]]]

\* The dimensions of the modes, in another order: every mode is at one place.
LEMMA OrderIs ==
  ASSUME NEW S, NEW M, NEW u, NEW G, Grouped(S, M, u, G), NEW o, Orders(S, o), NEW h, Reordered(h, G, o),
         NEW order, order = Flat(h)
  PROVE  /\ order \in Seq(1..Len(M))
         /\ \A m \in 1..Len(M) : \E p \in 1..Len(order) : order[p] = m
         /\ \A p, q \in 1..Len(order) : order[p] = order[q] => p = q
<1> DEFINE n == Len(S)
           X == 1..Len(M)
<1>1. /\ G \in Seq(Seq(X)) /\ Len(G) = n /\ Offsets(u, G) /\ u[Len(G)] = Len(M) /\ Len(M) \in Nat
      /\ \A d \in 1..n : \A i \in 1..Len(G[d]) : G[d][i] = u[d - 1] + i
  BY DEF Grouped
<1>2. /\ DOMAIN o = 1..n /\ n \in Nat
      /\ \A i \in 1..n : o[i] \in 1..n
      /\ \A i, j \in 1..n : o[i] = o[j] => i = j
      /\ \A m \in 1..n : \E i \in 1..n : o[i] = m
  <2>1. o \in Seq(Nat \ {0}) /\ Len(o) = n
    BY DEF Orders
  <2> QED BY <2>1 DEF Orders
<1> HIDE DEF n, X
<1>3. h \in Seq(Seq(X)) /\ Len(h) = n /\ \A i \in 1..n : h[i] = G[o[i]]
  <2>1. \A d \in 1..n : G[d] \in Seq(X)
    BY <1>1
  <2>2. h = [i \in 1..n |-> G[o[i]]]
    BY <1>2 DEF Reordered
  <2>3. h \in [1..n -> Seq(X)]
    BY <1>2, <2>1, <2>2
  <2> QED BY <1>2, <2>2, <2>3
<1>4. PICK v : Offsets(v, h)
  BY <1>3, OffsetsExist
<1>5. /\ order \in Seq(X) /\ Len(order) = v[Len(h)]
      /\ \A d \in 1..Len(h) : \A i \in 1..Len(h[d]) : order[v[d - 1] + i] = h[d][i]
  <2>1. h \in Seq(Seq(X)) /\ Offsets(v, h)
    BY <1>3, <1>4
  <2>2. /\ Flat(h) \in Seq(X) /\ Len(Flat(h)) = v[Len(h)]
        /\ \A d \in 1..Len(h) : \A i \in 1..Len(h[d]) : Flat(h)[v[d - 1] + i] = h[d][i]
    BY <2>1, FlattenIs
  <2> QED BY <2>2
<1>6. ASSUME NEW m \in X PROVE \E p \in 1..Len(order) : order[p] = m
  <2>0. m \in 1..u[Len(G)]
    BY <1>1 DEF X
  <2>1. PICK d \in 1..Len(G) : \E i \in 1..Len(G[d]) : m = u[d - 1] + i
    <3>1. G \in Seq(Seq(X)) /\ Offsets(u, G)
      BY <1>1
    <3> QED BY <2>0, <3>1, PlaceOf
  <2>2. PICK i \in 1..Len(G[d]) : m = u[d - 1] + i
    BY <2>1
  <2>3. PICK j \in 1..n : o[j] = d
    BY <1>1, <1>2
  <2>4. h[j] = G[d] /\ G[d][i] = m /\ j \in 1..Len(h)
    BY <1>1, <1>3, <2>2, <2>3
  <2>5. i \in 1..Len(h[j]) /\ h \in Seq(Seq(X))
    BY <1>3, <2>4
  <2>6. \A c \in 1..Len(h) : \A k \in 1..Len(h[c]) : \E p \in 1..Len(Flat(h)) : Flat(h)[p] = h[c][k]
    BY <2>5, FlatHolds
  <2>7. \E p \in 1..Len(Flat(h)) : Flat(h)[p] = h[j][i]
    BY <2>4, <2>5, <2>6
  <2> QED BY <2>4, <2>7
<1>7. ASSUME NEW p \in 1..Len(order)
      PROVE  \E i \in 1..n : \E a \in 1..Len(G[o[i]]) : p = v[i - 1] + a /\ order[p] = u[o[i] - 1] + a /\ o[i] \in 1..n
  <2>1. PICK i \in 1..Len(h) : \E a \in 1..Len(h[i]) : p = v[i - 1] + a
    <3>1. h \in Seq(Seq(X)) /\ Offsets(v, h)
      BY <1>3, <1>4
    <3>2. \A m \in 1..v[Len(h)] : \E i \in 1..Len(h) : \E a \in 1..Len(h[i]) : m = v[i - 1] + a
      BY <3>1, PlaceOf
    <3>3. p \in 1..v[Len(h)]
      BY <1>5
    <3> QED BY <3>2, <3>3
  <2>2. PICK a \in 1..Len(h[i]) : p = v[i - 1] + a
    BY <2>1
  <2>3. i \in 1..n /\ h[i] = G[o[i]] /\ o[i] \in 1..n
    BY <1>2, <1>3
  <2>4. order[p] = G[o[i]][a] /\ a \in 1..Len(G[o[i]])
    BY <1>5, <2>2, <2>3
  <2>5. G[o[i]][a] = u[o[i] - 1] + a
    BY <1>1, <2>3, <2>4
  <2> QED BY <2>2, <2>3, <2>4, <2>5
<1>8. ASSUME NEW p \in 1..Len(order), NEW q \in 1..Len(order), order[p] = order[q] PROVE p = q
  <2>1. PICK i \in 1..n : \E a \in 1..Len(G[o[i]]) : p = v[i - 1] + a /\ order[p] = u[o[i] - 1] + a /\ o[i] \in 1..n
    BY <1>7
  <2>2. PICK a \in 1..Len(G[o[i]]) : p = v[i - 1] + a /\ order[p] = u[o[i] - 1] + a /\ o[i] \in 1..n
    BY <2>1
  <2>3. PICK j \in 1..n : \E b \in 1..Len(G[o[j]]) : q = v[j - 1] + b /\ order[q] = u[o[j] - 1] + b /\ o[j] \in 1..n
    BY <1>7
  <2>4. PICK b \in 1..Len(G[o[j]]) : q = v[j - 1] + b /\ order[q] = u[o[j] - 1] + b /\ o[j] \in 1..n
    BY <2>3
  <2> DEFINE c == o[i]
             d == o[j]
  <2>5. c \in 1..Len(G) /\ d \in 1..Len(G) /\ a \in 1..Len(G[c]) /\ b \in 1..Len(G[d]) /\ u[c - 1] + a = u[d - 1] + b
    BY <1>1, <1>8, <2>2, <2>4
  <2> HIDE DEF c, d
  <2>6. c = d /\ a = b
    <3>1. G \in Seq(Seq(X)) /\ Offsets(u, G)
      BY <1>1
    <3> QED BY <2>5, <3>1, PlaceOnce, SMTT(40)
  <2>7. i = j
    BY <1>2, <2>6 DEF c, d
  <2> QED BY <2>2, <2>4, <2>6, <2>7
<1> QED BY <1>5, <1>6, <1>8 DEF X

\* permute keeps a layout well-formed.
LEMMA PermuteIs ==
  ASSUME NEW l, WellFormedLayout(l), NEW o, Orders(l.shape, o), Permute(l, o) # Raise
  PROVE  WellFormedLayout(Permute(l, o))
<1> DEFINE S == l.shape
           M == l.mode_shape
           P == l.spatial_modes
           Q == l.local_modes
           G == GetModeGroups(S, M)
           u == Upto(S, M)
           h == [i \in DOMAIN o |-> G[o[i]]]
           order == Flat(h)
           f == [m \in 1..Len(M) |-> At(order, m)]
           T == [i \in DOMAIN o |-> S[o[i]]]
           N == [p \in DOMAIN order |-> M[order[p]]]
           R == Renamed(P, LAMBDA m : At(order, m))
           U == Renamed(Q, LAMBDA m : At(order, m))
<1>1. SoundLayout(S, M, P, Q) /\ Sizes(M)
  BY LayoutOf
<1>2. /\ S \in Seq(Nat \ {0}) /\ M \in Seq(Nat \ {0}) /\ DOMAIN S = 1..Len(S) /\ Len(S) \in Nat /\ Len(M) \in Nat
      /\ Splits(S, M) /\ Lists(M, P, Q)
  BY <1>1, SoundIs, SoundLists
<1>3. Permute(l, o) = RegisterLayout(T, N, R, U)
  BY DEF Permute, Groups, ModeSizes, At
<1>4. Grouped(S, M, u, G)
  BY <1>1, <1>2, GroupsAre DEF Shaped, Splits
<1>5. /\ order \in Seq(1..Len(M))
      /\ \A m \in 1..Len(M) : \E p \in 1..Len(order) : order[p] = m
      /\ \A p, q \in 1..Len(order) : order[p] = order[q] => p = q
  <2>1. Reordered(h, G, o) /\ order = Flat(h) /\ Orders(S, o)
    BY DEF Reordered
  <2> HIDE DEF h, order, u, G, S, M
  <2> QED BY <1>4, <2>1, OrderIs
<1> HIDE DEF h, order, S, M, P, Q, G, u
<1>6. Len(order) \in Nat /\ DOMAIN order = 1..Len(order) /\ \A p \in 1..Len(order) : order[p] \in 1..Len(M)
  BY <1>5
<1>7. ASSUME NEW p \in 1..Len(order) PROVE At(order, order[p]) = p
  <2>1. \A q \in 1..Len(order) : order[q] = order[p] => q = p
    BY <1>5
  <2> QED BY <1>6, <2>1, SelectIs
<1>8. f \in [1..Len(M) -> Nat \ {0}]
  <2>1. ASSUME NEW m \in 1..Len(M) PROVE At(order, m) \in Nat \ {0}
    <3>1. PICK p \in 1..Len(order) : order[p] = m
      BY <1>5
    <3>2. At(order, m) = p
      BY <1>7, <3>1
    <3> QED BY <1>6, <3>2
  <2> QED BY <2>1
<1>9. Renames(R, P, f) /\ Renames(U, Q, f)
  <2>1. /\ DOMAIN P = 1..Len(P) /\ DOMAIN Q = 1..Len(Q)
        /\ \A i \in 1..Len(P) : ~(P[i] < 0) => P[i] \in 1..Len(M)
        /\ \A i \in 1..Len(Q) : Q[i] \in 1..Len(M)
    BY <1>2, ListedModes
  <2> QED BY <2>1 DEF Renames, Renamed
<1>10. \A p \in 1..Len(order) : order[p] \in 1..Len(M) /\ p = f[order[p]]
  BY <1>6, <1>7
<1> HIDE DEF f, R, U
<1>11. Mapped(M, f, R, U)
  BY <1>2, <1>8, <1>9, RenamesAre
<1>12. N \in Seq(Nat \ {0}) /\ Len(N) = Len(order)
  <2>1. \A m \in 1..Len(M) : M[m] \in Nat \ {0}
    BY <1>2
  <2>2. N \in [1..Len(order) -> Nat \ {0}]
    BY <1>6, <2>1
  <2> HIDE DEF N
  <2> QED BY <1>6, <2>2
<1>13. T \in Seq(Nat \ {0})
  <2>1. o \in Seq(Nat \ {0}) /\ Len(o) = Len(S) /\ \A i \in 1..Len(S) : o[i] \in 1..Len(S)
    BY DEF Orders, S
  <2>2. DOMAIN o = 1..Len(S) /\ \A i \in 1..Len(S) : S[i] \in Nat \ {0}
    BY <1>2, <2>1
  <2>3. T \in [1..Len(S) -> Nat \ {0}]
    BY <2>1, <2>2
  <2> HIDE DEF T
  <2> QED BY <1>2, <2>3
<1> HIDE DEF N, T
<1>14. Covered(N, R, U)
  <2>1. \A m \in 1..Len(N) : \E k \in 1..Len(M) : m = f[k]
    BY <1>10, <1>12
  <2> QED BY <1>11, <2>1, MappedCover
<1>15. R \in Seq(Int \ {0}) /\ U \in Seq(Nat \ {0})
  BY <1>11 DEF Mapped
<1>16. Typed(T, N, R, U)
  BY <1>12, <1>13, <1>15 DEF Typed
<1> QED BY <1>3, <1>14, <1>16, RegisterLayoutIs

-----------------------------------------------------------------------------
(* Composition. *)

\* How many modes the first d dimensions have, and the dimension of a mode, as compose finds them.
Before(G, d) == IF d = 0 THEN 0 ELSE Len(Flat(SubSeq(G, 1, d)))
DimOf(G, m) == CHOOSE d \in DOMAIN G : m \in Range(G[d])

\* They are as many as the grouping says.
LEMMA BeforeIs ==
  ASSUME NEW X, NEW G \in Seq(Seq(X)), NEW u, Offsets(u, G), NEW d \in 0..Len(G)
  PROVE  Before(G, d) = u[d] /\ u[d] \in Nat
<1> DEFINE g == SubSeq(G, 1, d)
           v == [c \in 0..d |-> u[c]]
<1>1. /\ Len(G) \in Nat /\ u[0] = 0 /\ \A c \in 0..Len(G) : u[c] \in Nat
      /\ \A c \in 1..Len(G) : u[c] = u[c - 1] + Len(G[c])
  BY OffsetsAre
<1>2. g \in Seq(Seq(X)) /\ Len(g) = d /\ \A i \in 1..d : g[i] = G[i]
  <2>1. d \in Nat /\ d <= Len(G)
    BY <1>1
  <2> QED BY <1>1, <2>1
<1> HIDE DEF g
<1>3. Offsets(v, g)
  <2>1. \A c \in 0..d : c \in 0..Len(G)
    BY <1>1
  <2>2. \A c \in 1..d : c \in 1..Len(G) /\ c - 1 \in 0..d /\ c \in 0..d
    BY <1>1
  <2>3. v \in [0..d -> Nat] /\ v[0] = 0
    BY <1>1, <2>1
  <2>4. \A c \in 1..d : v[c] = v[c - 1] + Len(g[c])
    BY <1>1, <1>2, <2>2
  <2> HIDE DEF v
  <2> QED BY <1>2, <2>3, <2>4 DEF Offsets
<1>4. Len(Flat(g)) = v[d]
  <2> HIDE DEF v
  <2>1. Len(Flat(g)) = v[Len(g)]
    BY <1>2, <1>3, FlattenIs
  <2> QED BY <1>2, <2>1
<1>5. v[d] = u[d]
  <2>1. d \in 0..d
    BY <1>1
  <2> QED BY <2>1
<1>6. u[d] \in Nat
  BY <1>1
<1>7. Before(G, d) = IF d = 0 THEN 0 ELSE Len(Flat(g))
  BY DEF Before, g
<1> HIDE DEF v
<1> QED BY <1>1, <1>4, <1>5, <1>6, <1>7

\* A mode is in one dimension.
LEMMA DimOfIs ==
  ASSUME NEW S, NEW M, NEW u, NEW G, Grouped(S, M, u, G), NEW d \in 1..Len(G), NEW i \in 1..Len(G[d])
  PROVE  DimOf(G, u[d - 1] + i) = d
<1> DEFINE m == u[d - 1] + i
           X == 1..Len(M)
<1>1. /\ G \in Seq(Seq(X)) /\ Len(G) = Len(S) /\ DOMAIN G = 1..Len(G) /\ Offsets(u, G)
      /\ \A e \in 1..Len(G) : DOMAIN G[e] = 1..Len(G[e]) /\ \A k \in 1..Len(G[e]) : G[e][k] = u[e - 1] + k
  BY DEF Grouped
<1> HIDE DEF X
<1>2. m \in Range(G[d])
  <2>1. i \in DOMAIN G[d] /\ G[d][i] = m
    BY <1>1
  <2> HIDE DEF m
  <2> QED BY <2>1 DEF Range
<1>3. ASSUME NEW e \in DOMAIN G, m \in Range(G[e]) PROVE e = d
  <2>1. PICK k \in DOMAIN G[e] : m = G[e][k]
    <3> HIDE DEF m
    <3> QED BY <1>3 DEF Range
  <2>2. e \in 1..Len(G) /\ k \in 1..Len(G[e]) /\ u[e - 1] + k = u[d - 1] + i
    BY <1>1, <2>1
  <2>3. G \in Seq(Seq(X)) /\ Offsets(u, G)
    BY <1>1
  <2> QED BY <2>2, <2>3, PlaceOnce
<1> HIDE DEF m
<1>4. d \in DOMAIN G
  BY <1>1
<1>5. DimOf(G, m) = d
  BY <1>2, <1>3, <1>4 DEF DimOf
<1> QED BY <1>5 DEF m

\* The modes of two groupings, dimension by dimension, in one sequence.
Woven(M, G, M2, G2, f) ==
  f = [d \in DOMAIN G |-> [i \in DOMAIN G[d] |-> M[G[d][i]]] \o [i \in DOMAIN G2[d] |-> M2[G2[d][i]]]]

OuterTo(G, G2) == [m \in 1..Before(G, Len(G)) |-> m + Before(G2, DimOf(G, m) - 1)]
InnerTo(G, G2) == [m \in 1..Before(G2, Len(G2)) |-> m + Before(G, DimOf(G2, m))]

\* Every mode of the composition is a mode of one of the two.
LEMMA WovenIs ==
  ASSUME NEW S, NEW M \in Seq(Nat \ {0}), NEW u, NEW G, Grouped(S, M, u, G),
         NEW S2, NEW M2 \in Seq(Nat \ {0}), NEW v, NEW G2, Grouped(S2, M2, v, G2), Len(S) = Len(S2),
         NEW f, Woven(M, G, M2, G2, f), NEW N, N = Flat(f)
  PROVE  /\ N \in Seq(Nat \ {0})
         /\ OuterTo(G, G2) \in [1..Len(M) -> Nat \ {0}]
         /\ InnerTo(G, G2) \in [1..Len(M2) -> Nat \ {0}]
         /\ Spanned(N, M, OuterTo(G, G2), M2, InnerTo(G, G2))
<1> DEFINE n == Len(S)
           X == 1..Len(M)
           X2 == 1..Len(M2)
           F == OuterTo(G, G2)
           F2 == InnerTo(G, G2)
           w == [d \in 0..n |-> u[d] + v[d]]
<1>1. /\ G \in Seq(Seq(X)) /\ Len(G) = n /\ DOMAIN G = 1..n /\ Offsets(u, G) /\ u[n] = Len(M) /\ Len(M) \in Nat
      /\ \A d \in 1..n : /\ DOMAIN G[d] = 1..Len(G[d]) /\ Len(G[d]) \in Nat
                        /\ \A i \in 1..Len(G[d]) : G[d][i] = u[d - 1] + i /\ G[d][i] \in 1..Len(M)
  BY DEF Grouped
<1>2. /\ G2 \in Seq(Seq(X2)) /\ Len(G2) = n /\ DOMAIN G2 = 1..n /\ Offsets(v, G2) /\ v[n] = Len(M2) /\ Len(M2) \in Nat
      /\ \A d \in 1..n : /\ DOMAIN G2[d] = 1..Len(G2[d]) /\ Len(G2[d]) \in Nat
                        /\ \A i \in 1..Len(G2[d]) : G2[d][i] = v[d - 1] + i /\ G2[d][i] \in 1..Len(M2)
  BY DEF Grouped
<1> HIDE DEF n, X, X2
<1>a. G \in Seq(Seq(X)) /\ Offsets(u, G) /\ G2 \in Seq(Seq(X2)) /\ Offsets(v, G2) /\ Len(G) = n /\ Len(G2) = n
  BY <1>1, <1>2
<1>p. \A m \in 1..u[Len(G)] : \E d \in 1..Len(G) : \E i \in 1..Len(G[d]) : m = u[d - 1] + i
  <2>1. G \in Seq(Seq(X)) /\ Offsets(u, G)
    BY <1>a
  <2>2. Places(u, G)
    BY <2>1, PlacesAre
  <2> QED BY <2>2 DEF Places
<1>q. \A m \in 1..v[Len(G2)] : \E d \in 1..Len(G2) : \E i \in 1..Len(G2[d]) : m = v[d - 1] + i
  <2>1. G2 \in Seq(Seq(X2)) /\ Offsets(v, G2)
    BY <1>a
  <2>2. Places(v, G2)
    BY <2>1, PlacesAre
  <2> QED BY <2>2 DEF Places
<1>3. /\ n \in Nat /\ u[0] = 0 /\ \A d \in 0..n : u[d] \in Nat
      /\ \A d \in 1..n : u[d] = u[d - 1] + Len(G[d])
  BY <1>a, OffsetsAre
<1>4. /\ v[0] = 0 /\ \A d \in 0..n : v[d] \in Nat
      /\ \A d \in 1..n : v[d] = v[d - 1] + Len(G2[d])
  BY <1>a, OffsetsAre
<1>5. \A d \in 0..n : Before(G, d) = u[d]
  BY <1>a, BeforeIs
<1>6. \A d \in 0..n : Before(G2, d) = v[d]
  BY <1>a, BeforeIs
<1>7. n \in 0..n
  BY <1>3
<1>8. F = [m \in 1..Len(M) |-> m + Before(G2, DimOf(G, m) - 1)]
  BY <1>1, <1>5, <1>7 DEF OuterTo
<1>9. F2 = [m \in 1..Len(M2) |-> m + Before(G, DimOf(G2, m))]
  BY <1>2, <1>6, <1>7 DEF InnerTo
<1> HIDE DEF F, F2
<1>10. ASSUME NEW d \in 1..n, NEW i \in 1..Len(G[d])
       PROVE  u[d - 1] + i \in 1..Len(M) /\ F[u[d - 1] + i] = u[d - 1] + i + v[d - 1]
  <2>1. u[d - 1] + i \in 1..Len(M)
    BY <1>1
  <2>2. DimOf(G, u[d - 1] + i) = d
    BY <1>a, DimOfIs
  <2>3. d - 1 \in 0..n
    BY <1>3
  <2> QED BY <1>6, <1>8, <2>1, <2>2, <2>3
<1>11. ASSUME NEW d \in 1..n, NEW i \in 1..Len(G2[d])
       PROVE  v[d - 1] + i \in 1..Len(M2) /\ F2[v[d - 1] + i] = v[d - 1] + i + u[d]
  <2>1. v[d - 1] + i \in 1..Len(M2)
    BY <1>2
  <2>2. DimOf(G2, v[d - 1] + i) = d
    BY <1>a, DimOfIs
  <2>3. d \in 0..n
    BY <1>3
  <2> QED BY <1>5, <1>9, <2>1, <2>2, <2>3
<1>12. ASSUME NEW m \in 1..Len(M) PROVE F[m] \in Nat \ {0}
  <2>0. m \in 1..u[Len(G)]
    BY <1>1
  <2>1. PICK d \in 1..Len(G) : \E i \in 1..Len(G[d]) : m = u[d - 1] + i
    BY <2>0, <1>p
  <2>2. PICK i \in 1..Len(G[d]) : m = u[d - 1] + i
    BY <2>1
  <2>3. F[m] = m + v[d - 1] /\ d - 1 \in 0..n
    BY <1>a, <1>3, <1>10, <2>2
  <2>4. v[d - 1] \in Nat
    BY <1>4, <2>3
  <2> QED BY <2>3, <2>4, SMTT(40)
<1>13. ASSUME NEW m \in 1..Len(M2) PROVE F2[m] \in Nat \ {0}
  <2>0. m \in 1..v[Len(G2)]
    BY <1>2
  <2>1. PICK d \in 1..Len(G2) : \E i \in 1..Len(G2[d]) : m = v[d - 1] + i
    BY <2>0, <1>q
  <2>2. PICK i \in 1..Len(G2[d]) : m = v[d - 1] + i
    BY <2>1
  <2>3. F2[m] = m + u[d] /\ d \in 0..n
    BY <1>a, <1>3, <1>11, <2>2
  <2>4. u[d] \in Nat
    BY <1>3, <2>3
  <2> QED BY <2>3, <2>4
<1>14. F \in [1..Len(M) -> Nat \ {0}] /\ F2 \in [1..Len(M2) -> Nat \ {0}]
  BY <1>8, <1>9, <1>12, <1>13
<1>15. ASSUME NEW d \in 1..n PROVE f[d] \in Seq(Nat \ {0}) /\ Len(f[d]) = Len(G[d]) + Len(G2[d])
  <2> DEFINE s == [i \in 1..Len(G[d]) |-> M[G[d][i]]]
             t == [i \in 1..Len(G2[d]) |-> M2[G2[d][i]]]
  <2>1. f[d] = s \o t
    BY <1>1, <1>2 DEF Woven
  <2>2. (\A m \in 1..Len(M) : M[m] \in Nat \ {0}) /\ (\A m \in 1..Len(M2) : M2[m] \in Nat \ {0})
    OBVIOUS
  <2>3. s \in Seq(Nat \ {0}) /\ Len(s) = Len(G[d])
    <3>1. s \in [1..Len(G[d]) -> Nat \ {0}] /\ Len(G[d]) \in Nat
      BY <1>1, <2>2
    <3> QED BY <3>1
  <2>4. t \in Seq(Nat \ {0}) /\ Len(t) = Len(G2[d])
    <3>1. t \in [1..Len(G2[d]) -> Nat \ {0}] /\ Len(G2[d]) \in Nat
      BY <1>2, <2>2
    <3> QED BY <3>1
  <2> HIDE DEF s, t
  <2>5. s \o t \in Seq(Nat \ {0}) /\ Len(s \o t) = Len(s) + Len(t)
    BY <2>3, <2>4, JoinIs, ZenonT(60)
  <2> QED BY <2>1, <2>3, <2>4, <2>5, SMTT(40)
<1>16. f \in Seq(Seq(Nat \ {0})) /\ Len(f) = n
  <2>1. f = [d \in 1..n |-> f[d]]
    BY <1>1 DEF Woven
  <2>2. f \in [1..n -> Seq(Nat \ {0})]
    BY <1>15, <2>1
  <2> QED BY <1>3, <2>2
<1>17. Offsets(w, f)
  <2>1. w \in [0..n -> Nat] /\ w[0] = 0
    <3>1. \A d \in 0..n : u[d] + v[d] \in Nat
      BY <1>3, <1>4
    <3>2. 0 \in 0..n /\ u[0] + v[0] = 0
      BY <1>3, <1>4
    <3> QED BY <3>1, <3>2
  <2>2. ASSUME NEW d \in 1..n PROVE w[d] = w[d - 1] + Len(f[d])
    <3>1. d - 1 \in 0..n /\ d \in 0..n
      BY <1>3
    <3>2. w[d] = u[d] + v[d] /\ w[d - 1] = u[d - 1] + v[d - 1]
      BY <3>1
    <3>3. u[d] = u[d - 1] + Len(G[d]) /\ v[d] = v[d - 1] + Len(G2[d]) /\ Len(f[d]) = Len(G[d]) + Len(G2[d])
      BY <1>3, <1>4, <1>15
    <3>4. u[d - 1] \in Nat /\ v[d - 1] \in Nat /\ Len(G[d]) \in Nat /\ Len(G2[d]) \in Nat
      BY <1>1, <1>2, <1>3, <1>4, <3>1
    <3> DEFINE a == u[d - 1]
               b == v[d - 1]
               x == Len(G[d])
               y == Len(G2[d])
    <3> HIDE DEF w
    <3>5. a \in Nat /\ b \in Nat /\ x \in Nat /\ y \in Nat /\ w[d] = (a + x) + (b + y) /\ w[d - 1] = a + b /\ Len(f[d]) = x + y
      BY <3>2, <3>3, <3>4
    <3> HIDE DEF a, b, x, y
    <3> QED BY <3>5
  <2> HIDE DEF w
  <2> QED BY <1>16, <2>1, <2>2 DEF Offsets
<1>18. N \in Seq(Nat \ {0}) /\ Len(N) = w[Len(f)]
  <2> HIDE DEF w
  <2>1. Flat(f) \in Seq(Nat \ {0}) /\ Len(Flat(f)) = w[Len(f)]
    BY <1>16, <1>17, FlattenIs
  <2> QED BY <2>1
<1>19. ASSUME NEW m \in 1..Len(N)
       PROVE  (\E k \in 1..Len(M) : m = F[k]) \/ (\E k \in 1..Len(M2) : m = F2[k])
  <2>1. PICK d \in 1..Len(f) : \E i \in 1..Len(f[d]) : m = w[d - 1] + i
    <3> HIDE DEF w
    <3>1. m \in 1..w[Len(f)]
      BY <1>18
    <3>2. \A k \in 1..w[Len(f)] : \E d \in 1..Len(f) : \E i \in 1..Len(f[d]) : k = w[d - 1] + i
      <4> DEFINE Y == Nat \ {0}
      <4>1. f \in Seq(Seq(Y)) /\ Offsets(w, f)
        BY <1>16, <1>17
      <4> HIDE DEF Y
      <4>2. Places(w, f)
        BY <4>1, PlacesAre
      <4> QED BY <4>2 DEF Places
    <3> QED BY <3>1, <3>2
  <2>2. PICK i \in 1..Len(f[d]) : m = w[d - 1] + i
    BY <2>1
  <2>3. d \in 1..n /\ d - 1 \in 0..n
    BY <1>3, <1>16
  <2>4. w[d - 1] = u[d - 1] + v[d - 1] /\ u[d - 1] \in Nat /\ v[d - 1] \in Nat
    BY <1>3, <1>4, <2>3
  <2>5. u[d] = u[d - 1] + Len(G[d]) /\ Len(f[d]) = Len(G[d]) + Len(G2[d]) /\ Len(G[d]) \in Nat /\ Len(G2[d]) \in Nat
    BY <1>1, <1>2, <1>3, <1>15, <2>3
  <2> HIDE DEF w
  <2> DEFINE a == u[d - 1]
             b == v[d - 1]
             x == Len(G[d])
             y == Len(G2[d])
  <2>6. a \in Nat /\ b \in Nat /\ x \in Nat /\ y \in Nat /\ i \in 1..(x + y) /\ m = a + b + i /\ u[d] = a + x
    BY <2>2, <2>4, <2>5
  <2>7. CASE i <= Len(G[d])
    <3>1. i \in 1..x
      <4>1. i <= x
        BY <2>7
      <4> HIDE DEF a, b, x, y
      <4> QED BY <2>6, <4>1
    <3>2. a + i \in 1..Len(M) /\ F[a + i] = a + i + b
      BY <1>10, <2>3, <3>1
    <3> HIDE DEF a, b, x, y
    <3>3. m = a + i + b
      BY <2>6
    <3> QED BY <3>2, <3>3
  <2>8. CASE ~(i <= Len(G[d]))
    <3> DEFINE j == i - x
    <3>1. j \in 1..y
      <4>1. ~(i <= x)
        BY <2>8
      <4> HIDE DEF a, b, x, y
      <4> QED BY <2>6, <4>1
    <3>2. b + j \in 1..Len(M2) /\ F2[b + j] = b + j + u[d]
      BY <1>11, <2>3, <3>1
    <3>3. m = b + j + u[d]
      <4> HIDE DEF a, b, x, y
      <4> QED BY <2>6
    <3> HIDE DEF j, a, b
    <3> QED BY <3>2, <3>3
  <2> QED BY <2>7, <2>8
<1>20. Spanned(N, M, F, M2, F2)
  BY <1>19 DEF Spanned
<1> QED BY <1>14, <1>18, <1>20 DEF F, F2

\* compose keeps layouts well-formed.
LEMMA ComposeIs ==
  ASSUME NEW a, NEW b, WellFormedLayout(a), WellFormedLayout(b), Compose(a, b) # Raise
  PROVE  WellFormedLayout(Compose(a, b))
<1> DEFINE outer == Aligned(a, b)
           inner == Aligned(b, a)
           S == outer.shape
           M == outer.mode_shape
           P == outer.spatial_modes
           Q == outer.local_modes
           S2 == inner.shape
           M2 == inner.mode_shape
           P2 == inner.spatial_modes
           Q2 == inner.local_modes
           G == GetModeGroups(S, M)
           G2 == GetModeGroups(S2, M2)
           u == Upto(S, M)
           v == Upto(S2, M2)
           f == [d \in DOMAIN G |-> [i \in DOMAIN G[d] |-> M[G[d][i]]] \o [i \in DOMAIN G2[d] |-> M2[G2[d][i]]]]
           N == Flat(f)
           T == [d \in DOMAIN G |-> S[d] * S2[d]]
           R == Renamed(P, LAMBDA m : m + Before(G2, DimOf(G, m) - 1))
           U == Renamed(Q, LAMBDA m : m + Before(G2, DimOf(G, m) - 1))
           R2 == Renamed(P2, LAMBDA m : m + Before(G, DimOf(G2, m)))
           U2 == Renamed(Q2, LAMBDA m : m + Before(G, DimOf(G2, m)))
           F == OuterTo(G, G2)
           F2 == InnerTo(G, G2)
<1>1. WellFormedLayout(outer) /\ WellFormedLayout(inner) /\ Len(S) = Len(S2)
  BY AlignedIs
<1>2. Compose(a, b) = RegisterLayout(T, N, R \o R2, U \o U2)
  BY DEF Compose, Groups, ModeSizes, Before, DimOf
<1> HIDE DEF outer, inner
<1>3. SoundLayout(S, M, P, Q) /\ Sizes(M) /\ SoundLayout(S2, M2, P2, Q2) /\ Sizes(M2)
  BY <1>1, LayoutOf
<1>4. /\ S \in Seq(Nat \ {0}) /\ M \in Seq(Nat \ {0}) /\ Splits(S, M) /\ Lists(M, P, Q)
      /\ S2 \in Seq(Nat \ {0}) /\ M2 \in Seq(Nat \ {0}) /\ Splits(S2, M2) /\ Lists(M2, P2, Q2)
  BY <1>3, SoundIs, SoundLists
<1>5. Grouped(S, M, u, G) /\ Grouped(S2, M2, v, G2)
  <2>1. Shaped(S, M) /\ Shaped(S2, M2)
    BY <1>3, <1>4 DEF Shaped, Splits
  <2> QED BY <2>1, GroupsAre
<1>6. /\ N \in Seq(Nat \ {0})
      /\ F \in [1..Len(M) -> Nat \ {0}]
      /\ F2 \in [1..Len(M2) -> Nat \ {0}]
      /\ Spanned(N, M, F, M2, F2)
  <2>1. Woven(M, G, M2, G2, f) /\ N = Flat(f)
    BY DEF Woven
  <2> HIDE DEF G, G2, u, v, f, N, S, S2, M, M2
  <2> QED BY <1>1, <1>4, <1>5, <2>1, WovenIs
<1>7. T \in Seq(Nat \ {0})
  <2> HIDE DEF G, u
  <2>1. DOMAIN G = 1..Len(S) /\ Len(S) \in Nat
    BY <1>4, <1>5 DEF Grouped
  <2> HIDE DEF S, S2
  <2>2. ASSUME NEW d \in 1..Len(S) PROVE S[d] * S2[d] \in Nat \ {0}
    <3>1. S[d] \in Nat \ {0} /\ S2[d] \in Nat \ {0}
      BY <1>1, <1>4
    <3> QED BY <3>1, Factor
  <2>3. T \in [1..Len(S) -> Nat \ {0}]
    BY <2>1, <2>2
  <2> HIDE DEF T
  <2> QED BY <2>1, <2>3
<1>8. Renames(R, P, F) /\ Renames(U, Q, F)
  <2>1. /\ DOMAIN P = 1..Len(P) /\ DOMAIN Q = 1..Len(Q)
        /\ \A i \in 1..Len(P) : ~(P[i] < 0) => P[i] \in 1..Len(M)
        /\ \A i \in 1..Len(Q) : Q[i] \in 1..Len(M)
    BY <1>4, ListedModes, Zenon
  <2>2. F = [m \in 1..Len(M) |-> m + Before(G2, DimOf(G, m) - 1)]
    <3>1. DOMAIN F = 1..Len(M)
      <4> HIDE DEF F
      <4> QED BY <1>6, Zenon
    <3>2. F = [m \in DOMAIN F |-> m + Before(G2, DimOf(G, m) - 1)]
      BY DEF OuterTo
    <3> HIDE DEF F
    <3> QED BY <3>1, <3>2
  <2> HIDE DEF F, P, Q, M, G, G2
  <2> QED BY <2>1, <2>2 DEF Renames, Renamed
<1>9. Renames(R2, P2, F2) /\ Renames(U2, Q2, F2)
  <2>1. /\ DOMAIN P2 = 1..Len(P2) /\ DOMAIN Q2 = 1..Len(Q2)
        /\ \A i \in 1..Len(P2) : ~(P2[i] < 0) => P2[i] \in 1..Len(M2)
        /\ \A i \in 1..Len(Q2) : Q2[i] \in 1..Len(M2)
    BY <1>4, ListedModes, Zenon
  <2>2. F2 = [m \in 1..Len(M2) |-> m + Before(G, DimOf(G2, m))]
    <3>1. DOMAIN F2 = 1..Len(M2)
      <4> HIDE DEF F2
      <4> QED BY <1>6, Zenon
    <3>2. F2 = [m \in DOMAIN F2 |-> m + Before(G, DimOf(G2, m))]
      BY DEF InnerTo
    <3> HIDE DEF F2
    <3> QED BY <3>1, <3>2
  <2> HIDE DEF F2, P2, Q2, M2, G, G2
  <2> QED BY <2>1, <2>2 DEF Renames, Renamed
<1> HIDE DEF S, M, P, Q, S2, M2, P2, Q2, N, T, R, U, R2, U2, F, F2
<1>10. Mapped(M, F, R, U)
  BY <1>4, <1>6, <1>8, RenamesAre
<1>11. Mapped(M2, F2, R2, U2)
  BY <1>4, <1>6, <1>9, RenamesAre
<1> DEFINE R3 == R \o R2
           U3 == U \o U2
<1>12. R3 \in Seq(Int \ {0}) /\ U3 \in Seq(Nat \ {0}) /\ Covered(N, R3, U3)
  <2>1. R3 = R \o R2 /\ U3 = U \o U2
    OBVIOUS
  <2> HIDE DEF R3, U3
  <2> QED BY <1>6, <1>10, <1>11, <2>1, JoinedCover
<1>13. Typed(T, N, R3, U3)
  BY <1>6, <1>7, <1>12 DEF Typed
<1> QED BY <1>2, <1>12, <1>13, RegisterLayoutIs

\* A layout held by every thread is well-formed.
LEMMA ReplicatedIs ==
  ASSUME NEW shape \in Seq(Nat \ {0}), NEW workers \in Nat \ {0}, Replicated(shape, workers) # Raise
  PROVE  WellFormedLayout(Replicated(shape, workers))
<1> DEFINE l == Layout(<<>>, <<>>, <<-workers>>, <<>>)
<1>1. Replicated(shape, workers) = Compose(l, Local(shape, RowOrder(shape)))
  BY DEF Replicated, Layout
<1>2. -workers \in Int \ {0} /\ ~(-workers > 0)
  OBVIOUS
<1>3. <<-workers>> \in Seq(Int \ {0}) /\ Len(<<-workers>>) = 1 /\ \A i \in 1..1 : <<-workers>>[i] = -workers
  BY <1>2
<1>4. /\ <<>> \in Seq(Nat \ {0}) /\ Len(<<>>) = 0 /\ <<>> \in Seq(Nat \ {0, 1})
      /\ \A i \in 1..0 : FALSE
  OBVIOUS
<1>5. Splits(<<>>, <<>>)
  BY DEF Splits
<1> DEFINE P == <<-workers>>
           E == <<>>
<1>6. P \in Seq(Int \ {0}) /\ Len(P) = 1 /\ (\A i \in 1..1 : ~(P[i] > 0)) /\ E \in Seq(Nat \ {0}) /\ Len(E) = 0
  BY <1>2, <1>3, <1>4
<1>7. l = Layout(E, E, P, E) /\ Splits(E, E) /\ Sizes(E)
  BY <1>4, <1>5 DEF Sizes
<1> HIDE DEF P, E
<1>8. \A i \in 1..Len(P) : ~(P[i] > 0)
  BY <1>6
<1>9. \A i \in 1..Len(E) : FALSE
  BY <1>4, <1>6
<1>10. \A i, j \in 1..Len(P) : i = j
  <2>1. \A i, j \in 1..1 : i = j
    OBVIOUS
  <2> QED BY <1>6, <2>1
<1>11. Typed(E, E, P, E)
  BY <1>6 DEF Typed
<1>12. Modal(E, P, E) /\ Once(P, E) /\ Covered(E, P, E)
  BY <1>8, <1>9, <1>10 DEF Modal, Once, Covered
<1>13. SoundLayout(E, E, P, E)
  BY <1>7, <1>11, <1>12 DEF SoundLayout
<1> HIDE DEF l
<1>14. WellFormedLayout(l)
  BY <1>7, <1>13, WellFormedIs
<1>15. WellFormedLayout(Local(shape, RowOrder(shape)))
  BY OrdersAre, ElementaryIs
<1> QED BY <1>1, <1>14, <1>15, ComposeIs

-----------------------------------------------------------------------------
(* Common divisors. *)

LEMMA DividesIs ==
  ASSUME NEW d \in Nat, NEW x \in Int
  PROVE  Divides(d, x) <=> \E k \in Int : x = k * d
<1>1. CASE d = 0
  BY <1>1 DEF Divides
<1>2. CASE d > 0
  <2>1. Divides(d, x) <=> x % d = 0
    BY <1>2 DEF Divides
  <2>2. x % d = 0 => x = (x \div d) * d /\ x \div d \in Int
    BY <1>2, Division
  <2>3. ASSUME NEW k \in Int, x = k * d PROVE x % d = 0
    <3>1. x = 0 + k * d /\ 0 \in 0 .. d - 1
      BY <1>2, <2>3
    <3> QED BY <3>1, <1>2, QuotientIs
  <2> QED BY <2>1, <2>2, <2>3
<1> QED BY <1>1, <1>2

LEMMA MaxBelow ==
  ASSUME NEW m \in Nat, NEW S \in SUBSET (1..m), S # {}
  PROVE  Max(S) \in S
<1>1. S \in SUBSET (0..m)
  OBVIOUS
<1>2. PICK g \in S : \A y \in S : y <= g
  BY <1>1, GreatestOf
<1>3. \A y \in S : g >= y
  BY <1>1, <1>2
<1> QED BY <1>3 DEF Max

LEMMA GcdIs ==
  ASSUME NEW a \in Nat, NEW b \in Nat
  PROVE  LET P == {a, b} \ {0} IN
         Gcd({a, b}) = IF P = {} THEN 0 ELSE Max({d \in 1 .. Min(P) : \A x \in P : x % d = 0})
<1> DEFINE A == {IF x < 0 THEN -x ELSE x : x \in {a, b}}
<1>1. A = {a, b}
  OBVIOUS
<1>2. Gcd({a, b}) = IF A \ {0} = {} THEN 0
                   ELSE Max({d \in 1 .. Min(A \ {0}) : \A x \in A \ {0} : x % d = 0})
  BY DEF Gcd
<1> HIDE DEF A
<1> QED BY <1>1, <1>2

LEMMA GcdDivides ==
  ASSUME NEW a \in Nat, NEW b \in Nat
  PROVE  /\ Gcd({a, b}) \in Nat
         /\ Divides(Gcd({a, b}), a) /\ Divides(Gcd({a, b}), b)
         /\ b > 0 => Gcd({a, b}) > 0
<1> DEFINE P == {a, b} \ {0}
           m == Min(P)
           D == {d \in 1 .. m : \A x \in P : x % d = 0}
<1>1. CASE a = 0 /\ b = 0
  <2>1. Gcd({a, b}) = 0
    BY <1>1, GcdIs
  <2> QED BY <1>1, <2>1 DEF Divides
<1>2. CASE ~(a = 0 /\ b = 0)
  <2>1. P # {} /\ \A x \in P : x \in Nat \ {0}
    BY <1>2
  <2>2. \E x \in P : \A y \in P : x <= y
    <3>1. CASE a = 0 \/ b = 0
      BY <2>1, <3>1
    <3>2. CASE a # 0 /\ b # 0
      BY <3>2
    <3> QED BY <3>1, <3>2
  <2>3. m \in P
    BY <2>2 DEF Min
  <2>4. m \in Nat /\ m >= 1
    BY <2>1, <2>3
  <2>5. 1 \in D
    <3>1. \A x \in P : x % 1 = 0
      BY <2>1
    <3> QED BY <3>1, <2>4
  <2>6. D \in SUBSET (1 .. m) /\ D # {}
    BY <2>5
  <2> HIDE DEF D
  <2>7. Max(D) \in D
    BY <2>4, <2>6, MaxBelow
  <2>8. Gcd({a, b}) = Max(D)
    BY <2>1, GcdIs DEF D
  <2>9. PICK g \in Nat \ {0} : g = Gcd({a, b}) /\ \A x \in P : x % g = 0
    <3>1. Max(D) \in 1 .. m /\ \A x \in P : x % Max(D) = 0
      BY <2>7 DEF D
    <3>2. Max(D) \in Nat \ {0}
      BY <2>4, <3>1
    <3> QED BY <3>1, <3>2, <2>8
  <2>10. (a # 0 => a % g = 0) /\ (b # 0 => b % g = 0) /\ 0 % g = 0
    BY <2>9
  <2> QED BY <2>9, <2>10 DEF Divides
<1> QED BY <1>1, <1>2

-----------------------------------------------------------------------------
(* Layouts found for a number of threads: replicated, spread over the dimensions. *)

\* A number without a common divisor with another.
LEMMA GcdLeaves ==
  ASSUME NEW a \in Nat \ {0}, NEW b \in Nat \ {0}, NEW g, g = Gcd({a, b})
  PROVE  g \in Nat \ {0} /\ a \div g \in Nat \ {0} /\ b \div g \in Nat \ {0}
<1>1. g \in Nat \ {0} /\ Divides(g, a) /\ Divides(g, b)
  BY GcdDivides
<1>2. ASSUME NEW x \in Nat \ {0}, Divides(g, x) PROVE x \div g \in Nat \ {0}
  <2>1. PICK k \in Int : x = k * g
    <3>1. g \in Nat /\ x \in Int
      BY <1>1
    <3> QED BY <1>2, <3>1, DividesIs
  <2>2. x \div g = k
    <3>1. x = 0 + k * g /\ 0 \in 0..(g - 1)
      BY <1>1, <2>1
    <3> QED BY <1>1, <3>1, QuotientIs
  <2>3. k > 0
    <3> SUFFICES ASSUME k <= 0 PROVE FALSE
      OBVIOUS
    <3>1. k * g <= 0 * g /\ 0 * g = 0
      BY <1>1, Monotone
    <3> QED BY <2>1, <3>1
  <2> QED BY <2>2, <2>3
<1> QED BY <1>1, <1>2

\* As many threads remain as have no dimension yet.
LEMMA ThreadsLeftIs ==
  ASSUME NEW n \in Nat \ {0}, NEW s \in Seq(Nat \ {0}), NEW i \in 0..Len(s)
  PROVE  ThreadsLeft(n, s, i) \in Nat \ {0}
<1> DEFINE X == Nat \ {0}
           g == [p \in (1..i) \X X |-> p[2] \div Gcd({p[2], s[Len(s) + 1 - p[1]]})]
           Whole(h) == h = [j \in 0..i |-> IF j = 0 THEN n
                             ELSE h[j - 1] \div Gcd({h[j - 1], s[Len(s) + 1 - j]})]
           q == CHOOSE h : Whole(h)
<1>1. g \in [(1..i) \X X -> X]
  <2>1. ASSUME NEW p \in (1..i) \X X PROVE p[2] \div Gcd({p[2], s[Len(s) + 1 - p[1]]}) \in X
    <3>1. p[2] \in X /\ p[1] \in 1..i /\ Len(s) + 1 - p[1] \in 1..Len(s)
      OBVIOUS
    <3>2. s[Len(s) + 1 - p[1]] \in X
      BY <3>1
    <3> QED BY <3>1, <3>2, GcdLeaves
  <2> QED BY <2>1
<1>2. PICK f : Recurs(f, i, X, n, g)
  <2> HIDE DEF g
  <2>1. n \in X /\ i \in Nat
    OBVIOUS
  <2> HIDE DEF X
  <2> QED BY <1>1, <2>1, Recursion
<1>3. ASSUME NEW j \in 1..i PROVE f[j] = f[j - 1] \div Gcd({f[j - 1], s[Len(s) + 1 - j]})
  <2>1. j - 1 \in 0..i
    OBVIOUS
  <2>2. f[j - 1] \in X
    BY <1>2, <2>1 DEF Recurs
  <2>3. <<j, f[j - 1]>> \in (1..i) \X X
    BY <2>2
  <2>4. f[j] = g[<<j, f[j - 1]>>]
    <3> HIDE DEF g
    <3> QED BY <1>2 DEF Recurs
  <2> HIDE DEF X
  <2> QED BY <2>3, <2>4
<1>4. f \in [0..i -> X] /\ f[0] = n
  BY <1>2 DEF Recurs
<1>5. f = [j \in 0..i |-> IF j = 0 THEN n ELSE f[j - 1] \div Gcd({f[j - 1], s[Len(s) + 1 - j]})]
  <2>1. ASSUME NEW j \in 0..i
        PROVE  f[j] = IF j = 0 THEN n ELSE f[j - 1] \div Gcd({f[j - 1], s[Len(s) + 1 - j]})
    <3>1. j # 0 => j \in 1..i
      OBVIOUS
    <3> QED BY <1>3, <1>4, <3>1
  <2>2. DOMAIN f = 0..i /\ f = [j \in DOMAIN f |-> f[j]]
    BY <1>4
  <2> QED BY <2>1, <2>2
<1>6. Whole(q)
  <2>1. Whole(f)
    BY <1>5
  <2> HIDE DEF Whole
  <2> QED BY <2>1
<1>7. \A j \in 0..i : q[j] \in X
  <2> DEFINE S == {j \in 0..i : q[j] = f[j]}
  <2> HIDE DEF q
  <2>1. 0 \in S
    BY <1>4, <1>6
  <2>2. ASSUME NEW j \in 0..(i - 1), j \in S PROVE j + 1 \in S
    <3>1. j + 1 \in 1..i /\ j + 1 \in 0..i /\ j + 1 # 0 /\ (j + 1) - 1 = j /\ q[j] = f[j]
      BY <2>2
    <3>2. q[j + 1] = q[j] \div Gcd({q[j], s[Len(s) + 1 - (j + 1)]})
      BY <1>6, <3>1
    <3>3. f[j + 1] = f[j] \div Gcd({f[j], s[Len(s) + 1 - (j + 1)]})
      BY <1>3, <3>1
    <3> QED BY <3>1, <3>2, <3>3
  <2> HIDE DEF S
  <2>3. \A j \in 0..i : j \in S
    <3>1. i \in Nat
      OBVIOUS
    <3> QED BY <2>1, <2>2, <3>1, InductUpto
  <2> HIDE DEF X
  <2> QED BY <1>4, <2>3 DEF S
<1>8. ThreadsLeft(n, s, i) = q[i]
  BY DEF ThreadsLeft
<1>9. i \in 0..i
  OBVIOUS
<1> QED BY <1>7, <1>8, <1>9

\* auto_local_spatial, for any number of threads, makes a well-formed layout.
LEMMA AutoIs ==
  ASSUME NEW n \in Nat \ {0}, NEW s \in Seq(Nat \ {0}), AutoLocalSpatial(n, s) # Raise
  PROVE  WellFormedLayout(AutoLocalSpatial(n, s))
<1> DEFINE threads == [d \in DOMAIN s |-> Gcd({ThreadsLeft(n, s, Len(s) - d), s[d]})]
           locals == [d \in DOMAIN s |-> s[d] \div threads[d]]
           rest == ThreadsLeft(n, s, Len(s))
           ret == Compose(Local(locals, RowOrder(s)), Spatial(threads, RowOrder(s)))
<1>1. ASSUME NEW d \in 1..Len(s)
      PROVE  threads[d] \in Nat \ {0} /\ locals[d] \in Nat \ {0}
  <2>1. Len(s) - d \in 0..Len(s) /\ s[d] \in Nat \ {0} /\ d \in DOMAIN s
    OBVIOUS
  <2>2. ThreadsLeft(n, s, Len(s) - d) \in Nat \ {0}
    BY <2>1, ThreadsLeftIs
  <2>3. threads[d] = Gcd({ThreadsLeft(n, s, Len(s) - d), s[d]}) /\ locals[d] = s[d] \div threads[d]
    BY <2>1
  <2> HIDE DEF threads, locals
  <2> QED BY <2>1, <2>2, <2>3, GcdLeaves
<1>2. /\ threads \in Seq(Nat \ {0}) /\ Len(threads) = Len(s)
      /\ locals \in Seq(Nat \ {0}) /\ Len(locals) = Len(s)
  <2>1. threads = [d \in 1..Len(s) |-> threads[d]] /\ locals = [d \in 1..Len(s) |-> locals[d]] /\ Len(s) \in Nat
    OBVIOUS
  <2> HIDE DEF threads, locals
  <2>2. threads \in [1..Len(s) -> Nat \ {0}] /\ locals \in [1..Len(s) -> Nat \ {0}]
    BY <1>1, <2>1
  <2>3. Len(s) \in Nat
    OBVIOUS
  <2>4. threads \in Seq(Nat \ {0}) /\ Len(threads) = Len(s)
    BY <2>2, <2>3, SMTT(40)
  <2>5. locals \in Seq(Nat \ {0}) /\ Len(locals) = Len(s)
    BY <2>2, <2>3
  <2> QED BY <2>4, <2>5
<1>3. rest \in Nat \ {0}
  <2>1. Len(s) \in 0..Len(s)
    OBVIOUS
  <2> QED BY <2>1, ThreadsLeftIs
<1>4. AutoLocalSpatial(n, s) =
        IF rest = 1 \/ ret = Raise THEN ret
        ELSE RegisterLayout(ret.shape, ret.mode_shape, <<-rest>> \o ret.spatial_modes, ret.local_modes)
  BY DEF AutoLocalSpatial, With
<1> HIDE DEF threads, locals, rest
<1>5. Orders(threads, RowOrder(s)) /\ Orders(locals, RowOrder(s))
  <2>1. Orders(s, RowOrder(s))
    BY OrdersAre
  <2> QED BY <1>2, <2>1 DEF Orders
<1>6. ret # Raise => WellFormedLayout(ret)
  <2>1. WellFormedLayout(Local(locals, RowOrder(s))) /\ WellFormedLayout(Spatial(threads, RowOrder(s)))
    BY <1>2, <1>5, ElementaryIs
  <2> QED BY <2>1, ComposeIs
<1>7. CASE rest = 1 \/ ret = Raise
  BY <1>4, <1>6, <1>7
<1>8. CASE ~(rest = 1 \/ ret = Raise)
  <2> HIDE DEF ret
  <2> DEFINE S == ret.shape
             M == ret.mode_shape
             P == ret.spatial_modes
             Q == ret.local_modes
             T == <<-rest>>
             R == T \o P
  <2>1. AutoLocalSpatial(n, s) = RegisterLayout(S, M, R, Q)
    BY <1>4, <1>8
  <2>2. SoundLayout(S, M, P, Q)
    BY <1>6, <1>8, LayoutOf
  <2> HIDE DEF S, M, P, Q
  <2>3. S \in Seq(Nat \ {0}) /\ M \in Seq(Nat \ {0}) /\ P \in Seq(Int \ {0}) /\ Q \in Seq(Nat \ {0}) /\ Covered(M, P, Q)
    BY <2>2, SoundIs
  <2>4. T \in Seq(Int \ {0})
    <3>1. -rest \in Int \ {0}
      BY <1>3
    <3> QED BY <3>1
  <2> HIDE DEF T
  <2>5. /\ R \in Seq(Int \ {0}) /\ Len(R) = Len(T) + Len(P) /\ Len(T) \in Nat /\ Len(P) \in Nat
        /\ \A i \in 1..Len(P) : R[Len(T) + i] = P[i]
    BY <2>3, <2>4, JoinIs, SMTT(40)
  <2> HIDE DEF R
  <2>6. Covered(M, R, Q)
    <3>1. ASSUME NEW m \in 1..Len(M) PROVE (\E i \in 1..Len(R) : R[i] = m) \/ (\E i \in 1..Len(Q) : Q[i] = m)
      <4>1. CASE \E i \in 1..Len(P) : P[i] = m
        <5>1. PICK i \in 1..Len(P) : P[i] = m
          BY <4>1
        <5>2. Len(T) + i \in 1..Len(R) /\ R[Len(T) + i] = m
          BY <2>5, <5>1, SMTT(40)
        <5> QED BY <5>2
      <4>2. CASE \E i \in 1..Len(Q) : Q[i] = m
        BY <4>2
      <4> QED BY <2>3, <4>1, <4>2 DEF Covered
    <3> QED BY <3>1 DEF Covered
  <2>7. Typed(S, M, R, Q)
    BY <2>3, <2>5 DEF Typed
  <2> QED BY <2>1, <2>6, <2>7, RegisterLayoutIs
<1> QED BY <1>7, <1>8

-----------------------------------------------------------------------------
(* A layout seen in another shape. *)

\* Every prefix of a shape is at most its product.
LEMMA CutsAre ==
  ASSUME NEW s \in Seq(Nat \ {0})
  PROVE  Cuts(s) \in SUBSET (1..Product(s)) /\ 1 \in Cuts(s) /\ Product(s) \in Cuts(s) /\ Product(s) \in Nat \ {0}
<1>1. Extents(s, Len(s)) /\ Len(s) \in Nat
  BY SeqExtents
<1>2. Prefix(s, 0) = 1 /\ \A i \in 0..Len(s) : Prefix(s, i) \in Nat \ {0}
  BY <1>1, PrefixIs
<1>3. /\ \A i \in 0..Len(s) : Stride(s, i) \in Nat \ {0} /\ Product(s) = Prefix(s, i) * Stride(s, i)
      /\ Product(s) \in Nat \ {0}
  BY StrideIs
<1>4. ASSUME NEW i \in 0..Len(s) PROVE Prefix(s, i) \in 1..Product(s)
  <2> DEFINE p == Prefix(s, i)
             t == Stride(s, i)
  <2>1. p \in Nat \ {0} /\ t \in Nat \ {0} /\ Product(s) = p * t
    BY <1>2, <1>3
  <2> HIDE DEF p, t
  <2>2. 1 * p <= t * p
    BY <2>1, Monotone
  <2>3. 1 * p = p /\ t * p = p * t
    BY <2>1
  <2>4. p \in 1..Product(s)
    BY <1>3, <2>1, <2>2, <2>3
  <2> QED BY <2>4 DEF p
<1>5. 0 \in 0..Len(s) /\ Len(s) \in 0..Len(s)
  BY <1>1
<1> QED BY <1>2, <1>3, <1>4, <1>5 DEF Cuts, Product

\* The modes between cuts, when every cut divides the next.
CutModes(c, N) ==
  /\ \A i \in 1..(Len(c) - 1) : c[i + 1] % c[i] = 0
  /\ N = [i \in 1..(Len(c) - 1) |-> c[i + 1] \div c[i]]

\* They are above 1 and their product is the size.
LEMMA CutModesAre ==
  ASSUME NEW n \in Nat \ {0}, NEW C \in SUBSET (1..n), 1 \in C, n \in C, NEW c, c = InOrder(C), NEW N, CutModes(c, N)
  PROVE  Sizes(N) /\ Product(N) = n
<1> DEFINE K == Cardinality(C)
<1>1. /\ Rank(C, 0) = 0 /\ Rank(C, n) = K /\ K \in Nat
      /\ \A k \in 1..n : Rank(C, k) = Rank(C, k - 1) + (IF k \in C THEN 1 ELSE 0)
  BY RankStep
<1>2. /\ \A i \in 1..K : Nth(C, i) \in C
      /\ \A k \in C : Nth(C, Rank(C, k)) = k
      /\ \A i, j \in 1..K : i < j => Nth(C, i) < Nth(C, j)
  BY NthIs
<1>3. /\ Len(c) = K /\ \A i \in 1..K : c[i] = Nth(C, i)
  BY <1>1 DEF InOrder
<1>4. K >= 1
  <2>1. \A k \in C : Rank(C, k) \in 1..K
    BY RankIs
  <2>2. 1 <= K
    BY <1>1, <2>1
  <2> QED BY <2>2
<1>5. c[1] = 1 /\ c[K] = n
  <2>1. Rank(C, 1) = 1
    <3>1. 1 \in 1..n /\ 1 - 1 = 0
      OBVIOUS
    <3> QED BY <1>1, <3>1
  <2>2. 1 \in 1..K /\ K \in 1..K
    BY <1>1, <1>4
  <2> QED BY <1>1, <1>2, <1>3, <2>1, <2>2
<1> HIDE DEF K
<1>6. ASSUME NEW i \in 1..(K - 1)
      PROVE  N[i] \in Nat \ {0, 1} /\ c[i] * N[i] = c[i + 1]
  <2>1. i \in 1..K /\ i + 1 \in 1..K /\ i < i + 1
    BY <1>1
  <2>2. c[i] \in Nat \ {0} /\ c[i + 1] \in Nat \ {0} /\ c[i] < c[i + 1]
    <3>1. Nth(C, i) \in C /\ Nth(C, i + 1) \in C /\ Nth(C, i) < Nth(C, i + 1)
      BY <1>2, <2>1
    <3>2. \A k \in C : k \in Nat \ {0}
      OBVIOUS
    <3>3. Nth(C, i) \in Nat \ {0} /\ Nth(C, i + 1) \in Nat \ {0}
      BY <3>1, <3>2
    <3> QED BY <1>3, <2>1, <3>1, <3>3
  <2>3. c[i + 1] % c[i] = 0 /\ N[i] = c[i + 1] \div c[i]
    BY <1>3 DEF CutModes
  <2> DEFINE a == c[i]
             b == c[i + 1]
             q == b \div a
  <2> HIDE DEF a, b
  <2>4. a \in Nat \ {0} /\ b \in Nat \ {0} /\ a < b /\ b % a = 0
    BY <2>2, <2>3 DEF a, b
  <2>5. q \in Int /\ b = (b % a) + q * a
    BY <2>4, Division
  <2>6. N[i] = q
    BY <2>3 DEF a, b
  <2> HIDE DEF q
  <2>7. b = q * a /\ q * a = a * q
    BY <2>4, <2>5
  <2>8. q > 1
    <3> SUFFICES ASSUME q <= 1 PROVE FALSE
      BY <2>5
    <3>1. q * a <= 1 * a /\ 1 * a = a
      BY <2>4, <2>5, Monotone
    <3> QED BY <2>4, <2>7, <3>1
  <2>9. q \in Nat \ {0, 1}
    BY <2>5, <2>8
  <2> QED BY <2>6, <2>7, <2>9 DEF a, b
<1>7. Sizes(N) /\ Len(N) = K - 1
  <2>1. N = [i \in 1..(K - 1) |-> N[i]] /\ K - 1 \in Nat
    <3>1. N = [i \in 1..(K - 1) |-> c[i + 1] \div c[i]]
      BY <1>3 DEF CutModes
    <3>2. DOMAIN N = 1..(K - 1) /\ N = [i \in DOMAIN N |-> N[i]]
      BY <3>1
    <3> QED BY <1>1, <1>4, <3>2
  <2>2. N \in [1..(K - 1) -> Nat \ {0, 1}]
    BY <1>6, <2>1
  <2> QED BY <2>1, <2>2 DEF Sizes
<1>8. \A i \in 0..(K - 1) : Prefix(N, i) = c[i + 1]
  <2> DEFINE T == {i \in 0..(K - 1) : Prefix(N, i) = c[i + 1]}
  <2>1. Extents(N, K - 1)
    BY <1>7, SizesAre
  <2>2. Prefix(N, 0) = 1 /\ \A i \in 1..(K - 1) : Prefix(N, i) = Prefix(N, i - 1) * N[i]
    BY <2>1, PrefixIs
  <2>3. 0 \in T
    BY <1>1, <1>4, <1>5, <2>2
  <2>4. ASSUME NEW i \in 0..((K - 1) - 1), i \in T PROVE i + 1 \in T
    <3>1. i + 1 \in 1..(K - 1) /\ i + 1 \in 0..(K - 1) /\ (i + 1) - 1 = i /\ Prefix(N, i) = c[i + 1]
      BY <1>1, <2>4
    <3>2. Prefix(N, i + 1) = c[i + 1] * N[i + 1]
      BY <2>2, <3>1
    <3>3. c[i + 1] * N[i + 1] = c[(i + 1) + 1]
      BY <1>6, <3>1
    <3> QED BY <3>1, <3>2, <3>3
  <2> HIDE DEF T
  <2>5. \A i \in 0..(K - 1) : i \in T
    <3>1. K - 1 \in Nat
      BY <1>1, <1>4
    <3> QED BY <2>3, <2>4, <3>1, InductUpto
  <2> QED BY <2>5 DEF T
<1>9. Product(N) = n
  <2>1. K - 1 \in 0..(K - 1) /\ (K - 1) + 1 = K
    BY <1>1, <1>4
  <2>2. Prefix(N, K - 1) = c[K]
    BY <1>8, <2>1
  <2> QED BY <1>5, <1>7, <2>2 DEF Product
<1> QED BY <1>7, <1>9

\* reshape keeps a layout well-formed.
LEMMA ReshapeIs ==
  ASSUME NEW l, WellFormedLayout(l), NEW shape \in Seq(Nat \ {0}), Reshape(l, shape) # Raise
  PROVE  WellFormedLayout(Reshape(l, shape))
<1> DEFINE S == l.shape
           M == l.mode_shape
           P == l.spatial_modes
           Q == l.local_modes
<1>1. l = Layout(S, M, P, Q) /\ SoundLayout(S, M, P, Q)
  BY LayoutOf
<1> HIDE DEF S, M, P, Q
<1>2. PICK M2, P2, Q2 : /\ CanonicalizeLayout(l) = Layout(S, M2, P2, Q2)
                        /\ SoundLayout(S, M2, P2, Q2) /\ Sizes(M2)
  <2>1. \E N, R, U : /\ CanonicalizeLayout(Layout(S, M, P, Q)) = Layout(S, N, R, U)
                     /\ SoundLayout(S, N, R, U) /\ Sizes(N)
    BY <1>1, CanonicalIs
  <2> QED BY <1>1, <2>1
<1> DEFINE C == Cuts(M2) \cup Cuts(shape)
           c == InOrder(C)
           N == [i \in 1..(Len(c) - 1) |-> c[i + 1] \div c[i]]
<1>3. Product(l.shape) = Product(shape) /\ Reshape(l, shape) = ReshapeAt(Layout(S, M2, P2, Q2), c, shape)
  <2>1. Product(l.shape) = Product(shape)
    BY DEF Reshape
  <2>2. Reshape(l, shape) = ReshapeAt(CanonicalizeLayout(l), InOrder(Cuts(CanonicalizeLayout(l).mode_shape) \cup Cuts(shape)), shape)
    BY <2>1 DEF Reshape, With
  <2>3. Layout(S, M2, P2, Q2).mode_shape = M2
    BY DEF Layout
  <2> QED BY <1>2, <2>1, <2>2, <2>3
<1>4. S = l.shape /\ M2 \in Seq(Nat \ {0}) /\ Product(S) = Product(M2)
  <2>1. M2 \in Seq(Nat \ {0}) /\ Splits(S, M2)
    BY <1>2, SoundIs
  <2> QED BY <2>1 DEF Splits, S
<1>5. Product(M2) \in Nat \ {0} /\ C \in SUBSET (1..Product(M2)) /\ 1 \in C /\ Product(M2) \in C
  <2>1. Cuts(M2) \in SUBSET (1..Product(M2)) /\ 1 \in Cuts(M2) /\ Product(M2) \in Cuts(M2) /\ Product(M2) \in Nat \ {0}
    BY <1>4, CutsAre
  <2>2. Cuts(shape) \in SUBSET (1..Product(shape))
    BY CutsAre
  <2>3. Product(shape) = Product(M2)
    BY <1>3, <1>4
  <2> QED BY <2>1, <2>2, <2>3
<1> HIDE DEF C
<1> DEFINE fine == LayoutWithModeShape(Layout(S, M2, P2, Q2), N)
<1>6. /\ CutModes(c, N)
      /\ Reshape(l, shape) = RegisterLayout(shape, fine.mode_shape, fine.spatial_modes, fine.local_modes)
  <2> HIDE DEF c
  <2>1. ~\E i \in 1..(Len(c) - 1) : c[i + 1] % c[i] # 0
    BY <1>3 DEF ReshapeAt
  <2>2. ReshapeAt(Layout(S, M2, P2, Q2), c, shape) = RegisterLayout(shape, fine.mode_shape, fine.spatial_modes, fine.local_modes)
    BY <2>1 DEF ReshapeAt, With
  <2> QED BY <1>3, <2>1, <2>2 DEF CutModes
<1>7. Sizes(N) /\ Product(N) = Product(M2)
  <2>1. c = InOrder(C)
    OBVIOUS
  <2> HIDE DEF c, N
  <2> QED BY <1>5, <1>6, <2>1, CutModesAre
<1> HIDE DEF N, c
<1>8. Shaped(M2, N)
  BY <1>4, <1>7 DEF Shaped
<1>9. PICK R, U : fine = Layout(S, N, R, U) /\ Typed(S, N, R, U) /\ Covered(N, R, U)
  BY <1>2, <1>8, FineIs
<1> HIDE DEF fine
<1>10. Reshape(l, shape) = RegisterLayout(shape, N, R, U)
  BY <1>6, <1>9 DEF Layout
<1>11. Typed(shape, N, R, U)
  BY <1>9 DEF Typed
<1> QED BY <1>9, <1>10, <1>11, RegisterLayoutIs

\* flatten keeps a layout well-formed.
LEMMA FlattenIsWell ==
  ASSUME NEW l, WellFormedLayout(l), DOMAIN l.shape # {}, Flatten(l, 0, -1) # Raise
  PROVE  WellFormedLayout(Flatten(l, 0, -1))
<1> DEFINE S == l.shape
           n == Len(S)
           T == SubSeq(S, 1, 0) \o <<Product(SubSeq(S, 1, n - 1))>> \o SubSeq(S, n, n)
<1>1. S \in Seq(Nat \ {0}) /\ n \in Nat \ {0} /\ n + (-1) = n - 1
  BY DEF WellFormedLayout
<1>2. Flatten(l, 0, -1) = Reshape(l, T)
  <2>1. 0 + 1 = 1 /\ (n + (-1)) + 1 = n /\ -1 < 0
    BY <1>1
  <2> QED BY <1>1, <2>1 DEF Flatten
<1> HIDE DEF S
<1>3. T \in Seq(Nat \ {0})
  <2>1. SubSeq(S, 1, 0) \in Seq(Nat \ {0})
    BY <1>1
  <2>2. Product(SubSeq(S, 1, n - 1)) \in Nat \ {0}
    <3>1. 0 \in 0..Len(S) /\ n - 1 \in 0..Len(S) /\ 0 + 1 = 1
      BY <1>1
    <3> QED BY <1>1, <3>1, PartProduct
  <2>3. SubSeq(S, n, n) \in Seq(Nat \ {0})
    BY <1>1
  <2> DEFINE p == Product(SubSeq(S, 1, n - 1))
             A == SubSeq(S, 1, 0)
             B == SubSeq(S, n, n)
  <2> HIDE DEF p, A, B
  <2>4. A \o <<p>> \o B \in Seq(Nat \ {0})
    BY <2>1, <2>2, <2>3 DEF p, A, B
  <2> QED BY <2>4 DEF p, A, B
<1> HIDE DEF T
<1> QED BY <1>2, <1>3, ReshapeIs

\* The sizes of the modes of every dimension.
Cutting(f, S) ==
  /\ f \in Seq(Seq(Nat \ {0, 1})) /\ Len(f) = Len(S)
  /\ \A d \in 1..Len(S) : Product(f[d]) = S[d]

\* They split the shape.
LEMMA CuttingCuts ==
  ASSUME NEW S \in Seq(Nat \ {0}), NEW f, Cutting(f, S), NEW N, N = Flat(f), NEW u, Offsets(u, f)
  PROVE  /\ Sizes(N) /\ Len(N) = u[Len(S)]
         /\ \A d \in 0..Len(S) : u[d] \in 0..Len(N) /\ Prefix(N, u[d]) = Prefix(S, d)
<1> DEFINE X == Nat \ {0, 1}
<1>1. f \in Seq(Seq(X)) /\ Len(f) = Len(S)
  BY DEF Cutting
<1>2. \A d \in 1..Len(S) : Product(f[d]) = S[d]
  BY DEF Cutting
<1> HIDE DEF X
<1>3. /\ N \in Seq(X) /\ Len(N) = u[Len(S)]
      /\ \A d \in 1..Len(S) : \A i \in 1..Len(f[d]) : N[u[d - 1] + i] = f[d][i]
  BY <1>1, FlattenIs
<1>4. /\ \A d \in 0..Len(S) : u[d] \in Nat
      /\ u[0] = 0
      /\ \A d \in 1..Len(S) : u[d] = u[d - 1] + Len(f[d]) /\ Len(f[d]) \in Nat
      /\ Len(S) \in Nat
      /\ \A c, d \in 0..Len(S) : c <= d => u[c] <= u[d]
  BY <1>1, OffsetsAre
<1>5. Sizes(N)
  BY <1>3 DEF Sizes, X
<1>6. ASSUME NEW d \in 0..Len(S) PROVE u[d] \in 0..Len(N)
  <2>1. Len(S) \in 0..Len(S) /\ d <= Len(S)
    BY <1>4
  <2>2. u[d] <= u[Len(S)] /\ u[d] \in Nat /\ u[Len(S)] \in Nat
    BY <1>4, <2>1
  <2> QED BY <1>3, <2>2
<1>7. Extents(N, Len(N)) /\ Len(N) \in Nat
  BY <1>5, SizesAre
<1>8. Extents(S, Len(S))
  BY SeqExtents
<1>9. Prefix(N, 0) = 1 /\ Prefix(S, 0) = 1 /\ \A d \in 1..Len(S) : Prefix(S, d) = Prefix(S, d - 1) * S[d]
  BY <1>7, <1>8, PrefixIs
<1> DEFINE T == {d \in 0..Len(S) : Prefix(N, u[d]) = Prefix(S, d)}
<1>10. 0 \in T
  BY <1>4, <1>9
<1>11. ASSUME NEW d \in 0..(Len(S) - 1), d \in T PROVE d + 1 \in T
  <2>1. d + 1 \in 1..Len(S) /\ d + 1 \in 0..Len(S) /\ (d + 1) - 1 = d /\ Prefix(N, u[d]) = Prefix(S, d) /\ d \in 0..Len(S)
    BY <1>4, <1>11
  <2> DEFINE t == f[d + 1]
             k == u[d]
             n == Len(t)
  <2>2. u[d + 1] = k + n /\ n \in Nat /\ k \in Nat /\ k + n \in 0..Len(N)
    BY <1>4, <1>6, <2>1
  <2>3. \A i \in 1..n : t[i] = N[k + i]
    BY <1>3, <2>1
  <2>4. Product(t) = S[d + 1] /\ Product(t) = Prefix(t, n)
    BY <1>2, <2>1 DEF Product
  <2> HIDE DEF t, k, n
  <2>5. Extents(N, k + n)
    <3>1. k + n \in Nat /\ \A i \in 1..(k + n) : i \in 1..Len(N)
      BY <1>7, <2>2
    <3> QED BY <1>7, <3>1 DEF Extents
  <2>6. Part(t, N, k, n)
    BY <2>2, <2>3, <2>5 DEF Part
  <2>7. \A i \in 0..n : Prefix(N, k + i) = Prefix(N, k) * Prefix(t, i)
    BY <2>6, PartPrefix
  <2>8. n \in 0..n
    BY <2>2
  <2>9. Prefix(N, k + n) = Prefix(N, k) * Prefix(t, n)
    BY <2>7, <2>8
  <2>10. Prefix(N, k) = Prefix(S, d)
    BY <2>1 DEF k
  <2>11. Prefix(S, d + 1) = Prefix(S, d) * S[d + 1]
    BY <1>9, <2>1
  <2>12. Prefix(N, u[d + 1]) = Prefix(S, d + 1)
    BY <2>2, <2>4, <2>9, <2>10, <2>11
  <2> QED BY <2>1, <2>12
<1> HIDE DEF T
<1>12. \A d \in 0..Len(S) : d \in T
  BY <1>4, <1>10, <1>11, InductUpto
<1> QED BY <1>3, <1>5, <1>6, <1>12 DEF T

\* The modes of a layout whose modes are cut so.
LEMMA CuttingIs ==
  ASSUME NEW S \in Seq(Nat \ {0}), NEW f, Cutting(f, S), NEW N, N = Flat(f)
  PROVE  /\ Shaped(S, N)
         /\ Grouped(S, N, Upto(S, N), GetModeGroups(S, N))
         /\ \A d \in 1..Len(S) : Len(GetModeGroups(S, N)[d]) = Len(f[d])
<1> DEFINE X == Nat \ {0, 1}
           w == Upto(S, N)
           G == GetModeGroups(S, N)
<1>1. f \in Seq(Seq(X)) /\ Len(f) = Len(S)
  BY DEF Cutting
<1> HIDE DEF X
<1>2. PICK u : Offsets(u, f)
  BY <1>1, OffsetsExist
<1>3. /\ Sizes(N) /\ Len(N) = u[Len(S)]
      /\ \A d \in 0..Len(S) : u[d] \in 0..Len(N) /\ Prefix(N, u[d]) = Prefix(S, d)
  BY <1>2, CuttingCuts
<1>4. Len(S) \in Nat /\ Len(N) \in Nat
  BY <1>3, SizesAre
<1>5. Shaped(S, N)
  <2>1. Len(S) \in 0..Len(S)
    BY <1>4
  <2>2. Product(S) = Product(N)
    BY <1>3, <2>1 DEF Product
  <2> QED BY <1>3, <2>2 DEF Shaped
<1>6. Grouped(S, N, w, G)
  BY <1>5, GroupsAre
<1>7. ASSUME NEW d \in 0..Len(S) PROVE w[d] = u[d]
  <2> DEFINE c == Prefix(S, d)
             b == Below(N, c)
  <2>1. w[d] = b
    BY DEF Upto
  <2>2. u[d] \in 0..Len(N) /\ Prefix(N, u[d]) = c
    BY <1>3
  <2>3. c \in Nat \ {0}
    BY <1>3, <2>2, SizesGrow
  <2> HIDE DEF c
  <2>4. b \in 0..Len(N) /\ \A m \in 0..Len(N) : m <= b <=> Prefix(N, m) <= c
    BY <1>3, <2>3, BelowIs
  <2> HIDE DEF b
  <2>5. u[d] <= b
    BY <2>2, <2>3, <2>4
  <2>6. Prefix(N, b) <= c /\ Prefix(N, b) \in Nat
    <3>1. b <= b
      BY <2>4
    <3>2. Prefix(N, b) \in Nat
      BY <1>3, <2>4, SizesGrow
    <3> QED BY <2>4, <3>1, <3>2
  <2>7. ~(u[d] < b)
    <3> SUFFICES ASSUME u[d] < b PROVE FALSE
      OBVIOUS
    <3>1. Prefix(N, u[d]) < Prefix(N, b)
      BY <1>3, <2>2, <2>4, SizesGrow
    <3> QED BY <2>2, <2>3, <2>6, <3>1
  <2> QED BY <1>4, <2>1, <2>2, <2>4, <2>5, <2>7
<1>8. ASSUME NEW d \in 1..Len(S) PROVE Len(G[d]) = Len(f[d])
  <2>1. d \in 0..Len(S) /\ d - 1 \in 0..Len(S)
    BY <1>4
  <2>2. w[d] = w[d - 1] + Len(G[d]) /\ Len(G[d]) \in Nat
    <3> HIDE DEF w, G
    <3>1. Offsets(w, G) /\ Len(G) = Len(S) /\ Len(G[d]) \in Nat
      BY <1>6 DEF Grouped
    <3> QED BY <3>1 DEF Offsets
  <2>3. u[d] = u[d - 1] + Len(f[d]) /\ Len(f[d]) \in Nat
    <3>1. \A e \in 1..Len(f) : u[e] = u[e - 1] + Len(f[e]) /\ Len(f[e]) \in Nat
      BY <1>1, <1>2, OffsetsAre
    <3> QED BY <1>1, <3>1
  <2>4. w[d] = u[d] /\ w[d - 1] = u[d - 1] /\ u[d - 1] \in Nat
    BY <1>3, <1>7, <2>1
  <2> HIDE DEF w, G
  <2> QED BY <2>2, <2>3, <2>4
<1> QED BY <1>5, <1>6, <1>8

-----------------------------------------------------------------------------
(* Division: the modes of the divisor are taken from the end or the beginning. *)

\* A list that is a prefix begins another.
LEMMA StartIs ==
  ASSUME NEW X, NEW s \in Seq(X), NEW t \in Seq(X), IsPrefix(s, t)
  PROVE  Len(s) \in 0..Len(t) /\ \A i \in 1..Len(s) : t[i] = s[i]
<1>1. Len(s) <= Len(t) /\ SubSeq(s, 1, Len(s)) = SubSeq(t, 1, Len(s)) /\ Len(s) \in Nat /\ Len(t) \in Nat
  BY DEF IsPrefix
<1>2. ASSUME NEW i \in 1..Len(s) PROVE t[i] = s[i]
  <2>1. SubSeq(s, 1, Len(s))[i] = s[i] /\ SubSeq(t, 1, Len(s))[i] = t[i]
    BY <1>1
  <2> QED BY <1>1, <2>1
<1> QED BY <1>1, <1>2

\* A list reversed.
LEMMA ReverseIs ==
  ASSUME NEW X, NEW s \in Seq(X)
  PROVE  /\ Reverse(s) \in Seq(X) /\ Len(Reverse(s)) = Len(s) /\ Len(s) \in Nat
         /\ \A i \in 1..Len(s) : Reverse(s)[i] = s[(Len(s) - i) + 1]
<1> DEFINE r == [i \in 1..Len(s) |-> s[(Len(s) - i) + 1]]
<1>1. Reverse(s) = r
  BY DEF Reverse
<1>2. Len(s) \in Nat
  OBVIOUS
<1>3. r \in [1..Len(s) -> X]
  <2>1. ASSUME NEW i \in 1..Len(s) PROVE s[(Len(s) - i) + 1] \in X
    <3>1. (Len(s) - i) + 1 \in 1..Len(s)
      OBVIOUS
    <3> QED BY <3>1
  <2> QED BY <2>1
<1>4. r \in Seq(X) /\ Len(r) = Len(s)
  BY <1>2, <1>3
<1> QED BY <1>1, <1>2, <1>4

\* A list that is a suffix ends another.
LEMMA EndIs ==
  ASSUME NEW X, NEW s \in Seq(X), NEW t \in Seq(X), IsSuffix(s, t)
  PROVE  Len(s) \in 0..Len(t) /\ \A i \in 1..Len(s) : t[(Len(t) - Len(s)) + i] = s[i]
<1> DEFINE a == Reverse(s)
           b == Reverse(t)
<1>1. /\ a \in Seq(X) /\ Len(a) = Len(s) /\ Len(s) \in Nat
      /\ \A i \in 1..Len(s) : a[i] = s[(Len(s) - i) + 1]
  BY ReverseIs
<1>2. /\ b \in Seq(X) /\ Len(b) = Len(t) /\ Len(t) \in Nat
      /\ \A i \in 1..Len(t) : b[i] = t[(Len(t) - i) + 1]
  BY ReverseIs
<1>3. IsPrefix(a, b)
  BY DEF IsSuffix
<1> HIDE DEF a, b
<1>4. Len(a) \in 0..Len(b) /\ \A i \in 1..Len(a) : b[i] = a[i]
  BY <1>1, <1>2, <1>3, StartIs
<1>5. ASSUME NEW i \in 1..Len(s) PROVE t[(Len(t) - Len(s)) + i] = s[i]
  <2> DEFINE j == (Len(s) - i) + 1
  <2>1. /\ j \in 1..Len(s) /\ j \in 1..Len(t)
        /\ (Len(s) - j) + 1 = i /\ (Len(t) - j) + 1 = (Len(t) - Len(s)) + i
    BY <1>1, <1>2, <1>4
  <2> HIDE DEF j
  <2>2. a[j] = s[i] /\ b[j] = t[(Len(t) - Len(s)) + i] /\ b[j] = a[j]
    BY <1>1, <1>2, <1>4, <2>1
  <2> QED BY <2>2
<1> QED BY <1>1, <1>2, <1>4, <1>5

\* A layout without some modes.
LEMMA WithoutIs ==
  ASSUME NEW S, NEW N, NEW R, NEW U, Typed(S, N, R, U),
         NEW T \in Seq(Nat \ {0}), NEW gone, NEW V \in Seq(Int \ {0}), NEW W \in Seq(Nat \ {0}),
         \A m \in 1..Len(N) : m \notin gone =>
           (\E i \in 1..Len(V) : V[i] = m) \/ (\E i \in 1..Len(W) : W[i] = m),
         WithoutMode(Layout(S, N, R, U), T, gone, V, W) # Raise
  PROVE  WellFormedLayout(WithoutMode(Layout(S, N, R, U), T, gone, V, W))
<1> DEFINE kept == (1..Len(N)) \ gone
           l == Layout(S, N, V, W)
           N2 == Sifted(N, kept)
           V2 == KeptModes(V, kept)
           W2 == KeptModes(W, kept)
<1>1. N \in Seq(Nat \ {0}) /\ DOMAIN N = 1..Len(N)
  BY DEF Typed
<1>2. kept \in SUBSET (1..Len(N))
  OBVIOUS
<1>3. WithoutMode(Layout(S, N, R, U), T, gone, V, W) =
        RegisterLayout(T, Keep(l, kept).mode_shape, Keep(l, kept).spatial_modes, Keep(l, kept).local_modes)
  <2>1. Modes(Layout(S, N, R, U)) \ gone = kept
    BY <1>1 DEF Modes, Layout
  <2>2. [Layout(S, N, R, U) EXCEPT !.spatial_modes = V] = Layout(S, N, V, U)
    BY DEF Layout
  <2>4. [Layout(S, N, V, U) EXCEPT !.local_modes = W] = l
    BY DEF Layout
  <2>3. [Layout(S, N, R, U) EXCEPT !.spatial_modes = V, !.local_modes = W] = l
    BY <2>2, <2>4
  <2> HIDE DEF kept, l
  <2> QED BY <2>1, <2>3 DEF WithoutMode
<1>4. Keep(l, kept) = Layout(S, N2, V2, W2)
  <2> HIDE DEF kept
  <2>1. N = l.mode_shape /\ V = l.spatial_modes /\ W = l.local_modes /\ S = l.shape
    BY DEF Layout
  <2> HIDE DEF l
  <2>2. Keep(l, kept) = [shape |-> l.shape, mode_shape |-> Sifted(N, kept),
                         spatial_modes |-> KeptModes(V, kept), local_modes |-> KeptModes(W, kept)]
    BY <1>1, <1>2, <2>1, KeepIs
  <2> QED BY <2>1, <2>2 DEF Layout
<1>5. Kept(N, V, W, kept, N2, V2, W2)
  BY <1>1, <1>2 DEF Kept
<1> HIDE DEF kept, l, N2, V2, W2
<1>6. /\ N2 \in Seq(Nat \ {0}) /\ V2 \in Seq(Int \ {0}) /\ W2 \in Seq(Nat \ {0})
      /\ Covered(N2, V2, W2)
  BY <1>5, KeptModal
<1>7. WithoutMode(Layout(S, N, R, U), T, gone, V, W) = RegisterLayout(T, N2, V2, W2)
  BY <1>3, <1>4 DEF Layout
<1>8. Typed(T, N2, V2, W2)
  BY <1>6 DEF Typed
<1> QED BY <1>6, <1>7, <1>8, RegisterLayoutIs

\* The product of two sequences joined.
LEMMA ProductJoin ==
  ASSUME NEW s \in Seq(Nat \ {0}), NEW t \in Seq(Nat \ {0})
  PROVE  s \o t \in Seq(Nat \ {0}) /\ Product(s \o t) = Product(s) * Product(t)
<1> DEFINE r == s \o t
           X == Nat \ {0}
<1>1. /\ r \in Seq(X) /\ Len(r) = Len(s) + Len(t) /\ Len(s) \in Nat /\ Len(t) \in Nat
      /\ \A i \in 1..Len(s) : r[i] = s[i]
      /\ \A i \in 1..Len(t) : r[Len(s) + i] = t[i]
  <2>1. s \in Seq(X) /\ t \in Seq(X)
    OBVIOUS
  <2> HIDE DEF X
  <2> QED BY <2>1, JoinIs
<1> HIDE DEF r
<1>2. Extents(r, Len(s) + Len(t)) /\ Extents(s, Len(s))
  <2>1. Extents(r, Len(r))
    BY <1>1, SeqExtents
  <2>2. Extents(s, Len(s))
    BY SeqExtents
  <2> QED BY <1>1, <2>1, <2>2
<1>3. Part(t, r, Len(s), Len(t))
  BY <1>1, <1>2 DEF Part
<1>4. \A i \in 0..Len(t) : Prefix(r, Len(s) + i) = Prefix(r, Len(s)) * Prefix(t, i)
  BY <1>3, PartPrefix
<1>5. \A i \in 0..Len(s) : Prefix(r, i) = Prefix(s, i)
  BY <1>1, <1>2, SamePrefix
<1>6. Len(t) \in 0..Len(t) /\ Len(s) \in 0..Len(s)
  BY <1>1
<1>7. Prefix(r, Len(s) + Len(t)) = Prefix(s, Len(s)) * Prefix(t, Len(t))
  BY <1>4, <1>5, <1>6
<1> QED BY <1>1, <1>7 DEF Product, r, X

\* Two factors in one's place.
LEMMA ProductOfTwo ==
  ASSUME NEW a \in Nat \ {0}, NEW b \in Nat \ {0}
  PROVE  <<a, b>> \in Seq(Nat \ {0}) /\ Product(<<a, b>>) = a * b
<1> DEFINE s == <<a, b>>
<1>1. s \in Seq(Nat \ {0}) /\ Len(s) = 2 /\ s[1] = a /\ s[2] = b
  OBVIOUS
<1> HIDE DEF s
<1>2. Extents(s, 2)
  BY <1>1, SeqExtents
<1>3. Prefix(s, 0) = 1 /\ \A i \in 1..2 : Prefix(s, i) = Prefix(s, i - 1) * s[i]
  BY <1>2, PrefixIs
<1>4. Prefix(s, 1) = a
  <2>1. 1 \in 1..2 /\ 1 - 1 = 0 /\ 1 * a = a
    OBVIOUS
  <2> QED BY <1>1, <1>3, <2>1
<1>5. Prefix(s, 2) = a * b
  <2>1. 2 \in 1..2 /\ 2 - 1 = 1
    OBVIOUS
  <2> QED BY <1>1, <1>3, <1>4, <2>1
<1> QED BY <1>1, <1>5 DEF Product, s

\* A product in three parts.
LEMMA ProductAround ==
  ASSUME NEW a \in Seq(Nat \ {0}), NEW i \in 1..Len(a)
  PROVE  /\ SubSeq(a, 1, i - 1) \in Seq(Nat \ {0}) /\ SubSeq(a, i + 1, Len(a)) \in Seq(Nat \ {0})
         /\ Product(SubSeq(a, 1, i - 1)) \in Nat \ {0} /\ Product(SubSeq(a, i + 1, Len(a))) \in Nat \ {0}
         /\ Product(a) = (Product(SubSeq(a, 1, i - 1)) * a[i]) * Product(SubSeq(a, i + 1, Len(a)))
<1>1. Extents(a, Len(a)) /\ Len(a) \in Nat
  BY SeqExtents
<1>2. Prefix(a, 0) = 1 /\ \A k \in 1..Len(a) : Prefix(a, k) = Prefix(a, k - 1) * a[k]
  BY <1>1, PrefixIs
<1>3. 0 \in 0..Len(a) /\ i - 1 \in 0..Len(a) /\ i \in 0..Len(a) /\ Len(a) \in i..Len(a) /\ i - 1 \in 0..Len(a) /\ 0 + 1 = 1
  BY <1>1
<1>4. /\ SubSeq(a, 1, i - 1) \in Seq(Nat \ {0})
      /\ Product(SubSeq(a, 1, i - 1)) \in Nat \ {0}
      /\ Prefix(a, i - 1) = Prefix(a, 0) * Product(SubSeq(a, 1, i - 1))
  <2>1. /\ SubSeq(a, 0 + 1, i - 1) \in Seq(Nat \ {0})
        /\ Product(SubSeq(a, 0 + 1, i - 1)) \in Nat \ {0}
        /\ Prefix(a, i - 1) = Prefix(a, 0) * Product(SubSeq(a, 0 + 1, i - 1))
    BY <1>3, PartProduct
  <2> QED BY <1>3, <2>1
<1>5. /\ SubSeq(a, i + 1, Len(a)) \in Seq(Nat \ {0})
      /\ Product(SubSeq(a, i + 1, Len(a))) \in Nat \ {0}
      /\ Prefix(a, Len(a)) = Prefix(a, i) * Product(SubSeq(a, i + 1, Len(a)))
  BY <1>3, PartProduct
<1>6. Prefix(a, i - 1) = Product(SubSeq(a, 1, i - 1))
  BY <1>2, <1>4
<1>7. Prefix(a, i) = Prefix(a, i - 1) * a[i]
  BY <1>2
<1> QED BY <1>4, <1>5, <1>6, <1>7 DEF Product

\* Sizes above 1 are a sequence of extents.
LEMMA SplitInTwo ==
  ASSUME NEW x \in Nat \ {0, 1}, NEW y \in Nat \ {0, 1}, x # y, x % y = 0, NEW q, q = x \div y
  PROVE  q \in Nat \ {0, 1} /\ q * y = x /\ y * q = x
<1>1. q \in Int /\ x = (x % y) + q * y
  BY Division
<1>2. x = q * y /\ q * y = y * q
  BY <1>1
<1>3. q > 0
  <2> SUFFICES ASSUME q <= 0 PROVE FALSE
    BY <1>1
  <2>1. q * y <= 0 * y /\ 0 * y = 0
    BY <1>1, Monotone
  <2> QED BY <1>2, <2>1
<1>4. q # 1
  <2>1. 1 * y = y
    OBVIOUS
  <2> QED BY <1>2, <2>1
<1> QED BY <1>1, <1>2, <1>3, <1>4

\* The size of a mode split, among the others.
SplitPlace(r, a, i, x, y) ==
  x * y = a[i] /\ r = SubSeq(a, 1, i - 1) \o <<x, y>> \o SubSeq(a, i + 1, Len(a))

\* Splitting a mode keeps the product.
LEMMA SplitAmong ==
  ASSUME NEW a \in Seq(Nat \ {0, 1}), NEW i \in 1..Len(a), NEW x \in Nat \ {0, 1}, NEW y \in Nat \ {0, 1},
         NEW r, SplitPlace(r, a, i, x, y)
  PROVE  r \in Seq(Nat \ {0, 1}) /\ Product(r) = Product(a)
<1> DEFINE A == SubSeq(a, 1, i - 1)
           B == SubSeq(a, i + 1, Len(a))
           t == <<x, y>>
<1>1. a \in Seq(Nat \ {0})
  BY SizesAre DEF Sizes
<1>2. /\ A \in Seq(Nat \ {0}) /\ B \in Seq(Nat \ {0})
      /\ Product(A) \in Nat \ {0} /\ Product(B) \in Nat \ {0}
      /\ Product(a) = (Product(A) * a[i]) * Product(B)
  BY <1>1, ProductAround
<1>3. t \in Seq(Nat \ {0}) /\ Product(t) = x * y /\ t \in Seq(Nat \ {0, 1})
  <2>1. t \in Seq(Nat \ {0, 1})
    OBVIOUS
  <2> QED BY <2>1, ProductOfTwo
<1>4. A \in Seq(Nat \ {0, 1}) /\ B \in Seq(Nat \ {0, 1})
  <2> DEFINE X == Nat \ {0, 1}
  <2>1. a \in Seq(X) /\ Len(a) \in Nat
    OBVIOUS
  <2> HIDE DEF X
  <2>2. \A k \in 1..Len(a) : a[k] \in X
    BY <2>1
  <2>3. A \in Seq(X)
    BY <2>1, <2>2
  <2>4. B \in Seq(X)
    BY <2>1, <2>2
  <2> QED BY <2>3, <2>4 DEF X
<1>5. r = (A \o t) \o B /\ x * y = a[i]
  BY DEF SplitPlace
<1> HIDE DEF A, B, t
<1>6. A \o t \in Seq(Nat \ {0}) /\ Product(A \o t) = Product(A) * Product(t)
  BY <1>2, <1>3, ProductJoin
<1>7. Product((A \o t) \o B) = Product(A \o t) * Product(B)
  BY <1>2, <1>6, ProductJoin
<1>8. Product(r) = Product(a)
  BY <1>2, <1>3, <1>5, <1>6, <1>7
<1>9. r \in Seq(Nat \ {0, 1})
  <2> DEFINE X == Nat \ {0, 1}
  <2>1. A \in Seq(X) /\ B \in Seq(X) /\ t \in Seq(X)
    BY <1>3, <1>4
  <2> HIDE DEF X
  <2>2. (A \o t) \o B \in Seq(X)
    BY <2>1
  <2> QED BY <1>5, <2>2 DEF X
<1> QED BY <1>8, <1>9

\* A suffix of sizes split to fit the divisor.
LEMMA SplitAtIs ==
  ASSUME NEW a \in Seq(Nat \ {0, 1}), NEW b \in Seq(Nat \ {0, 1}), NEW i \in Nat \ {0}
  PROVE  SplitAt(a, i, b) \in Seq(Nat \ {0, 1}) /\ Product(SplitAt(a, i, b)) = Product(a)
<1>1. CASE b = <<>> \/ i \notin DOMAIN a
  BY <1>1 DEF SplitAt
<1>2. CASE ~(b = <<>> \/ i \notin DOMAIN a)
  <2>1. i \in 1..Len(a) /\ a[i] \in Nat \ {0, 1} /\ b[1] \in Nat \ {0, 1}
    BY <1>2
  <2>2. CASE a[i] = b[1] \/ a[i] % b[1] # 0
    BY <1>2, <2>2 DEF SplitAt
  <2>3. CASE ~(a[i] = b[1] \/ a[i] % b[1] # 0)
    <3> DEFINE y == b[1]
               q == a[i] \div y
               r == SubSeq(a, 1, i - 1) \o <<q, y>> \o SubSeq(a, i + 1, Len(a))
    <3>1. SplitAt(a, i, b) = r
      BY <1>2, <2>3 DEF SplitAt
    <3>2. q \in Nat \ {0, 1} /\ q * y = a[i]
      BY <2>1, <2>3, SplitInTwo
    <3>3. y \in Nat \ {0, 1}
      BY <2>1
    <3>4. SplitPlace(r, a, i, q, y)
      BY <3>2 DEF SplitPlace
    <3> HIDE DEF q, r, y
    <3>5. r \in Seq(Nat \ {0, 1}) /\ Product(r) = Product(a)
      BY <2>1, <3>2, <3>3, <3>4, SplitAmong
    <3> QED BY <3>1, <3>5
  <2> QED BY <2>2, <2>3
<1> QED BY <1>1, <1>2

\* The same at the beginning.
SplitFirst(s, by) ==
  IF s = <<>> \/ by = <<>> THEN s
  ELSE IF s[1] = by[1] \/ s[1] % by[1] # 0 THEN s
  ELSE <<by[1], s[1] \div by[1]>> \o Tail(s)

\* A prefix of sizes split to fit the divisor.
LEMMA SplitFirstIs ==
  ASSUME NEW a \in Seq(Nat \ {0, 1}), NEW b \in Seq(Nat \ {0, 1})
  PROVE  SplitFirst(a, b) \in Seq(Nat \ {0, 1}) /\ Product(SplitFirst(a, b)) = Product(a)
<1>1. CASE a = <<>> \/ b = <<>>
  BY <1>1 DEF SplitFirst
<1>2. CASE ~(a = <<>> \/ b = <<>>)
  <2>1. 1 \in 1..Len(a) /\ a[1] \in Nat \ {0, 1} /\ b[1] \in Nat \ {0, 1}
    BY <1>2
  <2>2. CASE a[1] = b[1] \/ a[1] % b[1] # 0
    BY <1>2, <2>2 DEF SplitFirst
  <2>3. CASE ~(a[1] = b[1] \/ a[1] % b[1] # 0)
    <3> DEFINE y == b[1]
               q == a[1] \div y
               t == <<y, q>>
               r == SubSeq(a, 1, 1 - 1) \o t \o SubSeq(a, 1 + 1, Len(a))
    <3>1. SplitFirst(a, b) = t \o Tail(a)
      BY <1>2, <2>3 DEF SplitFirst
    <3>2. q \in Nat \ {0, 1} /\ y * q = a[1] /\ y \in Nat \ {0, 1}
      <4>1. a[1] # y /\ a[1] % y = 0 /\ y \in Nat \ {0, 1} /\ q = a[1] \div y
        BY <2>1, <2>3
      <4> HIDE DEF y, q
      <4> QED BY <2>1, <4>1, SplitInTwo
    <3> HIDE DEF q, y
    <3>3. t \in Seq(Nat \ {0, 1})
      BY <2>1, <3>2
    <3>4. r = t \o Tail(a)
      <4> DEFINE X == Nat \ {0, 1}
      <4>0. t \in Seq(X) /\ a \in Seq(X) /\ a # <<>>
        BY <1>2, <3>3
      <4> HIDE DEF X, t
      <4>1. SubSeq(a, 1, 1 - 1) = <<>>
        BY <4>0
      <4>2. SubSeq(a, 1 + 1, Len(a)) = Tail(a)
        BY <4>0
      <4>3. <<>> \o t = t
        BY <4>0
      <4> QED BY <4>1, <4>2, <4>3
    <3>5. r \in Seq(Nat \ {0, 1}) /\ Product(r) = Product(a)
      <4>1. SplitPlace(r, a, 1, y, q)
        BY <3>2 DEF SplitPlace
      <4> HIDE DEF r
      <4> QED BY <2>1, <3>2, <4>1, SplitAmong
    <3> QED BY <3>1, <3>4, <3>5
  <2> QED BY <2>2, <2>3
<1> QED BY <1>1, <1>2

\* The sizes of the modes of a dimension are above 1.
LEMMA GroupSizes ==
  ASSUME NEW S, NEW M, Shaped(S, M), Splits(S, M), NEW d \in 1..Len(S)
  PROVE  /\ GroupShape(S, M, d) \in Seq(Nat \ {0, 1})
         /\ Len(GroupShape(S, M, d)) = Len(GetModeGroups(S, M)[d])
         /\ Product(GroupShape(S, M, d)) = S[d]
<1> DEFINE G == GetModeGroups(S, M)
           s == GroupShape(S, M, d)
<1>1. s \in Seq(Nat \ {0}) /\ Len(s) = Len(G[d]) /\ Product(s) = S[d]
  BY GroupShapeIs
<1>2. Grouped(S, M, Upto(S, M), G)
  BY GroupsAre
<1>3. s = [i \in DOMAIN G[d] |-> M[G[d][i]]]
  BY DEF GroupShape
<1> HIDE DEF G, s
<1>4. DOMAIN G[d] = 1..Len(G[d]) /\ Len(G[d]) \in Nat /\ \A i \in 1..Len(G[d]) : G[d][i] \in 1..Len(M)
  BY <1>2 DEF Grouped
<1>5. M \in Seq(Nat \ {0, 1})
  BY DEF Shaped, Sizes
<1>6. s \in [1..Len(G[d]) -> Nat \ {0, 1}]
  BY <1>3, <1>4, <1>5
<1>7. s \in Seq(Nat \ {0, 1})
  BY <1>4, <1>6
<1> QED BY <1>1, <1>7 DEF G, s

\* As many places for the modes of rhs as it has.
Fits(h, S, M) ==
  Len(h) = Len(S) /\ \A d \in 1..Len(S) : Len(h[d]) = Len(GetModeGroups(S, M)[d])

\* The places fitted are one for each mode of the divisor.
LEMMA FitIs ==
  ASSUME NEW S, NEW M, Shaped(S, M), NEW n \in Nat, NEW h \in Seq(Seq(1..n)), Fits(h, S, M)
  PROVE  Flat(h) \in Seq(1..n) /\ Len(Flat(h)) = Len(M)
<1> DEFINE G == GetModeGroups(S, M)
           u == Upto(S, M)
           X == 1..n
<1>1. Grouped(S, M, u, G)
  BY GroupsAre
<1> HIDE DEF G, u
<1>2. Offsets(u, G) /\ Len(G) = Len(S) /\ u[Len(G)] = Len(M)
  BY <1>1 DEF Grouped
<1>3. Len(h) = Len(S) /\ \A d \in 1..Len(S) : Len(h[d]) = Len(G[d])
  BY DEF Fits, G
<1>4. Offsets(u, h)
  BY <1>2, <1>3 DEF Offsets
<1>5. h \in Seq(Seq(X))
  OBVIOUS
<1> HIDE DEF X
<1>6. Flat(h) \in Seq(X) /\ Len(Flat(h)) = u[Len(h)]
  BY <1>4, <1>5, FlattenIs
<1> QED BY <1>2, <1>3, <1>6 DEF X

\* The modes of a list that are not gone are still listed.
Leaves(V, R, gone) ==
  \A i \in 1..Len(R) : R[i] > 0 /\ R[i] \notin gone => \E j \in 1..Len(V) : V[j] = R[i]

\* The modes of a list at the places for them.
Placing(T, P, places) == T = [i \in 1..Len(P) |-> IF P[i] < 0 THEN P[i] ELSE places[P[i]]]

\* The modes at the places for them are modes of the whole.
LEMMA PlacedList ==
  ASSUME NEW P \in Seq(Int \ {0}), NEW places \in Seq(Nat \ {0}),
         \A i \in 1..Len(P) : ~(P[i] < 0) => P[i] \in 1..Len(places),
         NEW T, Placing(T, P, places)
  PROVE  /\ T \in Seq(Int \ {0}) /\ Len(T) = Len(P) /\ Len(P) \in Nat
         /\ \A i \in 1..Len(P) : T[i] > 0 => T[i] \in Range(places)
<1>1. DOMAIN P = 1..Len(P) /\ Len(P) \in Nat /\ DOMAIN places = 1..Len(places)
  OBVIOUS
<1>2. T = [i \in 1..Len(P) |-> IF P[i] < 0 THEN P[i] ELSE places[P[i]]]
  BY DEF Placing
<1>3. ASSUME NEW i \in 1..Len(P) PROVE T[i] \in Int \ {0} /\ (T[i] > 0 => T[i] \in Range(places))
  <2>1. CASE P[i] < 0
    <3>1. T[i] = P[i]
      BY <1>2, <2>1
    <3>2. P[i] \in Int \ {0}
      OBVIOUS
    <3> QED BY <2>1, <3>1, <3>2
  <2>2. CASE ~(P[i] < 0)
    <3>1. T[i] = places[P[i]] /\ P[i] \in 1..Len(places)
      BY <1>2, <2>2
    <3>2. places[P[i]] \in Nat \ {0}
      BY <3>1
    <3>3. T[i] \in Range(places)
      BY <1>1, <3>1 DEF Range
    <3> QED BY <3>1, <3>2, <3>3
  <2> QED BY <2>1, <2>2
<1>4. T \in [1..Len(P) -> Int \ {0}]
  <2>1. T = [i \in 1..Len(P) |-> T[i]]
    BY <1>2
  <2> QED BY <1>3, <2>1
<1>5. T \in Seq(Int \ {0}) /\ Len(T) = Len(P)
  <2>1. Len(P) \in Nat
    BY <1>1
  <2> DEFINE n == Len(P)
             Y == Int \ {0}
  <2>2. T \in [1..n -> Y] /\ n \in Nat
    BY <1>4, <2>1
  <2> HIDE DEF n, Y
  <2>3. T \in Seq(Y) /\ Len(T) = n
    BY <2>2
  <2> QED BY <2>3 DEF n, Y
<1> QED BY <1>1, <1>3, <1>5

\* A list without its end.
LEMMA TailCut ==
  ASSUME NEW X, NEW R \in Seq(Int \ {0}), R \in Seq(X), NEW T \in Seq(Int \ {0}), IsSuffix(T, R), NEW gone,
         \A i \in 1..Len(T) : T[i] > 0 => T[i] \in gone
  PROVE  LET V == SubSeq(R, 1, Len(R) - Len(T)) IN V \in Seq(X) /\ Leaves(V, R, gone)
<1> DEFINE k == Len(R) - Len(T)
           V == SubSeq(R, 1, k)
           Y == Int \ {0}
<1>1. Len(T) \in 0..Len(R) /\ \A i \in 1..Len(T) : R[k + i] = T[i]
  <2>1. T \in Seq(Y) /\ R \in Seq(Y)
    OBVIOUS
  <2> HIDE DEF Y
  <2> QED BY <2>1, EndIs
<1>2. Len(R) \in Nat /\ Len(T) \in Nat /\ k \in 0..Len(R) /\ Len(R) = k + Len(T)
  BY <1>1
<1> HIDE DEF k, Y
<1>3. V \in Seq(X) /\ Len(V) = k /\ \A i \in 1..k : V[i] = R[i]
  BY <1>2
<1> HIDE DEF V
<1>4. ASSUME NEW i \in 1..Len(R), R[i] > 0, R[i] \notin gone
      PROVE  \E j \in 1..Len(V) : V[j] = R[i]
  <2>1. i <= k
    <3> SUFFICES ASSUME ~(i <= k) PROVE FALSE
      OBVIOUS
    <3>1. i - k \in 1..Len(T) /\ k + (i - k) = i
      BY <1>2
    <3>2. R[i] = T[i - k]
      BY <1>1, <3>1
    <3> QED BY <1>4, <3>1, <3>2
  <2>2. i \in 1..k
    BY <1>2, <2>1
  <2> QED BY <1>3, <2>2
<1> QED BY <1>3, <1>4 DEF Leaves, V, k

\* A list without its beginning.
LEMMA HeadCut ==
  ASSUME NEW X, NEW R \in Seq(Int \ {0}), R \in Seq(X), NEW T \in Seq(Int \ {0}), IsPrefix(T, R), NEW gone,
         \A i \in 1..Len(T) : T[i] > 0 => T[i] \in gone
  PROVE  LET V == SubSeq(R, Len(T) + 1, Len(R)) IN V \in Seq(X) /\ Leaves(V, R, gone)
<1> DEFINE k == Len(T)
           V == SubSeq(R, k + 1, Len(R))
           Y == Int \ {0}
<1>1. k \in 0..Len(R) /\ \A i \in 1..k : R[i] = T[i]
  <2>1. T \in Seq(Y) /\ R \in Seq(Y)
    OBVIOUS
  <2> HIDE DEF Y
  <2> QED BY <2>1, StartIs
<1>2. Len(R) \in Nat /\ k \in Nat
  BY <1>1
<1>3. \A i \in 1..k : T[i] > 0 => T[i] \in gone
  OBVIOUS
<1> HIDE DEF k, Y
<1>4. V \in Seq(X) /\ Len(V) = Len(R) - k /\ \A i \in 1..(Len(R) - k) : V[i] = R[k + i]
  BY <1>1, <1>2
<1> HIDE DEF V
<1>5. ASSUME NEW i \in 1..Len(R), R[i] > 0, R[i] \notin gone
      PROVE  \E j \in 1..Len(V) : V[j] = R[i]
  <2>1. i > k
    <3> SUFFICES ASSUME ~(i > k) PROVE FALSE
      OBVIOUS
    <3>1. i \in 1..k
      BY <1>2
    <3>2. R[i] = T[i]
      BY <1>1, <3>1
    <3> QED BY <1>3, <1>5, <3>1, <3>2
  <2>2. i - k \in 1..(Len(R) - k) /\ k + (i - k) = i
    BY <1>2, <2>1
  <2> QED BY <1>4, <2>2
<1> QED BY <1>4, <1>5 DEF Leaves, V, k

\* What a part of the sizes divides.
LEMMA PartDivides ==
  ASSUME NEW s \in Seq(Nat \ {0}), NEW t \in Seq(Nat \ {0}), IsSuffix(s, t) \/ IsPrefix(s, t)
  PROVE  Product(t) \div Product(s) \in Nat \ {0}
<1> DEFINE X == Nat \ {0}
<1>1. Extents(t, Len(t)) /\ Len(t) \in Nat /\ Extents(s, Len(s)) /\ Len(s) \in Nat
  BY SeqExtents
<1>2. Product(s) \in Nat \ {0}
  BY StrideIs
<1>3. \A i \in 0..Len(t) : Prefix(t, i) \in Nat \ {0}
  BY <1>1, PrefixIs
<1>4. \E q \in Nat \ {0} : Product(t) = q * Product(s)
  <2>1. CASE IsSuffix(s, t)
    <3> DEFINE k == Len(t) - Len(s)
    <3>1. Len(s) \in 0..Len(t) /\ \A i \in 1..Len(s) : t[k + i] = s[i]
      <4>1. s \in Seq(X) /\ t \in Seq(X)
        OBVIOUS
      <4> HIDE DEF X
      <4> QED BY <2>1, <4>1, EndIs
    <3>2. k \in Nat /\ k + Len(s) = Len(t) /\ k \in 0..Len(t)
      BY <1>1, <3>1
    <3> HIDE DEF k
    <3>3. Part(s, t, k, Len(s))
      <4>1. Extents(t, k + Len(s))
        BY <1>1, <3>2
      <4> QED BY <1>1, <3>1, <3>2, <4>1 DEF Part
    <3>4. \A i \in 0..Len(s) : Prefix(t, k + i) = Prefix(t, k) * Prefix(s, i)
      BY <3>3, PartPrefix
    <3>5. Len(s) \in 0..Len(s)
      BY <1>1
    <3>6. Prefix(t, k + Len(s)) = Prefix(t, k) * Prefix(s, Len(s))
      BY <3>4, <3>5
    <3> QED BY <1>3, <3>2, <3>6 DEF Product
  <2>2. CASE IsPrefix(s, t)
    <3>1. Len(s) \in 0..Len(t) /\ \A i \in 1..Len(s) : t[i] = s[i]
      <4>1. s \in Seq(X) /\ t \in Seq(X)
        OBVIOUS
      <4> HIDE DEF X
      <4> QED BY <2>2, <4>1, StartIs
    <3>2. \A i \in 0..Len(s) : Prefix(t, i) = Prefix(s, i)
      BY <1>1, <3>1, SamePrefix
    <3>3. Prefix(t, Len(s)) = Product(s)
      <4>1. Len(s) \in 0..Len(s)
        BY <1>1
      <4> QED BY <3>2, <4>1 DEF Product
    <3>4. Stride(t, Len(s)) \in Nat \ {0} /\ Product(t) = Prefix(t, Len(s)) * Stride(t, Len(s))
      BY <3>1, StrideIs
    <3> DEFINE q == Stride(t, Len(s))
    <3>5. Product(t) = Product(s) * q /\ q \in Nat \ {0}
      BY <3>3, <3>4
    <3> HIDE DEF q
    <3>6. Product(t) = q * Product(s)
      BY <1>2, <3>5
    <3> QED BY <3>5, <3>6
  <2> QED BY <2>1, <2>2
<1>5. PICK q \in Nat \ {0} : Product(t) = q * Product(s)
  BY <1>4
<1> DEFINE a == Product(s)
           b == Product(t)
<1>6. a \in Nat \ {0} /\ b = q * a
  BY <1>2, <1>5
<1> HIDE DEF a, b
<1>7. b = 0 + q * a /\ 0 \in 0..(a - 1) /\ b \in Int
  BY <1>6
<1>8. b \div a = q
  BY <1>6, <1>7, QuotientIs
<1> QED BY <1>8 DEF a, b

\* Modes of every dimension, as many as another layout has there.
Wide(f, S, M) == Len(f) = Len(S) /\ \A d \in 1..Len(S) : Len(GetModeGroups(S, M)[d]) <= Len(f[d])

\* A dimension has at least the modes of the divisor.
LEMMA WideGroups ==
  ASSUME NEW S, NEW f, S \in Seq(Nat \ {0}), Cutting(f, S), NEW N, N = Flat(f),
         NEW S2, NEW M2, Shaped(S2, M2), Wide(f, S2, M2)
  PROVE  LET g == GetModeGroups(S, N)
             G == GetModeGroups(S2, M2)
         IN  /\ Len(N) \in Nat /\ DOMAIN G = 1..Len(S2) /\ Len(S2) \in Nat /\ Len(G) = Len(S2)
             /\ \A d \in 1..Len(S2) : /\ g[d] \in Seq(1..Len(N)) /\ Len(g[d]) \in Nat
                                      /\ Len(G[d]) \in 0..Len(g[d])
<1> DEFINE g == GetModeGroups(S, N)
           G == GetModeGroups(S2, M2)
           v == Upto(S2, M2)
           w == Upto(S, N)
<1>1. Grouped(S, N, w, g) /\ \A d \in 1..Len(S) : Len(g[d]) = Len(f[d])
  BY CuttingIs
<1>2. Grouped(S2, M2, v, G)
  BY GroupsAre
<1>3. Len(f) = Len(S2) /\ \A d \in 1..Len(S2) : Len(G[d]) <= Len(f[d])
  BY DEF Wide
<1>4. Len(f) = Len(S)
  BY DEF Cutting
<1> HIDE DEF g, G, v, w
<1>5. Len(N) \in Nat /\ g \in Seq(Seq(1..Len(N))) /\ Len(g) = Len(S) /\ DOMAIN g = 1..Len(S)
  BY <1>1 DEF Grouped
<1>6. DOMAIN G = 1..Len(S2) /\ Len(G) = Len(S2) /\ \A d \in 1..Len(S2) : Len(G[d]) \in Nat
  BY <1>2 DEF Grouped
<1>7. Len(S2) \in Nat
  BY DEF Shaped
<1>8. ASSUME NEW d \in 1..Len(S2)
      PROVE  g[d] \in Seq(1..Len(N)) /\ Len(g[d]) \in Nat /\ Len(G[d]) \in 0..Len(g[d])
  <2>1. d \in 1..Len(S)
    BY <1>3, <1>4
  <2>2. g[d] \in Seq(1..Len(N))
    BY <1>5, <2>1
  <2>3. Len(g[d]) \in Nat
    BY <2>2
  <2>4. Len(G[d]) <= Len(g[d]) /\ Len(G[d]) \in Nat
    BY <1>1, <1>3, <1>6, <2>1
  <2> QED BY <2>2, <2>3, <2>4
<1> QED BY <1>5, <1>6, <1>7, <1>8 DEF g, G

\* The places at the end of every dimension, and at its beginning.
LEMMA TailPlacesAre ==
  ASSUME NEW S, NEW f, S \in Seq(Nat \ {0}), Cutting(f, S), NEW N, N = Flat(f), NEW R, NEW U,
         NEW S2, NEW M2, Shaped(S2, M2), Wide(f, S2, M2)
  PROVE  LET places == TailPlaces(Layout(S, N, R, U), GetModeGroups(S2, M2))
         IN  places \in Seq(1..Len(N)) /\ Len(places) = Len(M2)
<1> DEFINE g == GetModeGroups(S, N)
           G == GetModeGroups(S2, M2)
           h == [d \in DOMAIN G |-> SubSeq(g[d], (Len(g[d]) - Len(G[d])) + 1, Len(g[d]))]
           X == 1..Len(N)
<1>1. /\ Len(N) \in Nat /\ DOMAIN G = 1..Len(S2) /\ Len(S2) \in Nat
      /\ \A d \in 1..Len(S2) : g[d] \in Seq(X) /\ Len(g[d]) \in Nat /\ Len(G[d]) \in 0..Len(g[d])
  BY WideGroups
<1>2. TailPlaces(Layout(S, N, R, U), G) = Flat(h)
  <2>1. Groups(Layout(S, N, R, U)) = g
    BY DEF Groups, Layout
  <2> HIDE DEF g, G
  <2> QED BY <2>1 DEF TailPlaces, With
<1> HIDE DEF g, G, X
<1>3. ASSUME NEW d \in 1..Len(S2) PROVE h[d] \in Seq(X) /\ Len(h[d]) = Len(G[d])
  <2> DEFINE s == g[d]
             k == Len(G[d])
  <2>1. s \in Seq(X) /\ Len(s) \in Nat /\ k \in 0..Len(s)
    BY <1>1
  <2>2. h[d] = SubSeq(s, (Len(s) - k) + 1, Len(s))
    BY <1>1
  <2> HIDE DEF s, k, h
  <2>3. (Len(s) - k) + 1 \in 1..(Len(s) + 1) /\ Len(s) - k \in 0..Len(s) /\ Len(s) - (Len(s) - k) = k
    BY <2>1
  <2>4. SubSeq(s, (Len(s) - k) + 1, Len(s)) \in Seq(X) /\ Len(SubSeq(s, (Len(s) - k) + 1, Len(s))) = k
    BY <2>1, <2>3
  <2> QED BY <2>2, <2>4 DEF k
<1>4. h \in Seq(Seq(X)) /\ Len(h) = Len(S2)
  <2>1. h = [d \in 1..Len(S2) |-> h[d]]
    BY <1>1
  <2> HIDE DEF h
  <2>2. h \in [1..Len(S2) -> Seq(X)]
    BY <1>3, <2>1
  <2> QED BY <1>1, <2>2
<1> HIDE DEF h
<1>5. Fits(h, S2, M2)
  BY <1>3, <1>4 DEF Fits, G
<1>6. Flat(h) \in Seq(1..Len(N)) /\ Len(Flat(h)) = Len(M2)
  <2>1. h \in Seq(Seq(1..Len(N)))
    BY <1>4 DEF X
  <2> QED BY <1>1, <1>5, <2>1, FitIs
<1> QED BY <1>2, <1>6 DEF G

LEMMA HeadPlacesAre ==
  ASSUME NEW S, NEW f, S \in Seq(Nat \ {0}), Cutting(f, S), NEW N, N = Flat(f), NEW R, NEW U,
         NEW S2, NEW M2, Shaped(S2, M2), Wide(f, S2, M2)
  PROVE  LET places == HeadPlaces(Layout(S, N, R, U), GetModeGroups(S2, M2))
         IN  places \in Seq(1..Len(N)) /\ Len(places) = Len(M2)
<1> DEFINE g == GetModeGroups(S, N)
           G == GetModeGroups(S2, M2)
           h == [d \in DOMAIN G |-> SubSeq(g[d], 1, Len(G[d]))]
           X == 1..Len(N)
<1>1. /\ Len(N) \in Nat /\ DOMAIN G = 1..Len(S2) /\ Len(S2) \in Nat
      /\ \A d \in 1..Len(S2) : g[d] \in Seq(X) /\ Len(g[d]) \in Nat /\ Len(G[d]) \in 0..Len(g[d])
  BY WideGroups
<1>2. HeadPlaces(Layout(S, N, R, U), G) = Flat(h)
  <2>1. Groups(Layout(S, N, R, U)) = g
    BY DEF Groups, Layout
  <2> HIDE DEF g, G
  <2> QED BY <2>1 DEF HeadPlaces
<1> HIDE DEF g, G, X
<1>3. ASSUME NEW d \in 1..Len(S2) PROVE h[d] \in Seq(X) /\ Len(h[d]) = Len(G[d])
  <2> DEFINE s == g[d]
             k == Len(G[d])
  <2>1. s \in Seq(X) /\ Len(s) \in Nat /\ k \in 0..Len(s)
    BY <1>1
  <2>2. h[d] = SubSeq(s, 1, k)
    BY <1>1
  <2> HIDE DEF s, k, h
  <2>3. SubSeq(s, 1, k) \in Seq(X) /\ Len(SubSeq(s, 1, k)) = k
    BY <2>1
  <2> QED BY <2>2, <2>3 DEF k
<1>4. h \in Seq(Seq(X)) /\ Len(h) = Len(S2)
  <2>1. h = [d \in 1..Len(S2) |-> h[d]]
    BY <1>1
  <2> HIDE DEF h
  <2>2. h \in [1..Len(S2) -> Seq(X)]
    BY <1>3, <2>1
  <2> QED BY <1>1, <2>2
<1> HIDE DEF h
<1>5. Fits(h, S2, M2)
  BY <1>3, <1>4 DEF Fits, G
<1>6. Flat(h) \in Seq(1..Len(N)) /\ Len(Flat(h)) = Len(M2)
  <2>1. h \in Seq(Seq(1..Len(N)))
    BY <1>4 DEF X
  <2> QED BY <1>1, <1>5, <2>1, FitIs
<1> QED BY <1>2, <1>6 DEF G

\* The modes of both lists that are not gone.
LEMMA LeavesCover ==
  ASSUME NEW N, NEW R, NEW U, Covered(N, R, U), NEW V, NEW W, NEW gone, Leaves(V, R, gone), Leaves(W, U, gone)
  PROVE  \A m \in 1..Len(N) : m \notin gone =>
           (\E i \in 1..Len(V) : V[i] = m) \/ (\E i \in 1..Len(W) : W[i] = m)
<1> SUFFICES ASSUME NEW m \in 1..Len(N), m \notin gone
             PROVE  (\E i \in 1..Len(V) : V[i] = m) \/ (\E i \in 1..Len(W) : W[i] = m)
  OBVIOUS
<1>1. m > 0
  OBVIOUS
<1>2. CASE \E i \in 1..Len(R) : R[i] = m
  <2>1. PICK i \in 1..Len(R) : R[i] = m
    BY <1>2
  <2> QED BY <1>1, <2>1 DEF Leaves
<1>3. CASE \E i \in 1..Len(U) : U[i] = m
  <2>1. PICK i \in 1..Len(U) : U[i] = m
    BY <1>3
  <2> QED BY <1>1, <2>1 DEF Leaves
<1> QED BY <1>2, <1>3 DEF Covered

\* The lists of a layout at the places for its modes.
LEMMA PlacedLists ==
  ASSUME NEW M, NEW P, NEW Q, Lists(M, P, Q), NEW n \in Nat, NEW places \in Seq(1..n), Len(places) = Len(M)
  PROVE  /\ DOMAIN P = 1..Len(P) /\ DOMAIN Q = 1..Len(Q) /\ Len(P) \in Nat /\ Len(Q) \in Nat
         /\ P \in Seq(Int \ {0}) /\ Q \in Seq(Int \ {0}) /\ places \in Seq(Nat \ {0})
         /\ \A i \in 1..Len(P) : ~(P[i] < 0) => P[i] \in 1..Len(places)
         /\ \A i \in 1..Len(Q) : ~(Q[i] < 0) => Q[i] \in 1..Len(places)
<1>1. /\ DOMAIN P = 1..Len(P) /\ DOMAIN Q = 1..Len(Q) /\ Len(P) \in Nat /\ Len(Q) \in Nat
      /\ \A i \in 1..Len(P) : ~(P[i] < 0) => P[i] \in 1..Len(M)
      /\ \A i \in 1..Len(Q) : Q[i] \in 1..Len(M) /\ ~(Q[i] < 0)
  BY ListedModes
<1>2. P \in Seq(Int \ {0})
  BY DEF Lists
<1>3. Q \in Seq(Int \ {0})
  <2>1. Q \in Seq(Nat \ {0})
    BY DEF Lists
  <2>2. \A i \in 1..Len(Q) : Q[i] \in Int \ {0}
    BY <2>1
  <2> DEFINE Y == Int \ {0}
             k == Len(Q)
  <2>3. Q \in [1..k -> Y] /\ k \in Nat
    BY <1>1, <2>1, <2>2
  <2> HIDE DEF Y, k
  <2>4. Q \in Seq(Y)
    BY <2>3
  <2> QED BY <2>4 DEF Y
<1>4. places \in Seq(Nat \ {0})
  <2> DEFINE Y == Nat \ {0}
             X == 1..n
  <2>1. X \subseteq Y /\ places \in Seq(X)
    OBVIOUS
  <2> HIDE DEF X, Y
  <2>2. places \in Seq(Y)
    BY <2>1
  <2> QED BY <2>2 DEF Y
<1> QED BY <1>1, <1>2, <1>3, <1>4

\* What is left when the modes at the end of every list go.
LEMMA DivideFineIs ==
  ASSUME NEW S, NEW N, NEW R, NEW U, Typed(S, N, R, U), Covered(N, R, U),
         NEW S2, NEW M, NEW P, NEW Q, Lists(M, P, Q),
         NEW places \in Seq(1..Len(N)), Len(places) = Len(M), NEW T \in Seq(Nat \ {0}),
         DivideFine(Layout(S, N, R, U), Layout(S2, M, P, Q), places, T) # Raise
  PROVE  WellFormedLayout(DivideFine(Layout(S, N, R, U), Layout(S2, M, P, Q), places, T))
<1> DEFINE A == Renamed(P, LAMBDA m : places[m])
           B == Renamed(Q, LAMBDA m : places[m])
           V == SubSeq(R, 1, Len(R) - Len(P))
           W == SubSeq(U, 1, Len(U) - Len(Q))
           gone == Range(places)
<1>1. IsSuffix(A, R) /\ IsSuffix(B, U)
  BY DEF DivideFine, Layout
<1>2. DivideFine(Layout(S, N, R, U), Layout(S2, M, P, Q), places, T) = WithoutMode(Layout(S, N, R, U), T, gone, V, W)
  <2> HIDE DEF A, B, gone
  <2>1. Layout(S, N, R, U).spatial_modes = R /\ Layout(S, N, R, U).local_modes = U
    BY DEF Layout
  <2>2. Layout(S2, M, P, Q).spatial_modes = P /\ Layout(S2, M, P, Q).local_modes = Q
    BY DEF Layout
  <2> QED BY <1>1, <2>1, <2>2 DEF DivideFine, A, B, gone
<1>3. Len(N) \in Nat /\ R \in Seq(Int \ {0}) /\ U \in Seq(Nat \ {0})
  BY DEF Typed
<1>4. /\ DOMAIN P = 1..Len(P) /\ DOMAIN Q = 1..Len(Q) /\ Len(P) \in Nat /\ Len(Q) \in Nat
      /\ P \in Seq(Int \ {0}) /\ Q \in Seq(Int \ {0}) /\ places \in Seq(Nat \ {0})
      /\ \A i \in 1..Len(P) : ~(P[i] < 0) => P[i] \in 1..Len(places)
      /\ \A i \in 1..Len(Q) : ~(Q[i] < 0) => Q[i] \in 1..Len(places)
  BY <1>3, PlacedLists
<1>5. Placing(A, P, places) /\ Placing(B, Q, places)
  BY <1>4 DEF Placing, Renamed
<1> HIDE DEF A, B, gone
<1>6. A \in Seq(Int \ {0}) /\ Len(A) = Len(P) /\ \A i \in 1..Len(A) : A[i] > 0 => A[i] \in gone
  BY <1>4, <1>5, PlacedList DEF gone
<1>7. B \in Seq(Int \ {0}) /\ Len(B) = Len(Q) /\ \A i \in 1..Len(B) : B[i] > 0 => B[i] \in gone
  BY <1>4, <1>5, PlacedList DEF gone
<1>8. V \in Seq(Int \ {0}) /\ Leaves(V, R, gone)
  <2> DEFINE X == Int \ {0}
  <2>1. R \in Seq(X)
    BY <1>3
  <2> HIDE DEF X
  <2>2. LET C == SubSeq(R, 1, Len(R) - Len(A)) IN C \in Seq(X) /\ Leaves(C, R, gone)
    BY <1>1, <1>3, <1>6, <2>1, TailCut
  <2> QED BY <1>6, <2>2 DEF X
<1>9. W \in Seq(Nat \ {0}) /\ Leaves(W, U, gone)
  <2> DEFINE X == Nat \ {0}
  <2>1. U \in Seq(X) /\ U \in Seq(Int \ {0})
    BY <1>3
  <2> HIDE DEF X
  <2>2. LET C == SubSeq(U, 1, Len(U) - Len(B)) IN C \in Seq(X) /\ Leaves(C, U, gone)
    BY <1>1, <1>7, <2>1, TailCut
  <2> QED BY <1>7, <2>2 DEF X
<1> HIDE DEF V, W
<1>10. \A m \in 1..Len(N) : m \notin gone =>
         (\E i \in 1..Len(V) : V[i] = m) \/ (\E i \in 1..Len(W) : W[i] = m)
  <2>1. Leaves(V, R, gone) /\ Leaves(W, U, gone)
    BY <1>8, <1>9
  <2> QED BY <2>1, LeavesCover, SMTT(40)
<1> QED BY <1>2, <1>8, <1>9, <1>10, WithoutIs

\* The same at the beginning.
LEMMA LeftDivideFineIs ==
  ASSUME NEW S, NEW N, NEW R, NEW U, Typed(S, N, R, U), Covered(N, R, U),
         NEW S2, NEW M, NEW P, NEW Q, Lists(M, P, Q),
         NEW places \in Seq(1..Len(N)), Len(places) = Len(M), NEW T \in Seq(Nat \ {0}),
         LeftDivideFine(Layout(S, N, R, U), Layout(S2, M, P, Q), places, T) # Raise
  PROVE  WellFormedLayout(LeftDivideFine(Layout(S, N, R, U), Layout(S2, M, P, Q), places, T))
<1> DEFINE A == Renamed(P, LAMBDA m : places[m])
           B == Renamed(Q, LAMBDA m : places[m])
           V == SubSeq(R, Len(P) + 1, Len(R))
           W == SubSeq(U, Len(Q) + 1, Len(U))
           gone == Range(places)
<1>1. IsPrefix(A, R) /\ IsPrefix(B, U)
  BY DEF LeftDivideFine, Layout
<1>2. LeftDivideFine(Layout(S, N, R, U), Layout(S2, M, P, Q), places, T) = WithoutMode(Layout(S, N, R, U), T, gone, V, W)
  <2> HIDE DEF A, B, gone
  <2>1. Layout(S, N, R, U).spatial_modes = R /\ Layout(S, N, R, U).local_modes = U
    BY DEF Layout
  <2>2. Layout(S2, M, P, Q).spatial_modes = P /\ Layout(S2, M, P, Q).local_modes = Q
    BY DEF Layout
  <2> QED BY <1>1, <2>1, <2>2 DEF LeftDivideFine, A, B, gone
<1>3. Len(N) \in Nat /\ R \in Seq(Int \ {0}) /\ U \in Seq(Nat \ {0})
  BY DEF Typed
<1>4. /\ DOMAIN P = 1..Len(P) /\ DOMAIN Q = 1..Len(Q) /\ Len(P) \in Nat /\ Len(Q) \in Nat
      /\ P \in Seq(Int \ {0}) /\ Q \in Seq(Int \ {0}) /\ places \in Seq(Nat \ {0})
      /\ \A i \in 1..Len(P) : ~(P[i] < 0) => P[i] \in 1..Len(places)
      /\ \A i \in 1..Len(Q) : ~(Q[i] < 0) => Q[i] \in 1..Len(places)
  BY <1>3, PlacedLists
<1>5. Placing(A, P, places) /\ Placing(B, Q, places)
  BY <1>4 DEF Placing, Renamed
<1> HIDE DEF A, B, gone
<1>6. A \in Seq(Int \ {0}) /\ Len(A) = Len(P) /\ \A i \in 1..Len(A) : A[i] > 0 => A[i] \in gone
  BY <1>4, <1>5, PlacedList DEF gone
<1>7. B \in Seq(Int \ {0}) /\ Len(B) = Len(Q) /\ \A i \in 1..Len(B) : B[i] > 0 => B[i] \in gone
  BY <1>4, <1>5, PlacedList DEF gone
<1>8. V \in Seq(Int \ {0}) /\ Leaves(V, R, gone)
  <2> DEFINE X == Int \ {0}
  <2>1. R \in Seq(X)
    BY <1>3
  <2> HIDE DEF X
  <2>2. LET C == SubSeq(R, Len(A) + 1, Len(R)) IN C \in Seq(X) /\ Leaves(C, R, gone)
    BY <1>1, <1>3, <1>6, <2>1, HeadCut
  <2> QED BY <1>6, <2>2 DEF X
<1>9. W \in Seq(Nat \ {0}) /\ Leaves(W, U, gone)
  <2> DEFINE X == Nat \ {0}
  <2>1. U \in Seq(X) /\ U \in Seq(Int \ {0})
    BY <1>3
  <2> HIDE DEF X
  <2>2. LET C == SubSeq(U, Len(B) + 1, Len(U)) IN C \in Seq(X) /\ Leaves(C, U, gone)
    BY <1>1, <1>7, <2>1, HeadCut
  <2> QED BY <1>7, <2>2 DEF X
<1> HIDE DEF V, W
<1>10. \A m \in 1..Len(N) : m \notin gone =>
         (\E i \in 1..Len(V) : V[i] = m) \/ (\E i \in 1..Len(W) : W[i] = m)
  <2>1. Leaves(V, R, gone) /\ Leaves(W, U, gone)
    BY <1>8, <1>9
  <2> QED BY <2>1, LeavesCover
<1> QED BY <1>2, <1>8, <1>9, <1>10, WithoutIs

\* The canonical form of a well-formed layout.
LEMMA CanonicalFormIs ==
  ASSUME NEW l, WellFormedLayout(l)
  PROVE  \E M, P, Q : /\ CanonicalizeLayout(l) = Layout(l.shape, M, P, Q)
                      /\ SoundLayout(l.shape, M, P, Q) /\ Sizes(M)
<1> DEFINE S == l.shape
           M == l.mode_shape
           P == l.spatial_modes
           Q == l.local_modes
<1>1. l = Layout(S, M, P, Q) /\ SoundLayout(S, M, P, Q)
  BY LayoutOf
<1> HIDE DEF S, M, P, Q
<1>2. \E N, R, U : /\ CanonicalizeLayout(Layout(S, M, P, Q)) = Layout(S, N, R, U)
                   /\ SoundLayout(S, N, R, U) /\ Sizes(N)
  BY <1>1, CanonicalIs
<1> QED BY <1>1, <1>2 DEF S

\* The sizes found for divide split the shape, with room for the divisor.
LEMMA DivideSizesIs ==
  ASSUME NEW S, NEW M, NEW P, NEW Q, SoundLayout(S, M, P, Q), Sizes(M),
         NEW S2, NEW M2, NEW P2, NEW Q2, SoundLayout(S2, M2, P2, Q2), Sizes(M2), Len(S2) = Len(S),
         NEW f, Cutting(f, S),
         DivideSizes(Layout(S, M, P, Q), Layout(S2, M2, P2, Q2), GetModeGroups(S2, M2), f) # Raise
  PROVE  WellFormedLayout(DivideSizes(Layout(S, M, P, Q), Layout(S2, M2, P2, Q2), GetModeGroups(S2, M2), f))
<1> DEFINE l == Layout(S, M, P, Q)
           r == Layout(S2, M2, P2, Q2)
           G == GetModeGroups(S2, M2)
           N == Flat(f)
           T == [d \in DOMAIN G |-> S[d] \div S2[d]]
           sizes(d) == [i \in DOMAIN G[d] |-> M2[G[d][i]]]
<1>1. /\ S \in Seq(Nat \ {0}) /\ M \in Seq(Nat \ {0}) /\ Splits(S, M)
      /\ S2 \in Seq(Nat \ {0}) /\ M2 \in Seq(Nat \ {0}) /\ Splits(S2, M2) /\ Lists(M2, P2, Q2)
      /\ Len(S) \in Nat
  BY SoundIs, SoundLists
<1>2. Shaped(S, M) /\ Shaped(S2, M2)
  BY <1>1 DEF Shaped, Splits
<1>3. Grouped(S2, M2, Upto(S2, M2), G)
  BY <1>2, GroupsAre
<1>4. Shaped(S, N) /\ N \in Seq(Nat \ {0})
  <2>1. Shaped(S, N)
    BY <1>1, CuttingIs
  <2>2. N \in Seq(Nat \ {0})
    <3> HIDE DEF N
    <3> QED BY <2>1, SizesAre DEF Shaped
  <2> QED BY <2>1, <2>2
<1> HIDE DEF N
<1>5. Shaped(M, N)
  BY <1>1, <1>4 DEF Shaped, Splits
<1>6. PICK R, U : LayoutWithModeShape(l, N) = Layout(S, N, R, U) /\ Typed(S, N, R, U) /\ Covered(N, R, U)
  BY <1>5, FineIs
<1> HIDE DEF G
<1> DEFINE fine == Layout(S, N, R, U)
<1>7. /\ \A d \in DOMAIN G : IsSuffix(sizes(d), f[d])
      /\ DivideSizes(l, r, G, f) = DivideFine(fine, r, TailPlaces(fine, G), T)
  <2>1. r.mode_shape = M2 /\ r.shape = S2 /\ l.shape = S
    BY DEF Layout
  <2> HIDE DEF l, r
  <2>2. \A d \in DOMAIN G : ModeSizes(r, G[d]) = sizes(d)
    BY <2>1 DEF ModeSizes
  <2>3. DivideSizes(l, r, G, f) # Raise
    BY DEF G, l, r
  <2>4. ~\E d \in DOMAIN G : ~IsSuffix(ModeSizes(r, G[d]), f[d])
    BY <2>3 DEF DivideSizes
  <2>5. LayoutWithModeShape(l, Flat(f)) = fine
    BY <1>6 DEF N
  <2> HIDE DEF fine, T, sizes
  <2>6. DivideSizes(l, r, G, f) = DivideFine(fine, r, TailPlaces(fine, G), [d \in DOMAIN G |-> S[d] \div S2[d]])
    BY <2>1, <2>4, <2>5 DEF DivideSizes, With
  <2> QED BY <2>2, <2>4, <2>6 DEF T
<1>8. /\ DOMAIN G = 1..Len(S) /\ Len(G) = Len(S)
      /\ \A d \in 1..Len(S) : DOMAIN G[d] = 1..Len(G[d]) /\ Len(G[d]) \in Nat
  BY <1>3 DEF Grouped
<1>9. /\ f \in Seq(Seq(Nat \ {0, 1})) /\ Len(f) = Len(S)
      /\ \A d \in 1..Len(S) : Product(f[d]) = S[d]
  BY DEF Cutting
<1>10. ASSUME NEW d \in 1..Len(S)
       PROVE  Len(G[d]) <= Len(f[d]) /\ S[d] \div S2[d] \in Nat \ {0}
  <2> DEFINE s == sizes(d)
             t == f[d]
  <2>1. s \in Seq(Nat \ {0, 1}) /\ Len(s) = Len(G[d]) /\ Product(s) = S2[d]
    <3>1. d \in 1..Len(S2)
      OBVIOUS
    <3>2. s = GroupShape(S2, M2, d)
      BY DEF GroupShape, G
    <3> HIDE DEF s
    <3> QED BY <1>1, <1>2, <3>1, <3>2, GroupSizes DEF G
  <2>2. t \in Seq(Nat \ {0, 1}) /\ Product(t) = S[d]
    BY <1>9
  <2>3. IsSuffix(s, t)
    BY <1>7, <1>8
  <2> HIDE DEF s, t
  <2>4. s \in Seq(Nat \ {0}) /\ t \in Seq(Nat \ {0})
    BY <2>1, <2>2, SizesAre DEF Sizes
  <2>5. Len(s) \in 0..Len(t)
    <3> DEFINE X == Nat \ {0}
    <3>1. s \in Seq(X) /\ t \in Seq(X)
      BY <2>4
    <3> HIDE DEF X
    <3> QED BY <2>3, <3>1, EndIs
  <2>6. Product(t) \div Product(s) \in Nat \ {0}
    BY <2>3, <2>4, PartDivides
  <2>7. Len(t) \in Nat
    BY <2>4
  <2> QED BY <2>1, <2>2, <2>5, <2>6, <2>7 DEF t
<1>11. T \in Seq(Nat \ {0})
  <2>1. T \in [1..Len(S) -> Nat \ {0}]
    BY <1>8, <1>10
  <2> DEFINE n == Len(S)
             Y == Nat \ {0}
  <2>2. T \in [1..n -> Y] /\ n \in Nat
    BY <1>1, <2>1
  <2> HIDE DEF T, n, Y
  <2>3. T \in Seq(Y)
    BY <2>2
  <2> QED BY <2>3 DEF Y
<1>12. Wide(f, S2, M2)
  BY <1>9, <1>10 DEF Wide, G
<1> DEFINE places == TailPlaces(fine, G)
<1>13. places \in Seq(1..Len(N)) /\ Len(places) = Len(M2)
  <2>1. N = Flat(f)
    BY DEF N
  <2> QED BY <1>1, <1>2, <1>12, <2>1, TailPlacesAre DEF G
<1>14. DivideSizes(l, r, G, f) # Raise
  BY DEF G
<1> HIDE DEF places, T
<1>15. DivideSizes(l, r, G, f) = DivideFine(Layout(S, N, R, U), Layout(S2, M2, P2, Q2), places, T)
  BY <1>7 DEF places, T
<1>16. WellFormedLayout(DivideFine(Layout(S, N, R, U), Layout(S2, M2, P2, Q2), places, T))
  BY <1>1, <1>6, <1>11, <1>13, <1>14, <1>15, DivideFineIs
<1> QED BY <1>15, <1>16 DEF G

\* The sizes found for left_divide split the shape, with room for the divisor.
LEMMA LeftDivideSizesIs ==
  ASSUME NEW S, NEW M, NEW P, NEW Q, SoundLayout(S, M, P, Q), Sizes(M),
         NEW S2, NEW M2, NEW P2, NEW Q2, SoundLayout(S2, M2, P2, Q2), Sizes(M2), Len(S2) = Len(S),
         NEW f, Cutting(f, S),
         LeftDivideSizes(Layout(S, M, P, Q), Layout(S2, M2, P2, Q2), GetModeGroups(S2, M2), f) # Raise
  PROVE  WellFormedLayout(LeftDivideSizes(Layout(S, M, P, Q), Layout(S2, M2, P2, Q2), GetModeGroups(S2, M2), f))
<1> DEFINE l == Layout(S, M, P, Q)
           r == Layout(S2, M2, P2, Q2)
           G == GetModeGroups(S2, M2)
           N == Flat(f)
           T == [d \in DOMAIN G |-> S[d] \div S2[d]]
           sizes(d) == [i \in DOMAIN G[d] |-> M2[G[d][i]]]
<1>1. /\ S \in Seq(Nat \ {0}) /\ M \in Seq(Nat \ {0}) /\ Splits(S, M)
      /\ S2 \in Seq(Nat \ {0}) /\ M2 \in Seq(Nat \ {0}) /\ Splits(S2, M2) /\ Lists(M2, P2, Q2)
      /\ Len(S) \in Nat
  BY SoundIs, SoundLists
<1>2. Shaped(S, M) /\ Shaped(S2, M2)
  BY <1>1 DEF Shaped, Splits
<1>3. Grouped(S2, M2, Upto(S2, M2), G)
  BY <1>2, GroupsAre
<1>4. Shaped(S, N) /\ N \in Seq(Nat \ {0})
  <2>1. Shaped(S, N)
    BY <1>1, CuttingIs
  <2>2. N \in Seq(Nat \ {0})
    <3> HIDE DEF N
    <3> QED BY <2>1, SizesAre DEF Shaped
  <2> QED BY <2>1, <2>2
<1> HIDE DEF N
<1>5. Shaped(M, N)
  BY <1>1, <1>4 DEF Shaped, Splits
<1>6. PICK R, U : LayoutWithModeShape(l, N) = Layout(S, N, R, U) /\ Typed(S, N, R, U) /\ Covered(N, R, U)
  BY <1>5, FineIs
<1> HIDE DEF G
<1> DEFINE fine == Layout(S, N, R, U)
<1>7. /\ \A d \in DOMAIN G : IsPrefix(sizes(d), f[d])
      /\ LeftDivideSizes(l, r, G, f) = LeftDivideFine(fine, r, HeadPlaces(fine, G), T)
  <2>1. r.mode_shape = M2 /\ r.shape = S2 /\ l.shape = S
    BY DEF Layout
  <2> HIDE DEF l, r
  <2>2. \A d \in DOMAIN G : ModeSizes(r, G[d]) = sizes(d)
    BY <2>1 DEF ModeSizes
  <2>3. LeftDivideSizes(l, r, G, f) # Raise
    BY DEF G, l, r
  <2>4. ~\E d \in DOMAIN G : ~IsPrefix(ModeSizes(r, G[d]), f[d])
    BY <2>3 DEF LeftDivideSizes
  <2>5. LayoutWithModeShape(l, Flat(f)) = fine
    BY <1>6 DEF N
  <2> HIDE DEF fine, T, sizes
  <2>6. LeftDivideSizes(l, r, G, f) = LeftDivideFine(fine, r, HeadPlaces(fine, G), [d \in DOMAIN G |-> S[d] \div S2[d]])
    BY <2>1, <2>4, <2>5 DEF LeftDivideSizes, With
  <2> QED BY <2>2, <2>4, <2>6 DEF T
<1>8. /\ DOMAIN G = 1..Len(S) /\ Len(G) = Len(S)
      /\ \A d \in 1..Len(S) : DOMAIN G[d] = 1..Len(G[d]) /\ Len(G[d]) \in Nat
  BY <1>3 DEF Grouped
<1>9. /\ f \in Seq(Seq(Nat \ {0, 1})) /\ Len(f) = Len(S)
      /\ \A d \in 1..Len(S) : Product(f[d]) = S[d]
  BY DEF Cutting
<1>10. ASSUME NEW d \in 1..Len(S)
       PROVE  Len(G[d]) <= Len(f[d]) /\ S[d] \div S2[d] \in Nat \ {0}
  <2> DEFINE s == sizes(d)
             t == f[d]
  <2>1. s \in Seq(Nat \ {0, 1}) /\ Len(s) = Len(G[d]) /\ Product(s) = S2[d]
    <3>1. d \in 1..Len(S2)
      OBVIOUS
    <3>2. s = GroupShape(S2, M2, d)
      BY DEF GroupShape, G
    <3> HIDE DEF s
    <3> QED BY <1>1, <1>2, <3>1, <3>2, GroupSizes DEF G
  <2>2. t \in Seq(Nat \ {0, 1}) /\ Product(t) = S[d]
    BY <1>9
  <2>3. IsPrefix(s, t)
    BY <1>7, <1>8
  <2> HIDE DEF s, t
  <2>4. s \in Seq(Nat \ {0}) /\ t \in Seq(Nat \ {0})
    BY <2>1, <2>2, SizesAre DEF Sizes
  <2>5. Len(s) \in 0..Len(t)
    <3> DEFINE X == Nat \ {0}
    <3>1. s \in Seq(X) /\ t \in Seq(X)
      BY <2>4
    <3> HIDE DEF X
    <3> QED BY <2>3, <3>1, StartIs
  <2>6. Product(t) \div Product(s) \in Nat \ {0}
    BY <2>3, <2>4, PartDivides
  <2>7. Len(t) \in Nat
    BY <2>4
  <2> QED BY <2>1, <2>2, <2>5, <2>6, <2>7 DEF t
<1>11. T \in Seq(Nat \ {0})
  <2>1. T \in [1..Len(S) -> Nat \ {0}]
    BY <1>8, <1>10
  <2> DEFINE n == Len(S)
             Y == Nat \ {0}
  <2>2. T \in [1..n -> Y] /\ n \in Nat
    BY <1>1, <2>1
  <2> HIDE DEF T, n, Y
  <2>3. T \in Seq(Y)
    BY <2>2
  <2> QED BY <2>3 DEF Y
<1>12. Wide(f, S2, M2)
  BY <1>9, <1>10 DEF Wide, G
<1> DEFINE places == HeadPlaces(fine, G)
<1>13. places \in Seq(1..Len(N)) /\ Len(places) = Len(M2)
  <2>1. N = Flat(f)
    BY DEF N
  <2> QED BY <1>1, <1>2, <1>12, <2>1, HeadPlacesAre DEF G
<1>14. LeftDivideSizes(l, r, G, f) # Raise
  BY DEF G
<1> HIDE DEF places, T
<1>15. LeftDivideSizes(l, r, G, f) = LeftDivideFine(Layout(S, N, R, U), Layout(S2, M2, P2, Q2), places, T)
  BY <1>7 DEF places, T
<1>16. WellFormedLayout(LeftDivideFine(Layout(S, N, R, U), Layout(S2, M2, P2, Q2), places, T))
  BY <1>1, <1>6, <1>11, <1>13, <1>14, <1>15, LeftDivideFineIs
<1> QED BY <1>15, <1>16 DEF G

\* divide, its modes found, keeps a layout well-formed.
LEMMA DivideGroupsIs ==
  ASSUME NEW S, NEW M, NEW P, NEW Q, SoundLayout(S, M, P, Q), Sizes(M),
         NEW S2, NEW M2, NEW P2, NEW Q2, SoundLayout(S2, M2, P2, Q2), Sizes(M2), Len(S2) = Len(S),
         DivideGroups(Layout(S, M, P, Q), Layout(S2, M2, P2, Q2), GetModeGroups(S, M), GetModeGroups(S2, M2)) # Raise
  PROVE  WellFormedLayout(DivideGroups(Layout(S, M, P, Q), Layout(S2, M2, P2, Q2), GetModeGroups(S, M), GetModeGroups(S2, M2)))
<1> DEFINE l == Layout(S, M, P, Q)
           r == Layout(S2, M2, P2, Q2)
           G == GetModeGroups(S, M)
           G2 == GetModeGroups(S2, M2)
           f == [d \in DOMAIN G2 |-> SplitAt(GroupShape(S, M, d), (Len(G[d]) - Len(G2[d])) + 1, GroupShape(S2, M2, d))]
<1>1. /\ S \in Seq(Nat \ {0}) /\ M \in Seq(Nat \ {0}) /\ Splits(S, M)
      /\ S2 \in Seq(Nat \ {0}) /\ M2 \in Seq(Nat \ {0}) /\ Splits(S2, M2)
      /\ Len(S) \in Nat
  BY SoundIs
<1>2. Shaped(S, M) /\ Shaped(S2, M2)
  BY <1>1 DEF Shaped, Splits
<1>3. /\ DOMAIN G2 = 1..Len(S) /\ DOMAIN G = 1..Len(S)
      /\ \A d \in 1..Len(S) : Len(G[d]) \in Nat /\ Len(G2[d]) \in Nat
  <2>1. Grouped(S, M, Upto(S, M), G) /\ Grouped(S2, M2, Upto(S2, M2), G2)
    BY <1>2, GroupsAre
  <2> HIDE DEF G, G2
  <2> QED BY <2>1 DEF Grouped
<1>4. /\ \A d \in 1..Len(S) : (Len(G[d]) - Len(G2[d])) + 1 \in Nat \ {0}
      /\ DivideGroups(l, r, G, G2) = DivideSizes(l, r, G2, f)
  <2>1. \A d \in DOMAIN G2 : ModeSizes(l, G[d]) = GroupShape(S, M, d) /\ ModeSizes(r, G2[d]) = GroupShape(S2, M2, d)
    BY DEF ModeSizes, GroupShape, Layout
  <2> HIDE DEF l, r, G, G2
  <2>2. ~\E d \in DOMAIN G2 : Len(G[d]) - Len(G2[d]) < 0
    BY DEF DivideGroups, l, r, G, G2
  <2>3. DivideGroups(l, r, G, G2) =
          DivideSizes(l, r, G2, [d \in DOMAIN G2 |-> SplitAt(ModeSizes(l, G[d]), (Len(G[d]) - Len(G2[d])) + 1, ModeSizes(r, G2[d]))])
    BY <2>2 DEF DivideGroups
  <2>4. f = [d \in DOMAIN G2 |-> SplitAt(ModeSizes(l, G[d]), (Len(G[d]) - Len(G2[d])) + 1, ModeSizes(r, G2[d]))]
    BY <2>1
  <2>5. ASSUME NEW d \in 1..Len(S) PROVE (Len(G[d]) - Len(G2[d])) + 1 \in Nat \ {0}
    <3>1. Len(G[d]) \in Nat /\ Len(G2[d]) \in Nat /\ ~(Len(G[d]) - Len(G2[d]) < 0)
      BY <1>3, <2>2
    <3> DEFINE x == Len(G[d])
               y == Len(G2[d])
    <3>2. x \in Nat /\ y \in Nat /\ ~(x - y < 0)
      BY <3>1
    <3> HIDE DEF x, y
    <3>3. (x - y) + 1 \in Nat \ {0}
      BY <3>2
    <3> QED BY <3>3 DEF x, y
  <2> HIDE DEF f
  <2> QED BY <2>3, <2>4, <2>5
<1>5. ASSUME NEW d \in 1..Len(S)
      PROVE  f[d] \in Seq(Nat \ {0, 1}) /\ Product(f[d]) = S[d]
  <2> DEFINE s == GroupShape(S, M, d)
             t == GroupShape(S2, M2, d)
  <2>1. s \in Seq(Nat \ {0, 1}) /\ Product(s) = S[d]
    BY <1>1, <1>2, GroupSizes
  <2>2. t \in Seq(Nat \ {0, 1})
    BY <1>1, <1>2, GroupSizes
  <2> HIDE DEF s, t
  <2> DEFINE k == (Len(G[d]) - Len(G2[d])) + 1
  <2>3. f[d] = SplitAt(s, k, t) /\ k \in Nat \ {0}
    BY <1>3, <1>4 DEF s, t
  <2> HIDE DEF f, k
  <2> QED BY <2>1, <2>2, <2>3, SplitAtIs, ZenonT(60)
<1>6. Cutting(f, S)
  <2>1. f = [d \in 1..Len(S) |-> f[d]]
    BY <1>3
  <2> DEFINE X == Seq(Nat \ {0, 1})
             n == Len(S)
  <2>2. f \in [1..n -> X] /\ n \in Nat
    <3> HIDE DEF f
    <3> QED BY <1>1, <1>5, <2>1
  <2> HIDE DEF X, n, f
  <2>3. f \in Seq(X) /\ Len(f) = n
    BY <2>2
  <2> QED BY <1>5, <2>3 DEF Cutting, X, n
<1>7. DivideSizes(l, r, G2, f) # Raise
  BY <1>4
<1> HIDE DEF f
<1>8. WellFormedLayout(DivideSizes(l, r, G2, f))
  BY <1>6, <1>7, DivideSizesIs
<1> QED BY <1>4, <1>8

\* left_divide, its modes found, keeps a layout well-formed.
LEMMA LeftDivideGroupsIs ==
  ASSUME NEW S, NEW M, NEW P, NEW Q, SoundLayout(S, M, P, Q), Sizes(M),
         NEW S2, NEW M2, NEW P2, NEW Q2, SoundLayout(S2, M2, P2, Q2), Sizes(M2), Len(S2) = Len(S),
         LeftDivideGroups(Layout(S, M, P, Q), Layout(S2, M2, P2, Q2), GetModeGroups(S, M), GetModeGroups(S2, M2)) # Raise
  PROVE  WellFormedLayout(LeftDivideGroups(Layout(S, M, P, Q), Layout(S2, M2, P2, Q2), GetModeGroups(S, M), GetModeGroups(S2, M2)))
<1> DEFINE l == Layout(S, M, P, Q)
           r == Layout(S2, M2, P2, Q2)
           G == GetModeGroups(S, M)
           G2 == GetModeGroups(S2, M2)
           f == [d \in DOMAIN G2 |-> SplitFirst(GroupShape(S, M, d), GroupShape(S2, M2, d))]
<1>1. /\ S \in Seq(Nat \ {0}) /\ M \in Seq(Nat \ {0}) /\ Splits(S, M)
      /\ S2 \in Seq(Nat \ {0}) /\ M2 \in Seq(Nat \ {0}) /\ Splits(S2, M2)
      /\ Len(S) \in Nat
  BY SoundIs
<1>2. Shaped(S, M) /\ Shaped(S2, M2)
  BY <1>1 DEF Shaped, Splits
<1>3. /\ DOMAIN G2 = 1..Len(S) /\ DOMAIN G = 1..Len(S)
      /\ \A d \in 1..Len(S) : Len(G[d]) \in Nat /\ Len(G2[d]) \in Nat
  <2>1. Grouped(S, M, Upto(S, M), G) /\ Grouped(S2, M2, Upto(S2, M2), G2)
    BY <1>2, GroupsAre
  <2> HIDE DEF G, G2
  <2> QED BY <2>1 DEF Grouped
<1>4. LeftDivideGroups(l, r, G, G2) = LeftDivideSizes(l, r, G2, f)
  <2>1. \A d \in DOMAIN G2 : ModeSizes(l, G[d]) = GroupShape(S, M, d) /\ ModeSizes(r, G2[d]) = GroupShape(S2, M2, d)
    BY DEF ModeSizes, GroupShape, Layout
  <2> HIDE DEF l, r, G, G2
  <2>2. LeftDivideGroups(l, r, G, G2) =
          LeftDivideSizes(l, r, G2, [d \in DOMAIN G2 |-> SplitFirst(ModeSizes(l, G[d]), ModeSizes(r, G2[d]))])
    BY DEF LeftDivideGroups, SplitFirst
  <2>3. f = [d \in DOMAIN G2 |-> SplitFirst(ModeSizes(l, G[d]), ModeSizes(r, G2[d]))]
    BY <2>1
  <2> HIDE DEF f
  <2> QED BY <2>2, <2>3
<1>5. ASSUME NEW d \in 1..Len(S)
      PROVE  f[d] \in Seq(Nat \ {0, 1}) /\ Product(f[d]) = S[d]
  <2> DEFINE s == GroupShape(S, M, d)
             t == GroupShape(S2, M2, d)
  <2>1. s \in Seq(Nat \ {0, 1}) /\ Product(s) = S[d]
    BY <1>1, <1>2, GroupSizes
  <2>2. t \in Seq(Nat \ {0, 1})
    BY <1>1, <1>2, GroupSizes
  <2> HIDE DEF s, t
  <2>3. f[d] = SplitFirst(s, t)
    BY <1>3 DEF s, t
  <2> HIDE DEF f
  <2> QED BY <2>1, <2>2, <2>3, SplitFirstIs
<1>6. Cutting(f, S)
  <2>1. f = [d \in 1..Len(S) |-> f[d]]
    BY <1>3
  <2> DEFINE X == Seq(Nat \ {0, 1})
             n == Len(S)
  <2>2. f \in [1..n -> X] /\ n \in Nat
    <3> HIDE DEF f
    <3> QED BY <1>1, <1>5, <2>1
  <2> HIDE DEF X, n, f
  <2>3. f \in Seq(X) /\ Len(f) = n
    BY <2>2
  <2> QED BY <1>5, <2>3 DEF Cutting, X, n
<1>7. LeftDivideSizes(l, r, G2, f) # Raise
  BY <1>4
<1> HIDE DEF f
<1>8. WellFormedLayout(LeftDivideSizes(l, r, G2, f))
  BY <1>6, <1>7, LeftDivideSizesIs
<1> QED BY <1>4, <1>8

\* divide keeps a layout well-formed, where it has a result.
LEMMA DivideIs ==
  ASSUME NEW a, NEW b, WellFormedLayout(a), WellFormedLayout(b), Divide(a, b) # Raise
  PROVE  WellFormedLayout(Divide(a, b))
<1> DEFINE e == Aligned(b, a)
<1>1. ~(Len(a.shape) < Len(b.shape))
  BY DEF Divide
<1>2. WellFormedLayout(e) /\ Len(e.shape) = Len(a.shape)
  <2>1. Len(a.shape) \in Nat /\ Len(b.shape) \in Nat
    BY DEF WellFormedLayout
  <2>2. Len(a.shape) >= Len(b.shape)
    BY <1>1, <2>1
  <2> QED BY <2>2, AlignedIs
<1>3. PICK M, P, Q : CanonicalizeLayout(a) = Layout(a.shape, M, P, Q) /\ SoundLayout(a.shape, M, P, Q) /\ Sizes(M)
  BY CanonicalFormIs
<1> HIDE DEF e
<1>4. PICK M2, P2, Q2 : CanonicalizeLayout(e) = Layout(e.shape, M2, P2, Q2) /\ SoundLayout(e.shape, M2, P2, Q2) /\ Sizes(M2)
  BY <1>2, CanonicalFormIs
<1> DEFINE S == a.shape
           S2 == e.shape
           l == Layout(S, M, P, Q)
           r == Layout(S2, M2, P2, Q2)
<1>5. Divide(a, b) = DivideGroups(l, r, GetModeGroups(S, M), GetModeGroups(S2, M2))
  <2>1. Groups(l) = GetModeGroups(S, M) /\ Groups(r) = GetModeGroups(S2, M2)
    BY DEF Groups, Layout
  <2>2. CanonicalizeLayout(a) = l /\ CanonicalizeLayout(Aligned(b, a)) = r
    BY <1>3, <1>4 DEF e
  <2> HIDE DEF l, r, S, S2
  <2>3. Divide(a, b) = With(<<l, r>>, LAMBDA c : DivideGroups(c[1], c[2], Groups(c[1]), Groups(c[2])))
    BY <1>1, <2>2 DEF Divide
  <2>4. Divide(a, b) = DivideGroups(l, r, Groups(l), Groups(r))
    BY <2>3 DEF With
  <2> QED BY <2>1, <2>4
<1>6. DivideGroups(l, r, GetModeGroups(S, M), GetModeGroups(S2, M2)) # Raise
  BY <1>5
<1> HIDE DEF S, S2
<1>7. WellFormedLayout(DivideGroups(l, r, GetModeGroups(S, M), GetModeGroups(S2, M2)))
  BY <1>2, <1>3, <1>4, <1>6, DivideGroupsIs DEF S, S2
<1> QED BY <1>5, <1>7

\* left_divide keeps a layout well-formed, where it has a result.
LEMMA LeftDivideIs ==
  ASSUME NEW a, NEW b, WellFormedLayout(a), WellFormedLayout(b), LeftDivide(a, b) # Raise
  PROVE  WellFormedLayout(LeftDivide(a, b))
<1> DEFINE e == Aligned(b, a)
<1>1. ~(Len(a.shape) < Len(b.shape))
  BY DEF LeftDivide
<1>2. WellFormedLayout(e) /\ Len(e.shape) = Len(a.shape)
  <2>1. Len(a.shape) \in Nat /\ Len(b.shape) \in Nat
    BY DEF WellFormedLayout
  <2>2. Len(a.shape) >= Len(b.shape)
    BY <1>1, <2>1
  <2> QED BY <2>2, AlignedIs
<1>3. PICK M, P, Q : CanonicalizeLayout(a) = Layout(a.shape, M, P, Q) /\ SoundLayout(a.shape, M, P, Q) /\ Sizes(M)
  BY CanonicalFormIs
<1> HIDE DEF e
<1>4. PICK M2, P2, Q2 : CanonicalizeLayout(e) = Layout(e.shape, M2, P2, Q2) /\ SoundLayout(e.shape, M2, P2, Q2) /\ Sizes(M2)
  BY <1>2, CanonicalFormIs
<1> DEFINE S == a.shape
           S2 == e.shape
           l == Layout(S, M, P, Q)
           r == Layout(S2, M2, P2, Q2)
<1>5. LeftDivide(a, b) = LeftDivideGroups(l, r, GetModeGroups(S, M), GetModeGroups(S2, M2))
  <2>1. Groups(l) = GetModeGroups(S, M) /\ Groups(r) = GetModeGroups(S2, M2)
    BY DEF Groups, Layout
  <2>2. CanonicalizeLayout(a) = l /\ CanonicalizeLayout(Aligned(b, a)) = r
    BY <1>3, <1>4 DEF e
  <2> HIDE DEF l, r, S, S2
  <2>3. LeftDivide(a, b) = With(<<l, r>>, LAMBDA c : LeftDivideGroups(c[1], c[2], Groups(c[1]), Groups(c[2])))
    BY <1>1, <2>2 DEF LeftDivide
  <2>4. LeftDivide(a, b) = LeftDivideGroups(l, r, Groups(l), Groups(r))
    BY <2>3 DEF With
  <2> QED BY <2>1, <2>4
<1>6. LeftDivideGroups(l, r, GetModeGroups(S, M), GetModeGroups(S2, M2)) # Raise
  BY <1>5
<1> HIDE DEF S, S2
<1>7. WellFormedLayout(LeftDivideGroups(l, r, GetModeGroups(S, M), GetModeGroups(S2, M2)))
  BY <1>2, <1>3, <1>4, <1>6, LeftDivideGroupsIs DEF S, S2
<1> QED BY <1>5, <1>7

-----------------------------------------------------------------------------
(* Every layout that the operations reach. *)

\* The elementary layouts are well-formed.
LEMMA ElementaryWell ==
  ASSUME NEW e \in Elementary
  PROVE  WellFormedLayout(e)
<1>1. PICK s \in Shapes :
        e \in ({Spatial(s, RowOrder(s)), Spatial(s, ColumnOrder(s)), Local(s, RowOrder(s)), Local(s, ColumnOrder(s))}
               \cup UNION {{Replicated(s, n), AutoLocalSpatial(n, s)} : n \in Workers})
  BY DEF Elementary
<1>2. e # Raise
  BY DEF Elementary
<1>3. s \in Seq(Nat \ {0})
  BY RegisterAssumption
<1>4. Orders(s, RowOrder(s)) /\ Orders(s, ColumnOrder(s))
  BY <1>3, OrdersAre
<1>5. CASE e \in {Spatial(s, RowOrder(s)), Spatial(s, ColumnOrder(s)), Local(s, RowOrder(s)), Local(s, ColumnOrder(s))}
  BY <1>3, <1>4, <1>5, ElementaryIs
<1>6. CASE e \in UNION {{Replicated(s, n), AutoLocalSpatial(n, s)} : n \in Workers}
  <2>1. PICK n \in Workers : e \in {Replicated(s, n), AutoLocalSpatial(n, s)}
    BY <1>6
  <2>2. n \in Nat \ {0}
    BY RegisterAssumption
  <2> QED BY <1>2, <1>3, <2>1, <2>2, ReplicatedIs, AutoIs
<1> QED BY <1>1, <1>5, <1>6

\* An operation that raises leaves the layout.
LEMMA BecomesIs ==
  ASSUME NEW l, Becomes(l), l # Raise => WellFormedLayout(l)
  PROVE  WellFormedLayout(layout')
  BY DEF Becomes, WithinBounds

\* Every operation keeps the layout well-formed.
LEMMA StepWell ==
  ASSUME WellFormedLayout(layout), RegisterNext
  PROVE  WellFormedLayout(layout')
<1>1. ASSUME NEW e \in Elementary, Becomes(Compose(layout, e)) \/ Becomes(Compose(e, layout))
      PROVE  WellFormedLayout(layout')
  <2>1. WellFormedLayout(e)
    BY ElementaryWell
  <2>2. Compose(layout, e) # Raise => WellFormedLayout(Compose(layout, e))
    BY <2>1, ComposeIs
  <2>3. Compose(e, layout) # Raise => WellFormedLayout(Compose(e, layout))
    BY <2>1, ComposeIs
  <2> QED BY <1>1, <2>2, <2>3, BecomesIs
<1>2. ASSUME NEW e \in Elementary, Becomes(Concat(layout, e))
      PROVE  WellFormedLayout(layout')
  <2>1. WellFormedLayout(e)
    BY ElementaryWell
  <2>2. Concat(layout, e) # Raise => WellFormedLayout(Concat(layout, e))
    BY <2>1, ConcatIs
  <2> QED BY <1>2, <2>2, BecomesIs
<1>3. ASSUME NEW e \in Elementary, Becomes(Divide(layout, e)) \/ Becomes(LeftDivide(layout, e))
      PROVE  WellFormedLayout(layout')
  <2>1. WellFormedLayout(e)
    BY ElementaryWell
  <2>2. Divide(layout, e) # Raise => WellFormedLayout(Divide(layout, e))
    BY <2>1, DivideIs
  <2>3. LeftDivide(layout, e) # Raise => WellFormedLayout(LeftDivide(layout, e))
    BY <2>1, LeftDivideIs
  <2> QED BY <1>3, <2>2, <2>3, BecomesIs
<1>4. ASSUME NEW dims \in SUBSET Dims(layout), NEW keep \in BOOLEAN, Becomes(Reduce(layout, dims, keep))
      PROVE  WellFormedLayout(layout')
  <2>1. Reduce(layout, dims, keep) # Raise => WellFormedLayout(Reduce(layout, dims, keep))
    BY ReduceIs DEF Dims
  <2> QED BY <1>4, <2>1, BecomesIs
<1>5. ASSUME NEW dims \in SUBSET Dims(layout), Becomes(Squeeze(layout, dims))
      PROVE  WellFormedLayout(layout')
  <2>1. Squeeze(layout, dims) # Raise => WellFormedLayout(Squeeze(layout, dims))
    BY SqueezeIs
  <2> QED BY <1>5, <2>1, BecomesIs
<1>6. ASSUME Becomes(Permute(layout, ColumnOrder(layout.shape)))
      PROVE  WellFormedLayout(layout')
  <2>1. layout.shape \in Seq(Nat \ {0})
    BY DEF WellFormedLayout
  <2>2. Orders(layout.shape, ColumnOrder(layout.shape))
    BY <2>1, OrdersAre
  <2>3. Permute(layout, ColumnOrder(layout.shape)) # Raise => WellFormedLayout(Permute(layout, ColumnOrder(layout.shape)))
    BY <2>2, PermuteIs
  <2> QED BY <1>6, <2>3, BecomesIs
<1>7. ASSUME NEW s \in Shapes, Becomes(Reshape(layout, s)) \/ Becomes(ReduceTo(layout, s))
      PROVE  WellFormedLayout(layout')
  <2>1. s \in Seq(Nat \ {0})
    BY RegisterAssumption
  <2>2. Reshape(layout, s) # Raise => WellFormedLayout(Reshape(layout, s))
    BY <2>1, ReshapeIs
  <2>3. ReduceTo(layout, s) # Raise => WellFormedLayout(ReduceTo(layout, s))
    BY <2>1, ReduceToIs
  <2> QED BY <1>7, <2>2, <2>3, BecomesIs
<1>8. ASSUME Dims(layout) # {}, Becomes(Flatten(layout, 0, -1))
      PROVE  WellFormedLayout(layout')
  <2>1. Flatten(layout, 0, -1) # Raise => WellFormedLayout(Flatten(layout, 0, -1))
    BY <1>8, FlattenIsWell DEF Dims
  <2> QED BY <1>8, <2>1, BecomesIs
<1> QED BY <1>1, <1>2, <1>3, <1>4, <1>5, <1>6, <1>7, <1>8 DEF RegisterNext

\* Whichever shapes and thread counts a program begins with, and whichever operations it
\* applies one after another, every layout it gets is well-formed and consistent
\* (LayoutIsRight): validation, the canonical form and the operations of register_ops.py keep
\* every mode listed exactly once.
THEOREM RegisterLayoutsAreRight == RegisterSpec => []LayoutIsRight
<1>1. RegisterInit => WellFormedLayout(layout)
  BY ElementaryWell DEF RegisterInit
<1>2. WellFormedLayout(layout) /\ [RegisterNext]_layout => WellFormedLayout(layout)'
  <2> SUFFICES ASSUME WellFormedLayout(layout), [RegisterNext]_layout PROVE WellFormedLayout(layout')
    OBVIOUS
  <2>1. CASE RegisterNext
    BY <2>1, StepWell
  <2>2. CASE UNCHANGED layout
    BY <2>2
  <2> QED BY <2>1, <2>2
<1>3. WellFormedLayout(layout) => LayoutIsRight
  BY LayoutsAreConsistent DEF LayoutIsRight
<1> QED BY <1>1, <1>2, <1>3, PTL DEF RegisterSpec
=============================================================================
