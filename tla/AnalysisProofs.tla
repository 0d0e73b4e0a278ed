--------------------------- MODULE AnalysisProofs ---------------------------
(***************************************************************************)
(* Both analyses are sound.                                                *)
(*                                                                         *)
(* Scalar analysis: what a function computes after the analysis accepted   *)
(* it is in the set of its variable.  TooSmall names the operands for      *)
(* which the code makes sets too small; functions without them (Reliable)  *)
(* keep their sets.  First the arithmetic, then each operation on sets     *)
(* (Sound), then the fixpoint: a pass that changes nothing has seen only   *)
(* settled statements, whatever bounds were given up before it.            *)
(*                                                                         *)
(* Grid analysis: what a DimensionInfo claims of a vector holds, for every *)
(* expression and dimensions of any length, where the code does not claim  *)
(* too much (Overclaimed).  First divisors and segments, then one lemma    *)
(* for every operation of DimensionInfo, then the stack of the visitor.    *)
(***************************************************************************)
EXTENDS GridAnalysis, ScalarAnalysis, NaturalsInduction, WellFoundedInduction, TLAPS

-----------------------------------------------------------------------------
(* Division, as Python and C do it. *)

LEMMA Division ==
  ASSUME NEW x \in Int, NEW n \in Nat \ {0}
  PROVE  /\ x \div n \in Int /\ x % n \in 0 .. n - 1
         /\ x = (x % n) + (x \div n) * n
  OBVIOUS

LEMMA Monotone ==
  ASSUME NEW p \in Int, NEW q \in Int, NEW n \in Nat, p <= q
  PROVE  p * n <= q * n
<1>1. PICK d \in Nat : q = p + d
  BY q = p + (q - p)
<1>2. q * n = p * n + d * n /\ d * n >= 0
  BY <1>1
<1> QED BY <1>2

LEMMA QuotientIs ==
  ASSUME NEW x \in Int, NEW n \in Nat \ {0}, NEW q \in Int, NEW r \in 0 .. n - 1, x = r + q * n
  PROVE  x \div n = q /\ x % n = r
<1>1. PICK p \in Int, s \in 0 .. n - 1 : p = x \div n /\ s = x % n /\ x = s + p * n
  BY Division
<1>2. ~(p < q)
  <2> SUFFICES ASSUME p < q PROVE FALSE
    OBVIOUS
  <2>1. (p + 1) * n <= q * n
    BY Monotone
  <2>2. (p + 1) * n = p * n + n /\ p * n \in Int /\ q * n \in Int
    OBVIOUS
  <2> QED BY <2>1, <2>2, <1>1
<1>3. ~(q < p)
  <2> SUFFICES ASSUME q < p PROVE FALSE
    OBVIOUS
  <2>1. (q + 1) * n <= p * n
    BY Monotone
  <2>2. (q + 1) * n = q * n + n /\ p * n \in Int /\ q * n \in Int
    OBVIOUS
  <2> QED BY <2>1, <2>2, <1>1
<1>4. p = q
  BY <1>2, <1>3
<1>5. s = r
  <2>1. p * n = q * n /\ p * n \in Int
    BY <1>4
  <2> QED BY <2>1, <1>1
<1> QED BY <1>1, <1>4, <1>5

LEMMA DividesIs ==
  ASSUME NEW d \in Nat, NEW x \in Int
  PROVE  Divides(d, x) <=> \E k \in Int : x = k * d
<1>1. CASE d = 0
  BY <1>1 DEF Divides
<1>2. CASE d > 0
  <2>1. Divides(d, x) <=> x % d = 0
    BY <1>2 DEF Divides
  <2>2. x % d = 0 => x = (x \div d) * d /\ x \div d \in Int
    BY <1>2, Division
  <2>3. ASSUME NEW k \in Int, x = k * d PROVE x % d = 0
    <3>1. x = 0 + k * d /\ 0 \in 0 .. d - 1
      BY <1>2, <2>3
    <3> QED BY <3>1, <1>2, QuotientIs
  <2> QED BY <2>1, <2>2, <2>3
<1> QED BY <1>1, <1>2

LEMMA QuotientOrder ==
  ASSUME NEW x \in Int, NEW y \in Int, NEW n \in Nat \ {0}, x <= y
  PROVE  x \div n <= y \div n
<1>1. PICK p \in Int, s \in 0 .. n - 1 : p = x \div n /\ x = s + p * n
  BY Division
<1>2. PICK q \in Int, r \in 0 .. n - 1 : q = y \div n /\ y = r + q * n
  BY Division
<1>3. ~(q < p)
  <2> SUFFICES ASSUME q < p PROVE FALSE
    OBVIOUS
  <2>1. (q + 1) * n <= p * n
    BY Monotone
  <2>2. (q + 1) * n = q * n + n /\ p * n \in Int /\ q * n \in Int
    OBVIOUS
  <2> QED BY <2>1, <2>2, <1>1, <1>2
<1> QED BY <1>1, <1>2, <1>3

\* Dividing a natural number by a larger one gives less.
LEMMA QuotientBelow ==
  ASSUME NEW x \in Nat, NEW m \in Nat \ {0}, NEW n \in Nat \ {0}, m <= n
  PROVE  x \div n <= x \div m
<1>1. PICK p \in Int, s \in 0 .. m - 1 : p = x \div m /\ x = s + p * m
  BY Division
<1>2. PICK q \in Int, r \in 0 .. n - 1 : q = x \div n /\ x = r + q * n
  BY Division
<1>3. ~(p < q)
  <2> SUFFICES ASSUME p < q PROVE FALSE
    OBVIOUS
  <2>0. q >= 0
    <3> SUFFICES ASSUME q < 0 PROVE FALSE
      OBVIOUS
    <3>1. (q + 1) * n <= 0 * n
      BY Monotone
    <3>2. (q + 1) * n = q * n + n /\ 0 * n = 0 /\ q * n \in Int
      OBVIOUS
    <3> QED BY <3>1, <3>2, <1>2
  <2>1. (p + 1) * m <= q * m
    BY Monotone
  <2>2. m * q <= n * q
    BY <2>0, Monotone
  <2>3. (p + 1) * m = p * m + m /\ p * m \in Int /\ q * m = m * q /\ q * n = n * q
        /\ q * m \in Int /\ q * n \in Int
    OBVIOUS
  <2> QED BY <2>1, <2>2, <2>3, <1>1, <1>2
<1> QED BY <1>1, <1>2, <1>3

-----------------------------------------------------------------------------
(* Extremes of sets of integers. *)

LEMMA MaxIs ==
  ASSUME NEW S, NEW m \in S, \A y \in S : m >= y
  PROVE  Max(S) \in S /\ \A y \in S : Max(S) >= y
  BY DEF Max

LEMMA MinIs ==
  ASSUME NEW S, NEW m \in S, \A y \in S : m <= y
  PROVE  Min(S) \in S /\ \A y \in S : Min(S) <= y
  BY DEF Min

LEMMA LeastOfTwo ==
  ASSUME NEW x \in Int, NEW y \in Int
  PROVE  Least(x, y) \in {x, y} /\ Least(x, y) <= x /\ Least(x, y) <= y
<1>1. \E m \in {x, y} : \A z \in {x, y} : m <= z
  OBVIOUS
<1> QED BY <1>1, MinIs DEF Least

LEMMA GreatestOfTwo ==
  ASSUME NEW x \in Int, NEW y \in Int
  PROVE  Greatest(x, y) \in {x, y} /\ Greatest(x, y) >= x /\ Greatest(x, y) >= y
<1>1. \E m \in {x, y} : \A z \in {x, y} : m >= z
  OBVIOUS
<1> QED BY <1>1, MaxIs DEF Greatest

LEMMA OfFour ==
  ASSUME NEW a \in Int, NEW b \in Int, NEW c \in Int, NEW d \in Int,
         NEW P, P = {a, b, c, d}
  PROVE  /\ Min(P) \in Int /\ Max(P) \in Int
         /\ \A x \in P : Min(P) <= x /\ x <= Max(P)
<1>1. \E m \in {a, b} : \A z \in {a, b} : m <= z
  OBVIOUS
<1>2. \E m \in {c, d} : \A z \in {c, d} : m <= z
  OBVIOUS
<1>3. \E m \in P : \A z \in P : m <= z
  BY <1>1, <1>2
<1>4. \E m \in {a, b} : \A z \in {a, b} : m >= z
  OBVIOUS
<1>5. \E m \in {c, d} : \A z \in {c, d} : m >= z
  OBVIOUS
<1>6. \E m \in P : \A z \in P : m >= z
  BY <1>4, <1>5
<1>7. Min(P) \in P /\ \A x \in P : Min(P) <= x
  BY <1>3, MinIs
<1>8. Max(P) \in P /\ \A x \in P : Max(P) >= x
  BY <1>6, MaxIs
<1> QED BY <1>7, <1>8

\* A set of numbers from 1 to m has a greatest one.
LEMMA MaxBelow ==
  ASSUME NEW m \in Nat, NEW S \in SUBSET (1 .. m), S # {}
  PROVE  Max(S) \in S /\ \A y \in S : Max(S) >= y
<1> DEFINE T == {k \in Nat : \A y \in S : y <= k}
<1>1. m \in T
  OBVIOUS
<1>2. PICK g \in T : \A k \in T : ~(k < g)
  <2>1. T \subseteq Nat /\ T # {}
    BY <1>1
  <2>2. PICK g \in T : \A k \in T : <<k, g>> \notin OpToRel(<, Nat)
    BY <2>1, NatLessThanWellFounded, WFMin
  <2> QED BY <2>2, <2>1 DEF OpToRel
<1>3. g \in S
  <2> SUFFICES ASSUME g \notin S PROVE FALSE
    OBVIOUS
  <2>1. PICK y \in S : TRUE
    OBVIOUS
  <2>2. y >= 1 /\ y <= g /\ g \in Nat
    BY <2>1
  <2>3. g - 1 \in Nat /\ \A z \in S : z <= g - 1
    BY <2>2, <1>2
  <2>4. g - 1 \in T
    BY <2>3
  <2> QED BY <2>2, <2>4, <1>2
<1>4. \A y \in S : g >= y
  OBVIOUS
<1> QED BY <1>3, <1>4, MaxIs

-----------------------------------------------------------------------------
(* Common divisors. *)

LEMMA GcdIs ==
  ASSUME NEW a \in Nat, NEW b \in Nat
  PROVE  LET P == {a, b} \ {0} IN
         Gcd({a, b}) = IF P = {} THEN 0 ELSE Max({d \in 1 .. Min(P) : \A x \in P : x % d = 0})
<1> DEFINE A == {IF x < 0 THEN -x ELSE x : x \in {a, b}}
<1>1. A = {a, b}
  OBVIOUS
<1>2. Gcd({a, b}) = IF A \ {0} = {} THEN 0
                   ELSE Max({d \in 1 .. Min(A \ {0}) : \A x \in A \ {0} : x % d = 0})
  BY DEF Gcd
<1> HIDE DEF A
<1> QED BY <1>1, <1>2

LEMMA GcdDivides ==
  ASSUME NEW a \in Nat, NEW b \in Nat
  PROVE  /\ Gcd({a, b}) \in Nat
         /\ Divides(Gcd({a, b}), a) /\ Divides(Gcd({a, b}), b)
         /\ b > 0 => Gcd({a, b}) > 0
<1> DEFINE P == {a, b} \ {0}
           m == Min(P)
           D == {d \in 1 .. m : \A x \in P : x % d = 0}
<1>1. CASE a = 0 /\ b = 0
  <2>1. Gcd({a, b}) = 0
    BY <1>1, GcdIs
  <2> QED BY <1>1, <2>1 DEF Divides
<1>2. CASE ~(a = 0 /\ b = 0)
  <2>1. P # {} /\ \A x \in P : x \in Nat \ {0}
    BY <1>2
  <2>2. \E x \in P : \A y \in P : x <= y
    <3>1. CASE a = 0 \/ b = 0
      BY <2>1, <3>1
    <3>2. CASE a # 0 /\ b # 0
      BY <3>2
    <3> QED BY <3>1, <3>2
  <2>3. m \in P
    BY <2>2, MinIs
  <2>4. m \in Nat /\ m >= 1
    BY <2>1, <2>3
  <2>5. 1 \in D
    <3>1. \A x \in P : x % 1 = 0
      BY <2>1
    <3> QED BY <3>1, <2>4
  <2>6. D \in SUBSET (1 .. m) /\ D # {}
    BY <2>5
  <2> HIDE DEF D
  <2>7. Max(D) \in D
    BY <2>4, <2>6, MaxBelow
  <2>8. Gcd({a, b}) = Max(D)
    BY <2>1, GcdIs DEF D
  <2>9. PICK g \in Nat \ {0} : g = Gcd({a, b}) /\ \A x \in P : x % g = 0
    <3>1. Max(D) \in 1 .. m /\ \A x \in P : x % Max(D) = 0
      BY <2>7 DEF D
    <3>2. Max(D) \in Nat \ {0}
      BY <2>4, <3>1
    <3> QED BY <3>1, <3>2, <2>8
  <2>10. (a # 0 => a % g = 0) /\ (b # 0 => b % g = 0) /\ 0 % g = 0
    BY <2>9
  <2> QED BY <2>9, <2>10 DEF Divides
<1> QED BY <1>1, <1>2

\* When the second of two numbers divides the first, it is their greatest common divisor.
LEMMA GcdOfMultiple ==
  ASSUME NEW a \in Nat, NEW b \in Nat \ {0}, Divides(b, a)
  PROVE  Gcd({a, b}) = b /\ Gcd({b, a}) = b
<1> DEFINE P == {a, b} \ {0}
           m == Min(P)
           D == {d \in 1 .. m : \A x \in P : x % d = 0}
<1>1. a % b = 0
  BY DEF Divides
<1>2. a # 0 => b <= a
  <2> SUFFICES ASSUME a # 0, a < b PROVE FALSE
    OBVIOUS
  <2>1. a = a + 0 * b /\ a \in 0 .. b - 1
    OBVIOUS
  <2>2. a % b = a
    BY <2>1, QuotientIs
  <2> QED BY <1>1, <2>2
<1>3. b \in P /\ \A x \in P : b <= x
  BY <1>2
<1>4. m \in P /\ m <= b
  BY <1>3, MinIs
<1>5. m = b
  BY <1>3, <1>4
<1>6. b % b = 0
  <2>1. b = 0 + 1 * b /\ 0 \in 0 .. b - 1
    OBVIOUS
  <2> QED BY <2>1, QuotientIs
<1>7. b \in D /\ \A d \in D : b >= d
  BY <1>1, <1>3, <1>5, <1>6
<1> HIDE DEF D
<1>8. Max(D) \in D /\ Max(D) >= b
  BY <1>7, MaxIs
<1>9. Max(D) = b
  BY <1>7, <1>8, <1>5 DEF D
<1>10. Gcd({a, b}) = Max(D)
  BY <1>3, GcdIs DEF D
<1>11. {a, b} = {b, a}
  OBVIOUS
<1> QED BY <1>9, <1>10, <1>11

-----------------------------------------------------------------------------
(* C division by a positive number. *)

LEMMA CDivIs ==
  ASSUME NEW x \in Int, NEW n \in Nat \ {0}
  PROVE  /\ CDiv(x, n) = IF x < 0 THEN -((-x) \div n) ELSE x \div n
         /\ CDiv(x, n) \in Int
<1>1. x < 0 <=> x * n < 0
  <2>1. CASE x < 0
    <3>1. (x + 1) * n <= 0 * n
      BY <2>1, Monotone
    <3>2. (x + 1) * n = x * n + n /\ 0 * n = 0 /\ x * n \in Int
      OBVIOUS
    <3> QED BY <3>1, <3>2, <2>1
  <2>2. CASE x >= 0
    <3>1. 0 * n <= x * n
      BY <2>2, Monotone
    <3> QED BY <3>1, <2>2
  <2> QED BY <2>1, <2>2
<1>2. CDiv(x, n) = IF x < 0 THEN -((-x) \div n) ELSE x \div n
  BY <1>1 DEF CDiv
<1>3. x \div n \in Int /\ (-x) \div n \in Int
  BY Division
<1> QED BY <1>2, <1>3

LEMMA CDivNat ==
  ASSUME NEW x \in Nat, NEW n \in Nat \ {0}
  PROVE  CDiv(x, n) = x \div n /\ x \div n \in Int
<1>1. x \in Int /\ ~(x < 0)
  OBVIOUS
<1> QED BY <1>1, CDivIs, Division

LEMMA CDivOrder ==
  ASSUME NEW x \in Int, NEW y \in Int, NEW n \in Nat \ {0}, x <= y
  PROVE  CDiv(x, n) <= CDiv(y, n)
<1>1. ASSUME NEW z \in Int, z >= 0 PROVE z \div n \in Int /\ z \div n >= 0
  <2>1. z \div n \in Int /\ 0 \div n \in Int
    BY Division
  <2>2. 0 = 0 + 0 * n /\ 0 \in 0 .. n - 1
    OBVIOUS
  <2>3. 0 \div n = 0
    BY <2>2, QuotientIs
  <2>4. 0 \div n <= z \div n
    BY <1>1, QuotientOrder
  <2> QED BY <2>1, <2>3, <2>4
<1>2. CASE y < 0
  <2>1. (-y) \div n <= (-x) \div n /\ (-y) \div n \in Int /\ (-x) \div n \in Int
    BY QuotientOrder, Division
  <2>2. PICK p \in Int, q \in Int : p = (-y) \div n /\ q = (-x) \div n
    BY <2>1
  <2>3. CDiv(x, n) = -q /\ CDiv(y, n) = -p
    <3>1. x < 0 /\ y < 0
      BY <1>2
    <3> QED BY <3>1, <2>2, CDivIs
  <2> QED BY <2>1, <2>2, <2>3
<1>3. CASE x >= 0
  <2>1. x \div n <= y \div n
    BY QuotientOrder
  <2>2. CDiv(x, n) = x \div n /\ CDiv(y, n) = y \div n
    <3>1. ~(x < 0) /\ ~(y < 0)
      BY <1>3
    <3> QED BY <3>1, CDivIs
  <2> QED BY <2>1, <2>2
<1>4. CASE x < 0 /\ y >= 0
  <2>1. PICK p \in Int : p = (-x) \div n /\ p >= 0
    BY <1>1, <1>4
  <2>2. PICK q \in Int : q = y \div n /\ q >= 0
    BY <1>1, <1>4
  <2>3. CDiv(x, n) = -p /\ CDiv(y, n) = q
    BY <1>4, <2>1, <2>2, CDivIs, SMTT(30)
  <2> QED BY <2>1, <2>2, <2>3
<1> QED BY <1>2, <1>3, <1>4

\* A multiple is divided exactly.
LEMMA CDivExact ==
  ASSUME NEW k \in Int, NEW n \in Nat \ {0}
  PROVE  CDiv(k * n, n) = k
<1>0. k * n \in Int /\ 0 \in 0 .. n - 1
  OBVIOUS
<1>1. k * n = 0 + k * n /\ -(k * n) = 0 + (-k) * n
  OBVIOUS
<1>2. (k * n) \div n = k /\ (-(k * n)) \div n = -k
  BY <1>0, <1>1, QuotientIs
<1> QED BY <1>0, <1>2, CDivIs, SMTT(30)

LEMMA CModIs ==
  ASSUME NEW x \in Nat, NEW n \in Nat \ {0}
  PROVE  /\ CMod(x, n) \in 0 .. n - 1 /\ CMod(x, n) = x % n
         /\ x < n => CMod(x, n) = x
         /\ Divides(n, x) => CMod(x, n) = 0
<1>1. PICK p \in Int, s \in 0 .. n - 1 : p = x \div n /\ s = x % n /\ x = s + p * n
  BY Division
<1>2. CDiv(x, n) = p
  <2>1. x \in Int /\ ~(x < 0)
    OBVIOUS
  <2>2. CDiv(x, n) = x \div n
    BY <2>1, CDivIs
  <2> QED BY <1>1, <2>2
<1>3. CMod(x, n) = s
  BY <1>1, <1>2 DEF CMod
<1>4. x < n => x % n = x
  <2>1. x = x + 0 * n
    OBVIOUS
  <2> QED BY <2>1, QuotientIs
<1>5. Divides(n, x) => x % n = 0
  BY DEF Divides
<1> QED BY <1>1, <1>3, <1>4, <1>5

\* By a negative number, the quotient changes its sign and the remainder stays.
LEMMA CDivNegative ==
  ASSUME NEW x \in Int, NEW n \in Nat \ {0}
  PROVE  CDiv(x, -n) = -CDiv(x, n) /\ CMod(x, -n) = CMod(x, n)
<1>1. PICK q \in Int : q = CDiv(x, n)
  BY CDivIs
<1>2. CDiv(x, -n) = -q
  <2>1. PICK m \in Int, w \in Int : m = (-x) \div n /\ w = x \div n
    <3>1. (-x) \div n \in Int /\ x \div n \in Int
      BY Division
    <3> QED BY <3>1, Zenon
  <2>2. x < 0 <=> x * n < 0
    <3>1. x < 0 => (x + 1) * n <= 0 * n
      BY Monotone
    <3>2. x >= 0 => 0 * n <= x * n
      BY Monotone
    <3>3. (x + 1) * n = x * n + n /\ 0 * n = 0 /\ x * n \in Int
      OBVIOUS
    <3> QED BY <3>1, <3>2, <3>3
  <2>3. x > 0 <=> x * (-n) < 0
    <3>1. x > 0 => 1 * n <= x * n
      BY Monotone
    <3>2. x <= 0 => x * n <= 0 * n
      BY Monotone
    <3>3. x * (-n) = -(x * n) /\ 0 * n = 0 /\ 1 * n = n /\ x * n \in Int
      OBVIOUS
    <3> QED BY <3>1, <3>2, <3>3
  <2>4. x = 0 => w = 0
    <3>1. 0 = 0 + 0 * n /\ 0 \in 0 .. n - 1
      OBVIOUS
    <3> QED BY <3>1, <2>1, QuotientIs
  <2>5. q = IF x < 0 THEN -m ELSE w
    BY <1>1, <2>1, CDivIs
  <2>6. CDiv(x, -n) = IF x > 0 THEN -w ELSE IF x < 0 THEN m ELSE w
    BY <2>1, <2>3 DEF CDiv
  <2> QED BY <2>4, <2>5, <2>6
<1>3. CMod(x, -n) = x - (-n) * (-q) /\ CMod(x, n) = x - n * q
  BY <1>1, <1>2 DEF CMod
<1> QED BY <1>1, <1>2, <1>3

LEMMA CDivInt ==
  ASSUME NEW x \in Int, NEW y \in Int, y # 0
  PROVE  CDiv(x, y) \in Int /\ CMod(x, y) \in Int
<1>1. CDiv(x, y) \in Int
  <2>1. CASE y > 0
    BY <2>1, CDivIs
  <2>2. CASE y < 0
    <3>1. PICK n \in Nat \ {0} : y = -n
      BY <2>2, -y \in Nat \ {0}, y = -(-y)
    <3>2. CDiv(x, n) \in Int
      BY CDivIs
    <3>3. CDiv(x, y) = -CDiv(x, n)
      BY <3>1, CDivNegative
    <3> QED BY <3>2, <3>3
  <2> QED BY <2>1, <2>2
<1> QED BY <1>1 DEF CMod

\* A remainder of a number that is not negative is below the divisor's size.
LEMMA CModBelow ==
  ASSUME NEW x \in Nat, NEW y \in Int, y # 0
  PROVE  CMod(x, y) \in Nat /\ (y > 0 => CMod(x, y) <= y - 1)
<1>1. CASE y > 0
  BY <1>1, CModIs
<1>2. CASE y < 0
  <2>1. PICK n \in Nat \ {0} : y = -n
    BY <1>2, -y \in Nat \ {0}, y = -(-y)
  <2>2. CMod(x, n) \in Nat
    BY CModIs
  <2>3. CMod(x, y) = CMod(x, n)
    BY <2>1, CDivNegative
  <2> QED BY <1>2, <2>2, <2>3
<1> QED BY <1>1, <1>2

\* A multiple leaves no remainder, also a negative one.
LEMMA CModExact ==
  ASSUME NEW e \in Nat, NEW c \in Nat \ {0}, Divides(c, e), NEW x \in Int, Divides(e, x)
  PROVE  CMod(x, c) = 0
<1>1. PICK k \in Int, m \in Int : e = k * c /\ x = m * e
  BY DividesIs
<1>2. PICK p \in Int : p = m * k /\ x = p * c
  BY <1>1
<1>3. CDiv(x, c) = p
  BY <1>2, CDivExact
<1> QED BY <1>2, <1>3 DEF CMod

\* A quotient of naturals is one.
LEMMA QuotientNat ==
  ASSUME NEW x \in Nat, NEW g \in Nat \ {0}
  PROVE  x \div g \in Nat
<1>1. PICK q \in Int, r \in 0 .. g - 1 : q = x \div g /\ x = r + q * g
  BY Division
<1>2. q >= 0
  <2> SUFFICES ASSUME q < 0 PROVE FALSE
    OBVIOUS
  <2>1. (q + 1) * g <= 0 * g
    BY Monotone
  <2>2. (q + 1) * g = q * g + g /\ 0 * g = 0 /\ q * g \in Int
    OBVIOUS
  <2> QED BY <2>1, <2>2, <1>1
<1> QED BY <1>1, <1>2

-----------------------------------------------------------------------------
(* Sets of numbers. *)

Bounds == Int \cup {NoBound}

LEMMA Fields ==
  ASSUME NEW s \in ScalarSets
  PROVE  /\ s.divisibility \in Nat /\ s.lower \in Bounds /\ s.upper \in Bounds
         /\ NoBound \notin Int
  BY ScalarAssumption DEF ScalarSets, Bounds

LEMMA IsSet ==
  ASSUME NEW d \in Nat, NEW l \in Bounds, NEW u \in Bounds
  PROVE  /\ ScalarSet(d, l, u) \in ScalarSets
         /\ ScalarSet(d, l, u).divisibility = d
         /\ ScalarSet(d, l, u).lower = l /\ ScalarSet(d, l, u).upper = u
  BY DEF ScalarSet, ScalarSets, Bounds

\* What a set admits, by its parts.
LEMMA AdmitsIs ==
  ASSUME NEW d, NEW l, NEW u, NEW x
  PROVE  Admits(ScalarSet(d, l, u), x)
           <=> Divides(d, x) /\ (l # NoBound => x >= l) /\ (u # NoBound => x <= u)
  BY DEF Admits, ScalarSet

LEMMA LiftedLeast ==
  ASSUME NEW a \in Bounds, NEW b \in Bounds
  PROVE  /\ Lift(Least, a, b) \in Bounds
         /\ Lift(Least, a, b) # NoBound =>
              /\ a \in Int /\ b \in Int /\ Lift(Least, a, b) \in {a, b}
              /\ Lift(Least, a, b) <= a /\ Lift(Least, a, b) <= b
<1>1. CASE NoBound \in {a, b}
  BY <1>1 DEF Lift, Bounds
<1>2. CASE NoBound \notin {a, b}
  <2>1. a \in Int /\ b \in Int
    BY <1>2 DEF Bounds
  <2>2. Lift(Least, a, b) = Least(a, b)
    BY <1>2 DEF Lift
  <2> QED BY <2>1, <2>2, LeastOfTwo DEF Bounds
<1> QED BY <1>1, <1>2

LEMMA LiftedGreatest ==
  ASSUME NEW a \in Bounds, NEW b \in Bounds
  PROVE  /\ Lift(Greatest, a, b) \in Bounds
         /\ Lift(Greatest, a, b) # NoBound =>
              /\ a \in Int /\ b \in Int /\ Lift(Greatest, a, b) \in {a, b}
              /\ Lift(Greatest, a, b) >= a /\ Lift(Greatest, a, b) >= b
<1>1. CASE NoBound \in {a, b}
  BY <1>1 DEF Lift, Bounds
<1>2. CASE NoBound \notin {a, b}
  <2>1. a \in Int /\ b \in Int
    BY <1>2 DEF Bounds
  <2>2. Lift(Greatest, a, b) = Greatest(a, b)
    BY <1>2 DEF Lift
  <2> QED BY <2>1, <2>2, GreatestOfTwo DEF Bounds
<1> QED BY <1>1, <1>2

LEMMA LiftedSum ==
  ASSUME NEW a \in Bounds, NEW b \in Bounds
  PROVE  /\ Lift(Plus, a, b) \in Bounds /\ Lift(Minus, a, b) \in Bounds
         /\ Lift(Plus, a, b) # NoBound => a \in Int /\ b \in Int /\ Lift(Plus, a, b) = a + b
         /\ Lift(Minus, a, b) # NoBound => a \in Int /\ b \in Int /\ Lift(Minus, a, b) = a - b
<1>1. CASE NoBound \in {a, b}
  BY <1>1 DEF Lift, Bounds
<1>2. CASE NoBound \notin {a, b}
  BY <1>2 DEF Lift, Bounds, Plus, Minus
<1> QED BY <1>1, <1>2

LEMMA LiftedCDiv ==
  ASSUME NEW a \in Bounds, NEW n \in Nat \ {0}
  PROVE  /\ Lift(CDiv, a, n) \in Bounds
         /\ Lift(CDiv, a, n) # NoBound => a \in Int /\ Lift(CDiv, a, n) = CDiv(a, n)
<1>1. n # NoBound
  BY ScalarAssumption
<1>2. CASE a = NoBound
  BY <1>2 DEF Lift, Bounds
<1>3. CASE a # NoBound
  <2>1. a \in Int /\ Lift(CDiv, a, n) = CDiv(a, n)
    BY <1>1, <1>3 DEF Lift, Bounds
  <2> QED BY <2>1, CDivIs DEF Bounds
<1> QED BY <1>2, <1>3

\* The common divisor of two sets divides what either divisor does.
LEMMA CommonDivides ==
  ASSUME NEW s \in ScalarSets, NEW t \in ScalarSets
  PROVE  /\ Common(s, t) \in Nat
         /\ t.divisibility > 0 => Common(s, t) > 0
         /\ \A x \in Int : Divides(s.divisibility, x) \/ Divides(t.divisibility, x)
                             => Divides(Common(s, t), x)
<1>1. PICK a \in Nat, b \in Nat, g \in Nat :
        /\ a = s.divisibility /\ b = t.divisibility /\ g = Common(s, t)
        /\ Divides(g, a) /\ Divides(g, b) /\ (b > 0 => g > 0)
  BY Fields, GcdDivides DEF Common
<1>2. PICK p \in Int, q \in Int : a = p * g /\ b = q * g
  <2>1. a \in Int /\ b \in Int
    OBVIOUS
  <2>2. \E p \in Int : a = p * g
    BY <1>1, <2>1, DividesIs
  <2>3. \E q \in Int : b = q * g
    BY <1>1, <2>1, DividesIs
  <2> QED BY <2>2, <2>3
<1>3. ASSUME NEW x \in Int, Divides(a, x) \/ Divides(b, x) PROVE Divides(g, x)
  <2>1. PICK k \in Int : x = k * a \/ x = k * b
    BY <1>3, DividesIs
  <2>2. k * (p * g) = (k * p) * g /\ k * (q * g) = (k * q) * g
    OBVIOUS
  <2>3. k * p \in Int /\ k * q \in Int
    OBVIOUS
  <2>4. x = (k * p) * g \/ x = (k * q) * g
    BY <2>1, <2>2, <1>2
  <2> QED BY <2>3, <2>4, DividesIs
<1> QED BY <1>1, <1>3

\* A sum or difference of multiples is one.
LEMMA SumDivides ==
  ASSUME NEW g \in Nat, NEW x \in Int, NEW y \in Int, Divides(g, x), Divides(g, y)
  PROVE  Divides(g, x + y) /\ Divides(g, x - y)
<1>1. PICK p \in Int, q \in Int : x = p * g /\ y = q * g
  BY DividesIs
<1>2. x + y = (p + q) * g /\ x - y = (p - q) * g
  BY <1>1
<1>3. p + q \in Int /\ p - q \in Int /\ x + y \in Int /\ x - y \in Int
  OBVIOUS
<1> QED BY <1>2, <1>3, DividesIs

LEMMA ProductDivides ==
  ASSUME NEW g \in Nat, NEW h \in Nat, NEW x \in Int, NEW y \in Int, Divides(g, x), Divides(h, y)
  PROVE  g * h \in Nat /\ Divides(g * h, x * y)
<1>1. PICK p \in Int, q \in Int : x = p * g /\ y = q * h
  BY DividesIs
<1>2. x * y = (p * q) * (g * h)
  BY <1>1
<1>3. p * q \in Int /\ g * h \in Nat /\ x * y \in Int
  OBVIOUS
<1> QED BY <1>2, <1>3, DividesIs

\* A set that admits a number is not taken for an empty one.
LEMMA NonEmpty ==
  ASSUME NEW s \in ScalarSets, NEW x \in Int, Admits(s, x)
  PROVE  ~IsEmpty(s)
<1> SUFFICES ASSUME IsEmpty(s) PROVE FALSE
  OBVIOUS
<1>1. PICK d \in Nat, l \in Int, u \in Int : d = s.divisibility /\ l = s.lower /\ u = s.upper
  BY Fields DEF IsEmpty, Bounded, Bounds
<1>2. Divides(d, x) /\ l <= x /\ x <= u
  BY <1>1, ScalarAssumption DEF Admits
<1>3. d # 0 /\ (u \div d) * d < l
  BY <1>1, <1>2 DEF IsEmpty
<1>4. PICK k \in Int : x = k * d
  BY <1>2, DividesIs
<1>5. x \div d <= u \div d
  BY <1>2, <1>3, QuotientOrder
<1>6. x \div d = k
  <2>1. x = 0 + k * d /\ 0 \in 0 .. d - 1
    BY <1>3, <1>4
  <2> QED BY <2>1, <1>3, QuotientIs
<1>7. PICK q \in Int : q = u \div d
  BY <1>3, Division
<1>8. k * d <= q * d
  BY <1>5, <1>6, <1>7, Monotone
<1>9. q * d \in Int
  OBVIOUS
<1> QED BY <1>2, <1>3, <1>4, <1>7, <1>8, <1>9

LEMMA UnionSound ==
  ASSUME NEW s \in ScalarSets, NEW t \in ScalarSets
  PROVE  /\ Union(s, t) \in ScalarSets
         /\ \A x \in Int : Admits(s, x) \/ Admits(t, x) => Admits(Union(s, t), x)
<1>1. CASE IsEmpty(s)
  BY <1>1, NonEmpty DEF Union
<1>2. CASE ~IsEmpty(s)
  <2> DEFINE l == Lift(Least, s.lower, t.lower)
             u == Lift(Greatest, s.upper, t.upper)
  <2>1. /\ l \in Bounds
        /\ l # NoBound => s.lower \in Int /\ t.lower \in Int /\ l \in Int /\ l <= s.lower /\ l <= t.lower
    BY Fields, LiftedLeast DEF Bounds
  <2>2. /\ u \in Bounds
        /\ u # NoBound => s.upper \in Int /\ t.upper \in Int /\ u \in Int /\ u >= s.upper /\ u >= t.upper
    BY Fields, LiftedGreatest DEF Bounds
  <2>3. Union(s, t) = ScalarSet(Common(s, t), l, u)
    BY <1>2 DEF Union
  <2> HIDE DEF l, u
  <2>4. ASSUME NEW x \in Int, Admits(s, x) \/ Admits(t, x) PROVE Admits(Union(s, t), x)
    <3>1. Divides(Common(s, t), x)
      BY <2>4, CommonDivides DEF Admits
    <3>2. l # NoBound => x >= l
      BY <2>1, <2>4, Fields DEF Admits
    <3>3. u # NoBound => x <= u
      BY <2>2, <2>4, Fields DEF Admits
    <3> QED BY <3>1, <3>2, <3>3, <2>3, AdmitsIs
  <2> QED BY <2>1, <2>2, <2>3, <2>4, IsSet, CommonDivides
<1> QED BY <1>1, <1>2

-----------------------------------------------------------------------------
(* The operations on sets. *)

\* The operands of an operation are none of the cases left out.
Precise(op, s, t) ==
  /\ ~AssumesPositive(op, s, t)
  /\ op \in {"div", "mod"} => ~Inexact(s, t)

\* A constant set admits its constant only.
LEMMA AdmittedConstant ==
  ASSUME NEW s \in ScalarSets, NEW c \in Int, s.lower = c, s.upper = c, NEW x \in Int, Admits(s, x)
  PROVE  x = c
<1>1. c # NoBound
  BY ScalarAssumption
<1> QED BY <1>1 DEF Admits

\* r admits what op computes from what s and t admit.
Sound(op, s, t, r) ==
  /\ r \in ScalarSets
  /\ \A x \in Int, y \in Int :
       Admits(s, x) /\ Admits(t, y) /\ (op \in {"div", "mod"} => y # 0) => Admits(r, Computed(op, x, y))

LEMMA AdmittedIs ==
  ASSUME NEW s \in ScalarSets, NEW x \in Int, Admits(s, x)
  PROVE  /\ Divides(s.divisibility, x)
         /\ s.lower # NoBound => s.lower \in Int /\ s.lower <= x
         /\ s.upper # NoBound => s.upper \in Int /\ x <= s.upper
  BY Fields DEF Admits, Bounds

LEMMA SumSound ==
  ASSUME NEW s \in ScalarSets, NEW t \in ScalarSets
  PROVE  Sound("add", s, t, Sum(s, t))
<1> DEFINE l == Lift(Plus, s.lower, t.lower)
           u == Lift(Plus, s.upper, t.upper)
<1>1. l \in Bounds /\ (l # NoBound => s.lower \in Int /\ t.lower \in Int /\ l = s.lower + t.lower)
  BY Fields, LiftedSum
<1>2. u \in Bounds /\ (u # NoBound => s.upper \in Int /\ t.upper \in Int /\ u = s.upper + t.upper)
  BY Fields, LiftedSum
<1>3. Sum(s, t) = ScalarSet(Common(s, t), l, u)
  BY DEF Sum
<1> HIDE DEF l, u
<1>4. ASSUME NEW x \in Int, NEW y \in Int, Admits(s, x), Admits(t, y)
      PROVE  Admits(Sum(s, t), Computed("add", x, y))
  <2>1. Divides(Common(s, t), x + y)
    BY <1>4, AdmittedIs, CommonDivides, SumDivides
  <2>2. l # NoBound => x + y >= l
    BY <1>1, <1>4, AdmittedIs, Fields
  <2>3. u # NoBound => x + y <= u
    BY <1>2, <1>4, AdmittedIs, Fields
  <2> QED BY <2>1, <2>2, <2>3, <1>3, AdmitsIs DEF Computed
<1> QED BY <1>1, <1>2, <1>3, <1>4, IsSet, CommonDivides DEF Sound

LEMMA DifferenceSound ==
  ASSUME NEW s \in ScalarSets, NEW t \in ScalarSets
  PROVE  Sound("sub", s, t, Difference(s, t))
<1> DEFINE l == Lift(Minus, s.lower, t.upper)
           u == Lift(Minus, s.upper, t.lower)
<1>1. l \in Bounds /\ (l # NoBound => s.lower \in Int /\ t.upper \in Int /\ l = s.lower - t.upper)
  BY Fields, LiftedSum
<1>2. u \in Bounds /\ (u # NoBound => s.upper \in Int /\ t.lower \in Int /\ u = s.upper - t.lower)
  BY Fields, LiftedSum
<1>3. Difference(s, t) = ScalarSet(Common(s, t), l, u)
  BY DEF Difference
<1> HIDE DEF l, u
<1>4. ASSUME NEW x \in Int, NEW y \in Int, Admits(s, x), Admits(t, y)
      PROVE  Admits(Difference(s, t), Computed("sub", x, y))
  <2>1. Divides(Common(s, t), x - y)
    BY <1>4, AdmittedIs, CommonDivides, SumDivides
  <2>2. l # NoBound => x - y >= l
    BY <1>1, <1>4, AdmittedIs, Fields
  <2>3. u # NoBound => x - y <= u
    BY <1>2, <1>4, AdmittedIs, Fields
  <2> QED BY <2>1, <2>2, <2>3, <1>3, AdmitsIs DEF Computed
<1> QED BY <1>1, <1>2, <1>3, <1>4, IsSet, CommonDivides DEF Sound

LEMMA MinimumSound ==
  ASSUME NEW s \in ScalarSets, NEW t \in ScalarSets
  PROVE  Sound("min", s, t, Minimum(s, t))
<1> DEFINE l == Lift(Least, s.lower, t.lower)
           u == Lift(Least, s.upper, t.upper)
<1>1. /\ l \in Bounds
      /\ l # NoBound => s.lower \in Int /\ t.lower \in Int /\ l \in Int /\ l <= s.lower /\ l <= t.lower
  BY Fields, LiftedLeast DEF Bounds
<1>2. /\ u \in Bounds
      /\ u # NoBound => s.upper \in Int /\ t.upper \in Int /\ u \in {s.upper, t.upper}
  BY Fields, LiftedLeast DEF Bounds
<1>3. Minimum(s, t) = ScalarSet(Common(s, t), l, u)
  BY DEF Minimum
<1> HIDE DEF l, u
<1>4. ASSUME NEW x \in Int, NEW y \in Int, Admits(s, x), Admits(t, y)
      PROVE  Admits(Minimum(s, t), Computed("min", x, y))
  <2>0. PICK z \in Int : z = Least(x, y) /\ z \in {x, y} /\ z <= x /\ z <= y
    BY LeastOfTwo
  <2>1. Divides(Common(s, t), z)
    BY <1>4, <2>0, AdmittedIs, CommonDivides
  <2>2. l # NoBound => z >= l
    BY <1>1, <1>4, <2>0, AdmittedIs, Fields
  <2>3. u # NoBound => z <= u
    BY <1>2, <1>4, <2>0, AdmittedIs, Fields
  <2> QED BY <2>0, <2>1, <2>2, <2>3, <1>3, AdmitsIs DEF Computed
<1> QED BY <1>1, <1>2, <1>3, <1>4, IsSet, CommonDivides DEF Sound

LEMMA MaximumSound ==
  ASSUME NEW s \in ScalarSets, NEW t \in ScalarSets
  PROVE  Sound("max", s, t, Maximum(s, t))
<1> DEFINE l == Lift(Greatest, s.lower, t.lower)
           u == Lift(Greatest, s.upper, t.upper)
<1>1. /\ l \in Bounds
      /\ l # NoBound => s.lower \in Int /\ t.lower \in Int /\ l \in {s.lower, t.lower}
  BY Fields, LiftedGreatest DEF Bounds
<1>2. /\ u \in Bounds
      /\ u # NoBound => s.upper \in Int /\ t.upper \in Int /\ u \in Int /\ u >= s.upper /\ u >= t.upper
  BY Fields, LiftedGreatest DEF Bounds
<1>3. Maximum(s, t) = ScalarSet(Common(s, t), l, u)
  BY DEF Maximum
<1> HIDE DEF l, u
<1>4. ASSUME NEW x \in Int, NEW y \in Int, Admits(s, x), Admits(t, y)
      PROVE  Admits(Maximum(s, t), Computed("max", x, y))
  <2>0. PICK z \in Int : z = Greatest(x, y) /\ z \in {x, y} /\ z >= x /\ z >= y
    BY GreatestOfTwo
  <2>1. Divides(Common(s, t), z)
    BY <1>4, <2>0, AdmittedIs, CommonDivides
  <2>2. l # NoBound => z >= l
    BY <1>1, <1>4, <2>0, AdmittedIs, Fields
  <2>3. u # NoBound => z <= u
    BY <1>2, <1>4, <2>0, AdmittedIs, Fields
  <2> QED BY <2>0, <2>1, <2>2, <2>3, <1>3, AdmitsIs DEF Computed
<1> QED BY <1>1, <1>2, <1>3, <1>4, IsSet, CommonDivides DEF Sound

\* A product lies between the products of the bounds of one factor.
LEMMA Between ==
  ASSUME NEW a \in Int, NEW x \in Int, NEW b \in Int, NEW y \in Int, a <= x, x <= b
  PROVE  \/ a * y <= x * y /\ x * y <= b * y
         \/ b * y <= x * y /\ x * y <= a * y
<1>1. CASE y >= 0
  BY <1>1, Monotone
<1>2. CASE y < 0
  <2>1. PICK n \in Nat : n = -y
    BY <1>2
  <2>2. a * n <= x * n /\ x * n <= b * n
    BY Monotone
  <2>3. a * n = -(a * y) /\ x * n = -(x * y) /\ b * n = -(b * y)
    BY <2>1
  <2>4. a * y \in Int /\ x * y \in Int /\ b * y \in Int
    OBVIOUS
  <2> QED BY <2>2, <2>3, <2>4
<1> QED BY <1>1, <1>2

LEMMA Corners ==
  ASSUME NEW a \in Int, NEW b \in Int, NEW c \in Int, NEW d \in Int,
         NEW x \in Int, NEW y \in Int, a <= x, x <= b, c <= y, y <= d
  PROVE  LET P == {a * c, a * d, b * c, b * d} IN
         Min(P) \in Int /\ Max(P) \in Int /\ Min(P) <= x * y /\ x * y <= Max(P)
<1> DEFINE P == {a * c, a * d, b * c, b * d}
<1>0. /\ a * c \in Int /\ a * d \in Int /\ b * c \in Int /\ b * d \in Int
      /\ x * y \in Int /\ a * y \in Int /\ b * y \in Int
      /\ c * a = a * c /\ d * a = a * d /\ c * b = b * c /\ d * b = b * d
      /\ y * a = a * y /\ y * b = b * y
  OBVIOUS
<1>1. PICK m \in Int, n \in Int : m = Min(P) /\ n = Max(P) /\ \A z \in P : m <= z /\ z <= n
  <2>1. PICK i \in Int, j \in Int, k \in Int, l \in Int :
          i = a * c /\ j = a * d /\ k = b * c /\ l = b * d
    BY <1>0
  <2>2. P = {i, j, k, l}
    BY <2>1
  <2> HIDE DEF P
  <2>3. Min(P) \in Int /\ Max(P) \in Int /\ \A z \in P : Min(P) <= z /\ z <= Max(P)
    BY <2>2, OfFour, Zenon
  <2> QED BY <2>3
<1>2. /\ m <= a * c /\ m <= a * d /\ m <= b * c /\ m <= b * d
      /\ a * c <= n /\ a * d <= n /\ b * c <= n /\ b * d <= n
  BY <1>1
<1>3. \/ a * y <= x * y /\ x * y <= b * y
      \/ b * y <= x * y /\ x * y <= a * y
  BY Between
<1>4. \/ c * a <= y * a /\ y * a <= d * a
      \/ d * a <= y * a /\ y * a <= c * a
  BY Between
<1>5. \/ c * b <= y * b /\ y * b <= d * b
      \/ d * b <= y * b /\ y * b <= c * b
  BY Between
<1>6. m <= a * y /\ a * y <= n
  BY <1>0, <1>2, <1>4
<1>7. m <= b * y /\ b * y <= n
  BY <1>0, <1>2, <1>5
<1>8. m <= x * y /\ x * y <= n
  BY <1>0, <1>3, <1>6, <1>7
<1> QED BY <1>1, <1>8

LEMMA ProductTyped ==
  ASSUME NEW s \in ScalarSets, NEW t \in ScalarSets
  PROVE  SetProduct(s, t) \in ScalarSets
<1>0. /\ s.lower \in Bounds /\ s.upper \in Bounds /\ t.lower \in Bounds /\ t.upper \in Bounds
      /\ NoBound \in Bounds
  BY Fields DEF Bounds
<1>1. PICK e \in Nat : e = s.divisibility * t.divisibility
  BY Fields
<1>2. CASE Bounded(s) /\ Bounded(t)
  <2>1. PICK a \in Int, b \in Int, c \in Int, d \in Int :
          a = s.lower /\ b = s.upper /\ c = t.lower /\ d = t.upper
    BY <1>0, <1>2 DEF Bounded, Bounds
  <2>2. CornerProducts(s, t) = {a * c, a * d, b * c, b * d}
    BY <2>1 DEF CornerProducts
  <2>3. a * c \in Int /\ a * d \in Int /\ b * c \in Int /\ b * d \in Int
    OBVIOUS
  <2>4. Min(CornerProducts(s, t)) \in Int /\ Max(CornerProducts(s, t)) \in Int
    BY <2>2, <2>3, OfFour
  <2>5. SetProduct(s, t) = ScalarSet(e, Min(CornerProducts(s, t)), Max(CornerProducts(s, t)))
    BY <1>1, <1>2 DEF SetProduct
  <2>6. PICK m \in Bounds, n \in Bounds :
          m = Min(CornerProducts(s, t)) /\ n = Max(CornerProducts(s, t))
    BY <2>4, Zenon DEF Bounds
  <2>7. SetProduct(s, t) = ScalarSet(e, m, n)
    BY <2>5, <2>6, Zenon
  <2> QED BY <2>7, IsSet
<1>3. CASE ~(Bounded(s) /\ Bounded(t)) /\ NonNegative(s) /\ t.lower # NoBound
  <2>1. PICK a \in Int, c \in Int : a = s.lower /\ c = t.lower
    BY <1>0, <1>3 DEF NonNegative, Bounds
  <2>2. SetProduct(s, t) = ScalarSet(e, a * c, NoBound) /\ a * c \in Bounds
    BY <1>1, <1>3, <2>1 DEF SetProduct, NonNegative, Bounds
  <2> QED BY <1>0, <2>2, IsSet
<1>4. CASE ~(Bounded(s) /\ Bounded(t)) /\ ~(NonNegative(s) /\ t.lower # NoBound)
  <2>1. SetProduct(s, t) = ScalarSet(e, NoBound, NoBound)
    BY <1>1, <1>4 DEF SetProduct, NonNegative
  <2> QED BY <1>0, <2>1, IsSet
<1> QED BY <1>2, <1>3, <1>4

LEMMA ProductSound ==
  ASSUME NEW s \in ScalarSets, NEW t \in ScalarSets, Precise("mul", s, t)
  PROVE  Sound("mul", s, t, SetProduct(s, t))
<1>1. PICK e \in Nat : e = s.divisibility * t.divisibility
  BY Fields
<1>2. ASSUME NEW x \in Int, NEW y \in Int, Admits(s, x), Admits(t, y)
      PROVE  Divides(e, x * y) /\ x * y \in Int
  <2>1. PICK g \in Nat, h \in Nat : g = s.divisibility /\ h = t.divisibility
    BY Fields
  <2>2. Divides(g, x) /\ Divides(h, y)
    BY <1>2, <2>1, AdmittedIs
  <2>3. Divides(g * h, x * y)
    BY <2>2, ProductDivides
  <2> QED BY <1>1, <2>1, <2>3
<1>3. CASE Bounded(s) /\ Bounded(t)
  <2>1. PICK a \in Int, b \in Int, c \in Int, d \in Int :
          a = s.lower /\ b = s.upper /\ c = t.lower /\ d = t.upper
    BY <1>3, Fields DEF Bounded, Bounds
  <2> DEFINE P == {a * c, a * d, b * c, b * d}
  <2>2. CornerProducts(s, t) = P
    BY <2>1 DEF CornerProducts
  <2>3. SetProduct(s, t) = ScalarSet(e, Min(P), Max(P))
    <3>1. SetProduct(s, t)
            = ScalarSet(s.divisibility * t.divisibility,
                        Min(CornerProducts(s, t)), Max(CornerProducts(s, t)))
      BY <1>3, Zenon DEF SetProduct
    <3> HIDE DEF P
    <3> QED BY <3>1, <2>2, <1>1
  <2>4. Min(P) \in Int /\ Max(P) \in Int
    <3>1. a * c \in Int /\ a * d \in Int /\ b * c \in Int /\ b * d \in Int
      OBVIOUS
    <3> QED BY <3>1, OfFour
  <2>5. ASSUME NEW x \in Int, NEW y \in Int, Admits(s, x), Admits(t, y)
        PROVE  Min(P) <= x * y /\ x * y <= Max(P)
    <3>1. a <= x /\ x <= b /\ c <= y /\ y <= d
      BY <2>1, <2>5, <1>3, AdmittedIs DEF Bounded
    <3> QED BY <3>1, Corners
  <2> HIDE DEF P
  <2>6. PICK m \in Int, n \in Int : m = Min(P) /\ n = Max(P)
    BY <2>4
  <2>7. SetProduct(s, t) = ScalarSet(e, m, n) /\ m \in Bounds /\ n \in Bounds
    BY <2>3, <2>6 DEF Bounds
  <2>8. ASSUME NEW x \in Int, NEW y \in Int, Admits(s, x), Admits(t, y)
        PROVE  Admits(SetProduct(s, t), x * y)
    <3>1. m <= x * y /\ x * y <= n /\ Divides(e, x * y)
      BY <2>5, <2>6, <2>8, <1>2
    <3> QED BY <3>1, <2>7, AdmitsIs, <1>2, <2>8
  <2> QED BY <2>7, <2>8, IsSet DEF Sound, Computed
<1>4. CASE ~(Bounded(s) /\ Bounded(t)) /\ NonNegative(s) /\ t.lower # NoBound
  <2>1. PICK a \in Nat, c \in Int : a = s.lower /\ c = t.lower
    BY <1>4, Fields DEF NonNegative, Bounds
  <2>2. SetProduct(s, t) = ScalarSet(e, a * c, NoBound) /\ a * c \in Bounds /\ NoBound \in Bounds
    BY <1>1, <1>4, <2>1 DEF SetProduct, NonNegative, Bounds
  <2>3. ASSUME NEW x \in Int, NEW y \in Int, Admits(s, x), Admits(t, y)
        PROVE  Admits(SetProduct(s, t), x * y)
    <3>1. a <= x /\ c <= y /\ x \in Nat
      BY <2>1, <2>3, <1>4, AdmittedIs DEF NonNegative
    <3>2. c * x <= y * x
      BY <3>1, Monotone
    <3>3. a * c <= x * c
      <4>1. CASE c >= 0
        BY <3>1, <4>1, Monotone
      <4>2. CASE c < 0
        <5>1. Negative(t)
          BY <1>4, <2>1, <4>2 DEF Negative
        <5>2. s.lower = s.upper
          BY <1>4, <5>1 DEF Precise, AssumesPositive
        <5>3. x = a
          BY <5>2, <2>1, <2>3, AdmittedConstant
        <5> QED BY <5>3
      <4> QED BY <4>1, <4>2
    <3>4. c * x = x * c /\ y * x = x * y /\ a * c \in Int /\ x * c \in Int /\ x * y \in Int
      BY <3>1
    <3>5. a * c <= x * y
      BY <3>2, <3>3, <3>4
    <3>6. Divides(e, x * y)
      BY <1>2, <2>3
    <3> QED BY <3>5, <3>6, <2>2, AdmitsIs
  <2> QED BY <2>2, <2>3, IsSet DEF Sound, Computed
<1>5. CASE ~(Bounded(s) /\ Bounded(t)) /\ ~(NonNegative(s) /\ t.lower # NoBound)
  <2>1. SetProduct(s, t) = ScalarSet(e, NoBound, NoBound) /\ NoBound \in Bounds
    BY <1>1, <1>5 DEF SetProduct, NonNegative, Bounds
  <2> QED BY <2>1, <1>2, AdmitsIs, IsSet DEF Sound, Computed
<1> QED BY <1>3, <1>4, <1>5

\* A quotient by a constant that divides what is known to divide.
LEMMA ExactDivisor ==
  ASSUME NEW e \in Nat, NEW c \in Nat \ {0}, Divides(c, e)
  PROVE  /\ e \div c \in Nat
         /\ \A x \in Int : Divides(e, x) => Divides(e \div c, CDiv(x, c))
<1>1. PICK k \in Int : e = k * c
  BY DividesIs
<1>2. e \div c = k
  <2>1. e = 0 + k * c /\ 0 \in 0 .. c - 1
    BY <1>1
  <2> QED BY <2>1, QuotientIs
<1>3. k >= 0
  <2> SUFFICES ASSUME k < 0 PROVE FALSE
    OBVIOUS
  <2>1. (k + 1) * c <= 0 * c
    BY Monotone
  <2>2. (k + 1) * c = k * c + c /\ 0 * c = 0 /\ k * c \in Int
    OBVIOUS
  <2> QED BY <2>1, <2>2, <1>1
<1>4. ASSUME NEW x \in Int, Divides(e, x) PROVE Divides(k, CDiv(x, c))
  <2>1. PICK m \in Int : x = m * e
    BY <1>4, DividesIs
  <2>2. x = (m * k) * c /\ m * k \in Int
    BY <1>1, <2>1
  <2>3. CDiv(x, c) = m * k
    BY <2>2, CDivExact
  <2> QED BY <2>2, <2>3, <1>3, DividesIs
<1> QED BY <1>2, <1>3, <1>4

\* A constant is in its set.
LEMMA SingletonIs ==
  ASSUME NEW c \in Int
  PROVE  Singleton(c) \in ScalarSets /\ Admits(Singleton(c), c)
<1>1. PICK d \in Nat : d = IF c < 0 THEN -c ELSE c
  OBVIOUS
<1>2. Singleton(c) = ScalarSet(d, c, c) /\ c \in Bounds
  BY <1>1 DEF Singleton, Bounds
<1>3. Divides(d, c)
  <2>1. c = 1 * d \/ c = (-1) * d
    BY <1>1
  <2> QED BY <2>1, DividesIs
<1> QED BY <1>2, <1>3, IsSet, AdmitsIs

\* The divisor kept for a quotient, when the constant and the known divisor divide
\* each other one way.
LEMMA DivisorKept ==
  ASSUME NEW e \in Nat, NEW n \in Nat \ {0}, Divides(n, e) \/ Divides(e, n)
  PROVE  /\ Gcd({e, n}) \in Nat \ {0} /\ Max({1, Gcd({e, n})}) = Gcd({e, n})
         /\ e \div Gcd({e, n}) \in Nat
         /\ \A x \in Int : Divides(e, x) => Divides(e \div Gcd({e, n}), CDiv(x, n))
         /\ ~Divides(n, e) => e \div Gcd({e, n}) = 1
         /\ Divides(n, e) => Gcd({e, n}) = n
<1>1. PICK g \in Nat \ {0} : g = Gcd({e, n})
  BY GcdDivides
<1>2. Max({1, g}) = g
  <2>1. g \in Int /\ g >= 1
    BY <1>1
  <2>2. Max({1, g}) \in {1, g} /\ Max({1, g}) >= g
    BY <2>1, GreatestOfTwo DEF Greatest
  <2> QED BY <2>1, <2>2
<1>3. CASE Divides(n, e)
  <2>1. g = n
    BY <1>1, <1>3, GcdOfMultiple
  <2> QED BY <1>1, <1>2, <1>3, <2>1, ExactDivisor
<1>4. CASE ~Divides(n, e)
  <2>1. Divides(e, n) /\ e # 0
    BY <1>4 DEF Divides
  <2>2. g = e
    BY <1>1, <2>1, GcdOfMultiple
  <2>3. e \div e = 1
    <3>1. e = 0 + 1 * e /\ 0 \in 0 .. e - 1
      BY <2>1
    <3> QED BY <2>1, <3>1, QuotientIs
  <2>4. ASSUME NEW x \in Int PROVE Divides(1, CDiv(x, n))
    <3>1. PICK q \in Int : q = CDiv(x, n)
      BY CDivIs
    <3>2. q = q * 1
      OBVIOUS
    <3> QED BY <3>1, <3>2, DividesIs
  <2>5. e \div Gcd({e, n}) = 1 /\ Gcd({e, n}) \in Nat \ {0} /\ Max({1, Gcd({e, n})}) = Gcd({e, n})
    BY <1>1, <1>2, <2>2, <2>3
  <2> QED BY <1>4, <2>4, <2>5
<1> QED BY <1>3, <1>4

\* A constant divisor, its size, and what the code's cases say of it.
LEMMA ConstantDivisor ==
  ASSUME NEW op \in {"div", "mod"}, NEW s \in ScalarSets, NEW t \in ScalarSets,
         Precise(op, s, t), IsConstant(t), t.lower # 0
  PROVE  /\ t.lower \in Int /\ t.upper = t.lower
         /\ \E n \in Nat \ {0} :
              /\ n = IF t.lower < 0 THEN -t.lower ELSE t.lower
              /\ Common(s, Singleton(t.lower)) = Gcd({s.divisibility, n})
              /\ Divides(n, s.divisibility) \/ Divides(s.divisibility, n)
              /\ Divides(t.lower, s.divisibility) <=> Divides(n, s.divisibility)
<1>1. PICK c \in Int, e \in Nat : c = t.lower /\ c = t.upper /\ e = s.divisibility
  BY Fields DEF IsConstant, Bounded, Bounds
<1>2. PICK n \in Nat \ {0} : n = IF c < 0 THEN -c ELSE c
  BY <1>1
<1>3. Common(s, Singleton(c)) = Gcd({e, n})
  BY <1>1, <1>2 DEF Common, Singleton, ScalarSet
<1>4. Divides(c, e) <=> Divides(n, e)
  BY <1>1, <1>2 DEF Divides
<1>5. Divides(c, e) \/ Divides(e, c)
  BY <1>1 DEF Precise, Inexact
<1>6. Divides(e, c) => Divides(e, n)
  <2> SUFFICES ASSUME Divides(e, c) PROVE Divides(e, n)
    OBVIOUS
  <2>1. PICK k \in Int : c = k * e
    BY <1>1, DividesIs
  <2>2. n = k * e \/ n = (-k) * e
    BY <1>1, <1>2, <2>1
  <2>3. e \in Nat /\ n \in Int /\ -k \in Int
    BY <1>1, <1>2
  <2> QED BY <2>2, <2>3, DividesIs
<1> QED BY <1>1, <1>2, <1>3, <1>4, <1>5, <1>6

LEMMA QuotientByConstant ==
  ASSUME NEW s \in ScalarSets, NEW t \in ScalarSets, Precise("div", s, t), IsConstant(t),
         ~IsEmpty(s), ~Raises("div", s, t)
  PROVE  Sound("div", s, t, Quotient(s, t))
<1>1. PICK c \in Int, e \in Nat : c = t.lower /\ c = t.upper /\ e = s.divisibility
  BY Fields DEF IsConstant, Bounded, Bounds
<1> DEFINE g == Max({1, Common(s, Singleton(c))})
           l == Lift(CDiv, s.lower, c)
           u == Lift(CDiv, s.upper, c)
<1>2. Quotient(s, t) = ScalarSet(e \div g, l, u)
  BY <1>1 DEF Quotient
<1>3. ASSUME NEW y \in Int, Admits(t, y) PROVE y = c
  BY <1>1, <1>3, AdmittedConstant
<1>4. c # NoBound /\ s.lower \in Bounds /\ s.upper \in Bounds
  BY Fields
<1>5. CASE c = 0
  <2>1. s.lower = NoBound /\ s.upper = NoBound
    BY <1>1, <1>5 DEF Raises
  <2>2. l = NoBound /\ u = NoBound
    BY <2>1 DEF Lift
  <2>3. PICK k \in Nat : k = Common(s, Singleton(c))
    BY SingletonIs, CommonDivides
  <2>4. PICK m \in Nat \ {0} : m = g
    <3>1. Max({1, k}) \in {1, k} /\ Max({1, k}) >= 1
      BY GreatestOfTwo DEF Greatest
    <3> QED BY <3>1, <2>3
  <2> HIDE DEF g, l, u
  <2>5. e \div g \in Nat
    BY <2>4, QuotientNat
  <2>6. NoBound \in Bounds
    BY DEF Bounds
  <2> QED BY <1>2, <1>3, <1>5, <2>2, <2>5, <2>6, IsSet DEF Sound
<1>6. CASE c # 0
  <2>1. PICK n \in Nat \ {0} :
          /\ n = IF c < 0 THEN -c ELSE c
          /\ Common(s, Singleton(c)) = Gcd({e, n})
          /\ Divides(n, e) \/ Divides(e, n)
    BY <1>1, <1>6, ConstantDivisor
  <2>2. /\ e \div g \in Nat
        /\ \A x \in Int : Divides(e, x) => Divides(e \div g, CDiv(x, n))
    BY <2>1, DivisorKept
  <2> HIDE DEF g
  <2>3. ASSUME NEW x \in Int, Divides(e, x) PROVE Divides(e \div g, CDiv(x, c))
    <3>1. PICK d \in Nat, q \in Int : d = e \div g /\ q = CDiv(x, n) /\ Divides(d, q)
      BY <2>2, <2>3, CDivIs
    <3>2. Divides(d, -q)
      <4>1. PICK k \in Int : q = k * d
        BY <3>1, DividesIs
      <4>2. -q = (-k) * d /\ -k \in Int /\ -q \in Int /\ d \in Nat
        BY <3>1, <4>1
      <4> QED BY <4>2, DividesIs
    <3>3. CDiv(x, c) \in {q, -q}
      BY <2>1, <3>1, CDivNegative
    <3> QED BY <3>1, <3>2, <3>3
  <2>4. ASSUME NEW x \in Int, Admits(s, x)
        PROVE  /\ l # NoBound => l <= CDiv(x, c)
               /\ u # NoBound => CDiv(x, c) <= u
    <3>1. CASE c > 0
      <4>1. l # NoBound => s.lower \in Int /\ l = CDiv(s.lower, c)
        BY <1>4 DEF Bounds, Lift
      <4>2. u # NoBound => s.upper \in Int /\ u = CDiv(s.upper, c)
        BY <1>4 DEF Bounds, Lift
      <4> HIDE DEF l, u
      <4>3. c \in Nat \ {0} /\ (s.lower # NoBound => s.lower <= x) /\ (s.upper # NoBound => x <= s.upper)
        BY <3>1, <2>4, AdmittedIs
      <4> QED BY <4>1, <4>2, <4>3, <1>4, CDivOrder, ScalarAssumption
    <3>2. CASE c < 0
      <4>1. s.lower = s.upper
        BY <1>1, <3>2 DEF Precise, AssumesPositive
      <4>2. CASE s.lower = NoBound
        BY <4>1, <4>2 DEF Lift
      <4>3. CASE s.lower \in Int
        <5>1. x = s.lower
          BY <4>1, <4>3, <2>4, AdmittedConstant
        <5>2. l = CDiv(x, c) /\ u = CDiv(x, c)
          BY <5>1, <4>1, <1>4, ScalarAssumption DEF Lift
        <5> HIDE DEF l, u
        <5>3. CDiv(x, c) \in Int
          BY <1>6, CDivInt
        <5> QED BY <5>2, <5>3
      <4>4. s.lower = NoBound \/ s.lower \in Int
        BY <1>4 DEF Bounds
      <4> QED BY <4>2, <4>3, <4>4
    <3>3. c > 0 \/ c < 0
      BY <1>1, <1>6
    <3> QED BY <3>1, <3>2, <3>3
  <2>5. l \in Bounds /\ u \in Bounds
    <3>1. ASSUME NEW k \in Bounds PROVE Lift(CDiv, k, c) \in Bounds
      BY <1>4, <1>6, CDivInt DEF Lift, Bounds
    <3> QED BY <3>1, <1>4
  <2> HIDE DEF l, u
  <2>6. ASSUME NEW x \in Int, NEW y \in Int, Admits(s, x), Admits(t, y)
        PROVE  Admits(Quotient(s, t), Computed("div", x, y))
    <3>1. Computed("div", x, y) = CDiv(x, c)
      BY <1>3, <2>6 DEF Computed
    <3>2. Divides(e \div g, CDiv(x, c))
      BY <1>1, <2>3, <2>6, AdmittedIs
    <3> QED BY <3>1, <3>2, <2>4, <2>6, <1>2, AdmitsIs
  <2> QED BY <1>2, <2>2, <2>5, <2>6, IsSet DEF Sound
<1> QED BY <1>5, <1>6

LEMMA QuotientByRange ==
  ASSUME NEW s \in ScalarSets, NEW t \in ScalarSets, Precise("div", s, t), ~IsConstant(t)
  PROVE  Sound("div", s, t, Quotient(s, t))
<1> DEFINE l == IF t.upper # NoBound /\ t.upper > 0 THEN Lift(CDiv, s.lower, t.upper) ELSE NoBound
           u == IF t.lower # NoBound /\ t.lower > 0 THEN Lift(CDiv, s.upper, t.lower) ELSE NoBound
<1>1. Quotient(s, t) = ScalarSet(1, l, u)
  BY Zenon DEF Quotient
<1>2. /\ s.lower # NoBound /\ t.upper # NoBound /\ t.upper > 0 => NonNegative(s) /\ NonNegative(t)
      /\ s.upper # NoBound /\ s.upper < 0 => ~Positive(t)
  BY DEF Precise, AssumesPositive
<1>3. /\ l \in Bounds
      /\ l # NoBound => /\ s.lower \in Nat /\ t.lower \in Nat /\ t.upper \in Nat \ {0}
                        /\ l = CDiv(s.lower, t.upper)
  <2>1. CASE s.lower # NoBound /\ t.upper # NoBound /\ t.upper > 0
    <3>1. s.lower \in Nat /\ t.lower \in Nat /\ t.upper \in Nat \ {0}
      BY <2>1, <1>2, Fields DEF Bounds, NonNegative
    <3>2. l = Lift(CDiv, s.lower, t.upper)
      BY <2>1
    <3> HIDE DEF l
    <3>3. s.lower \in Bounds
      BY Fields
    <3> QED BY <3>1, <3>2, <3>3, LiftedCDiv
  <2>2. CASE ~(s.lower # NoBound /\ t.upper # NoBound /\ t.upper > 0)
    BY <2>2 DEF Bounds, Lift
  <2> QED BY <2>1, <2>2
<1>4. /\ u \in Bounds
      /\ u # NoBound => s.upper \in Nat /\ t.lower \in Nat \ {0} /\ u = CDiv(s.upper, t.lower)
  <2>1. CASE s.upper # NoBound /\ t.lower # NoBound /\ t.lower > 0
    <3>1. s.upper \in Nat /\ t.lower \in Nat \ {0}
      BY <2>1, <1>2, Fields DEF Bounds, Positive
    <3>2. u = Lift(CDiv, s.upper, t.lower)
      BY <2>1
    <3> HIDE DEF u
    <3>3. s.upper \in Bounds
      BY Fields
    <3> QED BY <3>1, <3>2, <3>3, LiftedCDiv
  <2>2. CASE ~(s.upper # NoBound /\ t.lower # NoBound /\ t.lower > 0)
    BY <2>2 DEF Bounds, Lift
  <2> QED BY <2>1, <2>2
<1> HIDE DEF l, u
<1>5. ASSUME NEW x \in Int, NEW y \in Int, Admits(s, x), Admits(t, y), y # 0
      PROVE  Admits(Quotient(s, t), Computed("div", x, y))
  <2>1. Computed("div", x, y) = CDiv(x, y) /\ CDiv(x, y) \in Int
    BY <1>5, CDivInt DEF Computed
  <2>2. ASSUME l # NoBound PROVE l <= CDiv(x, y)
    <3>1. PICK a \in Nat, n \in Nat \ {0} : a = s.lower /\ n = t.upper /\ l = CDiv(a, n)
      BY <1>3, <2>2
    <3>2. a <= x /\ x \in Nat /\ y \in Nat \ {0} /\ y <= n
      BY <1>3, <1>5, <2>2, <3>1, AdmittedIs, Fields
    <3>3. a \div n <= x \div n
      <4>1. a \in Int /\ x \in Int /\ a <= x
        BY <3>1, <3>2
      <4> QED BY <4>1, QuotientOrder
    <3>4. x \div n <= x \div y
      BY <3>1, <3>2, QuotientBelow
    <3>5. CDiv(a, n) = a \div n /\ a \div n \in Int
      BY CDivNat
    <3>6. x \div n \in Int /\ x \div y \in Int /\ CDiv(x, y) = x \div y
      BY <3>2, CDivNat
    <3> QED BY <3>1, <3>3, <3>4, <3>5, <3>6
  <2>3. ASSUME u # NoBound PROVE CDiv(x, y) <= u
    <3>1. PICK b \in Nat, c \in Nat \ {0} : b = s.upper /\ c = t.lower /\ u = CDiv(b, c)
      BY <1>4, <2>3
    <3>2. x <= b /\ y \in Nat \ {0} /\ c <= y
      BY <1>5, <3>1, AdmittedIs, Fields
    <3>3. CASE x >= 0
      <4>1. x \in Nat
        BY <3>3
      <4>2. x \div y <= x \div c
        BY <3>2, <4>1, QuotientBelow
      <4>3. x \div c <= b \div c
        <5>1. b \in Int /\ x <= b
          BY <3>1, <3>2
        <5> QED BY <5>1, QuotientOrder
      <4>4. CDiv(b, c) = b \div c /\ b \div c \in Int
        BY CDivNat
      <4>5. x \div c \in Int /\ x \div y \in Int /\ CDiv(x, y) = x \div y
        BY <3>2, <4>1, CDivNat
      <4> QED BY <3>1, <4>2, <4>3, <4>4, <4>5
    <3>4. CASE x < 0
      <4>1. CDiv(0, y) = 0 /\ CDiv(0, c) = 0
        <5>1. 0 * y = 0 /\ 0 * c = 0
          BY <3>2
        <5> QED BY <5>1, <3>2, CDivExact
      <4>2. CDiv(x, y) <= CDiv(0, y)
        BY <3>2, <3>4, CDivOrder
      <4>3. CDiv(0, c) <= CDiv(b, c) /\ CDiv(b, c) \in Int
        <5>1. b \in Int /\ 0 \in Int /\ 0 <= b
          BY <3>1
        <5> QED BY <5>1, CDivOrder, CDivIs
      <4> QED BY <2>1, <3>1, <4>1, <4>2, <4>3
    <3> QED BY <3>3, <3>4
  <2>4. Divides(1, CDiv(x, y))
    BY <2>1, DividesIs
  <2> QED BY <2>1, <2>2, <2>3, <2>4, <1>1, AdmitsIs
<1> QED BY <1>1, <1>3, <1>4, <1>5, IsSet DEF Sound

\* A remainder by a constant that is not zero.
LEMMA RemainderByConstant ==
  ASSUME NEW s \in ScalarSets, NEW t \in ScalarSets, Precise("mod", s, t), IsConstant(t), t.lower # 0
  PROVE  Sound("mod", s, t, Remainder(s, t))
<1>1. PICK c \in Nat \ {0}, e \in Nat :
        /\ c = t.lower /\ c = t.upper /\ e = s.divisibility
        /\ NonNegative(s) \/ Divides(c, e)
        /\ Common(s, Singleton(c)) = Gcd({e, c})
        /\ Divides(c, e) \/ Divides(e, c)
  <2>1. t.lower \in Int /\ ~(t.lower < 0) /\ (NonNegative(s) \/ Divides(t.lower, s.divisibility))
    BY ConstantDivisor DEF Precise, AssumesPositive
  <2> QED BY <2>1, ConstantDivisor, Fields
<1> DEFINE d == e \div Common(s, Singleton(c))
<1>2. d \in Nat
  BY <1>1, DivisorKept
<1>3. ASSUME NEW x \in Int, Divides(e, x) PROVE Divides(d, CMod(x, c))
  <2>1. PICK r \in Int : r = CMod(x, c)
    BY CDivInt
  <2>2. CASE Divides(c, e)
    <3>1. r = 0
      BY <1>3, <2>1, <2>2, CModExact
    <3> HIDE DEF d
    <3>2. Divides(d, 0)
      BY <1>2, DividesIs
    <3> QED BY <2>1, <3>1, <3>2
  <2>3. CASE ~Divides(c, e)
    <3>1. d = 1
      <4>1. e \div Gcd({e, c}) = 1
        BY <1>1, <2>3, DivisorKept
      <4> QED BY <1>1, <4>1
    <3> HIDE DEF d
    <3>2. Divides(1, r)
      BY DividesIs
    <3> QED BY <2>1, <3>1, <3>2
  <2> QED BY <2>2, <2>3
<1>4. ASSUME NEW y \in Int, Admits(t, y) PROVE y = c
  <2>1. c \in Int /\ t.lower = c /\ t.upper = c
    BY <1>1
  <2> HIDE DEF d
  <2> QED BY <2>1, <1>4, AdmittedConstant
<1>5. CASE Bounded(s) /\ s.lower >= 0 /\ s.upper < c
  <2>1. Remainder(s, t) = ScalarSet(d, s.lower, s.upper)
    BY <1>5, <1>1 DEF Remainder
  <2> HIDE DEF d
  <2>2. ASSUME NEW x \in Int, NEW y \in Int, Admits(s, x), Admits(t, y)
        PROVE  Admits(Remainder(s, t), Computed("mod", x, y))
    <3>1. x \in Nat /\ x < c
      BY <1>5, <2>2, AdmittedIs DEF Bounded
    <3>2. CMod(x, c) = x /\ Computed("mod", x, y) = x
      BY <1>4, <2>2, <3>1, CModIs DEF Computed
    <3>3. Divides(d, x)
      <4>1. Divides(e, x)
        BY <1>1, <2>2, AdmittedIs
      <4> QED BY <1>3, <3>2, <4>1
    <3>4. (s.lower # NoBound => x >= s.lower) /\ (s.upper # NoBound => x <= s.upper)
      BY <2>2 DEF Admits
    <3>5. Admits(ScalarSet(d, s.lower, s.upper), x)
      BY <3>3, <3>4, AdmitsIs, Zenon
    <3> QED BY <2>1, <3>2, <3>5
  <2>3. Remainder(s, t) \in ScalarSets
    BY <2>1, <1>2, Fields, IsSet
  <2> QED BY <2>2, <2>3 DEF Sound
<1>6. CASE ~(Bounded(s) /\ s.lower >= 0 /\ s.upper < c)
  <2>1. Remainder(s, t) = ScalarSet(d, 0, c - 1) /\ 0 \in Bounds /\ c - 1 \in Bounds
    BY <1>6, <1>1 DEF Remainder, Bounds
  <2> HIDE DEF d
  <2>2. ASSUME NEW x \in Int, NEW y \in Int, Admits(s, x), Admits(t, y)
        PROVE  Admits(Remainder(s, t), Computed("mod", x, y))
    <3>1. Divides(e, x) /\ Computed("mod", x, y) = CMod(x, c)
      BY <1>1, <1>4, <2>2, AdmittedIs DEF Computed
    <3>2. CMod(x, c) \in 0 .. c - 1
      <4>1. CASE NonNegative(s)
        <5>1. x \in Nat
          BY <4>1, <2>2, AdmittedIs DEF NonNegative
        <5> QED BY <5>1, CModIs
      <4>2. CASE Divides(c, e)
        BY <4>2, <3>1, CModExact
      <4> QED BY <4>1, <4>2, <1>1
    <3>3. Divides(d, CMod(x, c))
      BY <1>3, <3>1
    <3> QED BY <2>1, <3>1, <3>2, <3>3, AdmitsIs
  <2>3. Remainder(s, t) \in ScalarSets
    BY <2>1, <1>2, IsSet
  <2> QED BY <2>2, <2>3 DEF Sound
<1> QED BY <1>5, <1>6

LEMMA RemainderSound ==
  ASSUME NEW s \in ScalarSets, NEW t \in ScalarSets, Precise("mod", s, t),
         ~IsEmpty(s), ~Raises("mod", s, t)
  PROVE  Sound("mod", s, t, Remainder(s, t))
<1>1. CASE IsConstant(t) /\ t.lower = 0
  <2>1. PICK e \in Nat : e = s.divisibility /\ e # 0
    BY <1>1, Fields DEF Raises, IsConstant
  <2>2. Common(s, Singleton(0)) = Gcd({0, e})
    BY <2>1, {e, 0} = {0, e} DEF Common, Singleton, ScalarSet
  <2>3. PICK g \in Nat \ {0} : g = Common(s, Singleton(0))
    BY <2>1, <2>2, GcdDivides
  <2>4. PICK d \in Nat : d = e \div g
    BY QuotientNat
  <2>5. Remainder(s, t) \in {ScalarSet(d, s.lower, s.upper), ScalarSet(d, 0, 0 - 1)}
    BY <1>1, <2>1, <2>3, <2>4 DEF Remainder
  <2>6. Remainder(s, t) \in ScalarSets
    <3>1. 0 \in Bounds /\ 0 - 1 \in Bounds
      BY DEF Bounds
    <3> QED BY <2>5, <3>1, IsSet, Fields
  <2>7. ASSUME NEW y \in Int, Admits(t, y) PROVE y = 0
    <3>1. 0 \in Int /\ t.lower = 0 /\ t.upper = 0
      BY <1>1 DEF IsConstant
    <3> QED BY <3>1, <2>7, AdmittedConstant
  <2> QED BY <2>6, <2>7 DEF Sound
<1>2. CASE ~IsConstant(t)
  <2> DEFINE u == IF t.upper = NoBound THEN NoBound ELSE t.upper - 1
  <2>1. Remainder(s, t) = ScalarSet(1, 0, u)
    BY <1>2 DEF Remainder
  <2>2. 0 \in Bounds /\ u \in Bounds
    BY Fields DEF Bounds
  <2>3. NonNegative(s) /\ (t.upper = NoBound \/ NonNegative(t))
    BY <1>2 DEF Precise, AssumesPositive
  <2>4. ASSUME NEW x \in Int, NEW y \in Int, Admits(s, x), Admits(t, y), y # 0
        PROVE  Admits(Remainder(s, t), Computed("mod", x, y))
    <3>1. x \in Nat
      BY <2>3, <2>4, AdmittedIs DEF NonNegative
    <3>2. PICK r \in Nat : r = CMod(x, y) /\ (y > 0 => r <= y - 1)
      BY <2>4, <3>1, CModBelow
    <3>3. u # NoBound => r <= u
      <4>1. ASSUME t.upper # NoBound PROVE y > 0 /\ y <= t.upper /\ t.upper \in Int
        BY <4>1, <2>3, <2>4, AdmittedIs DEF NonNegative
      <4> QED BY <4>1, <3>2
    <3>4. Divides(1, r) /\ Computed("mod", x, y) = r
      BY <3>2, DividesIs DEF Computed
    <3> QED BY <3>2, <3>3, <3>4, <2>1, AdmitsIs
  <2> HIDE DEF u
  <2> QED BY <2>1, <2>2, <2>4, IsSet DEF Sound
<1>3. CASE IsConstant(t) /\ t.lower # 0
  BY <1>3, RemainderByConstant
<1> QED BY <1>1, <1>2, <1>3

LEMMA EmptyIs == EmptySet \in ScalarSets /\ IsEmpty(EmptySet)
<1>1. EmptySet = [divisibility |-> 1, lower |-> 0, upper |-> -1]
  BY DEF EmptySet, ScalarSet
<1>2. 0 # NoBound /\ -1 # NoBound
  BY ScalarAssumption
<1> QED BY <1>1, <1>2 DEF IsEmpty, Bounded, ScalarSets

\* The set of an operation is a set, and admits what the operation computes.
LEMMA ApplySound ==
  ASSUME NEW op \in ScalarOps, NEW s \in ScalarSets, NEW t \in ScalarSets,
         ~IsEmpty(s) /\ ~IsEmpty(t) => Precise(op, s, t), ~Raises(op, s, t)
  PROVE  Sound(op, s, t, Apply(op, s, t))
<1>1. CASE IsEmpty(s) \/ IsEmpty(t)
  <2>1. Apply(op, s, t) = EmptySet
    BY <1>1 DEF Apply
  <2>2. \A x \in Int, y \in Int : ~(Admits(s, x) /\ Admits(t, y))
    BY <1>1, NonEmpty
  <2> QED BY <2>1, <2>2, EmptyIs, Zenon DEF Sound
<1>2. CASE ~(IsEmpty(s) \/ IsEmpty(t))
  <2>1. CASE op = "add"
    BY <2>1, <1>2, SumSound DEF Apply
  <2>2. CASE op = "sub"
    BY <2>2, <1>2, DifferenceSound DEF Apply
  <2>3. CASE op = "mul"
    BY <2>3, <1>2, ProductSound DEF Apply
  <2>4. CASE op = "div"
    BY <2>4, <1>2, QuotientByConstant, QuotientByRange DEF Apply
  <2>5. CASE op = "mod"
    BY <2>5, <1>2, RemainderSound DEF Apply
  <2>6. CASE op = "min"
    BY <2>6, <1>2, MinimumSound DEF Apply
  <2>7. CASE op = "max"
    BY <2>7, <1>2, MaximumSound DEF Apply
  <2> QED BY <2>1, <2>2, <2>3, <2>4, <2>5, <2>6, <2>7 DEF ScalarOps
<1> QED BY <1>1, <1>2

\* The set of an operation is a set, whatever its operands.
LEMMA QuotientTyped ==
  ASSUME NEW s \in ScalarSets, NEW t \in ScalarSets, ~IsEmpty(s), ~Raises("div", s, t)
  PROVE  Quotient(s, t) \in ScalarSets
<1>0. /\ s.lower \in Bounds /\ s.upper \in Bounds /\ t.lower \in Bounds /\ t.upper \in Bounds
      /\ s.divisibility \in Nat /\ NoBound \in Bounds
  BY Fields DEF Bounds
<1>1. ASSUME NEW a \in Bounds, NEW c \in Int, c # 0 \/ a = NoBound PROVE Lift(CDiv, a, c) \in Bounds
  BY <1>1, CDivInt DEF Lift, Bounds
<1>2. CASE IsConstant(t)
  <2>1. PICK c \in Int : c = t.lower /\ c = t.upper
    BY <1>0, <1>2 DEF IsConstant, Bounded, Bounds
  <2>2. PICK k \in Nat : k = Common(s, Singleton(c))
    BY SingletonIs, CommonDivides
  <2>3. PICK m \in Nat \ {0} : m = Max({1, k})
    <3>1. Max({1, k}) \in {1, k} /\ Max({1, k}) >= 1
      BY GreatestOfTwo DEF Greatest
    <3> QED BY <3>1
  <2>4. PICK d \in Nat : d = s.divisibility \div m
    BY <1>0, QuotientNat
  <2>5. PICK l \in Bounds, u \in Bounds : l = Lift(CDiv, s.lower, c) /\ u = Lift(CDiv, s.upper, c)
    <3>1. c # 0 \/ (s.lower = NoBound /\ s.upper = NoBound)
      BY <2>1 DEF Raises
    <3>2. Lift(CDiv, s.lower, c) \in Bounds /\ Lift(CDiv, s.upper, c) \in Bounds
      BY <1>0, <1>1, <3>1
    <3> QED BY <3>2
  <2>6. Quotient(s, t) = ScalarSet(d, l, u)
    BY <1>2, <2>1, <2>2, <2>3, <2>4, <2>5 DEF Quotient
  <2> QED BY <2>6, IsSet
<1>3. CASE ~IsConstant(t)
  <2> DEFINE l == IF t.upper # NoBound /\ t.upper > 0 THEN Lift(CDiv, s.lower, t.upper) ELSE NoBound
             u == IF t.lower # NoBound /\ t.lower > 0 THEN Lift(CDiv, s.upper, t.lower) ELSE NoBound
  <2>1. l \in Bounds
    <3>1. CASE t.upper # NoBound /\ t.upper > 0
      <4>1. t.upper \in Int /\ t.upper # 0 /\ l = Lift(CDiv, s.lower, t.upper)
        BY <1>0, <3>1 DEF Bounds
      <4> HIDE DEF l
      <4> QED BY <1>0, <1>1, <4>1
    <3> QED BY <1>0, <3>1
  <2>2. u \in Bounds
    <3>1. CASE t.lower # NoBound /\ t.lower > 0
      <4>1. t.lower \in Int /\ t.lower # 0 /\ u = Lift(CDiv, s.upper, t.lower)
        BY <1>0, <3>1 DEF Bounds
      <4> HIDE DEF u
      <4> QED BY <1>0, <1>1, <4>1
    <3> QED BY <1>0, <3>1
  <2>3. Quotient(s, t) = ScalarSet(1, l, u)
    BY <1>3, Zenon DEF Quotient
  <2> HIDE DEF l, u
  <2> QED BY <2>1, <2>2, <2>3, IsSet
<1> QED BY <1>2, <1>3

LEMMA RemainderTyped ==
  ASSUME NEW s \in ScalarSets, NEW t \in ScalarSets, ~IsEmpty(s), ~Raises("mod", s, t)
  PROVE  Remainder(s, t) \in ScalarSets
<1>0. /\ s.lower \in Bounds /\ s.upper \in Bounds /\ t.lower \in Bounds /\ t.upper \in Bounds
      /\ 0 \in Bounds
  BY Fields DEF Bounds
<1>1. CASE IsConstant(t)
  <2>1. PICK c \in Int, e \in Nat : c = t.lower /\ c = t.upper /\ e = s.divisibility
    BY <1>0, <1>1, Fields DEF IsConstant, Bounded, Bounds
  <2>2. PICK n \in Nat : n = IF c < 0 THEN -c ELSE c
    OBVIOUS
  <2>3. Common(s, Singleton(c)) = Gcd({e, n})
    BY <2>1, <2>2 DEF Common, Singleton, ScalarSet
  <2>4. n # 0 \/ e # 0
    BY <2>1, <2>2 DEF Raises
  <2>5. {e, n} = {n, e}
    OBVIOUS
  <2>6. PICK g \in Nat \ {0} : g = Gcd({e, n})
    BY <2>4, <2>5, GcdDivides
  <2>7. PICK d \in Nat : d = e \div g
    BY QuotientNat
  <2>8. Remainder(s, t) \in {ScalarSet(d, s.lower, s.upper), ScalarSet(d, 0, c - 1)}
    BY <1>1, <2>1, <2>3, <2>6, <2>7 DEF Remainder
  <2>9. c - 1 \in Bounds
    BY DEF Bounds
  <2> QED BY <1>0, <2>8, <2>9, IsSet
<1>2. CASE ~IsConstant(t)
  <2> DEFINE u == IF t.upper = NoBound THEN NoBound ELSE t.upper - 1
  <2>1. u \in Bounds
    BY <1>0 DEF Bounds
  <2>2. Remainder(s, t) = ScalarSet(1, 0, u)
    BY <1>2 DEF Remainder
  <2> HIDE DEF u
  <2> QED BY <1>0, <2>1, <2>2, IsSet
<1> QED BY <1>1, <1>2

LEMMA ApplyTyped ==
  ASSUME NEW op \in ScalarOps, NEW s \in ScalarSets, NEW t \in ScalarSets, ~Raises(op, s, t)
  PROVE  Apply(op, s, t) \in ScalarSets
<1>1. CASE IsEmpty(s) \/ IsEmpty(t)
  BY <1>1, EmptyIs DEF Apply
<1>2. CASE ~(IsEmpty(s) \/ IsEmpty(t))
  <2>1. CASE op = "add"
    BY <2>1, <1>2, SumSound DEF Apply, Sound
  <2>2. CASE op = "sub"
    BY <2>2, <1>2, DifferenceSound DEF Apply, Sound
  <2>3. CASE op = "mul"
    BY <2>3, <1>2, ProductTyped DEF Apply
  <2>4. CASE op = "div"
    BY <2>4, <1>2, QuotientTyped DEF Apply
  <2>5. CASE op = "mod"
    BY <2>5, <1>2, RemainderTyped DEF Apply
  <2>6. CASE op = "min"
    BY <2>6, <1>2, MinimumSound DEF Apply, Sound
  <2>7. CASE op = "max"
    BY <2>7, <1>2, MaximumSound DEF Apply, Sound
  <2> QED BY <2>1, <2>2, <2>3, <2>4, <2>5, <2>6, <2>7 DEF ScalarOps
<1> QED BY <1>1, <1>2

-----------------------------------------------------------------------------
(* The fixpoint of a function. *)

Types ==
  /\ func \in Functions
  /\ var2set \in [Variables -> ScalarSets]
  /\ at \in Int /\ at <= Len(func) + 1
  /\ updated \in BOOLEAN
  /\ env \in [Variables -> Bounds]

\* The sets of the parameters only grow.
ParametersKept ==
  \A p \in DOMAIN Parameters, x \in Int : Admits(Parameters[p], x) => Admits(var2set[p], x)

\* Statement j adds nothing to its variable's set.
Settled(j) ==
  /\ ~DividesByZero(func[j])
  /\ SameSet(Union(var2set[func[j].var], RightHandSet(func[j])), var2set[func[j].var])

\* A pass that has changed nothing so far has seen settled statements only; an
\* accepted function has no others and none of its variables is empty.
FixpointKept ==
  /\ at > 0 /\ ~updated => \A j \in DOMAIN func : j < at => Settled(j)
  /\ at = 0 => /\ \A j \in DOMAIN func : Settled(j)
               /\ \A v \in Variables : ~IsEmpty(var2set[v])
  /\ at # 0 => \A v \in Variables : env[v] = NoBound

ScalarInvariant == Types /\ ParametersKept /\ FixpointKept /\ ValuesInSets

LEMMA Statement ==
  ASSUME Types, NEW i \in DOMAIN func
  PROVE  /\ i \in Nat \ {0} /\ i <= Len(func) /\ Len(func) \in Nat /\ DOMAIN func = 1 .. Len(func)
         /\ func[i].var \in Variables /\ func[i].kind \in {"assign", "for"} /\ func[i].op \in ScalarOps
         /\ IsOperand(func, func[i].a) /\ IsOperand(func, func[i].b)
<1>1. /\ Len(func) \in Nat /\ DOMAIN func = 1 .. Len(func)
      /\ func[i].kind \in {"assign", "for"} /\ func[i].op \in ScalarOps
      /\ IsOperand(func, func[i].a) /\ IsOperand(func, func[i].b)
  BY ScalarAssumption, Zenon DEF Types
<1>2. func[i].var \in Variables
  BY Zenon DEF Variables, Targets
<1> QED BY <1>1, <1>2

LEMMA OperandSet ==
  ASSUME Types, NEW o, IsOperand(func, o)
  PROVE  /\ SetOf(o) \in ScalarSets
         /\ o[1] = "var" => o[2] \in Variables
<1>1. CASE o[1] = "const" /\ o[2] \in Int
  BY <1>1, SingletonIs DEF SetOf
<1>2. CASE o[1] = "var" /\ o[2] \in Variables
  BY <1>2 DEF SetOf, Types
<1>3. (o[1] = "var" /\ o[2] \in Variables) \/ (o[1] = "const" /\ o[2] \in Int)
  BY Zenon DEF IsOperand, Variables, Targets
<1> QED BY <1>1, <1>2, <1>3

\* What a statement computes is in the set of its right-hand side.
LEMMA RightHandSound ==
  ASSUME Types, NEW i \in DOMAIN func, ~DividesByZero(func[i])
  PROVE  /\ Reliable => Sound(func[i].op, SetOf(func[i].a), SetOf(func[i].b),
                              Apply(func[i].op, SetOf(func[i].a), SetOf(func[i].b)))
         /\ Apply(func[i].op, SetOf(func[i].a), SetOf(func[i].b)) \in ScalarSets
         /\ RightHandSet(func[i]) \in ScalarSets
<1> DEFINE st == func[i]
           e == Apply(st.op, SetOf(st.a), SetOf(st.b))
<1>1. /\ st.op \in ScalarOps /\ SetOf(st.a) \in ScalarSets /\ SetOf(st.b) \in ScalarSets
      /\ ~Raises(st.op, SetOf(st.a), SetOf(st.b))
  BY Statement, OperandSet DEF DividesByZero
<1>2. ASSUME Reliable
      PROVE  ~IsEmpty(SetOf(st.a)) /\ ~IsEmpty(SetOf(st.b))
               => Precise(st.op, SetOf(st.a), SetOf(st.b))
  BY <1>2 DEF Reliable, TooSmall, Precise
<1>3. Reliable => Sound(st.op, SetOf(st.a), SetOf(st.b), e)
  BY <1>1, <1>2, ApplySound
<1>4. e \in ScalarSets
  BY <1>1, ApplyTyped
<1> HIDE DEF e
<1>5. ASSUME st.kind = "assign" PROVE RightHandSet(st) \in ScalarSets
  <2>1. RightHandSet(st) = e
    BY <1>5 DEF RightHandSet, e
  <2> QED BY <2>1, <1>4
<1>6. ASSUME st.kind # "assign" PROVE RightHandSet(st) \in ScalarSets
  <2>1. RightHandSet(st) = ScalarSet(1, 0, IF e.upper = NoBound THEN NoBound ELSE e.upper - 1)
    BY <1>6 DEF RightHandSet, e
  <2>2. (IF e.upper = NoBound THEN NoBound ELSE e.upper - 1) \in Bounds /\ 0 \in Bounds
    BY <1>4, Fields DEF Bounds
  <2> QED BY <2>1, <2>2, IsSet
<1> QED BY <1>3, <1>4, <1>5, <1>6 DEF e

\* A set that replaces its variable's admits what the old one or the new one does.
LEMMA UpdateGrows ==
  ASSUME Types, func' = func, NEW v \in Variables, NEW new \in ScalarSets,
         Update(v, var2set[v], new)
  PROVE  /\ var2set' \in [Variables -> ScalarSets]
         /\ \A w \in Variables \ {v} : var2set'[w] = var2set[w]
         /\ \A x \in Int : Admits(new, x) => Admits(var2set'[v], x)
         /\ updated' \in BOOLEAN
         /\ ~updated' => ~updated /\ SameSet(new, var2set[v]) /\ var2set' = var2set
<1> DEFINE old == var2set[v]
           changed == ~SameSet(new, old)
<1>0. var2set \in [Variables -> ScalarSets] /\ updated \in BOOLEAN /\ old \in ScalarSets
  BY DEF Types
<1>1. updated' = (updated \/ changed)
  BY DEF Update
<1>2. CASE ~changed
  <2>1. var2set' = var2set
    BY <1>2 DEF Update
  <2>2. ASSUME NEW x \in Int, Admits(new, x) PROVE Admits(old, x)
    BY <1>2, <2>2, NonEmpty DEF SameSet
  <2> QED BY <1>0, <1>1, <1>2, <2>1, <2>2
<1>3. CASE changed
  <2>1. PICK l, u : /\ var2set' = [var2set EXCEPT ![v] = ScalarSet(new.divisibility, l, u)]
                    /\ l \in {new.lower, NoBound} /\ u \in {new.upper, NoBound}
    <3> DEFINE l == IF (changed /\ SmallerLower(new, old)) /\ lowerCount'[v] > UPDATE_COUNT_LIMIT
                    THEN NoBound ELSE new.lower
               u == IF (changed /\ LargerUpper(new, old)) /\ upperCount'[v] > UPDATE_COUNT_LIMIT
                    THEN NoBound ELSE new.upper
    <3>1. var2set' = [var2set EXCEPT ![v] = ScalarSet(new.divisibility, l, u)]
      BY <1>3 DEF Update
    <3>2. l \in {new.lower, NoBound} /\ u \in {new.upper, NoBound}
      OBVIOUS
    <3> QED BY <3>1, <3>2
  <2> DEFINE given == ScalarSet(new.divisibility, l, u)
  <2>2. given \in ScalarSets
    <3>1. new.divisibility \in Nat /\ l \in Bounds /\ u \in Bounds
      BY <2>1, Fields DEF Bounds
    <3> QED BY <3>1, IsSet
  <2>3. ASSUME NEW x \in Int, Admits(new, x) PROVE Admits(given, x)
    <3>1. Divides(new.divisibility, x) /\ (l # NoBound => x >= l) /\ (u # NoBound => x <= u)
      BY <2>1, <2>3 DEF Admits
    <3> QED BY <3>1, AdmitsIs
  <2>4. var2set'[v] = given
    BY <1>0, <2>1
  <2> HIDE DEF given
  <2>5. var2set' = [var2set EXCEPT ![v] = given]
    BY <2>1 DEF given
  <2> QED BY <1>0, <1>1, <1>3, <2>2, <2>3, <2>4, <2>5
<1> QED BY <1>2, <1>3

LEMMA SettledStays ==
  ASSUME func' = func, var2set' = var2set, NEW j
  PROVE  Settled(j)' <=> Settled(j)
  BY DEF Settled, DividesByZero, RightHandSet, SetOf

-----------------------------------------------------------------------------
(* The invariant. *)

LEMMA SameVariables ==
  ASSUME func' = func
  PROVE  Variables' = Variables
  BY DEF Variables, Targets

LEMMA SameReliable ==
  ASSUME func' = func, var2set' = var2set
  PROVE  Reliable' <=> Reliable
  BY DEF Reliable, TooSmall, SetOf

LEMMA InitScalarInvariant ==
  ASSUME ScalarInit
  PROVE  ScalarInvariant
<1>1. \A v \in Variables : (IF v \in DOMAIN Parameters THEN Parameters[v] ELSE EmptySet) \in ScalarSets
  BY ScalarAssumption, EmptyIs
<1>2. var2set = [v \in Variables |-> IF v \in DOMAIN Parameters THEN Parameters[v] ELSE EmptySet]
  BY DEF ScalarInit
<1>3. var2set \in [Variables -> ScalarSets]
  BY <1>1, <1>2
<1>4. Len(func) \in Nat /\ func \in Functions /\ DOMAIN func = 1 .. Len(func)
  BY ScalarAssumption DEF ScalarInit
<1>5. Types
  <2>1. env \in [Variables -> Bounds]
    BY DEF ScalarInit, Bounds
  <2>2. at \in Int /\ at <= Len(func) + 1 /\ updated \in BOOLEAN
    <3>1. at = 1 /\ updated = FALSE
      BY DEF ScalarInit
    <3>2. at \in Int /\ at <= Len(func) + 1
      BY <3>1, <1>4
    <3>3. updated \in BOOLEAN
      BY <3>1, Zenon
    <3> QED BY <3>2, <3>3
  <2> QED BY <1>3, <1>4, <2>1, <2>2 DEF Types
<1>6. ParametersKept
  <2>1. \A p \in DOMAIN Parameters : var2set[p] = Parameters[p]
    BY <1>2 DEF Variables
  <2> QED BY <2>1 DEF ParametersKept
<1>7. FixpointKept
  BY <1>4 DEF FixpointKept, ScalarInit
<1>8. ValuesInSets
  BY DEF ValuesInSets, ScalarInit
<1> QED BY <1>5, <1>6, <1>7, <1>8 DEF ScalarInvariant

LEMMA AnalyzeKeeps ==
  ASSUME ScalarInvariant, AnalyzeStatement
  PROVE  ScalarInvariant'
<1> DEFINE v == func[at].var
           new == Union(var2set[v], RightHandSet(func[at]))
<1>0. Types /\ ParametersKept /\ FixpointKept
  BY DEF ScalarInvariant
<1>1. /\ at \in DOMAIN func /\ ~DividesByZero(func[at])
      /\ at' = at + 1 /\ func' = func /\ env' = env /\ Update(v, var2set[v], new)
  BY DEF AnalyzeStatement
<1>2. /\ at \in Nat \ {0} /\ at <= Len(func) /\ Len(func) \in Nat
      /\ DOMAIN func = 1 .. Len(func) /\ v \in Variables
  BY <1>0, <1>1, Statement
<1>3. /\ new \in ScalarSets
      /\ \A x \in Int : Admits(var2set[v], x) => Admits(new, x)
  <2>1. RightHandSet(func[at]) \in ScalarSets
    BY <1>0, <1>1, RightHandSound
  <2>2. var2set[v] \in ScalarSets
    BY <1>0, <1>2 DEF Types
  <2> QED BY <2>1, <2>2, UnionSound
<1> HIDE DEF new
<1>4. /\ var2set' \in [Variables -> ScalarSets]
      /\ \A w \in Variables \ {v} : var2set'[w] = var2set[w]
      /\ \A x \in Int : Admits(new, x) => Admits(var2set'[v], x)
      /\ updated' \in BOOLEAN
      /\ ~updated' => ~updated /\ SameSet(new, var2set[v]) /\ var2set' = var2set
  BY <1>0, <1>1, <1>2, <1>3, UpdateGrows, Zenon
<1>5. Types'
  <2>1. Variables' = Variables
    BY <1>1, SameVariables
  <2>2. env \in [Variables -> Bounds] /\ func \in Functions
    BY <1>0 DEF Types
  <2>3. at' \in Int /\ at' <= Len(func) + 1
    BY <1>1, <1>2
  <2> QED BY <1>1, <1>4, <2>1, <2>2, <2>3 DEF Types
<1>6. ParametersKept'
  <2>1. \A p \in Variables, x \in Int : Admits(var2set[p], x) => Admits(var2set'[p], x)
    BY <1>3, <1>4
  <2>2. DOMAIN Parameters \subseteq Variables
    BY DEF Variables
  <2> QED BY <1>0, <2>1, <2>2 DEF ParametersKept
<1>7. FixpointKept'
  <2>1. at' > 0 /\ at' # 0
    BY <1>1, <1>2
  <2>2. ASSUME ~updated', NEW j \in DOMAIN func, j < at' PROVE Settled(j)'
    <3>1. ~updated /\ SameSet(new, var2set[v]) /\ var2set' = var2set
      BY <1>4, <2>2
    <3>2. CASE j < at
      BY <3>1, <3>2, <1>0, <1>1, <1>2, SettledStays DEF FixpointKept
    <3>3. CASE j = at
      <4>1. Settled(at)
        BY <3>1, <1>1 DEF Settled, new
      <4> QED BY <4>1, <3>1, <3>3, <1>1, SettledStays
    <3> QED BY <3>2, <3>3, <2>2, <1>1, <1>2
  <2>3. \A w \in Variables' : env'[w] = NoBound
    BY <1>0, <1>1, <1>2, SameVariables DEF FixpointKept
  <2> QED BY <2>1, <2>2, <2>3, <1>1 DEF FixpointKept
<1>8. ValuesInSets'
  BY <1>1, <1>2 DEF ValuesInSets
<1> QED BY <1>5, <1>6, <1>7, <1>8 DEF ScalarInvariant

LEMMA AbandonKeeps ==
  ASSUME ScalarInvariant, Abandon
  PROVE  ScalarInvariant'
<1>0. Types /\ ParametersKept /\ FixpointKept
  BY DEF ScalarInvariant
<1>1. /\ at \in DOMAIN func /\ at' = -1 /\ func' = func /\ var2set' = var2set
      /\ updated' = updated /\ env' = env
  BY DEF Abandon
<1>2. at \in Nat \ {0} /\ Len(func) \in Nat /\ Variables' = Variables
  BY <1>0, <1>1, Statement, SameVariables
<1>3. Types'
  <2>1. at' \in Int /\ at' <= Len(func) + 1
    BY <1>1, <1>2
  <2> QED BY <1>0, <1>1, <1>2, <2>1 DEF Types
<1>4. ParametersKept'
  BY <1>0, <1>1 DEF ParametersKept
<1>5. FixpointKept'
  BY <1>0, <1>1, <1>2 DEF FixpointKept
<1>6. ValuesInSets'
  BY <1>1 DEF ValuesInSets
<1> QED BY <1>3, <1>4, <1>5, <1>6 DEF ScalarInvariant

LEMMA EndPassKeeps ==
  ASSUME ScalarInvariant, EndPass
  PROVE  ScalarInvariant'
<1>0. Types /\ ParametersKept /\ FixpointKept
  BY DEF ScalarInvariant
<1>1. /\ at = Len(func) + 1 /\ updated' = FALSE /\ func' = func /\ var2set' = var2set /\ env' = env
      /\ at' = IF updated THEN 1 ELSE IF \E v \in Variables : IsEmpty(var2set[v]) THEN -1 ELSE 0
  BY DEF EndPass
<1>2. /\ Len(func) \in Nat /\ DOMAIN func = 1 .. Len(func) /\ Variables' = Variables
      /\ at \in Nat /\ at > 0
  BY <1>0, <1>1, ScalarAssumption, SameVariables DEF Types
<1>3. Types'
  <2>1. at' \in Int /\ at' <= Len(func) + 1
    BY <1>1, <1>2
  <2> QED BY <1>0, <1>1, <1>2, <2>1 DEF Types
<1>4. ParametersKept'
  BY <1>0, <1>1 DEF ParametersKept
<1>5. \A v \in Variables' : env'[v] = NoBound
  BY <1>0, <1>1, <1>2 DEF FixpointKept
<1>6. FixpointKept'
  <2>1. ASSUME at' = 0 PROVE /\ \A j \in DOMAIN func : Settled(j)'
                             /\ \A v \in Variables : ~IsEmpty(var2set[v])
    <3>1. ~updated /\ \A v \in Variables : ~IsEmpty(var2set[v])
      BY <1>1, <2>1
    <3>2. \A j \in DOMAIN func : j < at
      BY <1>1, <1>2
    <3>3. \A j \in DOMAIN func : Settled(j)
      BY <3>1, <3>2, <1>0, <1>2 DEF FixpointKept
    <3> QED BY <3>1, <3>3, <1>1, SettledStays
  <2>2. at' > 0 => \A j \in DOMAIN func : ~(j < at')
    BY <1>1, <1>2
  <2> QED BY <2>1, <2>2, <1>1, <1>2, <1>5 DEF FixpointKept
<1>7. ValuesInSets'
  BY <1>5 DEF ValuesInSets
<1> QED BY <1>3, <1>4, <1>6, <1>7 DEF ScalarInvariant

LEMMA ReceiveKeeps ==
  ASSUME ScalarInvariant, ReceiveArguments
  PROVE  ScalarInvariant'
<1>0. Types /\ ParametersKept /\ FixpointKept
  BY DEF ScalarInvariant
<1>1. at = 0 /\ at' = at /\ func' = func /\ var2set' = var2set /\ updated' = updated
  BY DEF ReceiveArguments
<1>2. PICK args \in [DOMAIN Parameters -> 0 .. MaxScalar] :
        /\ \A p \in DOMAIN Parameters : Admits(Parameters[p], args[p])
        /\ env' = [v \in Variables |-> IF v \in DOMAIN Parameters THEN args[v] ELSE NoBound]
  BY DEF ReceiveArguments
<1>3. Variables' = Variables
  BY <1>1, SameVariables
<1>4. \A p \in DOMAIN Parameters : args[p] \in Int
  BY ScalarAssumption
<1>5. Types'
  <2>1. env' \in [Variables -> Bounds]
    BY <1>2, <1>4 DEF Bounds
  <2> QED BY <1>0, <1>1, <1>3, <2>1 DEF Types
<1>6. ParametersKept'
  BY <1>0, <1>1 DEF ParametersKept
<1>7. FixpointKept'
  BY <1>0, <1>1, <1>3, SettledStays DEF FixpointKept
<1>8. ValuesInSets'
  <2>1. ASSUME NEW v \in Variables, env'[v] # NoBound PROVE Admits(var2set[v], env'[v])
    <3>1. v \in DOMAIN Parameters /\ env'[v] = args[v]
      BY <1>2, <2>1
    <3> QED BY <3>1, <1>0, <1>2, <1>4 DEF ParametersKept
  <2> QED BY <2>1, <1>1, <1>3 DEF ValuesInSets
<1> QED BY <1>5, <1>6, <1>7, <1>8 DEF ScalarInvariant

\* An operand that is defined has a value of its set.
LEMMA OperandValue ==
  ASSUME Types, ValuesInSets, at = 0, NEW o, IsOperand(func, o),
         o[1] = "var" => env[o[2]] # NoBound
  PROVE  ValueOf(o) \in Int /\ (Reliable => Admits(SetOf(o), ValueOf(o)))
<1>1. CASE o[1] = "const" /\ o[2] \in Int
  BY <1>1, SingletonIs DEF SetOf, ValueOf
<1>2. CASE o[1] = "var" /\ o[2] \in Variables
  <2>1. env[o[2]] \in Bounds /\ env[o[2]] # NoBound
    BY <1>2 DEF Types
  <2> QED BY <1>2, <2>1 DEF SetOf, ValueOf, ValuesInSets, Bounds
<1>3. (o[1] = "var" /\ o[2] \in Variables) \/ (o[1] = "const" /\ o[2] \in Int)
  BY Zenon DEF IsOperand, Variables, Targets
<1> QED BY <1>1, <1>2, <1>3

LEMMA ComputedInt ==
  ASSUME NEW op \in ScalarOps, NEW x \in Int, NEW y \in Int, op \in {"div", "mod"} => y # 0
  PROVE  Computed(op, x, y) \in Int
<1>1. Least(x, y) \in Int /\ Greatest(x, y) \in Int
  BY LeastOfTwo, GreatestOfTwo
<1> QED BY <1>1, CDivInt DEF Computed, ScalarOps

LEMMA RunKeeps ==
  ASSUME ScalarInvariant, RunStmt
  PROVE  ScalarInvariant'
<1>0. Types /\ ParametersKept /\ FixpointKept /\ ValuesInSets
  BY DEF ScalarInvariant
<1>1. at = 0 /\ at' = at /\ func' = func /\ var2set' = var2set /\ updated' = updated
  BY DEF RunStmt
<1>2. Variables' = Variables
  BY <1>1, SameVariables
<1>3. PICK i \in DOMAIN func :
        /\ \A v \in Used(func[i]) : env[v] # NoBound
        /\ func[i].op \in {"div", "mod"} => ValueOf(func[i].b) # 0
        /\ \E z \in (IF func[i].kind = "assign"
                     THEN {Computed(func[i].op, ValueOf(func[i].a), ValueOf(func[i].b))}
                     ELSE 0 .. Computed(func[i].op, ValueOf(func[i].a), ValueOf(func[i].b)) - 1) :
             /\ z \in -MaxScalar .. MaxScalar
             /\ env' = [env EXCEPT ![func[i].var] = z]
  BY Zenon DEF RunStmt
<1> DEFINE st == func[i]
           e == Apply(st.op, SetOf(st.a), SetOf(st.b))
           result == Computed(st.op, ValueOf(st.a), ValueOf(st.b))
           v == st.var
<1>4. /\ v \in Variables /\ st.kind \in {"assign", "for"} /\ st.op \in ScalarOps
      /\ IsOperand(func, st.a) /\ IsOperand(func, st.b)
  BY <1>0, Statement
<1>5. /\ ~DividesByZero(st)
      /\ SameSet(Union(var2set[v], RightHandSet(st)), var2set[v])
      /\ ~IsEmpty(var2set[v])
  BY <1>0, <1>1, <1>4 DEF FixpointKept, Settled
<1>6. /\ ValueOf(st.a) \in Int /\ (Reliable => Admits(SetOf(st.a), ValueOf(st.a)))
      /\ ValueOf(st.b) \in Int /\ (Reliable => Admits(SetOf(st.b), ValueOf(st.b)))
  <2>1. ASSUME NEW o \in {st.a, st.b}, o[1] = "var" PROVE env[o[2]] # NoBound
    BY <1>3, <2>1 DEF Used
  <2> QED BY <2>1, <1>0, <1>1, <1>4, OperandValue
<1>7. /\ e \in ScalarSets /\ RightHandSet(st) \in ScalarSets
      /\ Reliable => Admits(e, result)
  <2>1. /\ Reliable => Sound(st.op, SetOf(st.a), SetOf(st.b), e)
        /\ e \in ScalarSets /\ RightHandSet(st) \in ScalarSets
    BY <1>0, <1>5, RightHandSound
  <2> QED BY <2>1, <1>3, <1>6 DEF Sound
<1>8. PICK z \in Int : /\ z \in (IF st.kind = "assign" THEN {result} ELSE 0 .. result - 1)
                       /\ env' = [env EXCEPT ![v] = z]
  <2>1. \E z \in -MaxScalar .. MaxScalar :
          /\ z \in (IF st.kind = "assign" THEN {result} ELSE 0 .. result - 1)
          /\ env' = [env EXCEPT ![v] = z]
    BY <1>3, Zenon
  <2>2. \A z \in -MaxScalar .. MaxScalar : z \in Int
    BY ScalarAssumption
  <2> HIDE DEF e, result
  <2> QED BY <2>1, <2>2, Zenon
<1>8a. result \in Int
  BY <1>3, <1>4, <1>6, ComputedInt
<1> HIDE DEF e, result
<1>9. ASSUME Reliable PROVE Admits(RightHandSet(st), z)
  <2>1. CASE st.kind = "assign"
    BY <2>1, <1>7, <1>8, <1>9 DEF RightHandSet, e
  <2>2. CASE st.kind # "assign"
    <3> DEFINE u == IF e.upper = NoBound THEN NoBound ELSE e.upper - 1
    <3>1. RightHandSet(st) = ScalarSet(1, 0, u)
      BY <2>2 DEF RightHandSet, e
    <3>2. z \in 0 .. result - 1
      BY <2>2, <1>8
    <3>3. u # NoBound => z <= u
      <4>1. e.upper \in Bounds /\ (e.upper # NoBound => result <= e.upper)
        BY <1>7, <1>9, Fields DEF Admits
      <4> QED BY <4>1, <3>2, <1>8a DEF Bounds
    <3>4. Divides(1, z)
      BY DividesIs
    <3> QED BY <3>1, <3>2, <3>3, <3>4, AdmitsIs
  <2> QED BY <2>1, <2>2
<1>10. ASSUME Reliable PROVE Admits(var2set[v], z)
  <2>1. var2set[v] \in ScalarSets
    BY <1>0, <1>4 DEF Types
  <2>2. Admits(Union(var2set[v], RightHandSet(st)), z)
    BY <2>1, <1>7, <1>9, <1>10, UnionSound
  <2>3. Union(var2set[v], RightHandSet(st)) = var2set[v]
    BY <1>5 DEF SameSet
  <2> QED BY <2>2, <2>3
<1> HIDE DEF v
<1>11. Types'
  <2>1. env \in [Variables -> Bounds] /\ z \in Bounds
    BY <1>0 DEF Types, Bounds
  <2>2. env' \in [Variables -> Bounds]
    BY <2>1, <1>4, <1>8
  <2> QED BY <1>0, <1>1, <1>2, <2>2 DEF Types
<1>12. ParametersKept'
  BY <1>0, <1>1 DEF ParametersKept
<1>13. FixpointKept'
  BY <1>0, <1>1, <1>2, SettledStays DEF FixpointKept
<1>14. ValuesInSets'
  <2>1. ASSUME Reliable, NEW w \in Variables, env'[w] # NoBound PROVE Admits(var2set[w], env'[w])
    <3>1. DOMAIN env = Variables
      BY <1>0 DEF Types
    <3>2. CASE w = v
      BY <2>1, <3>1, <3>2, <1>8, <1>10
    <3>3. CASE w # v
      <4>1. env'[w] = env[w]
        BY <3>1, <3>3, <1>8
      <4> QED BY <4>1, <2>1, <1>0, <1>1 DEF ValuesInSets
    <3> QED BY <3>2, <3>3
  <2> QED BY <2>1, <1>1, <1>2, SameReliable DEF ValuesInSets
<1> QED BY <1>11, <1>12, <1>13, <1>14 DEF ScalarInvariant

\* The invariant is inductive: the parameters' sets only grow, an unchanged pass has
\* seen settled statements only, and what runs after it stays in the sets (ValuesInSets).
THEOREM ScalarInvariantHolds == ScalarSpec => []ScalarInvariant
<1>1. ScalarInit => ScalarInvariant
  BY InitScalarInvariant
<1>2. ScalarInvariant /\ [ScalarNext]_scalarVars => ScalarInvariant'
  <2> SUFFICES ASSUME ScalarInvariant, [ScalarNext]_scalarVars PROVE ScalarInvariant'
    OBVIOUS
  <2>1. CASE AnalyzeStatement
    BY <2>1, AnalyzeKeeps
  <2>2. CASE Abandon
    BY <2>2, AbandonKeeps
  <2>3. CASE EndPass
    BY <2>3, EndPassKeeps
  <2>4. CASE ReceiveArguments
    BY <2>4, ReceiveKeeps
  <2>5. CASE RunStmt
    BY <2>5, RunKeeps
  <2>6. CASE UNCHANGED scalarVars
    <3>1. /\ func' = func /\ var2set' = var2set /\ at' = at /\ updated' = updated /\ env' = env
          /\ Variables' = Variables /\ (Reliable' <=> Reliable)
      BY <2>6, SameVariables, SameReliable DEF scalarVars
    <3>2. \A j : Settled(j)' <=> Settled(j)
      BY <3>1, SettledStays
    <3> QED BY <3>1, <3>2 DEF ScalarInvariant, Types, ParametersKept, FixpointKept, ValuesInSets
  <2> QED BY <2>1, <2>2, <2>3, <2>4, <2>5, <2>6 DEF ScalarNext, Analyze
<1> QED BY <1>1, <1>2, PTL DEF ScalarSpec

\* Whatever a function computes after the analysis accepted it is in the set of its
\* variable (analyze_scalar), for every function none of whose operations has
\* operands for which the code's set can be too small, and every number of
\* updates allowed.
THEOREM ValuesStayInSets == ScalarSpec => []ValuesInSets
<1>1. ScalarInvariant => ValuesInSets
  BY DEF ScalarInvariant
<1> QED BY <1>1, ScalarInvariantHolds, PTL

-----------------------------------------------------------------------------
(* Divisors. *)

LEMMA Divided ==
  ASSUME NEW x \in Int, NEW n \in Nat \ {0}
  PROVE  \E q \in Int, r \in 0 .. n - 1 : x \div n = q /\ x % n = r /\ x = r + q * n
<1>1. /\ x \div n \in Int /\ x % n \in 0 .. n - 1
      /\ x = (x % n) + (x \div n) * n
  BY Division
<1> QED BY <1>1

LEMMA DividesTrans ==
  ASSUME NEW a \in Nat, NEW b \in Nat, NEW x \in Int, Divides(a, b), Divides(b, x)
  PROVE  Divides(a, x)
<1>1. PICK p \in Int : b = p * a
  BY b \in Int, DividesIs
<1>2. PICK q \in Int : x = q * b
  BY DividesIs
<1>3. q * (p * a) = (q * p) * a /\ q * p \in Int
  OBVIOUS
<1> QED BY <1>1, <1>2, <1>3, DividesIs

LEMMA DividesSelf ==
  ASSUME NEW a \in Nat
  PROVE  Divides(a, a) /\ Divides(1, a) /\ Divides(a, 0)
<1>1. a = 1 * a /\ a = a * 1 /\ 0 = 0 * a
  OBVIOUS
<1> QED BY <1>1, DividesIs

LEMMA DividesMultiple ==
  ASSUME NEW a \in Nat, NEW x \in Int, NEW k \in Int, Divides(a, x)
  PROVE  Divides(a, x * k) /\ Divides(a, k * x)
<1>1. PICK p \in Int : x = p * a
  BY DividesIs
<1>2. x * k = (p * k) * a /\ k * x = (p * k) * a /\ p * k \in Int /\ x * k \in Int /\ k * x \in Int
  BY <1>1
<1> QED BY <1>2, DividesIs

LEMMA DivisorBelow ==
  ASSUME NEW a \in Nat, NEW b \in Nat \ {0}, Divides(a, b)
  PROVE  a > 0 /\ a <= b
<1>1. PICK p \in Int : b = p * a
  BY b \in Int, DividesIs
<1>2. a > 0
  BY <1>1
<1>3. p > 0
  <2> SUFFICES ASSUME p <= 0 PROVE FALSE
    BY <1>1
  <2>1. p * a <= 0 * a
    BY Monotone
  <2> QED BY <2>1, <1>1
<1>4. 1 * a <= p * a
  BY <1>3, Monotone
<1> QED BY <1>1, <1>2, <1>4

\* A set of natural numbers has a least one.
LEMMA LeastOf ==
  ASSUME NEW S \in SUBSET Nat, S # {}
  PROVE  Min(S) \in S /\ \A y \in S : Min(S) <= y
<1>1. PICK m \in S : \A k \in S : ~(k < m)
  <2>1. PICK m \in S : \A k \in S : <<k, m>> \notin OpToRel(<, Nat)
    BY NatLessThanWellFounded, WFMin
  <2> QED BY <2>1 DEF OpToRel
<1>2. \A k \in S : m <= k
  BY <1>1
<1> QED BY <1>2, MinIs

\* The greatest common divisor of any set of natural numbers.
LEMMA GcdOf ==
  ASSUME NEW S \in SUBSET Nat, NEW p \in S, p > 0
  PROVE  /\ Gcd(S) \in Nat \ {0}
         /\ \A x \in S : Divides(Gcd(S), x)
         /\ \A d \in Nat : (\A x \in S : Divides(d, x)) => d <= Gcd(S)
<1> DEFINE A == {IF x < 0 THEN -x ELSE x : x \in S}
           P == S \ {0}
           m == Min(P)
           D == {d \in 1 .. m : \A x \in P : x % d = 0}
<1>1. A = S
  <2>1. \A x \in S : (IF x < 0 THEN -x ELSE x) = x
    OBVIOUS
  <2> QED BY <2>1
<1>2. Gcd(S) = IF A \ {0} = {} THEN 0
               ELSE Max({d \in 1 .. Min(A \ {0}) : \A x \in A \ {0} : x % d = 0})
  BY DEF Gcd
<1>3. Gcd(S) = Max(D)
  <2> HIDE DEF A
  <2>1. A \ {0} = P /\ P # {}
    BY <1>1
  <2> QED BY <1>2, <2>1
<1>4. m \in P /\ m \in Nat \ {0} /\ \A x \in P : m <= x
  <2>1. P \in SUBSET Nat /\ P # {}
    OBVIOUS
  <2>2. Min(P) \in P /\ \A y \in P : Min(P) <= y
    BY <2>1, LeastOf
  <2> QED BY <2>1, <2>2
<1> HIDE DEF m
<1>5. 1 \in D
  <2>1. \A x \in P : x % 1 = 0
    OBVIOUS
  <2> QED BY <2>1, <1>4
<1>6. D \in SUBSET (1 .. m) /\ D # {}
  BY <1>5
<1>7. \A d \in D : d \in Nat \ {0} /\ \A x \in P : x % d = 0
  BY <1>4
<1>8. ASSUME NEW d \in Nat, \A x \in S : Divides(d, x) PROVE d \in D
  <2>1. Divides(d, m)
    BY <1>4, <1>8
  <2>2. d > 0 /\ d <= m
    BY <1>4, <2>1, DivisorBelow
  <2>3. \A x \in P : x % d = 0
    BY <1>8, <2>2 DEF Divides
  <2> QED BY <1>4, <2>2, <2>3
<1> HIDE DEF D
<1>9. Max(D) \in D /\ \A y \in D : Max(D) >= y
  BY <1>4, <1>6, MaxBelow
<1>10. Gcd(S) \in Nat \ {0} /\ \A x \in P : x % Gcd(S) = 0
  BY <1>3, <1>7, <1>9
<1>11. \A x \in S : Divides(Gcd(S), x)
  <2>1. \A x \in P : Divides(Gcd(S), x)
    BY <1>10 DEF Divides
  <2>2. Divides(Gcd(S), 0)
    BY <1>10, DividesSelf
  <2> QED BY <2>1, <2>2
<1>12. \A d \in Nat : (\A x \in S : Divides(d, x)) => d <= Gcd(S)
  <2> SUFFICES ASSUME NEW d \in Nat, \A x \in S : Divides(d, x) PROVE d <= Gcd(S)
    OBVIOUS
  <2>1. d \in D
    BY <1>8
  <2> QED BY <2>1, <1>3, <1>9, <1>10
<1> QED BY <1>10, <1>11, <1>12

\* The same for two numbers that may both be zero.
LEMMA GcdOfTwo ==
  ASSUME NEW a \in Nat, NEW b \in Nat
  PROVE  /\ Gcd({a, b}) \in Nat /\ Divides(Gcd({a, b}), a) /\ Divides(Gcd({a, b}), b)
         /\ a > 0 \/ b > 0 => Gcd({a, b}) > 0
<1>1. {a, b} = {b, a}
  OBVIOUS
<1>2. b > 0 => Gcd({a, b}) > 0
  BY GcdDivides
<1>3. a > 0 => Gcd({b, a}) > 0
  BY GcdDivides
<1> QED BY <1>1, <1>2, <1>3, GcdDivides

\* Divisors of a power of two are powers of two.
LEMMA PowerDivisor ==
  ASSUME NEW p \in Nat \ {0}, IsPowerOfTwo(p), NEW c \in Nat, Divides(c, p)
  PROVE  IsPowerOfTwo(c) /\ c > 0
<1>1. c > 0 /\ c <= p
  BY DivisorBelow
<1>2. ASSUME NEW d \in 2 .. c, c % d = 0 PROVE d % 2 = 0
  <2>1. d \in Nat \ {0} /\ Divides(d, c)
    BY <1>2 DEF Divides
  <2>2. Divides(d, p)
    BY <2>1, DividesTrans
  <2>3. d \in 2 .. p /\ p % d = 0
    BY <1>1, <2>1, <2>2 DEF Divides
  <2> QED BY <2>3 DEF IsPowerOfTwo
<1> QED BY <1>1, <1>2 DEF IsPowerOfTwo

-----------------------------------------------------------------------------
(* Segments. *)

Vectors == [Index -> Int]

Claims == [value : Int \cup {NoValue}, continuity : Nat \ {0}, constancy : Nat \ {0},
           divisibility : Nat]

LEMMA Indices ==
  /\ Extent \in Nat \ {0} /\ NoValue \notin Int /\ MaxValue \in Nat
  /\ 0 \in Index /\ Index \subseteq Nat
  BY GridAssumption DEF Index

\* The first index of a segment.
LEMMA SegmentStart ==
  ASSUME NEW i \in Index, NEW n \in Nat \ {0}
  PROVE  /\ i - (i % n) \in Index /\ i % n \in 0 .. n - 1
         /\ (i - (i % n)) % n = 0 /\ (i - (i % n)) \div n = i \div n
         /\ i - (i % n) = (i \div n) * n /\ i \div n \in Nat
<1>1. PICK q \in Int, r \in 0 .. n - 1 : i \div n = q /\ i % n = r /\ i = r + q * n
  <2>1. i \in Int
    BY Indices
  <2> QED BY <2>1, Divided
<1>2. q \in Nat
  <2> SUFFICES ASSUME q < 0 PROVE FALSE
    BY <1>1
  <2>1. (q + 1) * n <= 0 * n
    BY Monotone
  <2>2. (q + 1) * n = q * n + n /\ q * n \in Int
    OBVIOUS
  <2> QED BY <2>1, <2>2, <1>1, Indices
<1>3. q * n \in Nat /\ q * n = 0 + q * n
  BY <1>2
<1>4. i - r = q * n
  BY <1>1, <1>3
<1>5. (q * n) \div n = q /\ (q * n) % n = 0
  BY <1>3, QuotientIs
<1>6. i - r \in Index
  BY <1>1, <1>3, <1>4, Indices DEF Index
<1> QED BY <1>1, <1>2, <1>4, <1>5, <1>6

\* Segments of a divisor lie within segments.
LEMMA Within ==
  ASSUME NEW i \in Int, NEW j \in Int, NEW g \in Nat \ {0}, NEW n \in Nat \ {0},
         Divides(g, n), i \div g = j \div g
  PROVE  i \div n = j \div n
<1>1. PICK k \in Int : n = k * g
  BY n \in Int, DividesIs
<1>2. k > 0
  <2> SUFFICES ASSUME k <= 0 PROVE FALSE
    BY <1>1
  <2>1. k * g <= 0 * g
    BY Monotone
  <2> QED BY <2>1, <1>1
<1>3. ASSUME NEW x \in Int PROVE x \div n = (x \div g) \div k
  <2>1. PICK q \in Int, r \in 0 .. g - 1 : x \div g = q /\ x = r + q * g
    BY Divided
  <2>2. PICK t \in Int, s \in 0 .. k - 1 : q \div k = t /\ q = s + t * k
    BY <1>2, Divided
  <2>3. x = (r + s * g) + t * n
    <3>1. (s + t * k) * g = s * g + t * (k * g)
      OBVIOUS
    <3>2. x = r + (s + t * k) * g
      BY <2>1, <2>2
    <3>3. s * g \in Int /\ t * n \in Int
      OBVIOUS
    <3> QED BY <3>1, <3>2, <3>3, <1>1
  <2>4. r + s * g \in 0 .. n - 1
    <3>1. s * g <= (k - 1) * g /\ 0 * g <= s * g
      BY <2>2, Monotone
    <3>2. (k - 1) * g = k * g - g /\ s * g \in Int
      OBVIOUS
    <3> QED BY <3>1, <3>2, <2>1, <1>1
  <2>5. x \div n = t
    BY <2>3, <2>4, QuotientIs
  <2> QED BY <2>1, <2>2, <2>5
<1> QED BY <1>3

LEMMA ContiguousWithin ==
  ASSUME NEW v, NEW g \in Nat \ {0}, NEW n \in Nat \ {0}, Divides(g, n), Contiguous(v, n)
  PROVE  Contiguous(v, g)
<1> SUFFICES ASSUME NEW i \in Index, NEW j \in Index, i \div g = j \div g PROVE v[i] - v[j] = i - j
  BY DEF Contiguous
<1>1. i \in Int /\ j \in Int
  BY Indices
<1>2. i \div n = j \div n
  BY <1>1, Within
<1> QED BY <1>2 DEF Contiguous

LEMMA RepeatsWithin ==
  ASSUME NEW v, NEW g \in Nat \ {0}, NEW n \in Nat \ {0}, Divides(g, n), Repeats(v, n)
  PROVE  Repeats(v, g)
<1> SUFFICES ASSUME NEW i \in Index, NEW j \in Index, i \div g = j \div g PROVE v[i] = v[j]
  BY DEF Repeats
<1>1. i \in Int /\ j \in Int
  BY Indices
<1>2. i \div n = j \div n
  BY <1>1, Within
<1> QED BY <1>2 DEF Repeats

\* Every vector is contiguous, and constant, in segments of one.
LEMMA Singles ==
  ASSUME NEW v \in Vectors
  PROVE  Contiguous(v, 1) /\ Repeats(v, 1)
<1>1. \A i \in Index : i \div 1 = i /\ v[i] \in Int /\ i \in Int
  BY Indices DEF Vectors
<1> QED BY <1>1 DEF Contiguous, Repeats

\* A description of both kinds is of segments of one.
LEMMA OneKind ==
  ASSUME NEW a \in Claims, NEW v \in Vectors, Describes(a, v)
  PROVE  a.continuity = 1 \/ a.constancy = 1
<1> SUFFICES ASSUME a.continuity > 1, a.constancy > 1 PROVE FALSE
  BY DEF Claims
<1> DEFINE m == a.continuity
           n == a.constancy
<1>1. m \in Nat \ {0} /\ n \in Nat \ {0} /\ Divides(m, Extent)
  BY DEF Claims, Describes
<1> HIDE DEF m, n
<1>2. m <= Extent
  BY <1>1, DivisorBelow, Indices
<1>3. 0 \in Index /\ 1 \in Index
  <2>1. m > 1
    BY DEF m
  <2>2. Extent \in Nat /\ 1 < Extent
    BY <1>1, <1>2, <2>1, Indices
  <2> QED BY <2>2 DEF Index
<1>4. 1 \div m = 0 /\ 0 \div m = 0 /\ 1 \div n = 0 /\ 0 \div n = 0
  <2>1. 1 = 1 + 0 * m /\ 0 = 0 + 0 * m /\ {0, 1} \subseteq 0 .. m - 1
    BY <1>1 DEF m
  <2>2. 1 = 1 + 0 * n /\ 0 = 0 + 0 * n /\ {0, 1} \subseteq 0 .. n - 1
    BY <1>1 DEF n
  <2> QED BY <2>1, <2>2, <1>1, QuotientIs
<1>5. v[1] - v[0] = 1 - 0
  BY <1>3, <1>4 DEF Describes, Contiguous, m
<1>6. v[1] = v[0]
  BY <1>3, <1>4 DEF Describes, Repeats, n
<1>7. v[0] \in Int /\ v[1] \in Int
  BY <1>3 DEF Vectors
<1> QED BY <1>5, <1>6, <1>7

LEMMA MaxOfTwo ==
  ASSUME NEW m \in Nat \ {0}
  PROVE  Max({m, 1}) = m /\ Max({1, m}) = m
<1>1. \A S : S = {m, 1} => Max(S) = m
  <2> SUFFICES ASSUME NEW S, S = {m, 1} PROVE Max(S) = m
    OBVIOUS
  <2>1. m \in S /\ \A y \in S : m >= y
    OBVIOUS
  <2>2. Max(S) \in S /\ \A y \in S : Max(S) >= y
    BY <2>1, MaxIs
  <2> QED BY <2>1, <2>2
<1>2. {1, m} = {m, 1}
  OBVIOUS
<1> QED BY <1>1, <1>2

-----------------------------------------------------------------------------
(* What a description says, and what it takes to make one. *)

LEMMA ClaimTypes ==
  ASSUME NEW a \in Claims
  PROVE  /\ a.value \in Int \cup {NoValue}
         /\ a.continuity \in Nat \ {0} /\ a.constancy \in Nat \ {0} /\ a.divisibility \in Nat
  BY DEF Claims

LEMMA InfoIs ==
  ASSUME NEW x, NEW m, NEW n, NEW d
  PROVE  /\ Info(x, m, n, d).value = x /\ Info(x, m, n, d).continuity = m
         /\ Info(x, m, n, d).constancy = n /\ Info(x, m, n, d).divisibility = d
         /\ x \in Int \cup {NoValue} /\ m \in Nat \ {0} /\ n \in Nat \ {0} /\ d \in Nat
              => Info(x, m, n, d) \in Claims
  BY DEF Info, Claims

\* All values of a vector that does not run are multiples.
LEMMA ConstantSays ==
  ASSUME NEW a \in Claims, NEW v \in Vectors, Describes(a, v), a.continuity = 1
  PROVE  /\ Repeats(v, a.constancy)
         /\ \A i \in Index : Divides(a.divisibility, v[i])
<1>1. a.constancy \in Nat \ {0}
  BY ClaimTypes
<1>2. Max({a.continuity, a.constancy}) = a.constancy
  BY <1>1, MaxOfTwo
<1>3. BegunBy(v, a.constancy, a.divisibility) /\ Repeats(v, a.constancy)
  BY <1>2 DEF Describes
<1>4. ASSUME NEW i \in Index PROVE Divides(a.divisibility, v[i])
  <2>1. PICK k \in Index : k % a.constancy = 0 /\ k \div a.constancy = i \div a.constancy
    BY <1>1, SegmentStart
  <2>2. v[k] = v[i]
    BY <2>1, <1>3 DEF Repeats
  <2>3. Divides(a.divisibility, v[k])
    BY <2>1, <1>3 DEF BegunBy
  <2> QED BY <2>2, <2>3
<1> QED BY <1>3, <1>4

\* A vector that runs differs from the indices by multiples of what divides
\* both the length and the beginning of its segments.
LEMMA RunSays ==
  ASSUME NEW a \in Claims, NEW v \in Vectors, Describes(a, v), a.constancy = 1,
         NEW g \in Nat, Divides(g, a.continuity), Divides(g, a.divisibility), NEW i \in Index
  PROVE  Divides(g, v[i] - i)
<1> DEFINE m == a.continuity
<1>1. m \in Nat \ {0} /\ a.divisibility \in Nat
  BY ClaimTypes
<1>2. Max({m, a.constancy}) = m
  BY <1>1, MaxOfTwo
<1>3. BegunBy(v, m, a.divisibility) /\ Contiguous(v, m)
  BY <1>2 DEF Describes
<1> HIDE DEF m
<1>4. PICK k \in Index, q \in Nat : k % m = 0 /\ k \div m = i \div m /\ k = q * m
  BY <1>1, SegmentStart
<1>5. v[i] - v[k] = i - k
  BY <1>3, <1>4 DEF Contiguous
<1>6. i \in Int /\ k \in Int /\ v[i] \in Int /\ v[k] \in Int
  BY Indices DEF Vectors
<1>7. Divides(g, v[k])
  <2>1. Divides(a.divisibility, v[k])
    BY <1>3, <1>4 DEF BegunBy
  <2> QED BY <2>1, <1>1, <1>6, DividesTrans
<1>8. Divides(g, k)
  <2>1. Divides(g, m) /\ m \in Int /\ q \in Int
    BY <1>1 DEF m
  <2> QED BY <2>1, <1>4, DividesMultiple
<1>9. v[i] - i = v[k] - k
  BY <1>5, <1>6
<1> QED BY <1>6, <1>7, <1>8, <1>9, SumDivides

\* So its remainders are those of the indices, and its quotients are constant
\* where those of the indices are.
LEMMA RunModulo ==
  ASSUME NEW x \in Int, NEW i \in Int, NEW g \in Nat \ {0}, Divides(g, x - i)
  PROVE  x % g = i % g /\ x \div g = (i \div g) + ((x - i) \div g)
<1>1. PICK k \in Int : x - i = k * g
  BY x - i \in Int, DividesIs
<1>2. PICK q \in Int, r \in 0 .. g - 1 : i \div g = q /\ i % g = r /\ i = r + q * g
  BY Divided
<1>3. x = r + (q + k) * g
  <2>1. (q + k) * g = q * g + k * g /\ q * g \in Int /\ k * g \in Int
    OBVIOUS
  <2> QED BY <2>1, <1>1, <1>2
<1>4. x % g = r /\ x \div g = q + k
  BY <1>3, q + k \in Int, QuotientIs
<1>5. (x - i) \div g = k
  <2>1. x - i = 0 + k * g /\ 0 \in 0 .. g - 1 /\ x - i \in Int
    BY <1>1
  <2> QED BY <2>1, QuotientIs
<1> QED BY <1>2, <1>4, <1>5

LEMMA RunQuotient ==
  ASSUME NEW v \in Vectors, NEW g \in Nat \ {0}, Contiguous(v, g),
         NEW i \in Index, NEW j \in Index, i \div g = j \div g,
         Divides(g, v[i] - i), Divides(g, v[j] - j)
  PROVE  v[i] \div g = v[j] \div g
<1>1. v[i] \in Int /\ v[j] \in Int /\ i \in Int /\ j \in Int
  BY Indices DEF Vectors
<1>2. v[i] - i = v[j] - j
  <2>1. v[i] - v[j] = i - j
    BY DEF Contiguous
  <2>2. PICK x \in Int, y \in Int : x = v[i] /\ y = v[j]
    BY <1>1
  <2>3. x - y = i - j
    BY <2>1, <2>2
  <2>4. x - i = y - j
    BY <2>3, <1>1
  <2> QED BY <2>2, <2>4
<1>3. v[i] \div g = (i \div g) + ((v[i] - i) \div g)
  BY <1>1, RunModulo
<1>4. v[j] \div g = (j \div g) + ((v[j] - j) \div g)
  BY <1>1, RunModulo
<1> QED BY <1>2, <1>3, <1>4

LEMMA ClaimConstant ==
  ASSUME NEW v \in Vectors, NEW n \in Nat \ {0}, NEW d \in Nat,
         Divides(n, Extent), Repeats(v, n), BegunBy(v, n, d)
  PROVE  Info(NoValue, 1, n, d) \in Claims /\ Describes(Info(NoValue, 1, n, d), v)
<1>1. Max({1, n}) = n /\ Divides(1, Extent) /\ Contiguous(v, 1)
  BY MaxOfTwo, DividesSelf, Singles, Indices
<1> DEFINE c == Info(NoValue, 1, n, d)
<1>2. /\ c.value = NoValue /\ c.continuity = 1 /\ c.constancy = n /\ c.divisibility = d
      /\ c \in Claims
  BY InfoIs
<1> HIDE DEF c
<1>3. Describes(c, v)
  BY <1>1, <1>2 DEF Describes
<1> QED BY <1>2, <1>3 DEF c

LEMMA ClaimContiguous ==
  ASSUME NEW v \in Vectors, NEW n \in Nat \ {0}, NEW d \in Nat,
         Divides(n, Extent), Contiguous(v, n), BegunBy(v, n, d)
  PROVE  Info(NoValue, n, 1, d) \in Claims /\ Describes(Info(NoValue, n, 1, d), v)
<1>1. Max({n, 1}) = n /\ Divides(1, Extent) /\ Repeats(v, 1)
  BY MaxOfTwo, DividesSelf, Singles, Indices
<1> DEFINE c == Info(NoValue, n, 1, d)
<1>2. /\ c.value = NoValue /\ c.continuity = n /\ c.constancy = 1 /\ c.divisibility = d
      /\ c \in Claims
  BY InfoIs
<1> HIDE DEF c
<1>3. Describes(c, v)
  BY <1>1, <1>2 DEF Describes
<1> QED BY <1>2, <1>3 DEF c

\* Nothing is claimed but a divisor of every value.
LEMMA ClaimDivisor ==
  ASSUME NEW v \in Vectors, NEW d \in Nat, \A i \in Index : Divides(d, v[i])
  PROVE  Info(NoValue, 1, 1, d) \in Claims /\ Describes(Info(NoValue, 1, 1, d), v)
<1>1. BegunBy(v, 1, d) /\ Repeats(v, 1) /\ Divides(1, Extent)
  BY Singles, DividesSelf, Indices DEF BegunBy
<1> QED BY <1>1, ClaimConstant

LEMMA ClaimNothing ==
  ASSUME NEW v \in Vectors
  PROVE  AnyInfo \in Claims /\ Describes(AnyInfo, v)
<1>1. \A i \in Index : Divides(1, v[i])
  BY DEF Vectors, Divides
<1> QED BY <1>1, ClaimDivisor DEF AnyInfo

\* A claim and the values it is right about.
Right(a, v) == a \in Claims /\ v \in Vectors /\ Describes(a, v)

-----------------------------------------------------------------------------
(* The operations of DimensionInfo. *)

\* Two constant operands: the result is constant where both are.
LEMMA BothSound ==
  ASSUME NEW a, NEW b, NEW v, NEW w, Right(a, v), Right(b, w), BothConstant(a, b),
         NEW r \in Vectors, NEW d \in Nat,
         \A i, j \in Index : v[i] = v[j] /\ w[i] = w[j] => r[i] = r[j],
         \A i \in Index : Divides(a.divisibility, v[i]) /\ Divides(b.divisibility, w[i])
                            => Divides(d, r[i])
  PROVE  Right(Constant(a, b, d), r)
<1> DEFINE n == Gcd({a.constancy, b.constancy})
<1>1. a.constancy \in Nat \ {0} /\ b.constancy \in Nat \ {0} /\ a.continuity = 1 /\ b.continuity = 1
  BY ClaimTypes, OneKind DEF Right, BothConstant
<1>2. n \in Nat \ {0} /\ Divides(n, a.constancy) /\ Divides(n, b.constancy)
  BY <1>1, GcdOfTwo
<1> HIDE DEF n
<1>3. Repeats(v, n) /\ \A i \in Index : Divides(a.divisibility, v[i])
  BY <1>1, <1>2, ConstantSays, RepeatsWithin DEF Right
<1>4. Repeats(w, n) /\ \A i \in Index : Divides(b.divisibility, w[i])
  BY <1>1, <1>2, ConstantSays, RepeatsWithin DEF Right
<1>5. Divides(n, Extent)
  <2>1. Divides(a.constancy, Extent)
    BY DEF Right, Describes
  <2>2. Extent \in Int
    BY Indices
  <2> QED BY <2>1, <2>2, <1>1, <1>2, DividesTrans
<1>6. Repeats(r, n)
  BY <1>3, <1>4 DEF Repeats
<1>7. BegunBy(r, n, d)
  BY <1>3, <1>4 DEF BegunBy
<1>8. Constant(a, b, d) = Info(NoValue, 1, n, d)
  BY DEF Constant, n
<1> QED BY <1>2, <1>5, <1>6, <1>7, <1>8, ClaimConstant DEF Right

\* A run moved by a constant.
LEMMA ShiftedSound ==
  ASSUME NEW a, NEW b, NEW v, NEW w, Right(a, v), Right(b, w),
         a.continuity > 1, b.constancy > 1, NEW r \in Vectors,
         \A i, j \in Index : w[i] = w[j] => r[i] - r[j] = v[i] - v[j],
         \A i \in Index, g \in Nat : Divides(g, v[i]) /\ Divides(g, w[i]) => Divides(g, r[i])
  PROVE  Right(Shifted(a, b), r)
<1> DEFINE c == Gcd({a.continuity, b.constancy})
           d == Gcd({c, a.divisibility, b.divisibility})
<1>1. /\ a.continuity \in Nat \ {0} /\ b.constancy \in Nat \ {0}
      /\ a.divisibility \in Nat /\ b.divisibility \in Nat
      /\ a.constancy = 1 /\ b.continuity = 1
  BY ClaimTypes, OneKind DEF Right
<1>2. c \in Nat \ {0} /\ Divides(c, a.continuity) /\ Divides(c, b.constancy)
  BY <1>1, GcdOfTwo
<1> HIDE DEF c
<1>3. d \in Nat /\ Divides(d, c) /\ Divides(d, a.divisibility) /\ Divides(d, b.divisibility)
  <2>1. {c, a.divisibility, b.divisibility} \in SUBSET Nat /\ c > 0
    BY <1>1, <1>2
  <2> QED BY <2>1, GcdOf
<1> HIDE DEF d
<1>4. Repeats(w, c) /\ \A i \in Index : Divides(b.divisibility, w[i])
  BY <1>1, <1>2, ConstantSays, RepeatsWithin DEF Right
<1>5. Contiguous(v, c)
  BY <1>1, <1>2, ContiguousWithin DEF Right, Describes
<1>6. Divides(c, Extent)
  <2>1. Divides(a.continuity, Extent)
    BY DEF Right, Describes
  <2>2. Extent \in Int
    BY Indices
  <2> QED BY <2>1, <2>2, <1>1, <1>2, DividesTrans
<1>7. Contiguous(r, c)
  <2> SUFFICES ASSUME NEW i \in Index, NEW j \in Index, i \div c = j \div c PROVE r[i] - r[j] = i - j
    BY DEF Contiguous
  <2>1. w[i] = w[j] /\ v[i] - v[j] = i - j
    BY <1>4, <1>5 DEF Repeats, Contiguous
  <2> QED BY <2>1
<1>8. BegunBy(r, c, d)
  <2> SUFFICES ASSUME NEW i \in Index, i % c = 0 PROVE Divides(d, r[i])
    BY DEF BegunBy
  <2>1. v[i] \in Int /\ w[i] \in Int /\ i \in Int
    BY Indices DEF Right, Vectors
  <2>2. Divides(c, i)
    BY <1>2 DEF Divides
  <2>3. Divides(d, i)
    BY <2>1, <2>2, <1>2, <1>3, DividesTrans
  <2>4. Divides(d, a.continuity)
    BY <1>1, <1>2, <1>3, DividesTrans
  <2>5. Divides(d, v[i] - i)
    BY <2>4, <1>1, <1>3, RunSays DEF Right
  <2>6. Divides(d, v[i])
    <3>1. v[i] - i \in Int /\ (v[i] - i) + i = v[i]
      BY <2>1
    <3>2. Divides(d, (v[i] - i) + i)
      BY <3>1, <2>1, <2>3, <2>5, <1>3, SumDivides
    <3> QED BY <3>1, <3>2
  <2>7. Divides(d, w[i])
    <3>1. Divides(b.divisibility, w[i])
      BY <1>4
    <3> QED BY <3>1, <2>1, <1>1, <1>3, DividesTrans
  <2> QED BY <2>6, <2>7, <1>3
<1>9. Shifted(a, b) = Info(NoValue, c, 1, d)
  BY DEF Shifted, c, d
<1> QED BY <1>2, <1>3, <1>6, <1>7, <1>8, <1>9, ClaimContiguous DEF Right

LEMMA AddSound ==
  ASSUME NEW a, NEW b, NEW v, NEW w, Right(a, v), Right(b, w), NEW r \in Vectors,
         \A i \in Index : r[i] = v[i] + w[i]
  PROVE  Right(Add(a, b), r)
<1>1. \A i \in Index : v[i] \in Int /\ w[i] \in Int
  BY DEF Right, Vectors
<1>2. \A i \in Index, g \in Nat : Divides(g, v[i]) /\ Divides(g, w[i]) => Divides(g, r[i])
  BY <1>1, SumDivides
<1>3. \A i, j \in Index : w[i] = w[j] => r[i] - r[j] = v[i] - v[j]
  BY <1>1
<1>4. \A i, j \in Index : v[i] = v[j] => r[i] - r[j] = w[i] - w[j]
  BY <1>1
<1>5. CASE BothConstant(a, b)
  <2> DEFINE d == Gcd({a.divisibility, b.divisibility})
  <2>1. a.divisibility \in Nat /\ b.divisibility \in Nat
    BY ClaimTypes DEF Right
  <2>2. d \in Nat /\ Divides(d, a.divisibility) /\ Divides(d, b.divisibility)
    BY <2>1, GcdOfTwo
  <2> HIDE DEF d
  <2>3. ASSUME NEW i \in Index, Divides(a.divisibility, v[i]), Divides(b.divisibility, w[i])
        PROVE  Divides(d, r[i])
    <3>1. Divides(d, v[i]) /\ Divides(d, w[i])
      BY <2>1, <2>2, <2>3, <1>1, DividesTrans
    <3> QED BY <3>1, <2>2, <1>2
  <2>4. \A i, j \in Index : v[i] = v[j] /\ w[i] = w[j] => r[i] = r[j]
    OBVIOUS
  <2>5. Right(Constant(a, b, d), r)
    BY <2>2, <2>3, <2>4, <1>5, BothSound
  <2> QED BY <2>5, <1>5 DEF Add, d
<1>6. CASE ~BothConstant(a, b) /\ a.continuity > 1 /\ b.constancy > 1
  <2>1. Right(Shifted(a, b), r)
    BY <1>2, <1>3, <1>6, ShiftedSound
  <2> QED BY <2>1, <1>6 DEF Add
<1>7. CASE ~BothConstant(a, b) /\ ~(a.continuity > 1 /\ b.constancy > 1)
           /\ a.constancy > 1 /\ b.continuity > 1
  <2>1. Right(Shifted(b, a), r)
    BY <1>2, <1>4, <1>7, ShiftedSound
  <2> QED BY <2>1, <1>7 DEF Add
<1>8. CASE ~BothConstant(a, b) /\ ~(a.continuity > 1 /\ b.constancy > 1)
           /\ ~(a.constancy > 1 /\ b.continuity > 1)
  <2>1. Right(AnyInfo, r)
    BY ClaimNothing DEF Right
  <2> QED BY <2>1, <1>8 DEF Add
<1> QED BY <1>5, <1>6, <1>7, <1>8

\* The difference of a claim and one that does not run.
LEMMA SubtractSound ==
  ASSUME NEW a, NEW b, NEW v, NEW w, Right(a, v), Right(b, w), NEW r \in Vectors,
         \A i \in Index : r[i] = v[i] - w[i], ~(b.continuity > 1)
  PROVE  Right(Subtract(a, b), r)
<1>1. \A i \in Index : v[i] \in Int /\ w[i] \in Int
  BY DEF Right, Vectors
<1>2. \A i \in Index, g \in Nat : Divides(g, v[i]) /\ Divides(g, w[i]) => Divides(g, r[i])
  BY <1>1, SumDivides
<1>3. \A i, j \in Index : w[i] = w[j] => r[i] - r[j] = v[i] - v[j]
  BY <1>1
<1>5. CASE BothConstant(a, b)
  <2> DEFINE d == Gcd({a.divisibility, b.divisibility})
  <2>1. a.divisibility \in Nat /\ b.divisibility \in Nat
    BY ClaimTypes DEF Right
  <2>2. d \in Nat /\ Divides(d, a.divisibility) /\ Divides(d, b.divisibility)
    BY <2>1, GcdOfTwo
  <2> HIDE DEF d
  <2>3. ASSUME NEW i \in Index, Divides(a.divisibility, v[i]), Divides(b.divisibility, w[i])
        PROVE  Divides(d, r[i])
    <3>1. Divides(d, v[i]) /\ Divides(d, w[i])
      BY <2>1, <2>2, <2>3, <1>1, DividesTrans
    <3> QED BY <3>1, <2>2, <1>2
  <2>4. \A i, j \in Index : v[i] = v[j] /\ w[i] = w[j] => r[i] = r[j]
    OBVIOUS
  <2>5. Right(Constant(a, b, d), r)
    BY <2>2, <2>3, <2>4, <1>5, BothSound
  <2> QED BY <2>5, <1>5 DEF Subtract, Add, d
<1>6. CASE ~BothConstant(a, b) /\ a.continuity > 1 /\ b.constancy > 1
  <2>1. Right(Shifted(a, b), r)
    BY <1>2, <1>3, <1>6, ShiftedSound
  <2> QED BY <2>1, <1>6 DEF Subtract, Add
<1>7. CASE ~BothConstant(a, b) /\ ~(a.continuity > 1 /\ b.constancy > 1)
  <2>1. Right(AnyInfo, r)
    BY ClaimNothing DEF Right
  <2> QED BY <2>1, <1>7 DEF Subtract, Add
<1> QED BY <1>5, <1>6, <1>7

\* All values of a claim that is constant somewhere are multiples.
LEMMA ConstantDivides ==
  ASSUME NEW a, NEW v, Right(a, v), a.constancy > 1, NEW i \in Index
  PROVE  v[i] \in Int /\ a.divisibility \in Nat /\ Divides(a.divisibility, v[i])
<1>1. a.continuity = 1
  BY ClaimTypes, OneKind DEF Right
<1> QED BY <1>1, ClaimTypes, ConstantSays DEF Right, Vectors

LEMMA TimesSound ==
  ASSUME NEW a, NEW b, NEW v, NEW w, Right(a, v), Right(b, w), NEW r \in Vectors,
         \A i \in Index : r[i] = v[i] * w[i]
  PROVE  Right(Times(a, b), r)
<1>1. \A i \in Index : v[i] \in Int /\ w[i] \in Int
  BY DEF Right, Vectors
<1>2. a.divisibility \in Nat /\ b.divisibility \in Nat
  BY ClaimTypes DEF Right
<1>3. CASE BothConstant(a, b)
  <2>1. ASSUME NEW i \in Index, Divides(a.divisibility, v[i]), Divides(b.divisibility, w[i])
        PROVE  Divides(a.divisibility * b.divisibility, r[i])
    <3>1. v[i] \in Int /\ w[i] \in Int
      BY <1>1
    <3>2. Divides(a.divisibility * b.divisibility, v[i] * w[i])
      BY <2>1, <3>1, <1>2, ProductDivides
    <3> QED BY <3>2
  <2>2. \A i, j \in Index : v[i] = v[j] /\ w[i] = w[j] => r[i] = r[j]
    OBVIOUS
  <2>3. a.divisibility * b.divisibility \in Nat
    BY <1>2
  <2>4. Right(Constant(a, b, a.divisibility * b.divisibility), r)
    BY <2>1, <2>2, <2>3, <1>3, BothSound
  <2> QED BY <2>4, <1>3 DEF Times
<1>4. CASE ~BothConstant(a, b) /\ a.constancy > 1 /\ b.continuity > 1
  <2>1. \A i \in Index : Divides(a.divisibility, v[i] * w[i])
    BY <1>1, <1>4, ConstantDivides, DividesMultiple
  <2>2. Right(Info(NoValue, 1, 1, a.divisibility), r)
    BY <2>1, <1>2, ClaimDivisor DEF Right
  <2> QED BY <2>2, <1>4 DEF Times
<1>5. CASE ~BothConstant(a, b) /\ ~(a.constancy > 1 /\ b.continuity > 1)
           /\ a.continuity > 1 /\ b.constancy > 1
  <2>1. \A i \in Index : Divides(b.divisibility, v[i] * w[i])
    BY <1>1, <1>5, ConstantDivides, DividesMultiple
  <2>2. Right(Info(NoValue, 1, 1, b.divisibility), r)
    BY <2>1, <1>2, ClaimDivisor DEF Right
  <2> QED BY <2>2, <1>5 DEF Times
<1>6. CASE ~BothConstant(a, b) /\ ~(a.constancy > 1 /\ b.continuity > 1)
           /\ ~(a.continuity > 1 /\ b.constancy > 1)
  <2>1. Right(AnyInfo, r)
    BY ClaimNothing DEF Right
  <2> QED BY <2>1, <1>6 DEF Times
<1> QED BY <1>3, <1>4, <1>5, <1>6

\* What a known positive divisor that splits the segments says.
LEMMA SplitSays ==
  ASSUME NEW a, NEW b, NEW v, NEW w, Right(a, v), Right(b, w), SplitsAt(a, b),
         \A i \in Index : w[i] > 0
  PROVE  /\ b.value \in Nat \ {0} /\ \A i \in Index : w[i] = b.value
         /\ Divides(b.value, a.continuity) /\ Divides(b.value, a.divisibility)
         /\ Divides(b.value, Extent)
<1>1. b.value \in Int /\ \A i \in Index : w[i] = b.value
  BY ClaimTypes DEF SplitsAt, Right, Describes
<1>2. b.value \in Nat \ {0}
  BY <1>1, Indices
<1>3. Divides(b.value, a.continuity) /\ Divides(b.value, a.divisibility)
  BY <1>2 DEF SplitsAt, Divides
<1>4. Divides(b.value, Extent)
  <2>1. a.continuity \in Nat /\ Divides(a.continuity, Extent) /\ Extent \in Int
    BY ClaimTypes, Indices DEF Right, Describes
  <2> QED BY <2>1, <1>2, <1>3, DividesTrans
<1> QED BY <1>1, <1>2, <1>3, <1>4

LEMMA FloorDivSound ==
  ASSUME NEW a, NEW b, NEW v, NEW w, Right(a, v), Right(b, w), NEW r \in Vectors,
         \A i \in Index : w[i] > 0 /\ r[i] = v[i] \div w[i],
         ~(SplitsAt(a, b) /\ a.continuity > b.value)
  PROVE  Right(FloorDiv(a, b), r)
<1>0. \A i \in Index : v[i] \in Int /\ w[i] \in Int
  BY DEF Right, Vectors
<1>1. CASE SplitsAt(a, b)
  <2>1. PICK k \in Nat \ {0} :
          /\ k = b.value /\ \A i \in Index : w[i] = k
          /\ Divides(k, a.continuity) /\ Divides(k, a.divisibility) /\ Divides(k, Extent)
    BY <1>1, SplitSays
  <2>2. a.continuity = k
    <3>1. a.continuity \in Nat \ {0}
      BY ClaimTypes DEF Right
    <3>2. k <= a.continuity
      BY <2>1, <3>1, DivisorBelow
    <3> QED BY <2>1, <3>1, <3>2, <1>1
  <2>3. PICK p \in Nat : a.divisibility = p * k /\ a.divisibility \div k = p
    <3>1. a.divisibility \in Nat /\ a.divisibility \in Int
      BY ClaimTypes DEF Right
    <3>2. PICK p \in Int : a.divisibility = p * k
      BY <2>1, <3>1, DividesIs
    <3>3. p >= 0
      <4> SUFFICES ASSUME p < 0 PROVE FALSE
        BY <3>2
      <4>1. (p + 1) * k <= 0 * k
        BY Monotone
      <4>2. (p + 1) * k = p * k + k /\ p * k \in Int /\ 0 * k = 0
        OBVIOUS
      <4> QED BY <4>1, <4>2, <3>1, <3>2
    <3>4. a.divisibility = 0 + p * k /\ 0 \in 0 .. k - 1
      BY <3>1, <3>2
    <3>5. a.divisibility \div k = p
      BY <3>1, <3>4, QuotientIs
    <3> QED BY <3>2, <3>3, <3>5
  <2>4. ASSUME NEW i \in Index, Divides(a.divisibility, v[i]) PROVE Divides(p, r[i])
    <3>1. PICK q \in Int : v[i] = q * (p * k)
      BY <2>3, <2>4, <1>0, ClaimTypes, DividesIs DEF Right
    <3>2. v[i] = 0 + (q * p) * k /\ q * p \in Int /\ 0 \in 0 .. k - 1
      BY <3>1
    <3>3. v[i] \div k = q * p
      BY <3>2, <1>0, QuotientIs
    <3>4. r[i] = q * p
      BY <3>3, <2>1
    <3> QED BY <3>2, <3>4, DividesIs
  <2>5. CASE k = 1
    <3>1. \A i \in Index : Divides(a.divisibility, v[i])
      BY <2>2, <2>5, ConstantSays DEF Right
    <3>2. \A i \in Index : Divides(p, r[i])
      BY <3>1, <2>4
    <3>3. Right(Info(NoValue, 1, k, p), r)
      BY <3>2, <2>5, ClaimDivisor DEF Right
    <3> QED BY <3>3, <2>1, <2>3, <1>1 DEF FloorDiv
  <2>6. CASE k # 1
    <3>1. a.constancy = 1 /\ a.continuity \in Nat \ {0} /\ a.divisibility \in Nat
      BY <2>2, <2>6, OneKind, ClaimTypes DEF Right
    <3>2. Contiguous(v, k) /\ BegunBy(v, k, a.divisibility)
      <4>1. Max({a.continuity, a.constancy}) = k
        BY <3>1, <2>2, MaxOfTwo
      <4> QED BY <4>1, <2>2 DEF Right, Describes
    <3>3. \A i \in Index : Divides(k, v[i] - i)
      BY <3>1, <2>1, RunSays DEF Right
    <3>4. Repeats(r, k)
      <4> SUFFICES ASSUME NEW i \in Index, NEW j \in Index, i \div k = j \div k PROVE r[i] = r[j]
        BY DEF Repeats
      <4>1. v[i] \div k = v[j] \div k
        BY <3>2, <3>3, RunQuotient DEF Right
      <4> QED BY <4>1, <2>1
    <3>5. BegunBy(r, k, p)
      BY <3>2, <2>4 DEF BegunBy
    <3>6. Right(Info(NoValue, 1, k, p), r)
      BY <3>4, <3>5, <2>1, ClaimConstant DEF Right
    <3> QED BY <3>6, <2>1, <2>3, <1>1 DEF FloorDiv
  <2> QED BY <2>5, <2>6
<1>2. CASE ~SplitsAt(a, b) /\ BothConstant(a, b)
  <2>1. \A i \in Index : Divides(1, r[i])
    BY DividesSelf DEF Vectors, Divides
  <2>2. \A i, j \in Index : v[i] = v[j] /\ w[i] = w[j] => r[i] = r[j]
    OBVIOUS
  <2>3. Right(Constant(a, b, 1), r)
    BY <2>1, <2>2, <1>2, BothSound
  <2> QED BY <2>3, <1>2 DEF FloorDiv
<1>3. CASE ~SplitsAt(a, b) /\ ~BothConstant(a, b)
  <2>1. Right(AnyInfo, r)
    BY ClaimNothing DEF Right
  <2> QED BY <2>1, <1>3 DEF FloorDiv
<1> QED BY <1>1, <1>2, <1>3

LEMMA ModuloSound ==
  ASSUME NEW a, NEW b, NEW v, NEW w, Right(a, v), Right(b, w), NEW r \in Vectors,
         \A i \in Index : w[i] > 0 /\ r[i] = v[i] % w[i]
  PROVE  Right(Modulo(a, b), r)
<1>0. \A i \in Index : v[i] \in Int /\ w[i] \in Int
  BY DEF Right, Vectors
<1>1. CASE b.value = 1
  <2> DEFINE c == Info(0, 1, b.constancy, 0)
  <2>1. \A i \in Index : r[i] = 0
    <3>1. \A i \in Index : w[i] = 1
      BY <1>1, Indices DEF Right, Describes
    <3> QED BY <3>1, <1>0
  <2>2. /\ c.value = 0 /\ c.continuity = 1 /\ c.constancy = b.constancy /\ c.divisibility = 0
        /\ c \in Claims
    BY ClaimTypes, InfoIs DEF Right
  <2> HIDE DEF c
  <2>3. Divides(1, Extent) /\ Divides(b.constancy, Extent)
    BY DividesSelf, Indices DEF Right, Describes, Divides
  <2>4. Contiguous(r, 1) /\ Repeats(r, b.constancy)
    BY <2>1, Singles DEF Repeats
  <2>5. BegunBy(r, Max({1, b.constancy}), 0)
    BY <2>1 DEF BegunBy, Divides
  <2>6. Describes(c, r)
    BY <2>1, <2>2, <2>3, <2>4, <2>5 DEF Describes
  <2> QED BY <2>2, <2>6, <1>1 DEF Modulo, Right, c
<1>2. CASE b.value # 1 /\ SplitsAt(a, b)
  <2>1. PICK k \in Nat \ {0} :
          /\ k = b.value /\ \A i \in Index : w[i] = k
          /\ Divides(k, a.continuity) /\ Divides(k, a.divisibility) /\ Divides(k, Extent)
    BY <1>2, SplitSays
  <2>2. a.constancy = 1 /\ a.continuity \in Nat \ {0} /\ a.divisibility \in Nat
    <3>1. a.continuity \in Nat \ {0} /\ a.divisibility \in Nat
      BY ClaimTypes DEF Right
    <3>2. k <= a.continuity
      BY <2>1, <3>1, DivisorBelow
    <3>3. a.continuity # 1
      BY <1>2, <2>1, <3>1, <3>2
    <3> QED BY <3>1, <3>3, OneKind DEF Right
  <2>3. \A i \in Index : r[i] = i % k
    <3> SUFFICES ASSUME NEW i \in Index PROVE r[i] = i % k
      OBVIOUS
    <3>1. Divides(k, v[i] - i)
      BY <2>1, <2>2, RunSays DEF Right
    <3>2. v[i] \in Int /\ i \in Int
      BY <1>0, Indices
    <3>3. v[i] % k = i % k
      BY <3>1, <3>2, RunModulo
    <3> QED BY <3>3, <2>1
  <2>4. Contiguous(r, k)
    <3> SUFFICES ASSUME NEW i \in Index, NEW j \in Index, i \div k = j \div k
                 PROVE  r[i] - r[j] = i - j
      BY DEF Contiguous
    <3>0. i \in Int /\ j \in Int
      BY Indices
    <3>1. PICK p \in Int, x \in 0 .. k - 1 : i \div k = p /\ i % k = x /\ i = x + p * k
      BY <3>0, Divided
    <3>2. PICK q \in Int, y \in 0 .. k - 1 : j \div k = q /\ j % k = y /\ j = y + q * k
      BY <3>0, Divided
    <3>3. p = q /\ r[i] = x /\ r[j] = y
      BY <3>1, <3>2, <2>3
    <3>4. p * k \in Int /\ p * k = q * k
      BY <3>3
    <3> QED BY <3>1, <3>2, <3>3, <3>4
  <2>5. BegunBy(r, k, 0)
    BY <2>3 DEF BegunBy, Divides
  <2>6. Right(Info(NoValue, k, 1, 0), r)
    BY <2>1, <2>4, <2>5, ClaimContiguous DEF Right
  <2> QED BY <2>6, <2>1, <1>2 DEF Modulo
<1>3. CASE b.value # 1 /\ ~SplitsAt(a, b) /\ BothConstant(a, b)
  <2>1. \A i \in Index : Divides(1, r[i])
    BY DividesSelf DEF Vectors, Divides
  <2>2. \A i, j \in Index : v[i] = v[j] /\ w[i] = w[j] => r[i] = r[j]
    OBVIOUS
  <2>3. Right(Constant(a, b, 1), r)
    BY <2>1, <2>2, <1>3, BothSound
  <2> QED BY <2>3, <1>3 DEF Modulo
<1>4. CASE b.value # 1 /\ ~SplitsAt(a, b) /\ ~BothConstant(a, b)
  <2>1. Right(AnyInfo, r)
    BY ClaimNothing DEF Right
  <2> QED BY <2>1, <1>4 DEF Modulo
<1> QED BY <1>1, <1>2, <1>3, <1>4

\* A multiple is at most x when it is at most the multiple below x.
LEMMA MultipleBelow ==
  ASSUME NEW x \in Int, NEW c \in Int, NEW g \in Nat \ {0}
  PROVE  c * g <= x <=> c <= x \div g
<1>1. PICK q \in Int, s \in 0 .. g - 1 : x \div g = q /\ x = s + q * g
  BY Divided
<1>2. CASE c <= q
  <2>1. c * g <= q * g
    BY <1>2, Monotone
  <2>2. c * g \in Int /\ q * g \in Int
    OBVIOUS
  <2> QED BY <2>1, <2>2, <1>1, <1>2
<1>3. CASE q < c
  <2>1. (q + 1) * g <= c * g
    BY <1>3, Monotone
  <2>2. (q + 1) * g = q * g + g /\ c * g \in Int /\ q * g \in Int
    OBVIOUS
  <2> QED BY <2>1, <2>2, <1>1, <1>3
<1> QED BY <1>2, <1>3

\* Whether a run has reached a constant does not change within a common divisor.
LEMMA AgainstSound ==
  ASSUME NEW a, NEW b, NEW v, NEW w, Right(a, v), Right(b, w),
         a.constancy > 1, ~(b.constancy > 1), NEW r \in Vectors,
         \A i, j \in Index : (v[i] <= w[i] <=> v[j] <= w[j]) => r[i] = r[j]
  PROVE  Right(Info(NoValue, 1, AgainstConstant(a, b), 1), r)
<1> DEFINE g == AgainstConstant(a, b)
<1>1. /\ a.constancy \in Nat \ {0} /\ a.divisibility \in Nat /\ b.continuity \in Nat \ {0}
      /\ b.divisibility \in Nat /\ b.constancy = 1
  BY ClaimTypes DEF Right
<1>2. /\ g \in Nat \ {0} /\ Divides(g, a.constancy) /\ Divides(g, a.divisibility)
      /\ Divides(g, b.continuity) /\ Divides(g, b.divisibility)
  <2>1. {a.constancy, a.divisibility, b.continuity, b.divisibility} \in SUBSET Nat /\ a.constancy > 0
    BY <1>1
  <2> QED BY <2>1, GcdOf DEF AgainstConstant
<1> HIDE DEF g
<1>3. Repeats(v, g)
  BY <1>1, <1>2, RepeatsWithin DEF Right, Describes
<1>4. Contiguous(w, g)
  BY <1>1, <1>2, ContiguousWithin DEF Right, Describes
<1>5. Divides(g, Extent)
  <2>1. Divides(a.constancy, Extent) /\ Extent \in Int
    BY Indices DEF Right, Describes
  <2> QED BY <2>1, <1>1, <1>2, DividesTrans
<1>6. Repeats(r, g)
  <2> SUFFICES ASSUME NEW i \in Index, NEW j \in Index, i \div g = j \div g PROVE r[i] = r[j]
    BY DEF Repeats
  <2>1. /\ v[i] \in Int /\ w[i] \in Int /\ w[j] \in Int
        /\ v[i] = v[j]
    BY <1>3 DEF Right, Vectors, Repeats
  <2>2. Divides(g, v[i])
    <3>1. Divides(a.divisibility, v[i])
      BY ConstantDivides
    <3> QED BY <3>1, <2>1, <1>1, <1>2, DividesTrans
  <2>3. PICK c \in Int : v[i] = c * g
    BY <2>1, <2>2, <1>2, DividesIs
  <2>4. Divides(g, w[i] - i) /\ Divides(g, w[j] - j)
    BY <1>1, <1>2, RunSays DEF Right
  <2>5. w[i] \div g = w[j] \div g
    BY <1>4, <2>4, <1>2, RunQuotient DEF Right
  <2>6. (c * g <= w[i] <=> c <= w[i] \div g) /\ (c * g <= w[j] <=> c <= w[j] \div g)
    BY <1>2, <2>1, MultipleBelow
  <2> QED BY <2>1, <2>3, <2>5, <2>6
<1>7. BegunBy(r, g, 1)
  BY DEF BegunBy, Vectors, Divides
<1> QED BY <1>2, <1>5, <1>6, <1>7, ClaimConstant DEF Right, g

LEMMA CompareSound ==
  ASSUME NEW a, NEW b, NEW v, NEW w, Right(a, v), Right(b, w), NEW r \in Vectors,
         \A i, j \in Index : v[i] = v[j] /\ w[i] = w[j] => r[i] = r[j],
         ~BothConstant(a, b) /\ a.constancy > 1
           => \A i, j \in Index : (v[i] <= w[i] <=> v[j] <= w[j]) => r[i] = r[j],
         ~BothConstant(a, b) /\ b.constancy > 1
           => \A i, j \in Index : (w[i] <= v[i] <=> w[j] <= v[j]) => r[i] = r[j]
  PROVE  Right(Compare(a, b), r)
<1>1. CASE BothConstant(a, b)
  <2>1. \A i \in Index : Divides(1, r[i])
    BY DEF Vectors, Divides
  <2>2. Right(Constant(a, b, 1), r)
    BY <2>1, <1>1, BothSound
  <2> QED BY <2>2, <1>1 DEF Compare
<1>2. CASE ~BothConstant(a, b) /\ a.constancy > 1
  <2>1. ~(b.constancy > 1)
    BY <1>2 DEF BothConstant
  <2>2. Right(Info(NoValue, 1, AgainstConstant(a, b), 1), r)
    BY <2>1, <1>2, AgainstSound
  <2> QED BY <2>2, <1>2 DEF Compare
<1>3. CASE ~BothConstant(a, b) /\ ~(a.constancy > 1) /\ b.constancy > 1
  <2>1. Right(Info(NoValue, 1, AgainstConstant(b, a), 1), r)
    BY <1>3, AgainstSound
  <2> QED BY <2>1, <1>3 DEF Compare
<1>4. CASE ~BothConstant(a, b) /\ ~(a.constancy > 1) /\ ~(b.constancy > 1)
  <2>1. Right(AnyInfo, r)
    BY ClaimNothing DEF Right
  <2> QED BY <2>1, <1>4 DEF Compare
<1> QED BY <1>1, <1>2, <1>3, <1>4

LEMMA AndSound ==
  ASSUME NEW a, NEW b, NEW v, NEW w, Right(a, v), Right(b, w), NEW r \in Vectors,
         \A i, j \in Index : v[i] = v[j] /\ w[i] = w[j] => r[i] = r[j]
  PROVE  Right(Both(a, b), r)
<1>1. \A i \in Index : Divides(1, r[i])
  BY DEF Vectors, Divides
<1>2. CASE BothConstant(a, b)
  BY <1>1, <1>2, BothSound DEF Both
<1>3. CASE ~BothConstant(a, b)
  BY <1>3, ClaimNothing DEF Both, Right
<1> QED BY <1>2, <1>3

-----------------------------------------------------------------------------
(* Exclusive or. *)

\* The values of a vector that are not negative.
Unsigned == 0 .. MaxValue

LEMMA LowBits ==
  ASSUME NEW x \in Unsigned, NEW y \in Unsigned,
         NEW p \in Nat \ {0}, IsPowerOfTwo(p), Divides(p, y)
  PROVE  KeepsLowBits(x, y, p) /\ BitXor(x, y) \in Nat
<1>1. BitXor(x, y) \in Nat
  BY XorAssumption DEF Unsigned
<1>2. CASE p <= MaxValue
  <2>1. p \in {n \in 1..MaxValue : IsPowerOfTwo(n)}
    BY <1>2, Indices
  <2>2. y \in {n \in 0..MaxValue : Divides(p, n)}
    BY DEF Unsigned
  <2> QED BY <2>1, <2>2, <1>1, XorAssumption DEF Unsigned
<1>3. CASE p > MaxValue
  <2>1. x \in Nat /\ y \in Nat /\ x < p /\ y < p /\ 0 \in 0 .. MaxValue
    BY <1>3, Indices DEF Unsigned
  <2>2. y = 0
    <3> SUFFICES ASSUME y # 0 PROVE FALSE
      OBVIOUS
    <3>1. p <= y
      BY <2>1, DivisorBelow
    <3> QED BY <2>1, <3>1
  <2>3. x % p = x
    <3>1. x = x + 0 * p /\ x \in 0 .. p - 1
      BY <2>1
    <3> QED BY <2>1, <3>1, QuotientIs
  <2>4. BitXor(x, 0) = x /\ BitXor(0, 0) = 0
    BY <2>1, XorAssumption DEF Unsigned
  <2>5. x - (x % p) = 0
    BY <2>1, <2>3
  <2>6. Divides(p, 0)
    BY DividesSelf
  <2>7. BitXor(x, y) = BitXor(x - (x % p), y) + (x % p)
    BY <2>1, <2>2, <2>3, <2>4, <2>5
  <2> QED BY <2>2, <2>4, <2>5, <2>6, <2>7, <1>1 DEF KeepsLowBits
<1> QED BY <1>2, <1>3, Indices

\* Combined with a multiple, numbers of one segment keep their distance.
LEMMA XorRun ==
  ASSUME NEW x \in Unsigned, NEW z \in Unsigned, NEW y \in Unsigned,
         NEW p \in Nat \ {0}, IsPowerOfTwo(p), Divides(p, y), x \div p = z \div p
  PROVE  BitXor(x, y) - BitXor(z, y) = x - z
<1>0. x \in Int /\ z \in Int
  BY DEF Unsigned
<1>1. PICK q \in Int, s \in 0 .. p - 1 : x \div p = q /\ x % p = s /\ x = s + q * p
  BY <1>0, Divided
<1>2. PICK k \in Int, t \in 0 .. p - 1 : z \div p = k /\ z % p = t /\ z = t + k * p
  BY <1>0, Divided
<1>3. q * p \in Int /\ x - s = q * p /\ z - t = q * p
  BY <1>1, <1>2
<1>4. BitXor(x, y) = BitXor(q * p, y) + s /\ BitXor(x, y) \in Nat
  BY <1>1, <1>3, LowBits DEF KeepsLowBits
<1>5. BitXor(z, y) = BitXor(q * p, y) + t /\ BitXor(z, y) \in Nat
  BY <1>2, <1>3, LowBits DEF KeepsLowBits
<1>6. BitXor(q * p, y) \in Int
  <2>1. q * p \in Unsigned
    <3>1. q * p <= x
      BY <1>1, <1>3
    <3>2. q * p >= 0
      <4> SUFFICES ASSUME q < 0 PROVE FALSE
        BY <1>3
      <4>1. (q + 1) * p <= 0 * p
        BY Monotone
      <4>2. (q + 1) * p = q * p + p /\ 0 * p = 0 /\ q * p \in Int
        OBVIOUS
      <4> QED BY <4>1, <4>2, <1>1 DEF Unsigned
    <3> QED BY <3>1, <3>2, <1>3, Indices DEF Unsigned
  <2> QED BY <2>1, LowBits
<1>7. PICK e \in Int : e = BitXor(q * p, y)
  BY <1>6
<1>8. BitXor(x, y) - BitXor(z, y) = s - t /\ x - z = s - t
  BY <1>1, <1>2, <1>3, <1>4, <1>5, <1>7
<1> QED BY <1>8

LEMMA XorDivides ==
  ASSUME NEW x \in Unsigned, NEW y \in Unsigned,
         NEW p \in Nat \ {0}, IsPowerOfTwo(p), Divides(p, x), Divides(p, y)
  PROVE  Divides(p, BitXor(x, y))
<1>1. x % p = 0 /\ x - (x % p) = x
  BY DEF Divides, Unsigned
<1> QED BY <1>1, LowBits DEF KeepsLowBits

LEMMA PowerIsEven ==
  ASSUME NEW n \in Nat, IsPowerOfTwo(n), n # 1
  PROVE  Divides(2, n)
<1>1. n \in 2 .. n
  BY DEF IsPowerOfTwo
<1>2. n % n = 0
  <2>1. Divides(n, n)
    BY DividesSelf
  <2> QED BY <2>1, <1>1 DEF Divides
<1> QED BY <1>1, <1>2 DEF IsPowerOfTwo, Divides

\* The low bits of a run are kept, the others combined with those of a constant.
LEMMA FlippedSound ==
  ASSUME NEW a, NEW b, NEW v, NEW w, Right(a, v), Right(b, w), Flips(a, b),
         NEW r \in Vectors,
         \A i \in Index : v[i] \in Unsigned /\ w[i] \in Unsigned /\ r[i] = BitXor(v[i], w[i]),
         Flipped(a, b).continuity > 1 =>
           /\ Gcd({a.divisibility, b.divisibility}) % Flipped(a, b).continuity = 0
           /\ b.constancy = Extent
  PROVE  Right(Flipped(a, b), r)
<1> DEFINE c == Gcd({a.continuity, b.constancy, b.divisibility})
           d == Gcd({a.divisibility, b.divisibility})
<1>1. /\ a.continuity \in Nat \ {0} /\ b.constancy \in Nat \ {0}
      /\ a.divisibility \in Nat /\ b.divisibility \in Nat \ {0}
      /\ a.constancy = 1 /\ b.continuity = 1
      /\ IsPowerOfTwo(a.continuity) /\ IsPowerOfTwo(b.constancy) /\ IsPowerOfTwo(b.divisibility)
      /\ a.continuity > 1 /\ b.constancy > 1
  BY ClaimTypes, OneKind DEF Right, Flips, IsPowerOfTwo
<1>2. /\ c \in Nat \ {0} /\ Divides(c, a.continuity) /\ Divides(c, b.constancy) /\ Divides(c, b.divisibility)
      /\ \A k \in Nat : Divides(k, a.continuity) /\ Divides(k, b.constancy) /\ Divides(k, b.divisibility)
                        => k <= c
  <2>1. {a.continuity, b.constancy, b.divisibility} \in SUBSET Nat /\ a.continuity > 0
    BY <1>1
  <2> QED BY <2>1, GcdOf
<1>3. d \in Nat \ {0} /\ Divides(d, a.divisibility) /\ Divides(d, b.divisibility)
  BY <1>1, GcdOfTwo
<1>4. Flipped(a, b) = Info(NoValue, c, 1, d)
  BY DEF Flipped
<1>5. c > 1 => d % c = 0 /\ b.constancy = Extent
  BY <1>4, InfoIs
<1> HIDE DEF c, d
<1>6. IsPowerOfTwo(c) /\ IsPowerOfTwo(d)
  BY <1>1, <1>2, <1>3, PowerDivisor
<1>7. Divides(c, Extent) /\ Divides(a.continuity, Extent) /\ Extent \in Int
  <2>1. Divides(a.continuity, Extent) /\ Extent \in Int
    BY Indices DEF Right, Describes
  <2> QED BY <2>1, <1>1, <1>2, DividesTrans
<1>8. \A i \in Index : /\ v[i] \in Int /\ w[i] \in Int /\ i \in Int
                       /\ Divides(b.divisibility, w[i])
  BY <1>1, ConstantDivides, Indices DEF Right, Vectors
<1>9. Repeats(w, c) /\ Contiguous(v, c)
  BY <1>1, <1>2, RepeatsWithin, ContiguousWithin DEF Right, Describes
<1>10. CASE c = 1
  <2>1. b.divisibility = 1
    <3> SUFFICES ASSUME b.divisibility # 1 PROVE FALSE
      OBVIOUS
    <3>1. Divides(2, a.continuity) /\ Divides(2, b.constancy) /\ Divides(2, b.divisibility)
      BY <1>1, PowerIsEven
    <3>2. 2 <= c
      BY <3>1, <1>2
    <3> QED BY <3>2, <1>10
  <2>2. d = 1
    <3>1. d <= 1
      BY <2>1, <1>3, DivisorBelow
    <3> QED BY <3>1, <1>3
  <2>3. Contiguous(r, c) /\ BegunBy(r, c, d)
    BY <1>10, <2>2, Singles, DividesSelf DEF BegunBy, Vectors, Divides
  <2> QED BY <2>3, <1>2, <1>3, <1>4, <1>7, ClaimContiguous DEF Right
<1>11. CASE c > 1
  <2>1. Divides(c, d)
    BY <1>2, <1>5, <1>11 DEF Divides
  <2>2. Divides(c, a.divisibility)
    BY <2>1, <1>1, <1>2, <1>3, DividesTrans
  <2>3. \A i \in Index : Divides(c, v[i] - i) /\ Divides(c, w[i])
    <3>1. \A i \in Index : Divides(c, v[i] - i)
      BY <2>2, <1>1, <1>2, RunSays DEF Right
    <3>2. \A i \in Index : Divides(c, w[i])
      BY <1>1, <1>2, <1>8, DividesTrans
    <3> QED BY <3>1, <3>2
  <2>4. Contiguous(r, c)
    <3> SUFFICES ASSUME NEW i \in Index, NEW j \in Index, i \div c = j \div c
                 PROVE  r[i] - r[j] = i - j
      BY DEF Contiguous
    <3>1. v[i] \div c = v[j] \div c
      BY <2>3, <1>2, <1>9, RunQuotient DEF Right
    <3>2. w[i] = w[j] /\ v[i] - v[j] = i - j
      BY <1>9 DEF Repeats, Contiguous
    <3>3. BitXor(v[i], w[i]) - BitXor(v[j], w[i]) = v[i] - v[j]
      BY <3>1, <2>3, <1>2, <1>6, XorRun
    <3> QED BY <3>2, <3>3
  <2>5. c = b.divisibility
    <3>1. Divides(b.divisibility, a.continuity)
      BY <1>1 DEF Flips, Divides
    <3>2. Divides(b.divisibility, b.constancy)
      BY <3>1, <1>1, <1>5, <1>7, <1>11, DividesTrans
    <3>3. b.divisibility <= c
      BY <3>1, <3>2, <1>1, <1>2, DividesSelf
    <3>4. c <= b.divisibility
      BY <1>1, <1>2, DivisorBelow
    <3> QED BY <3>3, <3>4, <1>1, <1>2
  <2>6. BegunBy(r, c, d)
    <3> SUFFICES ASSUME NEW i \in Index, i % c = 0 PROVE Divides(d, r[i])
      BY DEF BegunBy
    <3>1. Divides(d, c)
      BY <2>5, <1>3
    <3>2. Divides(c, i)
      BY <1>2 DEF Divides
    <3>3. Divides(d, i)
      BY <3>1, <3>2, <1>2, <1>3, <1>8, DividesTrans
    <3>4. Divides(d, a.continuity)
      BY <3>1, <1>1, <1>2, <1>3, DividesTrans
    <3>5. Divides(d, v[i] - i)
      BY <3>4, <1>1, <1>3, RunSays DEF Right
    <3>6. Divides(d, v[i])
      <4>1. v[i] - i \in Int /\ (v[i] - i) + i = v[i]
        BY <1>8
      <4>2. Divides(d, (v[i] - i) + i)
        BY <4>1, <3>3, <3>5, <1>3, <1>8, SumDivides
      <4> QED BY <4>1, <4>2
    <3>7. Divides(d, w[i])
      BY <1>1, <1>3, <1>8, DividesTrans
    <3>8. Divides(d, BitXor(v[i], w[i]))
      BY <3>6, <3>7, <1>3, <1>6, XorDivides
    <3> QED BY <3>8
  <2> QED BY <2>4, <2>6, <1>2, <1>3, <1>4, <1>7, ClaimContiguous DEF Right
<1> QED BY <1>2, <1>10, <1>11

LEMMA XoredSound ==
  ASSUME NEW a, NEW b, NEW v, NEW w, Right(a, v), Right(b, w), NEW r \in Vectors,
         \A i \in Index : v[i] \in Unsigned /\ w[i] \in Unsigned /\ r[i] = BitXor(v[i], w[i]),
         ~XorUnaligned(a, b)
  PROVE  Right(Xored(a, b), r)
<1>1. CASE BothConstant(a, b)
  <2>1. \A i \in Index : Divides(1, r[i])
    BY DEF Vectors, Divides
  <2>2. \A i, j \in Index : v[i] = v[j] /\ w[i] = w[j] => r[i] = r[j]
    OBVIOUS
  <2>3. Right(Constant(a, b, 1), r)
    BY <2>1, <2>2, <1>1, BothSound
  <2> QED BY <2>3, <1>1 DEF Xored
<1>2. CASE ~BothConstant(a, b) /\ Flips(a, b)
  <2>1. Xored(a, b) = Flipped(a, b)
    BY <1>2 DEF Xored
  <2>2. Max({a.constancy, b.constancy}) = b.constancy
    <3>1. a.constancy = 1 /\ b.constancy \in Nat \ {0}
      BY <1>2, ClaimTypes, OneKind DEF Right, Flips
    <3> QED BY <3>1, MaxOfTwo
  <2>3. Flipped(a, b).continuity > 1 =>
          /\ Gcd({a.divisibility, b.divisibility}) % Flipped(a, b).continuity = 0
          /\ b.constancy = Extent
    BY <2>1, <2>2 DEF XorUnaligned
  <2>4. Right(Flipped(a, b), r)
    BY <2>3, <1>2, FlippedSound
  <2> QED BY <2>1, <2>4
<1>3. CASE ~BothConstant(a, b) /\ ~Flips(a, b) /\ Flips(b, a)
  <2>1. Xored(a, b) = Flipped(b, a)
    BY <1>3 DEF Xored
  <2>2. Max({a.constancy, b.constancy}) = a.constancy
    <3>1. b.constancy = 1 /\ a.constancy \in Nat \ {0}
      BY <1>3, ClaimTypes, OneKind DEF Right, Flips
    <3> QED BY <3>1, MaxOfTwo
  <2>3. {a.divisibility, b.divisibility} = {b.divisibility, a.divisibility}
    OBVIOUS
  <2>4. \A i \in Index : w[i] \in Unsigned /\ v[i] \in Unsigned /\ r[i] = BitXor(w[i], v[i])
    BY XorAssumption DEF Unsigned
  <2>5. Flipped(b, a).continuity > 1 =>
          /\ Gcd({b.divisibility, a.divisibility}) % Flipped(b, a).continuity = 0
          /\ a.constancy = Extent
    BY <2>1, <2>2, <2>3 DEF XorUnaligned
  <2>6. Right(Flipped(b, a), r)
    BY <2>4, <2>5, <1>3, FlippedSound, ZenonT(60)
  <2> QED BY <2>1, <2>6
<1>4. CASE ~BothConstant(a, b) /\ ~Flips(a, b) /\ ~Flips(b, a)
  BY <1>4, ClaimNothing DEF Xored, Right
<1> QED BY <1>1, <1>2, <1>3, <1>4

-----------------------------------------------------------------------------
(* The visitor's operations. *)

LEMMA NoCase ==
  ASSUME NEW op, NEW a, NEW b, Cases(op, a, b) = {}
  PROVE  /\ op = "sub" => ~(b.continuity > 1)
         /\ op = "div" => ~(SplitsAt(a, b) /\ a.continuity > b.value)
         /\ op = "lt" => BothConstant(a, b) \/ ~(a.constancy > 1)
         /\ op = "le" => BothConstant(a, b) \/ ~(b.constancy > 1)
         /\ op = "eq" => BothConstant(a, b)
         /\ op = "xor" => NoValue \in {a.value, b.value}
         /\ op = "xor" => ~XorUnaligned(a, b)
<1>2. /\ "minus_run" \notin Cases(op, a, b) /\ "divide_run" \notin Cases(op, a, b)
      /\ "above_constant" \notin Cases(op, a, b) /\ "equals_constant" \notin Cases(op, a, b)
      /\ "xor_known" \notin Cases(op, a, b) /\ "xor_unaligned" \notin Cases(op, a, b)
  OBVIOUS
<1>3. op = "sub" => ~(b.continuity > 1)
  BY <1>2 DEF Cases
<1>4. op = "div" => ~(SplitsAt(a, b) /\ a.continuity > b.value)
  BY <1>2 DEF Cases
<1>5. op = "lt" => BothConstant(a, b) \/ ~(a.constancy > 1)
  BY <1>2 DEF Cases
<1>6. op = "le" => BothConstant(a, b) \/ ~(b.constancy > 1)
  BY <1>2 DEF Cases
<1>7. op = "eq" => BothConstant(a, b)
  BY <1>2 DEF Cases
<1>8. op = "xor" => NoValue \in {a.value, b.value}
  BY <1>2 DEF Cases
<1>9. op = "xor" => ~XorUnaligned(a, b)
  BY <1>2 DEF Cases
<1> QED BY <1>3, <1>4, <1>5, <1>6, <1>7, <1>8, <1>9

\* The operations give integers for operands they apply to.
LEMMA EvaluateInt ==
  ASSUME NEW op \in Operations, NEW x \in Int, NEW y \in Int,
         op \in {"div", "mod"} => x >= 0 /\ y > 0,
         op = "xor" => x \in Unsigned /\ y \in Unsigned
  PROVE  Evaluate(op, x, y) \in Int
<1>1. Bool(TRUE) \in Int /\ Bool(FALSE) \in Int /\ \A p \in BOOLEAN : Bool(p) \in Int
  BY DEF Bool
<1>2. CASE op \in {"add", "sub", "mul"}
  BY <1>2 DEF Evaluate
<1>3. CASE op \in {"div", "mod"}
  <2>1. x \div y \in Int /\ x % y \in Int
    BY <1>3, Division
  <2> QED BY <2>1, <1>3 DEF Evaluate
<1>4. CASE op \in {"lt", "le", "eq", "and"}
  <2>1. Evaluate(op, x, y) \in {0, 1}
    BY <1>4 DEF Evaluate, Bool
  <2> QED BY <2>1
<1>5. CASE op = "xor"
  BY <1>5, XorAssumption DEF Evaluate, Unsigned
<1> QED BY <1>2, <1>3, <1>4, <1>5 DEF Operations

\* What the analyzer claims of an operation's segments holds.
LEMMA SegmentsSound ==
  ASSUME NEW op \in Operations, NEW a, NEW b, NEW v, NEW w, Right(a, v), Right(b, w),
         Cases(op, a, b) = {},
         Applies(op, v, w), op = "xor" => \A i \in Index : v[i] \in Unsigned /\ w[i] \in Unsigned,
         NEW r \in Vectors, \A i \in Index : r[i] = Evaluate(op, v[i], w[i])
  PROVE  Right(Segments(op, a, b), r)
<1>0. \A i \in Index : v[i] \in Int /\ w[i] \in Int
  BY DEF Right, Vectors
<1>1. \A i, j \in Index : v[i] = v[j] /\ w[i] = w[j] => r[i] = r[j]
  OBVIOUS
<1>2. CASE op = "add"
  <2>1. \A i \in Index : r[i] = v[i] + w[i]
    BY <1>2 DEF Evaluate
  <2>2. Right(Add(a, b), r)
    BY <2>1, AddSound
  <2> QED BY <2>2, <1>2 DEF Segments
<1>3. CASE op = "sub"
  <2>1. \A i \in Index : r[i] = v[i] - w[i]
    BY <1>3 DEF Evaluate
  <2>2. ~(b.continuity > 1)
    BY <1>3, NoCase
  <2>3. Right(Subtract(a, b), r)
    BY <2>1, <2>2, SubtractSound
  <2> QED BY <2>3, <1>3 DEF Segments
<1>4. CASE op = "mul"
  <2>1. \A i \in Index : r[i] = v[i] * w[i]
    BY <1>4 DEF Evaluate
  <2>2. Right(Times(a, b), r)
    BY <2>1, TimesSound
  <2> QED BY <2>2, <1>4 DEF Segments
<1>5. CASE op = "div"
  <2>1. \A i \in Index : w[i] > 0 /\ r[i] = v[i] \div w[i]
    BY <1>5 DEF Evaluate, Applies
  <2>2. ~(SplitsAt(a, b) /\ a.continuity > b.value)
    BY <1>5, NoCase
  <2>3. Right(FloorDiv(a, b), r)
    BY <2>1, <2>2, FloorDivSound
  <2> QED BY <2>3, <1>5 DEF Segments
<1>6. CASE op = "mod"
  <2>1. \A i \in Index : w[i] > 0 /\ r[i] = v[i] % w[i]
    BY <1>6 DEF Evaluate, Applies
  <2>2. Right(Modulo(a, b), r)
    BY <2>1, ModuloSound
  <2> QED BY <2>2, <1>6 DEF Segments
<1>7. CASE op = "lt"
  <2>1. \A i \in Index : r[i] = Bool(v[i] < w[i])
    BY <1>7 DEF Evaluate
  <2>2. \A i, j \in Index : (w[i] <= v[i] <=> w[j] <= v[j]) => r[i] = r[j]
    <3> SUFFICES ASSUME NEW i \in Index, NEW j \in Index, w[i] <= v[i] <=> w[j] <= v[j]
                 PROVE  r[i] = r[j]
      OBVIOUS
    <3>1. v[i] < w[i] <=> v[j] < w[j]
      BY <1>0
    <3>2. r[i] = (IF v[i] < w[i] THEN 1 ELSE 0) /\ r[j] = (IF v[j] < w[j] THEN 1 ELSE 0)
      BY <2>1 DEF Bool
    <3> QED BY <3>1, <3>2
  <2>3. BothConstant(a, b) \/ ~(a.constancy > 1)
    BY <1>7, NoCase
  <2>4. Right(Compare(a, b), r)
    BY <2>2, <2>3, <1>1, CompareSound
  <2> QED BY <2>4, <1>7 DEF Segments
<1>8. CASE op = "le"
  <2>1. \A i \in Index : r[i] = Bool(v[i] <= w[i])
    BY <1>8 DEF Evaluate
  <2>2. \A i, j \in Index : (v[i] <= w[i] <=> v[j] <= w[j]) => r[i] = r[j]
    <3>1. \A i \in Index : r[i] = (IF v[i] <= w[i] THEN 1 ELSE 0)
      BY <2>1 DEF Bool
    <3> QED BY <3>1
  <2>3. BothConstant(a, b) \/ ~(b.constancy > 1)
    BY <1>8, NoCase
  <2>4. Right(Compare(a, b), r)
    BY <2>2, <2>3, <1>1, CompareSound
  <2> QED BY <2>4, <1>8 DEF Segments
<1>9. CASE op = "eq"
  <2>1. BothConstant(a, b)
    BY <1>9, NoCase
  <2>2. Right(Compare(a, b), r)
    BY <2>1, <1>1, CompareSound
  <2> QED BY <2>2, <1>9 DEF Segments
<1>10. CASE op = "and"
  <2>1. Right(Both(a, b), r)
    BY <1>1, AndSound
  <2> QED BY <2>1, <1>10 DEF Segments
<1>11. CASE op = "xor"
  <2>1. \A i \in Index : v[i] \in Unsigned /\ w[i] \in Unsigned /\ r[i] = BitXor(v[i], w[i])
    BY <1>11 DEF Evaluate
  <2>2. ~XorUnaligned(a, b)
    BY <1>11, NoCase
  <2>3. Right(Xored(a, b), r)
    BY <2>1, <2>2, XoredSound
  <2> QED BY <2>3, <1>11 DEF Segments
<1> QED BY <1>2, <1>3, <1>4, <1>5, <1>6, <1>7, <1>8, <1>9, <1>10, <1>11 DEF Operations

\* A claim with a value that all elements have.
LEMMA WithValue ==
  ASSUME NEW c, NEW r, Right(c, r), NEW x \in Int \cup {NoValue},
         x # NoValue => \A i \in Index : r[i] = x
  PROVE  Right(Info(x, c.continuity, c.constancy, c.divisibility), r)
<1> DEFINE e == Info(x, c.continuity, c.constancy, c.divisibility)
<1>1. /\ e.value = x /\ e.continuity = c.continuity /\ e.constancy = c.constancy
      /\ e.divisibility = c.divisibility /\ e \in Claims
  BY ClaimTypes, InfoIs DEF Right
<1> HIDE DEF e
<1>2. Describes(e, r)
  BY <1>1 DEF Right, Describes
<1> QED BY <1>1, <1>2 DEF Right, e

\* An operation on two right claims gives a right claim.
LEMMA BinarySound ==
  ASSUME NEW op \in Operations, NEW a, NEW b, NEW v, NEW w, Right(a, v), Right(b, w),
         Cases(op, a, b) = {},
         Applies(op, v, w), op = "xor" => \A i \in Index : v[i] \in Unsigned /\ w[i] \in Unsigned
  PROVE  Right(Binary(op, a, b), [i \in Index |-> Evaluate(op, v[i], w[i])])
<1> DEFINE r == [i \in Index |-> Evaluate(op, v[i], w[i])]
           c == Segments(op, a, b)
           x == ComputeValue(op, a, b)
<1>1. r \in Vectors
  <2>1. ASSUME NEW i \in Index PROVE Evaluate(op, v[i], w[i]) \in Int
    <3>1. v[i] \in Int /\ w[i] \in Int
      BY DEF Right, Vectors
    <3>2. op \in {"div", "mod"} => v[i] >= 0 /\ w[i] > 0
      BY DEF Applies
    <3> QED BY <3>1, <3>2, EvaluateInt
  <2> QED BY <2>1 DEF Vectors
<1>2. \A i \in Index : r[i] = Evaluate(op, v[i], w[i])
  OBVIOUS
<1> HIDE DEF r
<1>3. Right(c, r)
  BY <1>1, <1>2, SegmentsSound
<1> HIDE DEF c
<1>4. x # NoValue => \A i \in Index : r[i] = x
  <2> SUFFICES ASSUME x # NoValue, NEW i \in Index PROVE r[i] = x
    OBVIOUS
  <2>1. a.value # NoValue /\ b.value # NoValue /\ x = Known(op, a.value, b.value)
    BY DEF ComputeValue
  <2>2. op # "xor"
    BY <2>1, NoCase
  <2>3. x = Evaluate(op, a.value, b.value)
    BY <2>1, <2>2 DEF Known
  <2>4. v[i] = a.value /\ w[i] = b.value
    BY <2>1 DEF Right, Describes
  <2> QED BY <2>3, <2>4, <1>2
<1>5. x \in Int \cup {NoValue}
  <2>1. \A i \in Index : r[i] \in Int
    BY <1>1 DEF Vectors
  <2> QED BY <2>1, <1>4, Indices
<1> HIDE DEF x
<1>6. Right(Info(x, c.continuity, c.constancy, c.divisibility), r)
  BY <1>3, <1>4, <1>5, WithValue
<1>7. Binary(op, a, b) = c \/ Binary(op, a, b) = Info(x, c.continuity, c.constancy, c.divisibility)
  BY DEF Binary, c, x
<1> QED BY <1>3, <1>6, <1>7 DEF r

-----------------------------------------------------------------------------
(* Swizzles. *)

\* What a swizzle combines a number with.
Moved(x, s) == ((x \div (2^s[1] * 2^s[3])) % 2^s[2]) * 2^s[1]

LEMMA MovedIs ==
  ASSUME NEW x \in Unsigned, NEW s \in Swizzles
  PROVE  /\ Moved(x, s) \in Unsigned /\ Divides(2^s[1], Moved(x, s))
         /\ SwizzleOf(x, s) = BitXor(x, Moved(x, s)) /\ SwizzleOf(x, s) \in Nat
<1> DEFINE m == 2^s[1]
           b == 2^s[2]
           t == 2^s[3]
<1>1. m \in Nat \ {0} /\ b \in Nat \ {0} /\ t \in Nat \ {0} /\ x \in Nat
  BY GridAssumption DEF Unsigned
<1>2. Moved(x, s) = ((x \div (m * t)) % b) * m
  BY DEF Moved
<1>3. SwizzleOf(x, s) = BitXor(x, Moved(x, s))
  BY DEF SwizzleOf, Moved
<1> HIDE DEF m, b, t
<1>4. m * t \in Nat \ {0} /\ m <= m * t
  <2>1. 1 * m <= t * m
    BY <1>1, Monotone
  <2>2. t * m = m * t /\ t * m \in Nat
    BY <1>1
  <2> QED BY <2>1, <2>2, <1>1
<1>5. x \div (m * t) <= x \div m
  BY <1>1, <1>4, QuotientBelow
<1>6. PICK q \in Int, e \in 0 .. m - 1 : x \div m = q /\ x = e + q * m
  BY <1>1, Divided
<1>7. PICK k \in Int, f \in 0 .. (m * t) - 1 : x \div (m * t) = k /\ x = f + k * (m * t)
  BY <1>1, <1>4, Divided
<1>8. k >= 0
  <2> SUFFICES ASSUME k < 0 PROVE FALSE
    BY <1>7
  <2>1. (k + 1) * (m * t) <= 0 * (m * t)
    BY <1>4, Monotone
  <2>2. (k + 1) * (m * t) = k * (m * t) + (m * t) /\ 0 * (m * t) = 0 /\ k * (m * t) \in Int
    BY <1>4
  <2> QED BY <2>1, <2>2, <1>1, <1>4, <1>7
<1>9. PICK p \in Int, y \in 0 .. b - 1 : k \div b = p /\ k % b = y /\ k = y + p * b
  BY <1>1, Divided
<1>10. p >= 0
  <2> SUFFICES ASSUME p < 0 PROVE FALSE
    BY <1>9
  <2>1. (p + 1) * b <= 0 * b
    BY <1>1, Monotone
  <2>2. (p + 1) * b = p * b + b /\ 0 * b = 0 /\ p * b \in Int
    BY <1>1
  <2> QED BY <2>1, <2>2, <1>1, <1>8, <1>9
<1>11. y \in Nat /\ y <= q
  <2>1. 0 * b <= p * b
    BY <1>1, <1>10, Monotone
  <2>2. p * b \in Int /\ 0 * b = 0
    BY <1>1
  <2> QED BY <2>1, <2>2, <1>1, <1>5, <1>6, <1>7, <1>9
<1>12. Moved(x, s) = y * m
  BY <1>2, <1>7, <1>9
<1>13. y * m \in Nat /\ y * m <= x
  <2>1. y * m <= q * m
    BY <1>1, <1>6, <1>11, Monotone
  <2>2. y * m \in Nat /\ q * m \in Int
    BY <1>1, <1>11
  <2> QED BY <2>1, <2>2, <1>1, <1>6
<1>14. Moved(x, s) \in Unsigned
  BY <1>12, <1>13, Indices DEF Unsigned
<1>15. Divides(m, Moved(x, s))
  <2>1. y * m \in Int
    BY <1>13
  <2> QED BY <2>1, <1>1, <1>11, <1>12, DividesIs
<1>16. SwizzleOf(x, s) \in Nat
  BY <1>3, <1>14, XorAssumption DEF Unsigned
<1> QED BY <1>3, <1>14, <1>15, <1>16 DEF m

\* Numbers of one segment are combined with the same number.
LEMMA MovedWithin ==
  ASSUME NEW x \in Unsigned, NEW z \in Unsigned, NEW s \in Swizzles,
         NEW c \in Nat \ {0}, Divides(c, 2^s[1]), x \div c = z \div c
  PROVE  Moved(x, s) = Moved(z, s)
<1> DEFINE m == 2^s[1]
           t == 2^s[3]
<1>1. m \in Nat \ {0} /\ t \in Nat \ {0} /\ Divides(c, m)
  BY GridAssumption
<1> HIDE DEF m, t
<1>2. x \in Int /\ z \in Int /\ m \in Int /\ t \in Int /\ m * t \in Nat \ {0}
  <2>1. 1 * m <= t * m
    BY <1>1, Monotone
  <2>2. t * m = m * t /\ t * m \in Nat
    BY <1>1
  <2> QED BY <2>1, <2>2, <1>1 DEF Unsigned
<1>3. Divides(c, m * t)
  BY <1>1, <1>2, DividesMultiple
<1>4. x \div (m * t) = z \div (m * t)
  BY <1>2, <1>3, Within, ZenonT(60)
<1> QED BY <1>4 DEF Moved, m, t

LEMMA SwizzleSound ==
  ASSUME NEW a, NEW v, Right(a, v), NEW s \in Swizzles, SwizzleAligned(a, s[1]),
         \A i \in Index : v[i] \in Unsigned
  PROVE  Right(SwizzledInfo(a, s), [i \in Index |-> SwizzleOf(v[i], s)])
<1> DEFINE r == [i \in Index |-> SwizzleOf(v[i], s)]
           p == 2^s[1]
           c == Gcd({a.continuity, p})
           n == Gcd({a.constancy, p})
           d == Gcd({a.divisibility, p})
           x == IF a.value = NoValue THEN NoValue ELSE SwizzleOf(a.value, s)
<1>1. p \in Nat \ {0} /\ IsPowerOfTwo(p)
  BY GridAssumption
<1>2. /\ \A i \in Index : r[i] = SwizzleOf(v[i], s)
      /\ r \in Vectors
      /\ SwizzledInfo(a, s) = Info(x, c, n, d)
      /\ Divides(c, a.divisibility) /\ c \in {a.continuity, p}
      /\ \A i \in Index : Divides(p, Moved(v[i], s))
  BY MovedIs DEF Vectors, SwizzledInfo, SwizzleAligned
<1>3. \A i, j \in Index : v[i] = v[j] => r[i] = r[j]
  OBVIOUS
<1>4. x # NoValue => \A i \in Index : r[i] = x
  BY DEF Right, Describes
<1>5. \A y \in Nat : Divides(y, p) => \A i, j \in Index : v[i] \div y = v[j] \div y => Moved(v[i], s) = Moved(v[j], s)
  <2> SUFFICES ASSUME NEW y \in Nat, Divides(y, p), NEW i \in Index, NEW j \in Index,
                      v[i] \div y = v[j] \div y
               PROVE  Moved(v[i], s) = Moved(v[j], s)
    OBVIOUS
  <2>1. y > 0
    BY <1>1, DivisorBelow
  <2> QED BY <2>1, MovedWithin
<1> HIDE DEF r, p, x
<1>6. /\ a.continuity \in Nat \ {0} /\ a.constancy \in Nat \ {0} /\ a.divisibility \in Nat
      /\ a.continuity = 1 \/ a.constancy = 1
  BY ClaimTypes, OneKind DEF Right
<1>7. /\ c \in Nat \ {0} /\ Divides(c, a.continuity) /\ Divides(c, p)
      /\ n \in Nat \ {0} /\ Divides(n, a.constancy) /\ Divides(n, p)
      /\ d \in Nat \ {0} /\ Divides(d, a.divisibility) /\ Divides(d, p)
  BY <1>1, <1>6, GcdOfTwo
<1> HIDE DEF c, n, d
<1>8. IsPowerOfTwo(c) /\ IsPowerOfTwo(d)
  BY <1>1, <1>7, PowerDivisor
<1>9. \A i \in Index : /\ v[i] \in Int /\ i \in Int /\ Moved(v[i], s) \in Unsigned
                       /\ r[i] = BitXor(v[i], Moved(v[i], s))
  BY <1>2, MovedIs, Indices DEF Right, Vectors
<1>10. Divides(c, Extent) /\ Divides(n, Extent)
  <2>1. Divides(a.continuity, Extent) /\ Divides(a.constancy, Extent) /\ Extent \in Int
    BY Indices DEF Right, Describes
  <2> QED BY <2>1, <1>6, <1>7, DividesTrans
<1>11. \A i \in Index : Divides(d, v[i]) => Divides(d, r[i])
  <2> SUFFICES ASSUME NEW i \in Index, Divides(d, v[i]) PROVE Divides(d, r[i])
    OBVIOUS
  <2>1. Moved(v[i], s) \in Int /\ Divides(p, Moved(v[i], s))
    BY <1>2, <1>9 DEF Unsigned
  <2>2. Divides(d, Moved(v[i], s))
    BY <2>1, <1>1, <1>7, DividesTrans
  <2> QED BY <2>2, <1>7, <1>8, <1>9, XorDivides
<1>12. ASSUME a.continuity = 1 PROVE Right(Info(NoValue, c, n, d), r)
  <2>1. c = 1
    <3>1. c <= 1
      BY <1>7, <1>12, DivisorBelow
    <3> QED BY <3>1, <1>7
  <2>2. Repeats(r, n)
    <3>1. Repeats(v, n)
      BY <1>6, <1>7, RepeatsWithin DEF Right, Describes
    <3> QED BY <3>1, <1>3 DEF Repeats
  <2>3. BegunBy(r, n, d)
    <3>1. \A i \in Index : Divides(a.divisibility, v[i])
      BY <1>12, ConstantSays DEF Right
    <3>2. \A i \in Index : Divides(d, v[i])
      BY <3>1, <1>6, <1>7, <1>9, DividesTrans
    <3> QED BY <3>2, <1>11 DEF BegunBy
  <2>4. Right(Info(NoValue, c, n, d), r)
    BY <2>1, <2>2, <2>3, <1>2, <1>7, <1>10, ClaimConstant DEF Right
  <2> QED BY <2>4
<1>13. ASSUME a.continuity # 1 PROVE Right(Info(NoValue, c, n, d), r)
  <2>1. a.constancy = 1 /\ n = 1
    <3>1. n <= 1
      BY <1>6, <1>7, <1>13, DivisorBelow
    <3> QED BY <3>1, <1>6, <1>7, <1>13
  <2>2. \A i \in Index : Divides(c, v[i] - i)
    BY <2>1, <1>2, <1>7, RunSays DEF Right
  <2>3. Contiguous(v, c)
    BY <1>6, <1>7, ContiguousWithin DEF Right, Describes
  <2>4. Contiguous(r, c)
    <3> SUFFICES ASSUME NEW i \in Index, NEW j \in Index, i \div c = j \div c
                 PROVE  r[i] - r[j] = i - j
      BY DEF Contiguous
    <3>1. v[i] \div c = v[j] \div c
      BY <2>2, <2>3, <1>7, RunQuotient DEF Right
    <3>2. Moved(v[i], s) = Moved(v[j], s)
      BY <3>1, <1>5, <1>7
    <3>3. Divides(c, Moved(v[i], s))
      <4>1. Moved(v[i], s) \in Int /\ Divides(p, Moved(v[i], s))
        BY <1>2, <1>9 DEF Unsigned
      <4> QED BY <4>1, <1>1, <1>7, DividesTrans
    <3>4. BitXor(v[i], Moved(v[i], s)) - BitXor(v[j], Moved(v[i], s)) = v[i] - v[j]
      BY <3>1, <3>3, <1>7, <1>8, <1>9, XorRun
    <3>5. v[i] - v[j] = i - j
      BY <2>3 DEF Contiguous
    <3> QED BY <3>2, <3>4, <3>5, <1>9
  <2>5. BegunBy(r, c, d)
    <3> SUFFICES ASSUME NEW i \in Index, i % c = 0 PROVE Divides(d, r[i])
      BY DEF BegunBy
    <3>1. CASE c = a.continuity
      <4>1. Max({a.continuity, a.constancy}) = c
        BY <2>1, <3>1, <1>7, MaxOfTwo
      <4>2. Divides(a.divisibility, v[i])
        BY <4>1 DEF Right, Describes, BegunBy
      <4>3. Divides(d, v[i])
        BY <4>2, <1>6, <1>7, <1>9, DividesTrans
      <4> QED BY <4>3, <1>11
    <3>2. CASE c = p
      <4>1. Divides(d, c) /\ Divides(d, a.continuity)
        BY <3>2, <1>6, <1>7, DividesTrans
      <4>2. Divides(c, i)
        BY <1>7 DEF Divides
      <4>3. Divides(d, i)
        BY <4>1, <4>2, <1>7, <1>9, DividesTrans
      <4>4. Divides(d, v[i] - i)
        BY <4>1, <2>1, <1>7, RunSays DEF Right
      <4>5. v[i] - i \in Int /\ (v[i] - i) + i = v[i]
        BY <1>9
      <4>6. Divides(d, (v[i] - i) + i)
        BY <4>3, <4>4, <4>5, <1>7, <1>9, SumDivides
      <4> QED BY <4>5, <4>6, <1>11
    <3> QED BY <3>1, <3>2, <1>2
  <2> QED BY <2>1, <2>4, <2>5, <1>2, <1>7, <1>10, ClaimContiguous DEF Right
<1>14. Right(Info(NoValue, c, n, d), r)
  BY <1>12, <1>13
<1>15. x \in Int \cup {NoValue}
  BY <1>2, <1>4, Indices DEF Vectors
<1>16. Right(Info(x, c, n, d), r)
  <2> DEFINE e == Info(NoValue, c, n, d)
  <2>1. e.continuity = c /\ e.constancy = n /\ e.divisibility = d
    BY InfoIs
  <2>2. Right(e, r)
    BY <1>14
  <2> HIDE DEF e
  <2>3. Right(Info(x, e.continuity, e.constancy, e.divisibility), r)
    BY <2>2, <1>4, <1>15, WithValue
  <2> QED BY <2>1, <2>3
<1> QED BY <1>2, <1>16 DEF r

-----------------------------------------------------------------------------
(* The stack of the visitor. *)

\* A visited operand: numbers within the bound, and a right claim about them
\* unless the analyzer has claimed too much.
Rightly(a, v) == v \in Vectors /\ (a = Overclaimed \/ Right(a, v))
Nodes ==
  {n \in [info : Claims \cup {Overclaimed}, vec : Vectors] : Rightly(n.info, n.vec) /\ Small(n.vec)}

GridInvariant == stack \in Seq(Nodes)

LEMMA NodeIs ==
  ASSUME NEW a, NEW v, Rightly(a, v), Small(v)
  PROVE  Node(a, v) \in Nodes
<1>1. a \in Claims \cup {Overclaimed} /\ v \in Vectors
  BY DEF Rightly, Right
<1> QED BY <1>1 DEF Node, Nodes

LEMMA Visited ==
  ASSUME GridInvariant, NEW k \in 1 .. Len(stack)
  PROVE  Rightly(stack[k].info, stack[k].vec) /\ Small(stack[k].vec)
<1>1. stack[k] \in Nodes
  BY DEF GridInvariant
<1> QED BY <1>1 DEF Nodes

LEMMA PushKeeps ==
  ASSUME GridInvariant, NEW a, NEW v, Rightly(a, v), Push(a, v)
  PROVE  GridInvariant'
<1>1. Node(a, v) \in Nodes
  BY NodeIs DEF Push
<1>2. Append(stack, Node(a, v)) \in Seq(Nodes)
  BY <1>1 DEF GridInvariant
<1> QED BY <1>2 DEF Push, GridInvariant

LEMMA ReplaceKeeps ==
  ASSUME GridInvariant, NEW n \in 1 .. Len(stack), NEW a, NEW v, Rightly(a, v), Replace(n, a, v)
  PROVE  GridInvariant'
<1>1. Node(a, v) \in Nodes
  BY NodeIs DEF Replace
<1>2. Len(stack) \in Nat /\ \A k \in 1 .. Len(stack) : stack[k] \in Nodes
  BY DEF GridInvariant
<1>3. SubSeq(stack, 1, Len(stack) - n) \in Seq(Nodes)
  BY <1>2 DEF GridInvariant
<1>4. Append(SubSeq(stack, 1, Len(stack) - n), Node(a, v)) \in Seq(Nodes)
  BY <1>1, <1>3
<1> QED BY <1>4 DEF Replace, GridInvariant

\* One number for all elements.
LEMMA OneValue ==
  ASSUME NEW x \in Int, NEW d \in Nat, Divides(d, x), NEW v \in Vectors, \A i \in Index : v[i] = x
  PROVE  Right(Info(NoValue, 1, Extent, d), v)
<1>1. Repeats(v, Extent) /\ BegunBy(v, Extent, d)
  BY DEF Repeats, BegunBy
<1>2. Divides(Extent, Extent)
  BY DividesSelf, Indices
<1> QED BY <1>1, <1>2, Indices, ClaimConstant DEF Right

LEMMA AxisRight == Right(FromAxis, [i \in Index |-> i])
<1> DEFINE v == [i \in Index |-> i]
<1>1. v \in Vectors /\ Contiguous(v, Extent)
  BY Indices DEF Vectors, Contiguous
<1>2. BegunBy(v, Extent, 0)
  <2> SUFFICES ASSUME NEW i \in Index, i % Extent = 0 PROVE Divides(0, i)
    BY DEF BegunBy
  <2>1. i = i + 0 * Extent /\ i \in 0 .. Extent - 1 /\ i \in Int
    BY Indices DEF Index
  <2>2. i % Extent = i
    BY <2>1, Indices, QuotientIs
  <2> QED BY <2>2 DEF Divides
<1>3. Divides(Extent, Extent)
  BY DividesSelf, Indices
<1> QED BY <1>1, <1>2, <1>3, Indices, ClaimContiguous DEF FromAxis, Right

LEMMA ConstantRight ==
  ASSUME NEW c \in Literals
  PROVE  /\ Right(FromConstant(c), [i \in Index |-> c])
         /\ Right(FromUnknown, [i \in Index |-> c])
<1> DEFINE v == [i \in Index |-> c]
           e == Info(NoValue, 1, Extent, c)
<1>1. c \in Nat /\ v \in Vectors /\ \A i \in Index : v[i] = c
  BY GridAssumption DEF Vectors
<1>2. Divides(c, c) /\ Divides(1, c)
  BY <1>1, DividesSelf DEF Divides
<1>3. Right(FromUnknown, v)
  BY <1>1, <1>2, OneValue DEF FromUnknown
<1>4. Right(e, v)
  BY <1>1, <1>2, OneValue
<1>5. e.continuity = 1 /\ e.constancy = Extent /\ e.divisibility = c
  BY InfoIs
<1> HIDE DEF e, v
<1>6. Right(Info(c, e.continuity, e.constancy, e.divisibility), v)
  BY <1>1, <1>4, WithValue
<1> QED BY <1>3, <1>5, <1>6 DEF FromConstant, v

LEMMA DivisibleRight ==
  ASSUME NEW p \in Multiples
  PROVE  Right(FromDivisibility(p[1]), [i \in Index |-> p[2]])
<1>1. p[1] \in Nat /\ p[2] \in Int /\ Divides(p[1], p[2]) /\ [i \in Index |-> p[2]] \in Vectors
  BY GridAssumption DEF Vectors
<1> QED BY <1>1, OneValue DEF FromDivisibility

LEMMA UnitAxisRight == Right(FromDivisibility(0), [i \in Index |-> 0])
<1>1. 0 \in Nat /\ 0 \in Int /\ Divides(0, 0) /\ [i \in Index |-> 0] \in Vectors
  BY DEF Vectors, Divides
<1> QED BY <1>1, OneValue DEF FromDivisibility

LEMMA LeavesKeep ==
  ASSUME GridInvariant, NEW a, NEW v, Right(a, v), Push(a, v)
  PROVE  GridInvariant'
<1>1. Rightly(a, v)
  BY DEF Rightly, Right
<1> QED BY <1>1, PushKeeps

LEMMA ElementKeeps ==
  ASSUME GridInvariant, VisitTensorElement
  PROVE  GridInvariant'
<1>1. PICK v \in {[i \in Index |-> 3], [i \in Index |-> (i * i) % 5]} :
        Push(IF \E i \in Index : v[i] # v[0] THEN Overclaimed ELSE FromUnknown, v)
  BY DEF VisitTensorElement
<1>2. v \in Vectors
  <2>1. \A i \in Index : (i * i) % 5 \in Int
    BY Indices
  <2> QED BY <1>1, <2>1 DEF Vectors
<1>3. CASE \E i \in Index : v[i] # v[0]
  <2>1. Push(Overclaimed, v) /\ Rightly(Overclaimed, v)
    BY <1>1, <1>2, <1>3 DEF Rightly
  <2> QED BY <2>1, PushKeeps
<1>4. CASE ~(\E i \in Index : v[i] # v[0])
  <2>1. v[0] \in Int /\ Divides(1, v[0])
    BY <1>2, Indices DEF Vectors, Divides
  <2>2. Right(FromUnknown, v)
    BY <1>2, <1>4, <2>1, OneValue DEF FromUnknown
  <2>3. Push(FromUnknown, v)
    BY <1>1, <1>4
  <2> QED BY <2>2, <2>3, LeavesKeep
<1> QED BY <1>3, <1>4

\* The last two operands.
LEMMA LastTwo ==
  ASSUME GridInvariant, Len(stack) >= 2
  PROVE  /\ 2 \in 1 .. Len(stack)
         /\ Rightly(stack[Len(stack) - 1].info, stack[Len(stack) - 1].vec)
         /\ Small(stack[Len(stack) - 1].vec)
         /\ Rightly(Last(stack).info, Last(stack).vec) /\ Small(Last(stack).vec)
<1>1. Len(stack) \in Nat
  BY DEF GridInvariant
<1>2. Len(stack) - 1 \in 1 .. Len(stack) /\ Len(stack) \in 1 .. Len(stack) /\ 2 \in 1 .. Len(stack)
  BY <1>1
<1> QED BY <1>2, Visited DEF Last

\* Operands of an exclusive or are in its range.
LEMMA XorRange ==
  ASSUME NEW v \in Vectors, NEW w \in Vectors, Small(v), Small(w), Applies("xor", v, w)
  PROVE  \A i \in Index : v[i] \in Unsigned /\ w[i] \in Unsigned
  BY Indices DEF Small, Applies, Unsigned, Vectors

LEMMA BinaryKeeps ==
  ASSUME GridInvariant, VisitBinary
  PROVE  GridInvariant'
<1> DEFINE a == stack[Len(stack) - 1]
           b == Last(stack)
<1>1. PICK op \in Operations :
        /\ Applies(op, a.vec, b.vec)
        /\ Replace(2,
             IF Overclaimed \in {a.info, b.info} \/ Cases(op, a.info, b.info) # {} THEN Overclaimed
             ELSE Binary(op, a.info, b.info),
             [i \in Index |-> Evaluate(op, a.vec[i], b.vec[i])])
  BY DEF VisitBinary
<1>2. /\ 2 \in 1 .. Len(stack) /\ Rightly(a.info, a.vec) /\ Rightly(b.info, b.vec)
      /\ Small(a.vec) /\ Small(b.vec)
  BY LastTwo DEF VisitBinary
<1> HIDE DEF a, b
<1> DEFINE r == [i \in Index |-> Evaluate(op, a.vec[i], b.vec[i])]
<1>3. a.vec \in Vectors /\ b.vec \in Vectors
  BY <1>2 DEF Rightly
<1>4. op = "xor" => \A i \in Index : a.vec[i] \in Unsigned /\ b.vec[i] \in Unsigned
  BY <1>1, <1>2, <1>3, XorRange
<1>5. CASE Overclaimed \in {a.info, b.info} \/ Cases(op, a.info, b.info) # {}
  <2>1. ASSUME NEW i \in Index PROVE Evaluate(op, a.vec[i], b.vec[i]) \in Int
    <3>1. a.vec[i] \in Int /\ b.vec[i] \in Int
      BY <1>3 DEF Vectors
    <3>2. op \in {"div", "mod"} => a.vec[i] >= 0 /\ b.vec[i] > 0
      BY <1>1 DEF Applies
    <3> QED BY <1>4, <3>1, <3>2, EvaluateInt
  <2>2. r \in Vectors
    BY <2>1 DEF Vectors
  <2>3. Replace(2, Overclaimed, r)
    BY <1>1, <1>5
  <2> HIDE DEF r
  <2>4. Rightly(Overclaimed, r)
    BY <2>2 DEF Rightly
  <2> QED BY <1>2, <2>3, <2>4, ReplaceKeeps
<1>6. CASE ~(Overclaimed \in {a.info, b.info} \/ Cases(op, a.info, b.info) # {})
  <2>1. Right(a.info, a.vec) /\ Right(b.info, b.vec)
    BY <1>2, <1>6 DEF Rightly
  <2>2. Right(Binary(op, a.info, b.info), r)
    BY <1>1, <1>4, <1>6, <2>1, BinarySound
  <2>3. Replace(2, Binary(op, a.info, b.info), r)
    BY <1>1, <1>6
  <2> HIDE DEF r
  <2>4. Rightly(Binary(op, a.info, b.info), r)
    BY <2>2 DEF Rightly, Right
  <2> QED BY <1>2, <2>3, <2>4, ReplaceKeeps
<1> QED BY <1>5, <1>6

LEMMA BitwiseKeeps ==
  ASSUME GridInvariant, VisitBitwise
  PROVE  GridInvariant'
<1> DEFINE a == stack[Len(stack) - 1]
           b == Last(stack)
           r == [i \in Index |-> (a.vec[i] + b.vec[i] + BitXor(a.vec[i], b.vec[i])) \div 2]
<1>1. Applies("xor", a.vec, b.vec) /\ Replace(2, AnyInfo, r)
  BY DEF VisitBitwise
<1>2. /\ 2 \in 1 .. Len(stack) /\ a.vec \in Vectors /\ b.vec \in Vectors
      /\ Small(a.vec) /\ Small(b.vec)
  BY LastTwo DEF VisitBitwise, Rightly
<1> HIDE DEF a, b
<1>3. \A i \in Index : a.vec[i] \in Unsigned /\ b.vec[i] \in Unsigned
  BY <1>1, <1>2, XorRange
<1>4. r \in Vectors
  <2>1. ASSUME NEW i \in Index
        PROVE  (a.vec[i] + b.vec[i] + BitXor(a.vec[i], b.vec[i])) \div 2 \in Int
    <3>1. a.vec[i] \in Int /\ b.vec[i] \in Int /\ BitXor(a.vec[i], b.vec[i]) \in Int
      BY <1>3, XorAssumption DEF Unsigned
    <3>2. a.vec[i] + b.vec[i] + BitXor(a.vec[i], b.vec[i]) \in Int
      BY <3>1
    <3> QED BY <3>2, Division
  <2> QED BY <2>1 DEF Vectors
<1>5. Right(AnyInfo, r)
  BY <1>4, ClaimNothing DEF Right
<1> HIDE DEF r
<1>6. Rightly(AnyInfo, r)
  BY <1>5 DEF Rightly, Right
<1> QED BY <1>1, <1>2, <1>6, ReplaceKeeps

\* A swizzle gives numbers, whatever is claimed of its operand.
LEMMA SwizzleInt ==
  ASSUME NEW s \in Swizzles, NEW v \in Vectors, \A i \in Index : v[i] \in Unsigned,
         Small([i \in Index |-> SwizzleOf(v[i], s)])
  PROVE  [i \in Index |-> SwizzleOf(v[i], s)] \in Vectors
<1>1. ASSUME NEW i \in Index PROVE SwizzleOf(v[i], s) \in Int
  <2>1. SwizzleOf(v[i], s) \in -MaxValue .. MaxValue
    BY DEF Small
  <2> QED BY <2>1, GridAssumption
<1> QED BY <1>1 DEF Vectors

LEMMA SwizzleKeeps ==
  ASSUME GridInvariant, VisitSwizzle
  PROVE  GridInvariant'
<1> DEFINE a == Last(stack)
<1>1. PICK s \in Swizzles :
        /\ \A i \in Index : a.vec[i] >= 0
        /\ Replace(1,
             IF a.info = Overclaimed \/ ~SwizzleAligned(a.info, s[1]) THEN Overclaimed
             ELSE SwizzledInfo(a.info, s),
             [i \in Index |-> SwizzleOf(a.vec[i], s)])
  BY DEF VisitSwizzle
<1>2. 1 \in 1 .. Len(stack) /\ Rightly(a.info, a.vec) /\ Small(a.vec)
  <2>1. Len(stack) \in Nat /\ Len(stack) # 0
    BY DEF GridInvariant, VisitSwizzle
  <2>2. Len(stack) \in 1 .. Len(stack) /\ 1 \in 1 .. Len(stack)
    BY <2>1
  <2> QED BY <2>2, Visited DEF Last
<1> HIDE DEF a
<1> DEFINE r == [i \in Index |-> SwizzleOf(a.vec[i], s)]
<1>3. \A i \in Index : a.vec[i] \in Unsigned
  BY <1>1, <1>2, Indices DEF Small, Unsigned, Rightly, Vectors
<1>4. CASE a.info = Overclaimed \/ ~SwizzleAligned(a.info, s[1])
  <2>1. Replace(1, Overclaimed, r)
    BY <1>1, <1>4
  <2>2. r \in Vectors
    BY <1>2, <1>3, <2>1, SwizzleInt DEF Replace, Rightly
  <2> HIDE DEF r
  <2>3. Rightly(Overclaimed, r)
    BY <2>2 DEF Rightly
  <2> QED BY <1>2, <2>1, <2>3, ReplaceKeeps
<1>5. CASE ~(a.info = Overclaimed \/ ~SwizzleAligned(a.info, s[1]))
  <2>1. Replace(1, SwizzledInfo(a.info, s), r)
    BY <1>1, <1>5
  <2>2. Right(a.info, a.vec)
    BY <1>2, <1>5 DEF Rightly
  <2>3. Right(SwizzledInfo(a.info, s), r)
    BY <1>2, <1>3, <1>5, <2>2, SwizzleSound
  <2> HIDE DEF r
  <2>4. Rightly(SwizzledInfo(a.info, s), r)
    BY <2>3 DEF Rightly, Right
  <2> QED BY <1>2, <2>1, <2>4, ReplaceKeeps
<1> QED BY <1>4, <1>5

\* The stack holds right claims only, except where one of the eight kinds of
\* operand has made the analyzer claim too much: inductive (visit_binary,
\* visit_Call).
THEOREM GridInvariantHolds == GridSpec => []GridInvariant
<1>1. GridInit => GridInvariant
  BY DEF GridInit, GridInvariant
<1>2. GridInvariant /\ [GridNext]_gridVars => GridInvariant'
  <2> SUFFICES ASSUME GridInvariant, [GridNext]_gridVars PROVE GridInvariant'
    OBVIOUS
  <2>1. CASE VisitAxis
    BY <2>1, AxisRight, UnitAxisRight, LeavesKeep DEF VisitAxis
  <2>2. CASE VisitConstant
    BY <2>2, ConstantRight, LeavesKeep DEF VisitConstant
  <2>3. CASE VisitVar
    BY <2>3, ConstantRight, LeavesKeep DEF VisitVar
  <2>4. CASE VisitDivisible
    BY <2>4, DivisibleRight, LeavesKeep DEF VisitDivisible
  <2>5. CASE VisitTensorElement
    BY <2>5, ElementKeeps
  <2>6. CASE VisitBinary
    BY <2>6, BinaryKeeps
  <2>7. CASE VisitBitwise
    BY <2>7, BitwiseKeeps
  <2>8. CASE VisitSwizzle
    BY <2>8, SwizzleKeeps
  <2>9. CASE UNCHANGED gridVars
    BY <2>9 DEF gridVars, GridInvariant
  <2> QED BY <2>1, <2>2, <2>3, <2>4, <2>5, <2>6, <2>7, <2>8, <2>9 DEF GridNext
<1> QED BY <1>1, <1>2, PTL DEF GridSpec

\* Every claim about a subexpression holds of its values, for dimensions of
\* any length and expressions of any size (DimensionInfo), as long as no
\* operation of the subexpression is one of the eight kinds for which the code
\* claims too much.
THEOREM ClaimsAlwaysHold == GridSpec => []ClaimsHold
<1>1. GridInvariant => ClaimsHold
  <2> SUFFICES ASSUME GridInvariant, NEW k \in DOMAIN stack, stack[k].info # Overclaimed
               PROVE  Describes(stack[k].info, stack[k].vec)
    BY DEF ClaimsHold
  <2>1. k \in 1 .. Len(stack)
    BY DEF GridInvariant
  <2> QED BY <2>1, Visited DEF Rightly, Right
<1> QED BY <1>1, GridInvariantHolds, PTL
=============================================================================
