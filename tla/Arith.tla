------------------------------- MODULE Arith -------------------------------
(***************************************************************************)
(* Integer helpers shared by the models of the compiler's analyses.        *)
(***************************************************************************)
EXTENDS Integers, FiniteSetsExt

Divides(d, x) == IF d = 0 THEN x = 0 ELSE x % (IF d < 0 THEN -d ELSE d) = 0

\* math.gcd of several numbers: zero is divisible by everything.
Gcd(S) ==
  LET P == {IF x < 0 THEN -x ELSE x : x \in S} \ {0}
  IN  IF P = {} THEN 0 ELSE Max({d \in 1..Min(P) : \A x \in P : x % d = 0})

\* Every divisor but 1 is even.
IsPowerOfTwo(n) == n > 0 /\ \A d \in 2..n : n % d = 0 => d % 2 = 0
=============================================================================
