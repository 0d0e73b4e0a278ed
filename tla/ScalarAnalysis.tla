--------------------------- MODULE ScalarAnalysis ---------------------------
(***************************************************************************)
(* The scalar analyzer (ir/analyzers/scalar_analyzer.py): for every        *)
(* integer variable of a function a set of values, given by a divisor and  *)
(* two bounds, found as a fixpoint over the function's assignments, with   *)
(* bounds that keep moving given up.  bound_aware_simplify decides         *)
(* conditions by these sets and the grid analyzer takes alignment from     *)
(* them.                                                                   *)
(*                                                                         *)
(* The model analyses a function and then runs it.  The analysis ignores   *)
(* the order of statements, so the run may take them in any order in which *)
(* a variable is defined before it is used.                                *)
(***************************************************************************)
EXTENDS Arith, Sequences

CONSTANTS
  Functions,          \* sequences of statements
  Parameters,         \* name -> known divisor, of non-negative parameters
  UPDATE_COUNT_LIMIT, \* changes of a bound before it is given up
  MaxBound,           \* bound: values during the analysis
  MaxScalar,           \* bound: values of a run
  NoBound

ScalarOps == {"add", "sub", "mul", "div", "mod", "min", "max"}
ScalarSets == [divisibility : Nat, lower : Int \cup {NoBound}, upper : Int \cup {NoBound}]

\* An operand of f: a number, or a variable that f assigns or gets as a parameter.
IsOperand(f, o) ==
  \/ o[1] = "const" /\ o[2] \in Int
  \/ o[1] = "var" /\ o[2] \in {f[i].var : i \in DOMAIN f} \cup DOMAIN Parameters

ASSUME ScalarAssumption ==
  /\ NoBound \notin Int
  /\ {UPDATE_COUNT_LIMIT, MaxBound, MaxScalar} \subseteq Nat
  /\ \A p \in DOMAIN Parameters : Parameters[p] \in ScalarSets
  /\ \A f \in Functions :
       /\ Len(f) \in Nat /\ DOMAIN f = 1..Len(f)
       /\ \A i \in DOMAIN f : /\ f[i].kind \in {"assign", "for"} /\ f[i].op \in ScalarOps
                            /\ IsOperand(f, f[i].a) /\ IsOperand(f, f[i].b)

VARIABLES
  func,               \* the function
  var2set,            \* variable -> its set
  lowerCount, upperCount,
  at,                 \* next statement, or "checked", or "rejected"
  updated,            \* a set has changed in this pass
  env                 \* the run: defined variables -> value

scalarVars == <<func, var2set, lowerCount, upperCount, at, updated, env>>

-----------------------------------------------------------------------------
(* ScalarSet. *)

ScalarSet(divisibility, lower, upper) ==
  [divisibility |-> divisibility, lower |-> lower, upper |-> upper]

EmptySet == ScalarSet(1, 0, -1)
Universe == ScalarSet(1, NoBound, NoBound)
Singleton(c) == ScalarSet(IF c < 0 THEN -c ELSE c, c, c)

Bounded(s) == s.lower # NoBound /\ s.upper # NoBound

IsEmpty(s) ==
  /\ Bounded(s)
  /\ \/ s.lower > s.upper
     \/ s.divisibility # 0 /\ (s.upper \div s.divisibility) * s.divisibility < s.lower

IsConstant(s) == Bounded(s) /\ s.lower = s.upper /\ Divides(s.divisibility, s.lower)

Admits(s, x) ==
  /\ Divides(s.divisibility, x)
  /\ s.lower # NoBound => x >= s.lower
  /\ s.upper # NoBound => x <= s.upper

\* Mutant: sets are compared by identity.
SameSet_ByIdentity(s, t) == FALSE

SameSet(s, t) == s = t \/ (IsEmpty(s) /\ IsEmpty(t))

\* A bound computed from two that are both there.
Lift(Op(_, _), x, y) == IF NoBound \in {x, y} THEN NoBound ELSE Op(x, y)

Least(x, y) == Min({x, y})
Greatest(x, y) == Max({x, y})
Plus(x, y) == x + y
Minus(x, y) == x - y

\* C division: towards zero.
CDiv(x, y) == IF x * y < 0 THEN -((IF x < 0 THEN -x ELSE x) \div (IF y < 0 THEN -y ELSE y))
              ELSE (IF x < 0 THEN -x ELSE x) \div (IF y < 0 THEN -y ELSE y)
CMod(x, y) == x - y * CDiv(x, y)

Common(s, t) == Gcd({s.divisibility, t.divisibility})

Union(s, t) ==
  IF IsEmpty(s) THEN t
  ELSE ScalarSet(Common(s, t), Lift(Least, s.lower, t.lower), Lift(Greatest, s.upper, t.upper))

Sum(s, t) == ScalarSet(Common(s, t), Lift(Plus, s.lower, t.lower), Lift(Plus, s.upper, t.upper))

\* Mutant: like bounds are subtracted from each other.
Difference_SameBounds(s, t) ==
  ScalarSet(Common(s, t), Lift(Minus, s.lower, t.lower), Lift(Minus, s.upper, t.upper))

Difference(s, t) ==
  ScalarSet(Common(s, t), Lift(Minus, s.lower, t.upper), Lift(Minus, s.upper, t.lower))

CornerProducts(s, t) == {x * y : x \in {s.lower, s.upper}, y \in {t.lower, t.upper}}

SetProduct(s, t) ==
  LET d == s.divisibility * t.divisibility
  IN  IF Bounded(s) /\ Bounded(t) THEN ScalarSet(d, Min(CornerProducts(s, t)), Max(CornerProducts(s, t)))
      ELSE IF s.lower # NoBound /\ s.lower >= 0 /\ t.lower # NoBound
           THEN ScalarSet(d, s.lower * t.lower, NoBound)
      ELSE ScalarSet(d, NoBound, NoBound)

Quotient(s, t) ==
  IF IsConstant(t)
  THEN ScalarSet(s.divisibility \div Max({1, Common(s, Singleton(t.lower))}),
                 Lift(CDiv, s.lower, t.lower), Lift(CDiv, s.upper, t.lower))
  ELSE ScalarSet(1,
         IF t.upper # NoBound /\ t.upper > 0 THEN Lift(CDiv, s.lower, t.upper) ELSE NoBound,
         IF t.lower # NoBound /\ t.lower > 0 THEN Lift(CDiv, s.upper, t.lower) ELSE NoBound)

Remainder(s, t) ==
  IF IsConstant(t)
  THEN LET c == t.lower
           d == s.divisibility \div Common(s, Singleton(c))
       IN  IF Bounded(s) /\ s.lower >= 0 /\ s.upper < c
           THEN ScalarSet(d, s.lower, s.upper)
           ELSE ScalarSet(d, 0, c - 1)
  ELSE ScalarSet(1, 0, IF t.upper = NoBound THEN NoBound ELSE t.upper - 1)

Minimum(s, t) == ScalarSet(Common(s, t), Lift(Least, s.lower, t.lower), Lift(Least, s.upper, t.upper))
Maximum(s, t) ==
  ScalarSet(Common(s, t), Lift(Greatest, s.lower, t.lower), Lift(Greatest, s.upper, t.upper))

Apply(op, s, t) ==
  IF IsEmpty(s) \/ IsEmpty(t) THEN EmptySet
  ELSE CASE op = "add" -> Sum(s, t)
         [] op = "sub" -> Difference(s, t)
         [] op = "mul" -> SetProduct(s, t)
         [] op = "div" -> Quotient(s, t)
         [] op = "mod" -> Remainder(s, t)
         [] op = "min" -> Minimum(s, t)
         [] op = "max" -> Maximum(s, t)
         [] OTHER -> Universe

Computed(op, x, y) ==
  CASE op = "add" -> x + y
    [] op = "sub" -> x - y
    [] op = "mul" -> x * y
    [] op = "div" -> CDiv(x, y)
    [] op = "mod" -> CMod(x, y)
    [] op = "min" -> Least(x, y)
    [] op = "max" -> Greatest(x, y)

NonNegative(s) == s.lower # NoBound /\ s.lower >= 0
Positive(s) == s.lower # NoBound /\ s.lower > 0
Negative(s) == s.lower # NoBound /\ s.lower < 0

\* A divisor that is exactly zero raises: in is_constant, in c_style_div, or where
\* the known divisors are divided.
Raises(op, s, t) ==
  /\ op \in {"div", "mod"} /\ ~IsEmpty(s)
  /\ t.lower = 0 /\ t.upper = 0
  /\ 0 \in {s.divisibility, t.divisibility} \/ (op = "div" /\ {s.lower, s.upper} # {NoBound})

\* The operands for which the code's set can be too small, no others.  The divisor
\* kept for a quotient or a remainder is wrong when the constant and the known
\* divisor divide each other neither way; the bounds are computed "assuming
\* positive numbers for simplicity".
Inexact(s, t) ==
  IsConstant(t) /\ ~Divides(t.lower, s.divisibility) /\ ~Divides(s.divisibility, t.lower)

AssumesPositive(op, s, t) ==
  CASE op = "mul" ->
         ~(Bounded(s) /\ Bounded(t)) /\ NonNegative(s) /\ s.lower # s.upper /\ Negative(t)
    [] op = "div" /\ IsConstant(t) -> t.lower < 0 /\ s.lower # s.upper
    [] op = "div" /\ ~IsConstant(t) ->
         \/ s.lower # NoBound /\ t.upper # NoBound /\ t.upper > 0 /\ ~(NonNegative(s) /\ NonNegative(t))
         \/ s.upper # NoBound /\ s.upper < 0 /\ Positive(t)
    [] op = "mod" /\ IsConstant(t) ->
         t.lower < 0 \/ ~(NonNegative(s) \/ Divides(t.lower, s.divisibility))
    [] op = "mod" /\ ~IsConstant(t) -> ~NonNegative(s) \/ (t.upper # NoBound /\ ~NonNegative(t))
    [] OTHER -> FALSE

TooSmall(op, s, t) ==
  /\ ~IsEmpty(s) /\ ~IsEmpty(t)
  /\ (op \in {"div", "mod"} /\ Inexact(s, t)) \/ AssumesPositive(op, s, t)

-----------------------------------------------------------------------------
(* Functions: statements [kind, var, op, a, b], operands <<"const", c>> or    *)
(* <<"var", name>>.  A "for" statement gives its variable the numbers below   *)
(* the value of its expression.                                               *)

Targets == {func[i].var : i \in DOMAIN func}
Variables == Targets \cup DOMAIN Parameters
Used(stmt) == {o[2] : o \in {o \in {stmt.a, stmt.b} : o[1] = "var"}}

SetOf(o) == IF o[1] = "const" THEN Singleton(o[2]) ELSE var2set[o[2]]
ValueOf(o) == IF o[1] = "const" THEN o[2] ELSE env[o[2]]

RightHandSet(stmt) ==
  LET e == Apply(stmt.op, SetOf(stmt.a), SetOf(stmt.b))
  IN  IF stmt.kind = "assign" THEN e
      ELSE ScalarSet(1, 0, IF e.upper = NoBound THEN NoBound ELSE e.upper - 1)

SmallerLower(s, t) == t.lower # NoBound /\ (s.lower = NoBound \/ s.lower < t.lower)
LargerUpper(s, t) == t.upper # NoBound /\ (s.upper = NoBound \/ s.upper > t.upper)

ScalarInit ==
  /\ func \in Functions
  /\ var2set = [v \in Variables |-> IF v \in DOMAIN Parameters THEN Parameters[v] ELSE EmptySet]
  /\ lowerCount = [v \in Variables |-> 0]
  /\ upperCount = [v \in Variables |-> 0]
  /\ at = 1
  /\ updated = FALSE
  /\ env = [v \in Variables |-> NoBound]

WithinBound(s) == {s.lower, s.upper} \subseteq (-MaxBound..MaxBound) \cup {NoBound}

DividesByZero(stmt) == Raises(stmt.op, SetOf(stmt.a), SetOf(stmt.b))

\* A set takes the place of its variable's; a bound that has moved too often is given up.
Update(v, old, new) ==
  LET changed == ~SameSet(new, old)
      lower == changed /\ SmallerLower(new, old)
      upper == changed /\ LargerUpper(new, old)
  IN  /\ lowerCount' = [lowerCount EXCEPT ![v] = @ + (IF lower THEN 1 ELSE 0)]
      /\ upperCount' = [upperCount EXCEPT ![v] = @ + (IF upper THEN 1 ELSE 0)]
      /\ var2set' =
           IF ~changed THEN var2set
           ELSE [var2set EXCEPT ![v] =
                  ScalarSet(new.divisibility,
                    IF lower /\ lowerCount'[v] > UPDATE_COUNT_LIMIT THEN NoBound ELSE new.lower,
                    IF upper /\ upperCount'[v] > UPDATE_COUNT_LIMIT THEN NoBound ELSE new.upper)]
      /\ updated' = (updated \/ changed)

\* One statement: its set joins its variable's.
AnalyzeStatement ==
  /\ at \in DOMAIN func
  /\ ~DividesByZero(func[at])
  /\ LET v == func[at].var IN
       \E new \in {Union(var2set[v], RightHandSet(func[at]))} :
         WithinBound(new) /\ Update(v, var2set[v], new)
  /\ at' = at + 1
  /\ UNCHANGED <<func, env>>

\* The error ends the compilation.
Abandon ==
  /\ at \in DOMAIN func
  /\ DividesByZero(func[at])
  /\ at' = -1
  /\ UNCHANGED <<func, var2set, lowerCount, upperCount, updated, env>>

\* The end of a pass: again while something changes; a set that is still empty
\* rejects the function.
EndPass ==
  /\ at = Len(func) + 1
  /\ updated' = FALSE
  /\ at' = IF updated THEN 1
           ELSE IF \E v \in Variables : IsEmpty(var2set[v]) THEN -1
           ELSE 0
  /\ UNCHANGED <<func, var2set, lowerCount, upperCount, env>>

\* The run of an accepted function, from its arguments on.
ReceiveArguments ==
  /\ at = 0
  /\ \A v \in Variables : env[v] = NoBound
  /\ \E args \in [DOMAIN Parameters -> 0..MaxScalar] :
       /\ \A p \in DOMAIN Parameters : Admits(Parameters[p], args[p])
       /\ env' = [v \in Variables |-> IF v \in DOMAIN Parameters THEN args[v] ELSE NoBound]
  /\ UNCHANGED <<func, var2set, lowerCount, upperCount, at, updated>>

RunStmt ==
  /\ at = 0
  /\ \E v \in Variables : env[v] # NoBound
  /\ \E i \in DOMAIN func :
       LET stmt == func[i]
           x == ValueOf(stmt.a)
           y == ValueOf(stmt.b)
           e == Computed(stmt.op, x, y)
       IN  /\ \A v \in Used(stmt) : env[v] # NoBound
           /\ stmt.op \in {"div", "mod"} => y # 0
           /\ \E z \in (IF stmt.kind = "assign" THEN {e} ELSE 0..(e - 1)) :
                /\ z \in -MaxScalar..MaxScalar
                /\ env' = [env EXCEPT ![stmt.var] = z]
  /\ UNCHANGED <<func, var2set, lowerCount, upperCount, at, updated>>

Analyze == AnalyzeStatement \/ Abandon \/ EndPass
ScalarNext == Analyze \/ ReceiveArguments \/ RunStmt

ScalarSpec == ScalarInit /\ [][ScalarNext]_scalarVars /\ WF_scalarVars(Analyze)

-----------------------------------------------------------------------------
\* No operation of the function has operands for which its set can be too small.
Reliable == \A i \in DOMAIN func : ~TooSmall(func[i].op, SetOf(func[i].a), SetOf(func[i].b))

\* Whatever the accepted function computes is in the set the analysis gave its
\* variable (analyze_scalar), also when bounds were given up on the way, if no
\* operation is one for which the code assumes positive numbers or an exact
\* divisor without reason (TooSmall).
ValuesInSets ==
  at = 0 /\ Reliable => \A v \in Variables : env[v] # NoBound => Admits(var2set[v], env[v])

\* The iteration of analyze_scalar reaches a fixpoint for every function.
AnalysisEnds == <>(at \in {-1, 0})
=============================================================================
