---------------------------- MODULE GridAnalysis ----------------------------
(***************************************************************************)
(* The grid analyzer (ir/analyzers/grid_analyzer.py): for an integer       *)
(* expression over the axes of a tile it computes, along one dimension,    *)
(* how the values run: in contiguous segments, in constant segments, and   *)
(* what divides the first value of every segment.  The emitters of loads   *)
(* and stores take the width of their accesses from it, so a claim that    *)
(* does not hold is a wrong or a misaligned access.                        *)
(*                                                                         *)
(* The visitor works in post-order, which is a stack machine: a leaf is    *)
(* pushed, an operation replaces its operands.  Beside every DimensionInfo *)
(* the stack keeps the vector of values it is about.  Eight kinds of       *)
(* operand (Cases, SwizzleAligned, VisitTensorElement) make the analyzer   *)
(* claim too much; in place of such a claim the stack has Overclaimed, and *)
(* what is computed from it is not claimed either.                         *)
(***************************************************************************)
EXTENDS Arith, Sequences, SequencesExt

CONSTANTS
  Extent,        \* length of the dimension
  Literals,      \* constants in expressions
  Multiples,     \* pairs <<d, v>>: a variable known to be divisible by d, of value v
  Swizzles,      \* triples <<mbase, bbits, sshift>>
  MaxVisits,     \* bound: nodes of an expression
  MaxDepth,      \* bound: operands waiting
  MaxValue,      \* bound: values of a vector
  NoValue,       \* the value None
  BitXor(_, _)   \* exclusive or of the bits of two numbers

ASSUME GridAssumption ==
  /\ Extent \in Nat \ {0} /\ MaxValue \in Nat
  /\ Literals \subseteq Nat
  /\ \A p \in Multiples : p[1] \in Nat /\ p[2] \in Nat /\ Divides(p[1], p[2])
  /\ \A s \in Swizzles : /\ IsPowerOfTwo(2^s[1])
                        /\ {2^s[1], 2^s[2], 2^s[3]} \subseteq Nat \ {0}
  /\ NoValue \notin Int

\* Below a power of two that divides y, x keeps its bits, and the others are
\* combined as if x had zeroes there.
KeepsLowBits(x, y, p) ==
  /\ BitXor(x, y) = BitXor(x - (x % p), y) + (x % p)
  /\ Divides(p, BitXor(x - (x % p), y))

ASSUME XorAssumption ==
  /\ \A x, y \in 0..MaxValue : BitXor(x, y) \in Nat /\ BitXor(x, y) = BitXor(y, x)
  /\ \A x \in 0..MaxValue : BitXor(x, 0) = x
  /\ \A p \in {n \in 1..MaxValue : IsPowerOfTwo(n)} :
       \A x \in 0..MaxValue, y \in {n \in 0..MaxValue : Divides(p, n)} : KeepsLowBits(x, y, p)

VARIABLES
  stack,         \* visited operands: [info, vec]; info may be Overclaimed
  visits         \* nodes visited

gridVars == <<stack, visits>>

Index == 0..(Extent - 1)

Info(value, continuity, constancy, divisibility) ==
  [value |-> value, continuity |-> continuity,
   constancy |-> constancy, divisibility |-> divisibility]

FromAxis == Info(NoValue, Extent, 1, 0)
FromConstant(c) == Info(c, 1, Extent, c)
FromUnknown == Info(NoValue, 1, Extent, 1)
FromDivisibility(d) == Info(NoValue, 1, Extent, d)
AnyInfo == Info(NoValue, 1, 1, 1)

-----------------------------------------------------------------------------
(* The operations of DimensionInfo. *)

BothConstant(a, b) == a.constancy > 1 /\ b.constancy > 1

Constant(a, b, divisibility) ==
  Info(NoValue, 1, Gcd({a.constancy, b.constancy}), divisibility)

\* A contiguous operand moved by a constant one.
Shifted(run, const) ==
  LET c == Gcd({run.continuity, const.constancy})
  IN  Info(NoValue, c, 1, Gcd({c, run.divisibility, const.divisibility}))

Add(a, b) ==
  IF BothConstant(a, b) THEN Constant(a, b, Gcd({a.divisibility, b.divisibility}))
  ELSE IF a.continuity > 1 /\ b.constancy > 1 THEN Shifted(a, b)
  ELSE IF a.constancy > 1 /\ b.continuity > 1 THEN Shifted(b, a)
  ELSE AnyInfo

\* __sub__ is __add__ with another value.
Subtract(a, b) == Add(a, b)

Times(a, b) ==
  IF BothConstant(a, b) THEN Constant(a, b, a.divisibility * b.divisibility)
  ELSE IF a.constancy > 1 /\ b.continuity > 1 THEN Info(NoValue, 1, 1, a.divisibility)
  ELSE IF a.continuity > 1 /\ b.constancy > 1 THEN Info(NoValue, 1, 1, b.divisibility)
  ELSE AnyInfo

\* Mutant: the segments are not asked to begin at multiples.
SplitsAt_AnyStart(a, b) == b.value # NoValue /\ a.continuity % b.value = 0

\* The segments of a split evenly at multiples of the known value of b.
SplitsAt(a, b) ==
  /\ b.value # NoValue
  /\ a.continuity % b.value = 0
  /\ a.divisibility % b.value = 0

FloorDiv(a, b) ==
  IF SplitsAt(a, b) THEN Info(NoValue, 1, b.value, a.divisibility \div b.value)
  ELSE IF BothConstant(a, b) THEN Constant(a, b, 1)
  ELSE AnyInfo

Modulo(a, b) ==
  IF b.value = 1 THEN Info(0, 1, b.constancy, 0)
  ELSE IF SplitsAt(a, b) THEN Info(NoValue, b.value, 1, 0)
  ELSE IF BothConstant(a, b) THEN Constant(a, b, 1)
  ELSE AnyInfo

\* Comparing a run with a constant: constant between their common divisors.
AgainstConstant(const, run) ==
  Gcd({const.constancy, const.divisibility, run.continuity, run.divisibility})

Compare(a, b) ==
  IF BothConstant(a, b) THEN Constant(a, b, 1)
  ELSE IF a.constancy > 1 THEN Info(NoValue, 1, AgainstConstant(a, b), 1)
  ELSE IF b.constancy > 1 THEN Info(NoValue, 1, AgainstConstant(b, a), 1)
  ELSE AnyInfo

Both(a, b) == IF BothConstant(a, b) THEN Constant(a, b, 1) ELSE AnyInfo

\* Bits of a constant above the low bits of a run.
Flips(run, const) ==
  /\ run.continuity > 1 /\ IsPowerOfTwo(run.continuity)
  /\ const.constancy > 1 /\ IsPowerOfTwo(const.constancy)
  /\ IsPowerOfTwo(const.divisibility)
  /\ run.continuity % const.divisibility = 0

Flipped(run, const) ==
  Info(NoValue, Gcd({run.continuity, const.constancy, const.divisibility}), 1,
       Gcd({run.divisibility, const.divisibility}))

Xored(a, b) ==
  IF BothConstant(a, b) THEN Constant(a, b, 1)
  ELSE IF Flips(a, b) THEN Flipped(a, b)
  ELSE IF Flips(b, a) THEN Flipped(b, a)
  ELSE AnyInfo

\* swizzle(x, mbase, bbits, sshift): bbits bits of x are combined with the
\* bits from mbase on.
SwizzleOf(x, s) == BitXor(x, ((x \div (2^s[1] * 2^s[3])) % 2^s[2]) * 2^s[1])

SwizzledInfo(a, s) ==
  Info(IF a.value = NoValue THEN NoValue ELSE SwizzleOf(a.value, s),
       Gcd({a.continuity, 2^s[1]}), Gcd({a.constancy, 2^s[1]}), Gcd({a.divisibility, 2^s[1]}))

-----------------------------------------------------------------------------
(* What the operations compute on values. *)

Bool(p) == IF p THEN 1 ELSE 0

Evaluate(op, x, y) ==
  CASE op = "add" -> x + y
    [] op = "sub" -> x - y
    [] op = "mul" -> x * y
    [] op = "div" -> x \div y
    [] op = "mod" -> x % y
    [] op = "lt"  -> Bool(x < y)
    [] op = "le"  -> Bool(x <= y)
    [] op = "eq"  -> Bool(x = y)
    [] op = "and" -> Bool(x # 0 /\ y # 0)
    [] op = "xor" -> BitXor(x, y)

\* The value of known operands; __xor__ computes it with "and", too.
Known(op, x, y) ==
  IF op = "xor" THEN (IF x = 0 THEN x ELSE y) ELSE Evaluate(op, x, y)

Operations == {"add", "sub", "mul", "div", "mod", "lt", "le", "eq", "and", "xor"}

\* What the analyzer claims of op applied to a and b.
Segments(op, a, b) ==
  CASE op = "add" -> Add(a, b)
    [] op = "sub" -> Subtract(a, b)
    [] op = "mul" -> Times(a, b)
    [] op = "div" -> FloorDiv(a, b)
    [] op = "mod" -> Modulo(a, b)
    [] op \in {"lt", "le", "eq"} -> Compare(a, b)
    [] op = "and" -> Both(a, b)
    [] op = "xor" -> Xored(a, b)

ComputeValue(op, a, b) ==
  IF NoValue \in {a.value, b.value} THEN NoValue ELSE Known(op, a.value, b.value)

Binary(op, a, b) ==
  LET claim == Segments(op, a, b)
  IN  IF claim.value # NoValue THEN claim
      ELSE Info(ComputeValue(op, a, b), claim.continuity, claim.constancy, claim.divisibility)

\* The program itself defines the operation on these values.
Applies(op, v, w) ==
  \A i \in Index :
    /\ op \in {"div", "mod"} => v[i] >= 0 /\ w[i] > 0
    /\ op = "and" => {v[i], w[i]} \subseteq {0, 1}
    /\ op = "xor" => v[i] >= 0 /\ w[i] >= 0

\* The run that is left does not begin at multiples, or the constant changes.
XorUnaligned(a, b) ==
  LET c == Xored(a, b).continuity
  IN  /\ c > 1
      /\ Gcd({a.divisibility, b.divisibility}) % c # 0 \/ Max({a.constancy, b.constancy}) # Extent

\* Cases in which the code's claim is too strong.
Cases(op, a, b) ==
  UNION {
    IF op = "sub" /\ b.continuity > 1 THEN {"minus_run"} ELSE {},
    IF op = "div" /\ SplitsAt(a, b) /\ a.continuity > b.value THEN {"divide_run"} ELSE {},
    IF op = "lt" /\ ~BothConstant(a, b) /\ a.constancy > 1 THEN {"above_constant"} ELSE {},
    IF op = "le" /\ ~BothConstant(a, b) /\ b.constancy > 1 THEN {"above_constant"} ELSE {},
    IF op = "eq" /\ ~BothConstant(a, b) THEN {"equals_constant"} ELSE {},
    IF op = "xor" /\ NoValue \notin {a.value, b.value} THEN {"xor_known"} ELSE {},
    IF op = "xor" /\ XorUnaligned(a, b) THEN {"xor_unaligned"} ELSE {}}

\* The segments a swizzle keeps begin at multiples, and are whole ones.
SwizzleAligned(a, mbase) ==
  LET c == Gcd({a.continuity, 2^mbase})
  IN  Divides(c, a.divisibility) /\ c \in {a.continuity, 2^mbase}

-----------------------------------------------------------------------------
GridInit == stack = <<>> /\ visits = 0

\* In place of a claim that is too strong, or was made from one.
Overclaimed == NoValue

Node(info, vec) == [info |-> info, vec |-> vec]

Small(vec) == \A i \in Index : vec[i] \in -MaxValue..MaxValue

Push(info, vec) ==
  /\ visits < MaxVisits
  /\ Len(stack) < MaxDepth
  /\ Small(vec)
  /\ stack' = Append(stack, Node(info, vec))
  /\ visits' = visits + 1

\* The axis of this dimension, or another one of extent 1.
VisitAxis ==
  \/ Push(FromAxis, [i \in Index |-> i])
  \/ Push(FromDivisibility(0), [i \in Index |-> 0])

VisitConstant == \E c \in Literals : Push(FromConstant(c), [i \in Index |-> c])

\* A variable, or the axis of another dimension: one unknown value.
VisitVar == \E c \in Literals : Push(FromUnknown, [i \in Index |-> c])

\* A variable the scalar analysis knows a divisor of.
VisitDivisible == \E p \in Multiples : Push(FromDivisibility(p[1]), [i \in Index |-> p[2]])

\* An element of a tensor: the same one along the axis, or one at an index that runs.
VisitTensorElement ==
  \E v \in {[i \in Index |-> 3], [i \in Index |-> (i * i) % 5]} :
    Push(IF \E i \in Index : v[i] # v[0] THEN Overclaimed ELSE FromUnknown, v)

\* Operands stay on the stack below the operation that takes them.
Replace(n, info, vec) ==
  /\ visits < MaxVisits
  /\ Small(vec)
  /\ stack' = Append(SubSeq(stack, 1, Len(stack) - n), Node(info, vec))
  /\ visits' = visits + 1

VisitBinary ==
  /\ Len(stack) >= 2
  /\ LET a == stack[Len(stack) - 1]
         b == Last(stack)
     IN  \E op \in Operations :
           /\ Applies(op, a.vec, b.vec)
           /\ Replace(2,
                IF Overclaimed \in {a.info, b.info} \/ Cases(op, a.info, b.info) # {} THEN Overclaimed
                ELSE Binary(op, a.info, b.info),
                [i \in Index |-> Evaluate(op, a.vec[i], b.vec[i])])

\* Bitwise or, as and: nothing is claimed.  A bit set in both is in their sum
\* twice.
VisitBitwise ==
  /\ Len(stack) >= 2
  /\ LET a == stack[Len(stack) - 1]
         b == Last(stack)
     IN  /\ Applies("xor", a.vec, b.vec)
         /\ Replace(2, AnyInfo, [i \in Index |-> (a.vec[i] + b.vec[i] + BitXor(a.vec[i], b.vec[i])) \div 2])

VisitSwizzle ==
  /\ stack # <<>>
  /\ LET a == Last(stack)
     IN  \E s \in Swizzles :
           /\ \A i \in Index : a.vec[i] >= 0
           /\ Replace(1,
                IF a.info = Overclaimed \/ ~SwizzleAligned(a.info, s[1]) THEN Overclaimed
                ELSE SwizzledInfo(a.info, s),
                [i \in Index |-> SwizzleOf(a.vec[i], s)])

GridNext ==
  \/ VisitAxis \/ VisitConstant \/ VisitVar \/ VisitDivisible \/ VisitTensorElement
  \/ VisitBinary \/ VisitBitwise \/ VisitSwizzle

GridSpec == GridInit /\ [][GridNext]_gridVars

-----------------------------------------------------------------------------
(* What a DimensionInfo says of a vector (the class comment). *)

\* Segments of n elements: contiguous, constant, and begun by multiples of d.
Contiguous(v, n) == \A i, j \in Index : i \div n = j \div n => v[i] - v[j] = i - j
Repeats(v, n) == \A i, j \in Index : i \div n = j \div n => v[i] = v[j]
BegunBy(v, n, d) == \A i \in Index : i % n = 0 => Divides(d, v[i])

Describes(info, v) ==
  /\ info.value # NoValue => \A i \in Index : v[i] = info.value
  /\ Divides(info.continuity, Extent) /\ Divides(info.constancy, Extent)
  /\ Contiguous(v, info.continuity)
  /\ Repeats(v, info.constancy)
  /\ BegunBy(v, Max({info.continuity, info.constancy}), info.divisibility)

\* Every claim the analyzer makes of a subexpression holds of its values, for
\* any order in which operations are applied (visit_binary, visit_Call), where no
\* operation of the subexpression is one of the eight for which the code claims
\* too much: a run subtracted, a run divided into several segments, a run at or
\* below a constant, or equal to one, "^" of two known values, "^" or a swizzle
\* of segments that do not begin at multiples, a tensor's element at an index
\* that runs.
ClaimsHold ==
  \A k \in DOMAIN stack :
    stack[k].info # Overclaimed => Describes(stack[k].info, stack[k].vec)
=============================================================================
