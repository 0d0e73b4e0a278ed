-------------------------- MODULE TransformsProofs --------------------------
(***************************************************************************)
(* The passes keep the effects of every program.                            *)
(*                                                                         *)
(* First what a statement does to a state, then a simulation between two    *)
(* programs one of which lacks some statements of the other and has other   *)
(* names, then the three ways in which a pass changes a program: a renamed  *)
(* variable, a renamed tensor, a statement nobody sees.                     *)
(***************************************************************************)
EXTENDS Transforms, SequenceTheorems, FiniteSetTheorems, WellFoundedInduction, TLAPS

-----------------------------------------------------------------------------
(* Numbers. *)

LEMMA Reach ==
  ASSUME NEW S, 0 \in S, \A n \in Nat : n \in S => n + 1 \in S
  PROVE  \A n \in Nat : n \in S
<1> DEFINE T == Nat \ S
<1> SUFFICES ASSUME T # {} PROVE FALSE
  OBVIOUS
<1>1. PICK m \in T : \A k \in T : <<k, m>> \notin OpToRel(<, Nat)
  BY NatLessThanWellFounded, WFMin, Zenon
<1>2. m # 0 /\ m - 1 \in Nat /\ m - 1 < m /\ (m - 1) + 1 = m
  BY SMT
<1>3. m - 1 \notin T
  BY <1>1, <1>2 DEF OpToRel
<1>4. m \in S
  BY <1>2, <1>3
<1> QED BY <1>4

-----------------------------------------------------------------------------
(* What a statement and a run of statements do. *)

LEMMA UpdatedIs ==
  ASSUME NEW store, NEW names, NEW value
  PROVE  \A x : Held(Updated(store, names, value), x) = IF x \in names THEN value ELSE Held(store, x)
BY DEF Held, Updated

\* A statement binds variables, writes tensors and logs what it sees, and does
\* nothing else.
LEMMA Performs ==
  ASSUME NEW s, NEW a
  PROVE  /\ Perform(s, a).log = IF a.kind \in Effectful THEN Append(s.log, Now(s, a)) ELSE s.log
         /\ \A v : Held(Perform(s, a).vars, v) = IF v \in Binds(a) THEN Gives(s, a) ELSE Held(s.vars, v)
         /\ \A t : Held(Perform(s, a).tensors, t) = IF t \in Puts(a) THEN Yields(s, a) ELSE Held(s.tensors, t)
<1>1. /\ Perform(s, a).log = IF a.kind \in Effectful THEN Append(s.log, Now(s, a)) ELSE s.log
      /\ Perform(s, a).vars = Updated(s.vars, Binds(a), Gives(s, a))
      /\ Perform(s, a).tensors = Updated(s.tensors, Puts(a), Yields(s, a))
  BY DEF Perform
<1> QED BY <1>1, UpdatedIs

\* The states of a run.
States(p, first, s) ==
  LET run[i \in (first - 1)..Len(p)] ==
        IF i < first THEN s ELSE With(run[i - 1], LAMBDA t : Perform(t, p[i]))
  IN  run

LEMMA RunStates ==
  ASSUME NEW p, Len(p) \in Nat, NEW first \in 1..(Len(p) + 1), NEW s
  PROVE  /\ States(p, first, s)[first - 1] = s
         /\ \A i \in first..Len(p) : States(p, first, s)[i] = Perform(States(p, first, s)[i - 1], p[i])
         /\ Run(p, first, s) = States(p, first, s)[Len(p)]
<1> DEFINE Next(h, i) == IF i < first THEN s ELSE Perform(h[i - 1], p[i])
           Runs(h, m) == h = [i \in (first - 1)..m |-> Next(h, i)]
           A == {d \in Nat : \E h : Runs(h, first - 1 + d)}
<1>1. 0 \in A
  <2> DEFINE k == [i \in (first - 1)..(first - 1) |-> s]
  <2>1. \A i \in (first - 1)..(first - 1) : k[i] = Next(k, i)
    OBVIOUS
  <2>2. Runs(k, first - 1)
    BY <2>1
  <2>3. first - 1 + 0 = first - 1
    OBVIOUS
  <2> HIDE DEF k, Runs
  <2> QED BY <2>2, <2>3
<1>2. ASSUME NEW d \in Nat, d \in A PROVE d + 1 \in A
  <2> DEFINE m == first - 1 + d
  <2>1. PICK h : Runs(h, m)
    BY <1>2
  <2> DEFINE k == [i \in (first - 1)..(m + 1) |-> IF i = m + 1 THEN Perform(h[m], p[m + 1]) ELSE h[i]]
  <2>2. ASSUME NEW i \in (first - 1)..(m + 1) PROVE k[i] = Next(k, i)
    <3>1. CASE i = m + 1
      <4>1. ~(i < first) /\ i - 1 = m /\ m \in (first - 1)..(m + 1) /\ m # m + 1
        BY <3>1
      <4>2. k[m] = h[m] /\ k[i] = Perform(h[m], p[i])
        BY <3>1, <4>1
      <4> HIDE DEF k
      <4> QED BY <4>1, <4>2
    <3>2. CASE i # m + 1
      <4>1. /\ i \in (first - 1)..m
            /\ ~(i < first) => i - 1 \in (first - 1)..m /\ i - 1 \in (first - 1)..(m + 1) /\ i - 1 # m + 1
        BY <3>2
      <4>2. h[i] = Next(h, i) /\ k[i] = h[i]
        BY <2>1, <3>2, <4>1
      <4>3. ~(i < first) => k[i - 1] = h[i - 1]
        BY <4>1
      <4> HIDE DEF k
      <4> QED BY <4>2, <4>3
    <3> QED BY <3>1, <3>2
  <2>3. Runs(k, m + 1)
    <3>1. k = [i \in (first - 1)..(m + 1) |-> k[i]]
      OBVIOUS
    <3> HIDE DEF k
    <3> QED BY <2>2, <3>1
  <2>4. first - 1 + (d + 1) = m + 1
    OBVIOUS
  <2> HIDE DEF k, Runs, m
  <2> QED BY <2>3, <2>4
<1>3. \E h : Runs(h, Len(p))
  <2>1. Len(p) - (first - 1) \in Nat /\ first - 1 + (Len(p) - (first - 1)) = Len(p)
    OBVIOUS
  <2> HIDE DEF Runs
  <2>2. \A d \in Nat : d \in A
    <3> HIDE DEF A
    <3> QED BY <1>1, <1>2, Reach
  <2> QED BY <2>1, <2>2
<1> DEFINE st == States(p, first, s)
<1>4. st = [i \in (first - 1)..Len(p) |-> IF i < first THEN s ELSE Perform(st[i - 1], p[i])]
  <2> DEFINE With1(h, i) == With(h[i - 1], LAMBDA t : Perform(t, p[i]))
             Whole(h) == h = [i \in (first - 1)..Len(p) |-> IF i < first THEN s ELSE With1(h, i)]
  <2>1. \A h, i : With1(h, i) = Perform(h[i - 1], p[i])
    BY DEF With
  <2>2. st = CHOOSE h : Whole(h)
    BY DEF States
  <2> HIDE DEF With1, st
  <2>3. PICK h : Runs(h, Len(p))
    BY <1>3
  <2>4. Whole(h)
    BY <2>1, <2>3
  <2> HIDE DEF Whole, Runs
  <2>5. Whole(st)
    BY <2>2, <2>4
  <2> QED BY <2>1, <2>5 DEF Whole
<1>5. Run(p, first, s) = st[Len(p)]
  BY DEF Run, States
<1> HIDE DEF st
<1>6. st[first - 1] = s
  BY <1>4
<1>7. ASSUME NEW i \in first..Len(p) PROVE st[i] = Perform(st[i - 1], p[i])
  <2>1. i \in (first - 1)..Len(p) /\ ~(i < first)
    OBVIOUS
  <2> QED BY <1>4, <2>1
<1> QED BY <1>5, <1>6, <1>7 DEF st

-----------------------------------------------------------------------------
(* Two programs p and q: q lacks statement d of p, if there is one, and has *)
(* other names.  A match m says which variables and tensors nobody compares *)
(* (hv, ht), and which pairs are the same from statement c on (pv, pt).     *)

Agree(m, late, s, s2) ==
  /\ s2.log = s.log
  /\ \A x : x \notin m.hv => Held(s2.vars, x) = Held(s.vars, x)
  /\ \A t : t \notin m.ht => Held(s2.tensors, t) = Held(s.tensors, t)
  /\ late => /\ \A pair \in m.pv : Held(s2.vars, pair[2]) = Held(s.vars, pair[1])
             /\ \A pair \in m.pt : Held(s2.tensors, pair[2]) = Held(s.tensors, pair[1])

\* The number of statements of q that p's first i statements became.
To(d, i) == IF i >= d THEN i - 1 ELSE i

Steps(m, p, q, c, d) ==
  \A i \in 1..Len(p) : \A s, s2 :
    Agree(m, i - 1 >= c, s, s2) =>
      IF i = d THEN Agree(m, i >= c, Perform(s, p[i]), s2)
      ELSE Agree(m, i >= c, Perform(s, p[i]), Perform(s2, q[To(d, i)]))

OneLoop(p) == \A i, j \in Loops(p) : i = j

Simulates(m, p, q, c, d) ==
  /\ c \in Nat \ {0} /\ d \in 1..(Len(p) + 1) /\ (d <= Len(p) => p[d].kind # "loop")
  /\ Len(p) \in Nat /\ DOMAIN p = 1..Len(p)
  /\ Len(q) = To(d, Len(p)) /\ DOMAIN q = 1..Len(q)
  /\ OneLoop(p)
  /\ \A i \in 1..Len(p) : i = d \/ (q[To(d, i)].kind = "loop" <=> p[i].kind = "loop")
  /\ Steps(m, p, q, c, d)

LEMMA ToIs ==
  ASSUME NEW n \in Nat, NEW d \in 1..(n + 1)
  PROVE  /\ To(d, 0) = 0 /\ To(d, n) \in Nat
         /\ \A i \in 1..n : i # d => To(d, i) \in 1..To(d, n) /\ To(d, i - 1) + 1 = To(d, i)
BY DEF To

LEMMA ToOnto ==
  ASSUME NEW n \in Nat, NEW d \in 1..(n + 1), NEW k \in 1..To(d, n)
  PROVE  \E i \in 1..n : i # d /\ To(d, i) = k
<1>1. CASE k >= d
  <2>1. k + 1 \in 1..n /\ k + 1 # d /\ To(d, k + 1) = k
    BY <1>1 DEF To
  <2> QED BY <2>1
<1>2. CASE ~(k >= d)
  <2>1. k \in 1..n /\ k # d /\ To(d, k) = k
    BY <1>2 DEF To
  <2> QED BY <2>1
<1> QED BY <1>1, <1>2

LEMMA SimulatedRun ==
  ASSUME NEW m, NEW p, NEW q, NEW c, NEW d, Simulates(m, p, q, c, d),
         NEW first \in 1..(Len(p) + 1), NEW s, NEW s2, Agree(m, first - 1 >= c, s, s2)
  PROVE  Agree(m, Len(p) >= c, Run(p, first, s), Run(q, To(d, first - 1) + 1, s2))
<1> DEFINE f2 == To(d, first - 1) + 1
           st == States(p, first, s)
           st2 == States(q, f2, s2)
           A == {e \in Nat : first - 1 + e <= Len(p) =>
                   Agree(m, first - 1 + e >= c, st[first - 1 + e], st2[To(d, first - 1 + e)])}
<1>1. c \in Nat \ {0} /\ d \in 1..(Len(p) + 1) /\ Len(p) \in Nat /\ Len(q) = To(d, Len(p))
  BY DEF Simulates
<1>2. Len(q) \in Nat /\ f2 \in 1..(Len(q) + 1) /\ f2 - 1 = To(d, first - 1)
  BY <1>1 DEF To
<1>3. /\ st[first - 1] = s
      /\ \A i \in first..Len(p) : st[i] = Perform(st[i - 1], p[i])
      /\ Run(p, first, s) = st[Len(p)]
  BY <1>1, RunStates
<1>4. /\ st2[f2 - 1] = s2
      /\ \A i \in f2..Len(q) : st2[i] = Perform(st2[i - 1], q[i])
      /\ Run(q, f2, s2) = st2[Len(q)]
  BY <1>2, RunStates
<1> HIDE DEF st, st2
<1>5. 0 \in A
  <2>1. first - 1 + 0 = first - 1
    OBVIOUS
  <2> QED BY <1>2, <1>3, <1>4, <2>1
<1>6. ASSUME NEW e \in Nat, e \in A PROVE e + 1 \in A
  <2> DEFINE i == first + e
  <2>1. first - 1 + (e + 1) = i /\ first - 1 + e = i - 1 /\ i \in Nat
    OBVIOUS
  <2> SUFFICES ASSUME i <= Len(p) PROVE Agree(m, i >= c, st[i], st2[To(d, i)])
    BY <2>1
  <2>2. i \in first..Len(p) /\ i \in 1..Len(p) /\ i - 1 <= Len(p)
    BY <1>1
  <2>3. Agree(m, i - 1 >= c, st[i - 1], st2[To(d, i - 1)])
    BY <1>6, <2>1, <2>2
  <2>4. st[i] = Perform(st[i - 1], p[i])
    BY <1>3, <2>2
  <2> HIDE DEF i, A
  <2>5. CASE i = d
    <3>1. To(d, i) = To(d, i - 1)
      BY <1>1, <2>2, <2>5 DEF To
    <3>2. Agree(m, i >= c, Perform(st[i - 1], p[i]), st2[To(d, i - 1)])
      BY <2>2, <2>3, <2>5 DEF Simulates, Steps
    <3> QED BY <2>4, <3>1, <3>2
  <2>6. CASE i # d
    <3>1. To(d, i) \in f2..Len(q) /\ To(d, i) - 1 = To(d, i - 1)
      BY <1>1, <2>2, <2>6 DEF To
    <3>2. st2[To(d, i)] = Perform(st2[To(d, i - 1)], q[To(d, i)])
      BY <1>4, <3>1
    <3>3. Agree(m, i >= c, Perform(st[i - 1], p[i]), Perform(st2[To(d, i - 1)], q[To(d, i)]))
      BY <2>2, <2>3, <2>6 DEF Simulates, Steps
    <3> QED BY <2>4, <3>2, <3>3
  <2> QED BY <2>5, <2>6
<1>7. Len(p) - (first - 1) \in A
  <2>1. Len(p) - (first - 1) \in Nat
    BY <1>1
  <2>2. \A e \in Nat : e \in A
    <3> HIDE DEF A
    <3> QED BY <1>5, <1>6, Reach
  <2> QED BY <2>1, <2>2
<1>8. first - 1 + (Len(p) - (first - 1)) = Len(p)
  BY <1>1
<1>9. Agree(m, Len(p) >= c, st[Len(p)], st2[Len(q)])
  BY <1>1, <1>7, <1>8
<1> QED BY <1>3, <1>4, <1>9

\* A program does what one that it simulates does.
LEMMA SimulatedEffects ==
  ASSUME NEW m, NEW p, NEW q, NEW c, NEW d, Simulates(m, p, q, c, d)
  PROVE  Effects(q) = Effects(p)
<1>1. /\ c \in Nat \ {0} /\ d \in 1..(Len(p) + 1) /\ Len(p) \in Nat /\ Len(q) = To(d, Len(p))
      /\ DOMAIN p = 1..Len(p) /\ DOMAIN q = 1..Len(q)
      /\ d <= Len(p) => p[d].kind # "loop"
      /\ OneLoop(p)
      /\ \A i \in 1..Len(p) : i = d \/ (q[To(d, i)].kind = "loop" <=> p[i].kind = "loop")
  BY DEF Simulates
<1>0. c \in Nat \ {0} /\ d \in 1..(Len(p) + 1) /\ Len(p) \in Nat /\ Len(q) = To(d, Len(p))
  BY <1>1
<1> DEFINE once == Run(p, 1, Entry)
           once2 == Run(q, 1, Entry)
<1>2. Agree(m, Len(p) >= c, once, once2)
  <2>1. Agree(m, FALSE, Entry, Entry)
    BY DEF Agree
  <2>2. 1 \in 1..(Len(p) + 1) /\ 1 - 1 = 0 /\ ~(0 >= c) /\ To(d, 0) + 1 = 1
    <3>1. To(d, 0) = 0
      BY <1>0, ToIs
    <3> QED BY <1>0, <3>1
  <2>3. Agree(m, 1 - 1 >= c, Entry, Entry)
    BY <2>1, <2>2 DEF Agree
  <2>4. Agree(m, Len(p) >= c, once, Run(q, To(d, 1 - 1) + 1, Entry))
    BY <2>2, <2>3, SimulatedRun
  <2> QED BY <2>2, <2>4
<1> HIDE DEF once, once2
<1>3. CASE Loops(p) = {}
  <2>1. ASSUME NEW k \in Loops(q) PROVE FALSE
    <3>1. k \in 1..Len(q) /\ q[k].kind = "loop"
      BY <1>1 DEF Loops
    <3>2. PICK i \in 1..Len(p) : i # d /\ To(d, i) = k
      BY <1>0, <3>1, ToOnto
    <3> QED BY <1>1, <1>3, <3>1, <3>2 DEF Loops
  <2> QED BY <1>2, <1>3, <2>1 DEF Effects, once, once2, Agree
<1>4. ASSUME NEW l \in Loops(p) PROVE Effects(q) = Effects(p)
  <2>1. l \in 1..Len(p) /\ p[l].kind = "loop" /\ l # d
    BY <1>1 DEF Loops
  <2> DEFINE k == To(d, l)
  <2>2. k \in 1..Len(q) /\ To(d, l - 1) + 1 = k /\ l \in 1..(Len(p) + 1)
    BY <1>0, <2>1, ToIs
  <2>3. k \in Loops(q)
    BY <1>1, <2>1, <2>2 DEF Loops
  <2>4. ASSUME NEW k2 \in Loops(q) PROVE k2 = k
    <3>1. k2 \in 1..Len(q) /\ q[k2].kind = "loop"
      BY <1>1 DEF Loops
    <3>2. PICK i \in 1..Len(p) : i # d /\ To(d, i) = k2
      BY <1>0, <3>1, ToOnto
    <3>3. i \in Loops(p)
      BY <1>1, <3>1, <3>2 DEF Loops
    <3> QED BY <1>1, <3>2, <3>3 DEF OneLoop
  <2>5. (CHOOSE i \in Loops(p) : TRUE) = l /\ (CHOOSE i \in Loops(q) : TRUE) = k
    <3>1. \A i \in Loops(p) : i = l
      BY <1>1 DEF OneLoop
    <3>2. \A i \in Loops(q) : i = k
      BY <2>4
    <3> HIDE DEF k
    <3>3. (CHOOSE i \in Loops(p) : TRUE) \in Loops(p) /\ (CHOOSE i \in Loops(q) : TRUE) \in Loops(q)
      BY <2>3
    <3> QED BY <3>1, <3>2, <3>3
  <2>6. Effects(p) = Run(p, l, once).log /\ Effects(q) = Run(q, k, once2).log
    BY <2>3, <2>5 DEF Effects, once, once2
  <2>7. Agree(m, l - 1 >= c, once, once2)
    BY <1>1, <1>2, <2>1 DEF Agree
  <2>8. Agree(m, Len(p) >= c, Run(p, l, once), Run(q, To(d, l - 1) + 1, once2))
    BY <2>2, <2>7, SimulatedRun
  <2>9. Run(q, k, once2).log = Run(p, l, once).log
    BY <2>2, <2>8 DEF Agree
  <2> QED BY <2>6, <2>9
<1> QED BY <1>3, <1>4

-----------------------------------------------------------------------------
(* What one statement does to two states that agree. *)

\* Two stores that agree, with a value given to a name of each.
LEMMA SameNow ==
  ASSUME NEW s, NEW s2, NEW a, NEW b, s2.log = s.log, Value(s2, b.expr) = Value(s, a.expr),
         DOMAIN b.inputs = DOMAIN a.inputs,
         \A i \in DOMAIN a.inputs : Held(s2.tensors, b.inputs[i]) = Held(s.tensors, a.inputs[i])
  PROVE  Sees(s2, b) = Sees(s, a) /\ Now(s2, b) = Now(s, a)
<1>1. Sees(s2, b) = Sees(s, a)
  BY DEF Sees
<1> QED BY <1>1 DEF Now

LEMMA SameValue ==
  ASSUME NEW s, NEW s2, NEW e, NEW e2, e2.op = e.op, Held(s2.vars, e2.var) = Held(s.vars, e.var)
  PROVE  Value(s2, e2) = Value(s, e)
BY DEF Value

\* b is a with variable y for x.
VarRenamed(a, b, x, y) ==
  /\ b.kind = a.kind /\ b.var = a.var /\ b.output = a.output /\ b.inputs = a.inputs
  /\ b.expr.op = a.expr.op
  /\ b.expr.var = IF a.expr.var = x THEN y ELSE a.expr.var

VarMatch(x, y) == [hv |-> {x}, ht |-> {}, pv |-> {<<x, y>>}, pt |-> {}]

LEMMA VarAgree ==
  ASSUME NEW x, NEW y, NEW late, NEW s, NEW s2
  PROVE  Agree(VarMatch(x, y), late, s, s2) <=>
           /\ s2.log = s.log
           /\ \A v : v # x => Held(s2.vars, v) = Held(s.vars, v)
           /\ \A t : Held(s2.tensors, t) = Held(s.tensors, t)
           /\ late => Held(s2.vars, y) = Held(s.vars, x)
<1>1. VarMatch(x, y).hv = {x} /\ VarMatch(x, y).ht = {} /\ VarMatch(x, y).pv = {<<x, y>>} /\ VarMatch(x, y).pt = {}
  BY DEF VarMatch
<1>2. (\A pair \in VarMatch(x, y).pv : Held(s2.vars, pair[2]) = Held(s.vars, pair[1])) <=> Held(s2.vars, y) = Held(s.vars, x)
  BY <1>1
<1>3. \A pair \in VarMatch(x, y).pt : Held(s2.tensors, pair[2]) = Held(s.tensors, pair[1])
  BY <1>1
<1> QED BY <1>1, <1>2, <1>3 DEF Agree

LEMMA RenamedStep ==
  ASSUME NEW x, NEW y, NEW s, NEW s2, NEW a, NEW b, NEW late, NEW late2,
         Agree(VarMatch(x, y), late, s, s2), VarRenamed(a, b, x, y),
         x \notin Binds(a), a.expr.var = x => late, late2 => late /\ y \notin Binds(a)
  PROVE  Agree(VarMatch(x, y), late2, Perform(s, a), Perform(s2, b))
<1>1. /\ s2.log = s.log
      /\ \A v : v # x => Held(s2.vars, v) = Held(s.vars, v)
      /\ \A t : Held(s2.tensors, t) = Held(s.tensors, t)
      /\ late => Held(s2.vars, y) = Held(s.vars, x)
  BY VarAgree
<1>2. Held(s2.vars, b.expr.var) = Held(s.vars, a.expr.var)
  BY <1>1 DEF VarRenamed
<1>3. Value(s2, b.expr) = Value(s, a.expr)
  BY <1>2, SameValue DEF VarRenamed
<1>4. Sees(s2, b) = Sees(s, a) /\ Now(s2, b) = Now(s, a)
  BY <1>1, <1>3, SameNow DEF VarRenamed
<1>5. Binds(b) = Binds(a) /\ Puts(b) = Puts(a)
  BY DEF VarRenamed, Binds, Puts
<1>6. Gives(s2, b) = Gives(s, a) /\ Yields(s2, b) = Yields(s, a)
  BY <1>1, <1>3, <1>4 DEF VarRenamed, Gives, Yields
<1>7. Perform(s2, b).log = Perform(s, a).log
  BY <1>1, <1>4, Performs DEF VarRenamed
<1>8. \A v : v # x => Held(Perform(s2, b).vars, v) = Held(Perform(s, a).vars, v)
  BY <1>1, <1>5, <1>6, Performs
<1>9. \A t : Held(Perform(s2, b).tensors, t) = Held(Perform(s, a).tensors, t)
  BY <1>1, <1>5, <1>6, Performs
<1>10. late2 => Held(Perform(s2, b).vars, y) = Held(Perform(s, a).vars, x)
  BY <1>1, <1>5, Performs
<1> QED BY <1>7, <1>8, <1>9, <1>10, VarAgree

\* From a let on, its variable and the one it renames are the same.
LEMMA LetStep ==
  ASSUME NEW x, NEW y, x # y, NEW s, NEW s2, NEW a, NEW late, NEW late2, Agree(VarMatch(x, y), late, s, s2),
         a.kind = "let", a.var = x, a.expr.op = "copy", a.expr.var = y
  PROVE  Agree(VarMatch(x, y), late2, Perform(s, a), s2)
<1>1. /\ s2.log = s.log
      /\ \A v : v # x => Held(s2.vars, v) = Held(s.vars, v)
      /\ \A t : Held(s2.tensors, t) = Held(s.tensors, t)
  BY VarAgree
<1>2. /\ Binds(a) = {x} /\ Puts(a) = {} /\ a.kind \notin Effectful
      /\ Gives(s, a) = Held(s.vars, y)
  BY DEF Binds, Puts, Gives, Value, Functional, Effectful, OptionalOutput
<1>3. Perform(s, a).log = s.log
  BY <1>2, Performs
<1>4. \A v : v # x => Held(Perform(s, a).vars, v) = Held(s.vars, v)
  BY <1>2, Performs
<1>5. \A t : Held(Perform(s, a).tensors, t) = Held(s.tensors, t)
  BY <1>2, Performs
<1>6. Held(Perform(s, a).vars, x) = Held(s.vars, y)
  BY <1>2, Performs
<1> QED BY <1>1, <1>3, <1>4, <1>5, <1>6, VarAgree

\* b is a with tensor u for t; a lowered load is a load.
TensorRenamed(a, b, t, u) ==
  /\ b.kind = a.kind \/ (a.kind = "load" /\ b.kind = "load_generic")
  /\ b.var = a.var /\ b.expr = a.expr
  /\ b.output = IF a.output = t THEN u ELSE a.output
  /\ DOMAIN b.inputs = DOMAIN a.inputs
  /\ \A i \in DOMAIN a.inputs : b.inputs[i] = IF a.inputs[i] = t THEN u ELSE a.inputs[i]

TensorMatch(t, u) == [hv |-> {}, ht |-> {t, u}, pv |-> {}, pt |-> {<<t, u>>}]

LEMMA TensorAgree ==
  ASSUME NEW t, NEW u, NEW late, NEW s, NEW s2
  PROVE  Agree(TensorMatch(t, u), late, s, s2) <=>
           /\ s2.log = s.log
           /\ \A v : Held(s2.vars, v) = Held(s.vars, v)
           /\ \A w : w \notin {t, u} => Held(s2.tensors, w) = Held(s.tensors, w)
           /\ late => Held(s2.tensors, u) = Held(s.tensors, t)
<1>1. TensorMatch(t, u).hv = {} /\ TensorMatch(t, u).ht = {t, u} /\ TensorMatch(t, u).pv = {} /\ TensorMatch(t, u).pt = {<<t, u>>}
  BY DEF TensorMatch
<1>2. (\A pair \in TensorMatch(t, u).pt : Held(s2.tensors, pair[2]) = Held(s.tensors, pair[1])) <=>
      Held(s2.tensors, u) = Held(s.tensors, t)
  BY <1>1
<1>3. \A pair \in TensorMatch(t, u).pv : Held(s2.vars, pair[2]) = Held(s.vars, pair[1])
  BY <1>1
<1> QED BY <1>1, <1>2, <1>3 DEF Agree

LEMMA TensorStep ==
  ASSUME NEW t, NEW u, t # Nil, u # Nil, NEW s, NEW s2, NEW a, NEW b, NEW late, NEW late2,
         Agree(TensorMatch(t, u), late, s, s2), TensorRenamed(a, b, t, u),
         a.output # u, \A i \in DOMAIN a.inputs : a.inputs[i] # u /\ (a.inputs[i] = t => late),
         late2 => late \/ t \in Puts(a)
  PROVE  Agree(TensorMatch(t, u), late2, Perform(s, a), Perform(s2, b))
<1>1. /\ s2.log = s.log
      /\ \A v : Held(s2.vars, v) = Held(s.vars, v)
      /\ \A w : w \notin {t, u} => Held(s2.tensors, w) = Held(s.tensors, w)
      /\ late => Held(s2.tensors, u) = Held(s.tensors, t)
  BY TensorAgree
<1>2. Value(s2, b.expr) = Value(s, a.expr)
  BY <1>1, SameValue DEF TensorRenamed
<1>3. ASSUME NEW i \in DOMAIN a.inputs
      PROVE  Held(s2.tensors, b.inputs[i]) = Held(s.tensors, a.inputs[i])
  BY <1>1 DEF TensorRenamed
<1>4. Sees(s2, b) = Sees(s, a) /\ Now(s2, b) = Now(s, a)
  BY <1>1, <1>2, <1>3, SameNow DEF TensorRenamed
<1>5. Binds(b) = Binds(a)
  BY DEF TensorRenamed, Binds, Functional
<1>6. Gives(s2, b) = Gives(s, a) /\ Yields(s2, b) = Yields(s, a)
  BY <1>1, <1>2, <1>4 DEF TensorRenamed, Gives, Yields, Functional
<1>7. /\ \A w : w \notin {t, u} => (w \in Puts(b) <=> w \in Puts(a))
      /\ u \in Puts(b) <=> t \in Puts(a)
  BY DEF TensorRenamed, Puts, Functional
<1>8. Perform(s2, b).log = Perform(s, a).log
  BY <1>1, <1>4, Performs DEF TensorRenamed, Effectful, OptionalOutput
<1>9. \A v : Held(Perform(s2, b).vars, v) = Held(Perform(s, a).vars, v)
  BY <1>1, <1>5, <1>6, Performs
<1>10. \A w : w \notin {t, u} => Held(Perform(s2, b).tensors, w) = Held(Perform(s, a).tensors, w)
  BY <1>1, <1>6, <1>7, Performs
<1>11. late2 => Held(Perform(s2, b).tensors, u) = Held(Perform(s, a).tensors, t)
  BY <1>1, <1>6, <1>7, Performs
<1> QED BY <1>8, <1>9, <1>10, <1>11, TensorAgree

HiddenMatch(hv, ht) == [hv |-> hv, ht |-> ht, pv |-> {}, pt |-> {}]

LEMMA HiddenAgree ==
  ASSUME NEW hv, NEW ht, NEW late, NEW s, NEW s2
  PROVE  Agree(HiddenMatch(hv, ht), late, s, s2) <=>
           /\ s2.log = s.log
           /\ \A v : v \notin hv => Held(s2.vars, v) = Held(s.vars, v)
           /\ \A t : t \notin ht => Held(s2.tensors, t) = Held(s.tensors, t)
BY DEF Agree, HiddenMatch

\* An instruction sees none of the tensors of ht.
Clear(a, ht) == \A i \in DOMAIN a.inputs : a.inputs[i] \notin ht

\* b is a, or has lost an output that is hidden.
LEMMA HiddenStep ==
  ASSUME NEW hv, NEW ht, NEW s, NEW s2, NEW a, NEW b, NEW late, NEW late2,
         Agree(HiddenMatch(hv, ht), late, s, s2),
         b.kind = a.kind, b.var = a.var, b.expr = a.expr, b.inputs = a.inputs,
         b.output = a.output \/ (b.output = Nil /\ a.output \in ht),
         a.expr.var \notin hv, a.kind \in Effectful => Clear(a, ht),
         a.kind = "item" => a.var \in hv \/ Clear(a, ht),
         a.kind \in Functional => a.output \in ht \/ Clear(a, ht)
  PROVE  Agree(HiddenMatch(hv, ht), late2, Perform(s, a), Perform(s2, b))
<1>1. /\ s2.log = s.log
      /\ \A v : v \notin hv => Held(s2.vars, v) = Held(s.vars, v)
      /\ \A t : t \notin ht => Held(s2.tensors, t) = Held(s.tensors, t)
  BY HiddenAgree
<1>2. Value(s2, b.expr) = Value(s, a.expr)
  BY <1>1, SameValue
<1>3. Clear(a, ht) => Sees(s2, b) = Sees(s, a) /\ Now(s2, b) = Now(s, a)
  BY <1>1, <1>2, SameNow DEF Clear
<1>4. Perform(s2, b).log = Perform(s, a).log
  BY <1>1, <1>3, Performs
<1>5. Binds(b) = Binds(a)
  BY DEF Binds
<1>6. ASSUME NEW v, v \notin hv PROVE Held(Perform(s2, b).vars, v) = Held(Perform(s, a).vars, v)
  <2>1. CASE v \notin Binds(a)
    BY <1>1, <1>5, <1>6, <2>1, Performs
  <2>2. CASE v \in Binds(a)
    <3>1. a.kind = "item" => Clear(a, ht)
      BY <1>6, <2>2 DEF Binds
    <3>2. Gives(s2, b) = Gives(s, a)
      BY <1>1, <1>2, <1>3, <3>1 DEF Gives
    <3> QED BY <1>5, <2>2, <3>2, Performs
  <2> QED BY <2>1, <2>2
<1>7. ASSUME NEW t, t \notin ht PROVE Held(Perform(s2, b).tensors, t) = Held(Perform(s, a).tensors, t)
  <2>1. t \in Puts(b) <=> t \in Puts(a)
    BY <1>7 DEF Puts
  <2>2. CASE t \notin Puts(a)
    BY <1>1, <1>7, <2>1, <2>2, Performs
  <2>3. CASE t \in Puts(a)
    <3>1. Clear(a, ht)
      BY <1>7, <2>3 DEF Puts
    <3>2. Yields(s2, b) = Yields(s, a)
      BY <1>3, <3>1 DEF Yields
    <3> QED BY <2>1, <2>3, <3>2, Performs
  <2> QED BY <2>2, <2>3
<1> QED BY <1>4, <1>6, <1>7, HiddenAgree

\* A statement that nobody sees may go.
LEMMA DeadStep ==
  ASSUME NEW hv, NEW ht, NEW s, NEW s2, NEW a, NEW late, NEW late2,
         Agree(HiddenMatch(hv, ht), late, s, s2),
         \/ a.kind \in Functional /\ a.output \in ht
         \/ a.kind = "item" /\ a.var \in hv
  PROVE  Agree(HiddenMatch(hv, ht), late2, Perform(s, a), s2)
<1>1. /\ s2.log = s.log
      /\ \A v : v \notin hv => Held(s2.vars, v) = Held(s.vars, v)
      /\ \A t : t \notin ht => Held(s2.tensors, t) = Held(s.tensors, t)
  BY HiddenAgree
<1>2. Binds(a) \subseteq hv /\ Puts(a) \subseteq ht /\ a.kind \notin Effectful
  BY DEF Binds, Puts, Functional, Effectful, OptionalOutput
<1>3. Perform(s, a).log = s.log
  BY <1>2, Performs
<1>4. \A v : v \notin hv => Held(Perform(s, a).vars, v) = Held(s.vars, v)
  BY <1>2, Performs
<1>5. \A t : t \notin ht => Held(Perform(s, a).tensors, t) = Held(s.tensors, t)
  BY <1>2, Performs
<1> QED BY <1>1, <1>3, <1>4, <1>5, HiddenAgree

-----------------------------------------------------------------------------
(* The ways a pass changes a program. *)

IsProgram(p) == Len(p) \in Nat /\ DOMAIN p = 1..Len(p) /\ OneLoop(p)

\* Other kinds of statements that do the same.
LEMMA SameEffects ==
  ASSUME NEW p, NEW q, IsProgram(p), Len(q) = Len(p), DOMAIN q = 1..Len(p),
         \A i \in 1..Len(p) : /\ q[i].kind = "loop" <=> p[i].kind = "loop"
                              /\ \A s : Perform(s, q[i]) = Perform(s, p[i])
  PROVE  Effects(q) = Effects(p)
<1> DEFINE m == HiddenMatch({}, {})
           d == Len(p) + 1
<1>1. Len(p) \in Nat /\ d \in 1..(Len(p) + 1) /\ ~(d <= Len(p)) /\ \A i \in 0..Len(p) : To(d, i) = i
  BY DEF IsProgram, To
<1>2. ASSUME NEW i \in 1..Len(p), NEW s, NEW s2, Agree(m, i - 1 >= 1, s, s2)
      PROVE  /\ i # d /\ To(d, i) = i
             /\ Agree(m, i >= 1, Perform(s, p[i]), Perform(s2, q[i]))
  <2>1. Agree(m, i >= 1, Perform(s, p[i]), Perform(s2, p[i]))
    BY <1>2, HiddenStep DEF Clear
  <2>2. Perform(s2, q[i]) = Perform(s2, p[i])
    OBVIOUS
  <2>3. i # d /\ To(d, i) = i
    BY <1>1
  <2> HIDE DEF m, d
  <2> QED BY <2>1, <2>2, <2>3
<1> HIDE DEF m, d
<1>3. Steps(m, p, q, 1, d)
  BY <1>2 DEF Steps
<1>4. \A i \in 1..Len(p) : i = d \/ (q[To(d, i)].kind = "loop" <=> p[i].kind = "loop")
  BY <1>1
<1>5. Simulates(m, p, q, 1, d)
  BY <1>1, <1>3, <1>4 DEF Simulates, IsProgram
<1> QED BY <1>5, SimulatedEffects

\* A let that renames a variable goes, and the renamed one takes its place.
LetRemoved(p, q, c, x, y) ==
  /\ x # y /\ c \in 1..Len(p) /\ Len(q) = Len(p) - 1 /\ DOMAIN q = 1..Len(q)
  /\ p[c].kind = "let" /\ p[c].var = x /\ p[c].expr.op = "copy" /\ p[c].expr.var = y
  /\ \A i \in 1..Len(p) : i # c =>
       /\ VarRenamed(p[i], q[To(c, i)], x, y)
       /\ x \notin Binds(p[i])
       /\ i < c => p[i].expr.var # x
       /\ i > c => y \notin Binds(p[i])

LEMMA LetRemovedEffects ==
  ASSUME NEW p, NEW q, NEW c, NEW x, NEW y, IsProgram(p), LetRemoved(p, q, c, x, y)
  PROVE  Effects(q) = Effects(p)
<1> DEFINE m == VarMatch(x, y)
<1>1. Len(p) \in Nat /\ DOMAIN p = 1..Len(p) /\ c \in 1..Len(p) /\ Len(q) = Len(p) - 1 /\ To(c, Len(p)) = Len(p) - 1
  BY DEF IsProgram, LetRemoved, To
<1>2. ASSUME NEW i \in 1..Len(p), NEW s, NEW s2, Agree(m, i - 1 >= c, s, s2), i = c
      PROVE  Agree(m, i >= c, Perform(s, p[i]), s2)
  BY <1>2, LetStep DEF LetRemoved
<1>3. ASSUME NEW i \in 1..Len(p), NEW s, NEW s2, Agree(m, i - 1 >= c, s, s2), i # c
      PROVE  Agree(m, i >= c, Perform(s, p[i]), Perform(s2, q[To(c, i)]))
  <2>1. /\ p[i].expr.var = x => i - 1 >= c
        /\ i >= c => i - 1 >= c /\ y \notin Binds(p[i])
    BY <1>1, <1>3 DEF LetRemoved
  <2>2. VarRenamed(p[i], q[To(c, i)], x, y) /\ x \notin Binds(p[i])
    BY <1>3 DEF LetRemoved
  <2> QED BY <1>3, <2>1, <2>2, RenamedStep
<1> HIDE DEF m
<1>4. Steps(m, p, q, c, c)
  BY <1>2, <1>3 DEF Steps
<1>5. \A i \in 1..Len(p) : i = c \/ (q[To(c, i)].kind = "loop" <=> p[i].kind = "loop")
  BY DEF LetRemoved, VarRenamed
<1>6. Simulates(m, p, q, c, c)
  BY <1>1, <1>4, <1>5 DEF Simulates, IsProgram, LetRemoved
<1> QED BY <1>6, SimulatedEffects

\* Tensor u takes the place of tensor t from statement c on, which writes it.
TensorReplaced(p, q, c, t, u) ==
  /\ t # Nil /\ u # Nil /\ c \in 1..Len(p) /\ Len(q) = Len(p) /\ DOMAIN q = 1..Len(q)
  /\ t \in Puts(p[c])
  /\ \A i \in 1..Len(p) :
       /\ TensorRenamed(p[i], q[i], t, u)
       /\ p[i].output # u
       /\ \A k \in DOMAIN p[i].inputs : p[i].inputs[k] # u /\ (p[i].inputs[k] = t => i > c)

LEMMA TensorReplacedEffects ==
  ASSUME NEW p, NEW q, NEW c, NEW t, NEW u, IsProgram(p), TensorReplaced(p, q, c, t, u)
  PROVE  Effects(q) = Effects(p)
<1> DEFINE m == TensorMatch(t, u)
           d == Len(p) + 1
<1>1. Len(p) \in Nat /\ DOMAIN p = 1..Len(p) /\ c \in 1..Len(p) /\ Len(q) = Len(p)
  BY DEF IsProgram, TensorReplaced
<1>2. d \in 1..(Len(p) + 1) /\ ~(d <= Len(p)) /\ \A i \in 0..Len(p) : To(d, i) = i
  BY <1>1 DEF To
<1>3. ASSUME NEW i \in 1..Len(p), NEW s, NEW s2, Agree(m, i - 1 >= c, s, s2)
      PROVE  /\ i # d /\ To(d, i) = i
             /\ Agree(m, i >= c, Perform(s, p[i]), Perform(s2, q[i]))
  <2>1. i # d /\ To(d, i) = i
    BY <1>1, <1>2
  <2>2. /\ i > c => i - 1 >= c
        /\ i >= c => i - 1 >= c \/ i = c
    BY <1>1
  <2>3. i >= c => i - 1 >= c \/ t \in Puts(p[i])
    BY <2>2 DEF TensorReplaced
  <2>4. /\ TensorRenamed(p[i], q[i], t, u) /\ p[i].output # u /\ t # Nil /\ u # Nil
        /\ \A k \in DOMAIN p[i].inputs : p[i].inputs[k] # u /\ (p[i].inputs[k] = t => i - 1 >= c)
    BY <2>2 DEF TensorReplaced
  <2> HIDE DEF d
  <2> QED BY <1>3, <2>1, <2>3, <2>4, TensorStep
<1> HIDE DEF m, d
<1>4. Steps(m, p, q, c, d)
  BY <1>3 DEF Steps
<1>5. \A i \in 1..Len(p) : i = d \/ (q[To(d, i)].kind = "loop" <=> p[i].kind = "loop")
  BY <1>2 DEF TensorReplaced, TensorRenamed
<1>6. Simulates(m, p, q, c, d)
  BY <1>1, <1>2, <1>4, <1>5 DEF Simulates, IsProgram, TensorReplaced
<1> QED BY <1>6, SimulatedEffects

\* Outputs that nobody sees go, and one statement that nobody sees may go.
Trimmed(p, q, d, hv, ht) ==
  /\ d \in 1..(Len(p) + 1) /\ Len(q) = To(d, Len(p)) /\ DOMAIN q = 1..Len(q)
  /\ \A i \in 1..Len(p) :
       IF i = d
       THEN \/ p[i].kind \in Functional /\ p[i].output \in ht
            \/ p[i].kind = "item" /\ p[i].var \in hv
       ELSE LET a == p[i]
                b == q[To(d, i)]
            IN  /\ b.kind = a.kind /\ b.var = a.var /\ b.expr = a.expr /\ b.inputs = a.inputs
                /\ b.output = a.output \/ (b.output = Nil /\ a.output \in ht)
                /\ a.expr.var \notin hv
                /\ a.kind \in Effectful => Clear(a, ht)
                /\ a.kind = "item" => a.var \in hv \/ Clear(a, ht)
                /\ a.kind \in Functional => a.output \in ht \/ Clear(a, ht)

LEMMA TrimmedEffects ==
  ASSUME NEW p, NEW q, NEW d, NEW hv, NEW ht, IsProgram(p), Trimmed(p, q, d, hv, ht)
  PROVE  Effects(q) = Effects(p)
<1> DEFINE m == HiddenMatch(hv, ht)
<1>1. /\ Len(p) \in Nat /\ DOMAIN p = 1..Len(p) /\ d \in 1..(Len(p) + 1)
      /\ Len(q) = To(d, Len(p)) /\ DOMAIN q = 1..Len(q)
  BY DEF IsProgram, Trimmed
<1>2. ASSUME NEW i \in 1..Len(p), NEW s, NEW s2, Agree(m, i - 1 >= 1, s, s2), i = d
      PROVE  Agree(m, i >= 1, Perform(s, p[i]), s2)
  BY <1>2, DeadStep DEF Trimmed
<1>3. ASSUME NEW i \in 1..Len(p), NEW s, NEW s2, Agree(m, i - 1 >= 1, s, s2), i # d
      PROVE  Agree(m, i >= 1, Perform(s, p[i]), Perform(s2, q[To(d, i)]))
  BY <1>3, HiddenStep DEF Trimmed
<1> HIDE DEF m
<1>4. Steps(m, p, q, 1, d)
  BY <1>2, <1>3 DEF Steps
<1>5. ASSUME NEW i \in 1..Len(p) PROVE i = d \/ (q[To(d, i)].kind = "loop" <=> p[i].kind = "loop")
  BY DEF Trimmed
<1>6. d <= Len(p) => p[d].kind # "loop"
  BY <1>1 DEF Trimmed, Functional
<1>7. Simulates(m, p, q, 1, d)
  BY <1>1, <1>4, <1>5, <1>6 DEF Simulates, IsProgram
<1> QED BY <1>7, SimulatedEffects

-----------------------------------------------------------------------------
(* Programs and what the rewriters do with them. *)

TilusStmt ==
  [kind : SourceKinds \cup {"let", "load_generic", "store_generic"},
   var : SourceVariables \cup {Nil},
   expr : [op : {"copy", "call", "address", "none"}, var : SourceVariables \cup {Nil}],
   output : (TensorNames \X Nat) \cup {Nil}, inputs : Seq(TensorNames \X Nat)]

Sound(a) ==
  /\ a.kind \in {"declare", "let", "assign", "item"} => a.var # Nil
  /\ a.kind \in Functional => a.output # Nil
  /\ a.kind = "item" => 1 \in DOMAIN a.inputs

Typed(p) == p \in Seq(TilusStmt) /\ OneLoop(p) /\ \A i \in DOMAIN p : Sound(p[i])

Mentions(a) == ({a.output} \ {Nil}) \cup Range(a.inputs)

\* Rewritten, with the memo as an argument.
SeenBy(m, x) == IF x \in DOMAIN m THEN m[x] ELSE x
RewrittenBy(m, s) ==
  [kind |-> s.kind, var |-> s.var, expr |-> [op |-> s.expr.op, var |-> SeenBy(m, s.expr.var)],
   output |-> SeenBy(m, s.output), inputs |-> [i \in DOMAIN s.inputs |-> SeenBy(m, s.inputs[i])]]

\* What a rewriter at statement c will have made of p if it renames no more.
Ahead(p, c, m) == [i \in DOMAIN p |-> IF i < c THEN p[i] ELSE RewrittenBy(m, p[i])]

LEMMA Apart ==
  /\ SourceVariables \cap (TensorNames \X Nat) = {} /\ Nil \notin SourceVariables
  /\ Nil \notin TensorNames \X Nat /\ SourceTensors \subseteq TensorNames \X Nat
  /\ \A t \in SourceTensors : t[2] = 0
  /\ \A t \in TensorNames \X Nat : t[1] \in TensorNames /\ t[2] \in Nat
<1>1. \A v \in SourceVariables : v[1] \in VariableNames
  BY DEF SourceVariables
<1>2. \A t \in TensorNames \X Nat : t[1] \in TensorNames /\ t[2] \in Nat
  OBVIOUS
<1>3. SourceTensors \subseteq TensorNames \X Nat /\ \A t \in SourceTensors : t[2] = 0
  BY DEF SourceTensors
<1> QED BY <1>1, <1>2, <1>3, TransformAssumption

LEMMA Typing ==
  ASSUME NEW p, Typed(p)
  PROVE  IsProgram(p) /\ \A i \in 1..Len(p) : p[i] \in TilusStmt /\ Sound(p[i])
BY DEF Typed, IsProgram

IsStmt(a) ==
  /\ a = [kind |-> a.kind, var |-> a.var, expr |-> a.expr, output |-> a.output, inputs |-> a.inputs]
  /\ a.expr = [op |-> a.expr.op, var |-> a.expr.var]
  /\ a.kind \in SourceKinds \cup {"let", "load_generic", "store_generic"}
  /\ a.var \in SourceVariables \cup {Nil} /\ a.expr.var \in SourceVariables \cup {Nil}
  /\ a.expr.op \in {"copy", "call", "address", "none"}
  /\ a.output \in (TensorNames \X Nat) \cup {Nil} /\ a.inputs \in Seq(TensorNames \X Nat)

LEMMA Fields ==
  ASSUME NEW a \in TilusStmt
  PROVE  IsStmt(a)
BY DEF TilusStmt, IsStmt

\* Where statement i of a program without statement c comes from.
From(c, i) == IF i < c THEN i ELSE i + 1

LEMMA RemoveAtIs ==
  ASSUME NEW S, NEW p \in Seq(S), NEW c \in 1..Len(p)
  PROVE  /\ RemoveAt(p, c) \in Seq(S) /\ Len(RemoveAt(p, c)) = Len(p) - 1
         /\ DOMAIN RemoveAt(p, c) = 1..(Len(p) - 1)
         /\ \A i \in 1..(Len(p) - 1) : RemoveAt(p, c)[i] = p[From(c, i)]
<1> DEFINE A == SubSeq(p, 1, c - 1)
           B == SubSeq(p, c + 1, Len(p))
<1>0. Len(p) \in Nat /\ c \in Int /\ \A i \in 1..Len(p) : p[i] \in S
  OBVIOUS
<1>1. A \in Seq(S) /\ Len(A) = c - 1 /\ \A i \in 1..(c - 1) : A[i] = p[i]
  BY <1>0, SubSeqProperties
<1>2. B \in Seq(S) /\ Len(B) = Len(p) - c /\ \A i \in 1..(Len(p) - c) : B[i] = p[i + c]
  <2>1. B \in Seq(S) /\ Len(B) = IF c + 1 <= Len(p) THEN Len(p) - (c + 1) + 1 ELSE 0
    BY <1>0, SubSeqProperties
  <2>2. \A i \in 1..(Len(p) - (c + 1) + 1) : B[i] = p[c + 1 + i - 1]
    BY <1>0, SubSeqProperties
  <2> HIDE DEF B
  <2> QED BY <1>0, <2>1, <2>2
<1>3. RemoveAt(p, c) = A \o B
  BY DEF RemoveAt
<1> HIDE DEF A, B
<1> DEFINE q == A \o B
<1>4. q \in Seq(S) /\ Len(q) = Len(A) + Len(B) /\ \A i \in 1..(Len(A) + Len(B)) : q[i] =
        IF i <= Len(A) THEN A[i] ELSE B[i - Len(A)]
  BY <1>1, <1>2, ConcatProperties
<1> HIDE DEF q
<1>5. Len(q) = Len(p) - 1 /\ Len(A) + Len(B) = Len(p) - 1
  BY <1>0, <1>1, <1>2, <1>4
<1>6. ASSUME NEW i \in 1..(Len(p) - 1) PROVE q[i] = p[From(c, i)]
  <2>1. CASE i < c
    BY <1>0, <1>1, <1>4, <1>5, <2>1 DEF From
  <2>2. CASE ~(i < c)
    <3>1. i - Len(A) \in 1..(Len(p) - c) /\ ~(i <= Len(A)) /\ i - Len(A) + c = i + 1
      BY <1>0, <1>1, <2>2
    <3>2. q[i] = B[i - Len(A)] /\ B[i - Len(A)] = p[i + 1]
      BY <1>2, <1>4, <1>5, <3>1
    <3> QED BY <2>2, <3>2 DEF From
  <2> QED BY <2>1, <2>2
<1>7. DOMAIN q = 1..(Len(p) - 1)
  BY <1>4, <1>5
<1>8. RemoveAt(p, c) = q
  BY <1>3 DEF q
<1> HIDE DEF q
<1> QED BY <1>4, <1>5, <1>6, <1>7, <1>8

LEMMA FromTo ==
  ASSUME NEW n \in Nat, NEW c \in 1..n
  PROVE  /\ \A i \in 1..(n - 1) : From(c, i) \in 1..n /\ From(c, i) # c /\ (i < c => From(c, i) = i)
                                  /\ (i >= c => From(c, i) > c)
         /\ \A i, k \in 1..(n - 1) : /\ k # i => From(c, k) # From(c, i)
                                     /\ k <= i => From(c, k) <= From(c, i)
                                     /\ k < i => From(c, k) < From(c, i)
         /\ \A i \in 1..n : i # c => To(c, i) \in 1..(n - 1) /\ From(c, To(c, i)) = i
BY DEF From, To

LEMMA RemovedTyped ==
  ASSUME NEW p, Typed(p), NEW c \in 1..Len(p)
  PROVE  Typed(RemoveAt(p, c))
<1> DEFINE q == RemoveAt(p, c)
<1>1. p \in Seq(TilusStmt) /\ Len(p) \in Nat /\ DOMAIN p = 1..Len(p)
  BY DEF Typed
<1>2. q \in Seq(TilusStmt) /\ DOMAIN q = 1..(Len(p) - 1) /\ \A i \in DOMAIN q : q[i] = p[From(c, i)]
  BY <1>1, RemoveAtIs
<1> HIDE DEF q
<1>3. \A i \in DOMAIN q : From(c, i) \in DOMAIN p
  BY <1>1, <1>2, FromTo
<1>4. \A i \in DOMAIN q : Sound(q[i])
  BY <1>2, <1>3 DEF Typed
<1>5. ASSUME NEW i \in Loops(q), NEW k \in Loops(q) PROVE i = k
  <2>1. i \in DOMAIN q /\ k \in DOMAIN q /\ From(c, i) \in Loops(p) /\ From(c, k) \in Loops(p)
    BY <1>2, <1>3 DEF Loops
  <2>2. From(c, i) = From(c, k)
    BY <2>1 DEF Typed, OneLoop
  <2> QED BY <1>1, <1>2, <2>1, <2>2, FromTo
<1> QED BY <1>2, <1>4, <1>5 DEF q, Typed, OneLoop

LEMMA ReplacedTyped ==
  ASSUME NEW p, Typed(p), NEW c \in 1..Len(p), NEW b \in TilusStmt, Sound(b),
         b.kind = "loop" <=> p[c].kind = "loop"
  PROVE  /\ Typed([p EXCEPT ![c] = b])
         /\ Len([p EXCEPT ![c] = b]) = Len(p) /\ DOMAIN [p EXCEPT ![c] = b] = 1..Len(p)
         /\ \A i \in 1..Len(p) : [p EXCEPT ![c] = b][i] = IF i = c THEN b ELSE p[i]
<1> DEFINE q == [p EXCEPT ![c] = b]
<1>1. p \in Seq(TilusStmt) /\ Len(p) \in Nat /\ DOMAIN p = 1..Len(p)
  BY DEF Typed
<1>2. q \in Seq(TilusStmt) /\ Len(q) = Len(p) /\ DOMAIN q = 1..Len(p)
  BY <1>1
<1>3. \A i \in 1..Len(p) : q[i] = IF i = c THEN b ELSE p[i]
  BY <1>1
<1> HIDE DEF q
<1>4. \A i \in DOMAIN q : Sound(q[i])
  BY <1>1, <1>2, <1>3 DEF Typed
<1>5. Loops(q) = Loops(p)
  BY <1>1, <1>2, <1>3 DEF Loops
<1> QED BY <1>2, <1>3, <1>4, <1>5 DEF q, Typed, OneLoop

\* A statement rewritten by a memo of variables, and by one of tensors.
LEMMA VarRewrite ==
  ASSUME NEW a \in TilusStmt, NEW m, \A x \in DOMAIN m : x \in SourceVariables /\ m[x] \in SourceVariables
  PROVE  /\ RewrittenBy(m, a) \in TilusStmt
         /\ RewrittenBy(m, a).kind = a.kind /\ RewrittenBy(m, a).var = a.var
         /\ RewrittenBy(m, a).output = a.output /\ RewrittenBy(m, a).inputs = a.inputs
         /\ RewrittenBy(m, a).expr.op = a.expr.op /\ RewrittenBy(m, a).expr.var = SeenBy(m, a.expr.var)
<1>0. IsStmt(a)
  BY Fields
<1>1. SeenBy(m, a.output) = a.output
  BY <1>0, Apart DEF IsStmt, SeenBy
<1>2. [i \in DOMAIN a.inputs |-> SeenBy(m, a.inputs[i])] = a.inputs
  <2>1. \A i \in DOMAIN a.inputs : SeenBy(m, a.inputs[i]) = a.inputs[i]
    BY <1>0, Apart DEF IsStmt, SeenBy
  <2>2. a.inputs = [i \in DOMAIN a.inputs |-> a.inputs[i]]
    BY <1>0 DEF IsStmt
  <2> QED BY <2>1, <2>2
<1>3. SeenBy(m, a.expr.var) \in SourceVariables \cup {Nil}
  BY <1>0 DEF IsStmt, SeenBy
<1>4. RewrittenBy(m, a) = [kind |-> a.kind, var |-> a.var,
                           expr |-> [op |-> a.expr.op, var |-> SeenBy(m, a.expr.var)],
                           output |-> a.output, inputs |-> a.inputs]
  BY <1>1, <1>2 DEF TilusStmt, RewrittenBy
<1> QED BY <1>0, <1>3, <1>4 DEF IsStmt, TilusStmt

LEMMA TensorRewrite ==
  ASSUME NEW a \in TilusStmt, NEW m, \A t \in DOMAIN m : t \in SourceTensors /\ m[t] \in TensorNames \X Nat
  PROVE  /\ RewrittenBy(m, a) \in TilusStmt
         /\ RewrittenBy(m, a).kind = a.kind /\ RewrittenBy(m, a).var = a.var
         /\ RewrittenBy(m, a).expr = a.expr /\ RewrittenBy(m, a).output = SeenBy(m, a.output)
         /\ DOMAIN RewrittenBy(m, a).inputs = DOMAIN a.inputs
         /\ \A i \in DOMAIN a.inputs : RewrittenBy(m, a).inputs[i] = SeenBy(m, a.inputs[i])
<1>0. IsStmt(a)
  BY Fields
<1>1. SeenBy(m, a.expr.var) = a.expr.var
  BY <1>0, Apart DEF IsStmt, SeenBy
<1>2. SeenBy(m, a.output) \in (TensorNames \X Nat) \cup {Nil}
  BY <1>0 DEF IsStmt, SeenBy
<1> DEFINE seen == [i \in DOMAIN a.inputs |-> SeenBy(m, a.inputs[i])]
<1>3. seen \in Seq(TensorNames \X Nat)
  <2>1. Len(a.inputs) \in Nat /\ DOMAIN a.inputs = 1..Len(a.inputs)
    BY <1>0 DEF IsStmt
  <2>2. \A i \in DOMAIN a.inputs : SeenBy(m, a.inputs[i]) \in TensorNames \X Nat
    BY <1>0 DEF IsStmt, SeenBy
  <2>3. seen \in [1..Len(a.inputs) -> TensorNames \X Nat]
    BY <2>1, <2>2
  <2> HIDE DEF seen
  <2> QED BY <2>1, <2>3, SeqDef
<1>4. RewrittenBy(m, a) = [kind |-> a.kind, var |-> a.var, expr |-> a.expr,
                           output |-> SeenBy(m, a.output), inputs |-> seen]
  BY <1>1 DEF TilusStmt, RewrittenBy
<1> HIDE DEF seen
<1>5. RewrittenBy(m, a) \in TilusStmt
  BY <1>0, <1>2, <1>3, <1>4 DEF IsStmt, TilusStmt
<1> QED BY <1>4, <1>5 DEF seen

\* Before the first statement is visited, and after the last.
LEMMA AheadIs ==
  ASSUME NEW p, NEW c, NEW m, Len(p) \in Nat, DOMAIN p = 1..Len(p)
  PROVE  /\ Len(Ahead(p, c, m)) = Len(p) /\ DOMAIN Ahead(p, c, m) = 1..Len(p)
         /\ \A i \in 1..Len(p) : Ahead(p, c, m)[i] = IF i < c THEN p[i] ELSE RewrittenBy(m, p[i])
BY DEF Ahead

LEMMA AheadLoops ==
  ASSUME NEW p, NEW c, NEW m, IsProgram(p), \A i \in 1..Len(p) : RewrittenBy(m, p[i]).kind = p[i].kind
  PROVE  IsProgram(Ahead(p, c, m))
<1>1. /\ Len(p) \in Nat /\ DOMAIN p = 1..Len(p) /\ OneLoop(p)
      /\ Len(Ahead(p, c, m)) = Len(p) /\ DOMAIN Ahead(p, c, m) = 1..Len(p)
      /\ \A i \in 1..Len(p) : Ahead(p, c, m)[i] = IF i < c THEN p[i] ELSE RewrittenBy(m, p[i])
  BY AheadIs DEF IsProgram
<1>2. Loops(Ahead(p, c, m)) = Loops(p)
  BY <1>1 DEF Loops
<1> QED BY <1>1, <1>2 DEF IsProgram, OneLoop

LEMMA AheadEnds ==
  ASSUME NEW p, Typed(p)
  PROVE  /\ \A m : Ahead(p, Len(p) + 1, m) = p
         /\ Ahead(p, 1, <<>>) = p
<1>1. p \in Seq(TilusStmt) /\ Len(p) \in Nat /\ DOMAIN p = 1..Len(p) /\ p = [i \in DOMAIN p |-> p[i]]
  BY DEF Typed
<1>2. ASSUME NEW i \in DOMAIN p PROVE RewrittenBy(<<>>, p[i]) = p[i]
  <2>1. IsStmt(p[i])
    BY <1>1, Fields
  <2>2. \A x : SeenBy(<<>>, x) = x
    BY DEF SeenBy
  <2>3. [k \in DOMAIN p[i].inputs |-> p[i].inputs[k]] = p[i].inputs
    BY <2>1 DEF IsStmt
  <2> QED BY <2>1, <2>2, <2>3 DEF RewrittenBy, IsStmt
<1>3. \A i \in DOMAIN p : i < Len(p) + 1 /\ ~(i < 1)
  BY <1>1
<1>4. \A m : Ahead(p, Len(p) + 1, m) = [i \in DOMAIN p |-> p[i]]
  BY <1>3 DEF Ahead
<1>5. Ahead(p, 1, <<>>) = [i \in DOMAIN p |-> p[i]]
  BY <1>2, <1>3 DEF Ahead
<1> QED BY <1>1, <1>4, <1>5

-----------------------------------------------------------------------------
(* Let propagation: p is the program, c the statement visited next, m the    *)
(* memo, l the immutable variables, src what the source does.               *)

\* From statement first on, a load writes a tensor nobody mentions before.
LoadsFirst(p, first) ==
  \A i \in 1..Len(p) : i >= first /\ p[i].kind = "load" =>
    /\ p[i].output \notin Range(p[i].inputs)
    /\ \A k \in 1..(i - 1) : p[i].output \notin Mentions(p[k])

\* A let is the only statement that gives its variable a value, and no
\* statement before mentions it.
LetsOnce(p) ==
  \A i, k \in 1..Len(p) : p[i].kind = "let" =>
    /\ k # i => p[i].var \notin Binds(p[k])
    /\ k <= i => p[k].expr.var # p[i].var

ParamsStay(a) == Binds(a) \cap Params = {}

Immutable(p, c, l) ==
  \A y \in l : y \in Params \/ \E k \in 1..(c - 1) : p[k].kind = "let" /\ p[k].var = y

\* A variable that has been replaced is gone.
Replacing(p, c, m, l) ==
  \A x \in DOMAIN m :
    /\ x \in SourceVariables /\ x \notin Params /\ m[x] \in l
    /\ \A i \in 1..Len(p) : x \notin Binds(p[i]) /\ (i < c => p[i].expr.var # x)

LetPropagationInv(p, c, m, l, src) ==
  /\ Immutable(p, c, l) /\ Replacing(p, c, m, l) /\ LetsOnce(p)
  /\ \A i \in 1..Len(p) : p[i].kind # "assign" \/ i < c => ParamsStay(p[i])
  /\ \A i \in 1..Len(p) : Mentions(p[i]) \subseteq SourceTensors
  /\ LoadsFirst(p, 1)
  /\ (\A i \in 1..Len(p) : ParamsStay(p[i])) => Effects(Ahead(p, c, m)) = src
  /\ c = 1 /\ m = <<>> => Effects(p) = src

\* An immutable variable is a source variable that no memo replaces and that
\* no statement from c on gives a value, but an assignment to a parameter.
LEMMA ImmutableIs ==
  ASSUME NEW p, Typed(p), NEW c \in 1..(Len(p) + 1), NEW m, NEW l, NEW src,
         LetPropagationInv(p, c, m, l, src), NEW y \in l
  PROVE  /\ y \in SourceVariables /\ y \notin DOMAIN m
         /\ \A i \in 1..Len(p) : i >= c /\ ParamsStay(p[i]) => y \notin Binds(p[i])
<1>1. CASE y \in Params
  BY <1>1, TransformAssumption DEF LetPropagationInv, Replacing, ParamsStay
<1>2. CASE y \notin Params
  <2>1. PICK k \in 1..(c - 1) : p[k].kind = "let" /\ p[k].var = y
    BY <1>2 DEF LetPropagationInv, Immutable
  <2>2. k \in 1..Len(p) /\ \A i \in 1..Len(p) : i >= c => i # k
    BY Typing DEF IsProgram
  <2>3. IsStmt(p[k]) /\ p[k].var # Nil
    BY <2>1, <2>2, Typing, Fields DEF Sound
  <2>4. y \in SourceVariables
    BY <2>1, <2>3 DEF IsStmt
  <2>5. y \in Binds(p[k])
    BY <2>1 DEF Binds
  <2>6. y \notin DOMAIN m
    BY <2>2, <2>5 DEF LetPropagationInv, Replacing
  <2>7. \A i \in 1..Len(p) : i >= c => y \notin Binds(p[i])
    BY <2>1, <2>2 DEF LetPropagationInv, LetsOnce
  <2> QED BY <2>4, <2>6, <2>7
<1> QED BY <1>1, <1>2

\* What the rewriter makes of a statement.
LEMMA LetRewrite ==
  ASSUME NEW p, Typed(p), NEW c \in 1..(Len(p) + 1), NEW m, NEW l, NEW src,
         LetPropagationInv(p, c, m, l, src), NEW i \in 1..Len(p)
  PROVE  LET b == RewrittenBy(m, p[i])
         IN  /\ b \in TilusStmt /\ Sound(b)
             /\ b.kind = p[i].kind /\ b.var = p[i].var /\ b.output = p[i].output /\ b.inputs = p[i].inputs
             /\ b.expr.op = p[i].expr.op /\ b.expr.var = SeenBy(m, p[i].expr.var)
             /\ Binds(b) = Binds(p[i]) /\ Mentions(b) = Mentions(p[i])
             /\ b.expr.var \notin DOMAIN m
<1> DEFINE b == RewrittenBy(m, p[i])
<1>1. p[i] \in TilusStmt /\ Sound(p[i])
  BY Typing
<1>2. \A x \in DOMAIN m : x \in SourceVariables /\ m[x] \in SourceVariables /\ m[x] \notin DOMAIN m
  <2>1. ASSUME NEW x \in DOMAIN m PROVE x \in SourceVariables /\ m[x] \in l
    BY DEF LetPropagationInv, Replacing
  <2> QED BY <2>1, ImmutableIs
<1>3. /\ b \in TilusStmt
      /\ b.kind = p[i].kind /\ b.var = p[i].var /\ b.output = p[i].output /\ b.inputs = p[i].inputs
      /\ b.expr.op = p[i].expr.op /\ b.expr.var = SeenBy(m, p[i].expr.var)
  BY <1>1, <1>2, VarRewrite
<1> HIDE DEF b
<1>4. Sound(b) /\ Mentions(b) = Mentions(p[i])
  BY <1>1, <1>3 DEF Sound, Mentions
<1>5. b.expr.var \notin DOMAIN m
  BY <1>2, <1>3 DEF SeenBy
<1>6. Binds(b) = Binds(p[i])
  <2>1. p[i].expr.var \in Binds(p[i]) => p[i].expr.var \notin DOMAIN m
    BY DEF LetPropagationInv, Replacing
  <2>2. CASE p[i].kind = "evaluate"
    <3>1. b.expr.var = p[i].expr.var
      BY <1>3, <2>1, <2>2 DEF Binds, SeenBy
    <3> QED BY <1>3, <3>1 DEF Binds
  <2>3. CASE p[i].kind # "evaluate"
    BY <1>3, <2>3 DEF Binds
  <2> QED BY <2>2, <2>3
<1> QED BY <1>3, <1>4, <1>5, <1>6 DEF b

\* RewriteStmt: a statement takes the names of the memo.
LEMMA RewriteStmtKeeps ==
  ASSUME NEW p, Typed(p), NEW c \in 1..Len(p), NEW m, NEW l, NEW src, NEW l2,
         LetPropagationInv(p, c, m, l, src),
         ~(p[c].kind = "assign" /\ p[c].var \in Params),
         l2 = IF p[c].kind = "let" THEN l \cup {p[c].var} ELSE l
  PROVE  LET q == [p EXCEPT ![c] = RewrittenBy(m, p[c])]
         IN  Typed(q) /\ c + 1 \in 1..(Len(q) + 1) /\ LetPropagationInv(q, c + 1, m, l2, src)
<1> DEFINE b == RewrittenBy(m, p[c])
           q == [p EXCEPT ![c] = b]
<1>0. Len(p) \in Nat /\ DOMAIN p = 1..Len(p) /\ c \in 1..(Len(p) + 1) /\ IsProgram(p)
  BY Typing DEF IsProgram
<1>1. /\ b \in TilusStmt /\ Sound(b)
      /\ b.kind = p[c].kind /\ b.var = p[c].var /\ b.output = p[c].output /\ b.inputs = p[c].inputs
      /\ b.expr.var = SeenBy(m, p[c].expr.var)
      /\ Binds(b) = Binds(p[c]) /\ Mentions(b) = Mentions(p[c])
      /\ b.expr.var \notin DOMAIN m
  BY <1>0, LetRewrite
<1> HIDE DEF b
<1>2. /\ Typed(q) /\ Len(q) = Len(p) /\ DOMAIN q = 1..Len(p)
      /\ \A i \in 1..Len(p) : q[i] = IF i = c THEN b ELSE p[i]
  BY <1>1, ReplacedTyped
<1> HIDE DEF q
<1>3. \A i \in 1..Len(p) : /\ q[i].kind = p[i].kind /\ q[i].var = p[i].var /\ q[i].output = p[i].output
                           /\ q[i].inputs = p[i].inputs
                           /\ Binds(q[i]) = Binds(p[i]) /\ Mentions(q[i]) = Mentions(p[i])
  BY <1>1, <1>2
<1>4. Immutable(q, c + 1, l2)
  <2>1. ASSUME NEW y \in l2, y \notin Params PROVE \E k \in 1..((c + 1) - 1) : q[k].kind = "let" /\ q[k].var = y
    <3>1. CASE y \in l
      <4>1. PICK k \in 1..(c - 1) : p[k].kind = "let" /\ p[k].var = y
        BY <2>1, <3>1 DEF LetPropagationInv, Immutable
      <4>2. k \in 1..((c + 1) - 1) /\ k \in 1..Len(p)
        BY <1>0
      <4> QED BY <1>3, <4>1, <4>2
    <3>2. CASE y \notin l
      <4>1. p[c].kind = "let" /\ p[c].var = y /\ c \in 1..((c + 1) - 1)
        BY <1>0, <3>2
      <4> QED BY <1>3, <4>1
    <3> QED BY <3>1, <3>2
  <2> QED BY <2>1 DEF Immutable
<1>5. Replacing(q, c + 1, m, l2)
  <2>1. ASSUME NEW x \in DOMAIN m
        PROVE  /\ x \in SourceVariables /\ x \notin Params /\ m[x] \in l2
               /\ \A i \in 1..Len(p) : x \notin Binds(q[i]) /\ (i < c + 1 => q[i].expr.var # x)
    <3>1. /\ x \in SourceVariables /\ x \notin Params /\ m[x] \in l
          /\ \A i \in 1..Len(p) : x \notin Binds(p[i]) /\ (i < c => p[i].expr.var # x)
      BY DEF LetPropagationInv, Replacing
    <3>2. ASSUME NEW i \in 1..Len(p), i < c + 1 PROVE q[i].expr.var # x
      <4>1. CASE i = c
        BY <1>1, <1>2, <4>1
      <4>2. CASE i # c
        BY <1>0, <1>2, <3>1, <3>2, <4>2
      <4> QED BY <4>1, <4>2
    <3> QED BY <1>3, <3>1, <3>2
  <2> QED BY <1>2, <2>1 DEF Replacing
<1>6. LetsOnce(q)
  <2>1. ASSUME NEW i \in 1..Len(p), NEW k \in 1..Len(p), q[i].kind = "let"
        PROVE  /\ k # i => q[i].var \notin Binds(q[k])
               /\ k <= i => q[k].expr.var # q[i].var
    <3>1. /\ k # i => p[i].var \notin Binds(p[k])
          /\ k <= i => p[k].expr.var # p[i].var
      BY <1>3, <2>1 DEF LetPropagationInv, LetsOnce
    <3>2. ASSUME k <= i PROVE q[k].expr.var # q[i].var
      <4>1. CASE k # c \/ p[c].expr.var \notin DOMAIN m
        BY <1>1, <1>2, <1>3, <3>1, <3>2, <4>1 DEF SeenBy
      <4>2. CASE k = c /\ p[c].expr.var \in DOMAIN m
        <5>1. q[k].expr.var = m[p[c].expr.var] /\ m[p[c].expr.var] \in l
          BY <1>1, <1>2, <4>2 DEF SeenBy, LetPropagationInv, Replacing
        <5>2. ParamsStay(p[i]) /\ i >= c
          BY <1>0, <1>3, <2>1, <3>2, <4>2 DEF LetPropagationInv
        <5>3. q[k].expr.var \notin Binds(p[i])
          BY <1>0, <5>1, <5>2, ImmutableIs
        <5>4. q[i].var \in Binds(p[i])
          BY <1>3, <2>1 DEF Binds
        <5> QED BY <5>3, <5>4
      <4> QED BY <4>1, <4>2
    <3> QED BY <1>3, <3>1, <3>2
  <2> QED BY <1>2, <2>1 DEF LetsOnce
<1>7. ASSUME NEW i \in 1..Len(p), q[i].kind # "assign" \/ i < c + 1 PROVE ParamsStay(q[i])
  <2>1. CASE q[i].kind # "assign" \/ i < c
    BY <1>3, <2>1 DEF LetPropagationInv, ParamsStay
  <2>2. CASE q[i].kind = "assign" /\ ~(i < c)
    <3>1. i = c
      BY <1>0, <1>7, <2>2
    <3> QED BY <1>3, <2>2, <3>1 DEF ParamsStay, Binds
  <2> QED BY <2>1, <2>2
<1>8. LoadsFirst(q, 1)
  <2>1. ASSUME NEW i \in 1..Len(p), q[i].kind = "load"
        PROVE  q[i].output \notin Range(q[i].inputs) /\ \A k \in 1..(i - 1) : q[i].output \notin Mentions(q[k])
    <3>1. p[i].output \notin Range(p[i].inputs) /\ \A k \in 1..(i - 1) : p[i].output \notin Mentions(p[k])
      BY <1>0, <1>3, <2>1 DEF LetPropagationInv, LoadsFirst
    <3>2. \A k \in 1..(i - 1) : k \in 1..Len(p)
      BY <1>0
    <3> QED BY <1>3, <3>1, <3>2
  <2> QED BY <1>2, <2>1 DEF LoadsFirst
<1>9. ASSUME \A i \in 1..Len(p) : ParamsStay(q[i]) PROVE Effects(Ahead(q, c + 1, m)) = src
  <2>1. Effects(Ahead(p, c, m)) = src
    BY <1>3, <1>9 DEF LetPropagationInv, ParamsStay
  <2>2. ASSUME NEW i \in 1..Len(p)
        PROVE  (IF i < c + 1 THEN q[i] ELSE RewrittenBy(m, q[i])) = IF i < c THEN p[i] ELSE RewrittenBy(m, p[i])
    <3>1. CASE i = c
      BY <1>0, <1>2, <3>1 DEF b
    <3>2. CASE i # c
      BY <1>0, <1>2, <3>2
    <3> QED BY <3>1, <3>2
  <2>3. Ahead(q, c + 1, m) = Ahead(p, c, m)
    BY <1>0, <1>2, <2>2 DEF Ahead
  <2> QED BY <2>1, <2>3
<1>10. c + 1 \in 1..(Len(q) + 1) /\ c + 1 # 1
  BY <1>0, <1>2
<1>11. \A i \in 1..Len(p) : Mentions(q[i]) \subseteq SourceTensors
  BY <1>3 DEF LetPropagationInv
<1>12. LetPropagationInv(q, c + 1, m, l2, src)
  BY <1>2, <1>4, <1>5, <1>6, <1>7, <1>8, <1>9, <1>10, <1>11 DEF LetPropagationInv
<1> QED BY <1>2, <1>10, <1>12 DEF q, b

\* PropagateLet: a let that renames an immutable variable goes to the memo.
LEMMA PropagateLetKeeps ==
  ASSUME NEW p, Typed(p), NEW c \in 1..Len(p), NEW m, NEW l, NEW src, NEW x, NEW y,
         LetPropagationInv(p, c, m, l, src),
         x = p[c].var, y = RewrittenBy(m, p[c]).expr.var,
         p[c].kind = "let", p[c].expr.op = "copy", y \in l
  PROVE  LET q == RemoveAt(p, c)
         IN  Typed(q) /\ c \in 1..(Len(q) + 1) /\ LetPropagationInv(q, c, Extended(m, x, y), l, src)
<1> DEFINE q == RemoveAt(p, c)
           m2 == Extended(m, x, y)
<1>0. Len(p) \in Nat /\ DOMAIN p = 1..Len(p) /\ c \in 1..(Len(p) + 1) /\ IsProgram(p) /\ p \in Seq(TilusStmt)
  BY Typing DEF IsProgram, Typed
<1>1. /\ Typed(q) /\ Len(q) = Len(p) - 1 /\ DOMAIN q = 1..(Len(p) - 1)
      /\ \A i \in 1..(Len(p) - 1) : q[i] = p[From(c, i)]
  BY <1>0, RemovedTyped, RemoveAtIs
<1>2. /\ \A i \in 1..(Len(p) - 1) : From(c, i) \in 1..Len(p) /\ From(c, i) # c /\ (i < c => From(c, i) = i)
                                    /\ (i >= c => From(c, i) > c)
      /\ \A i, k \in 1..(Len(p) - 1) : /\ k # i => From(c, k) # From(c, i)
                                       /\ k <= i => From(c, k) <= From(c, i)
                                       /\ k < i => From(c, k) < From(c, i)
      /\ \A i \in 1..Len(p) : i # c => To(c, i) \in 1..(Len(p) - 1) /\ From(c, To(c, i)) = i
  BY <1>0, FromTo
<1>3. DOMAIN m2 = DOMAIN m \cup {x} /\ m2[x] = y /\ \A z \in DOMAIN m : z # x => m2[z] = m[z]
  BY DEF Extended
<1> HIDE DEF q, m2
<1>4. x \in SourceVariables /\ x \notin Params /\ Binds(p[c]) = {x}
  <2>1. IsStmt(p[c]) /\ p[c].var # Nil /\ Binds(p[c]) = {x}
    BY Typing, Fields DEF Sound, Binds
  <2>2. ParamsStay(p[c])
    BY DEF LetPropagationInv
  <2> QED BY <2>1, <2>2 DEF IsStmt, ParamsStay
<1>5. x \notin DOMAIN m
  BY <1>4 DEF LetPropagationInv, Replacing
<1>6. x \notin l
  <2>1. ParamsStay(p[c])
    BY DEF LetPropagationInv
  <2>2. ASSUME x \in l PROVE FALSE
    <3>1. x \notin Binds(p[c])
      BY <1>0, <2>1, <2>2, ImmutableIs
    <3> QED BY <1>4, <3>1
  <2> QED BY <2>2
<1>7. x # y
  BY <1>6
<1>8. Immutable(q, c, l)
  <2>1. ASSUME NEW z \in l, z \notin Params PROVE \E k \in 1..(c - 1) : q[k].kind = "let" /\ q[k].var = z
    <3>1. PICK k \in 1..(c - 1) : p[k].kind = "let" /\ p[k].var = z
      BY <2>1 DEF LetPropagationInv, Immutable
    <3>2. k \in 1..(Len(p) - 1) /\ k < c
      BY <1>0
    <3>3. q[k] = p[k]
      BY <1>1, <1>2, <3>2
    <3> QED BY <3>1, <3>3
  <2> QED BY <2>1 DEF Immutable
<1>9. \A i \in 1..Len(p) : i # c => x \notin Binds(p[i])
  BY DEF LetPropagationInv, LetsOnce
<1>10. \A i \in 1..Len(p) : i <= c => p[i].expr.var # x
  BY DEF LetPropagationInv, LetsOnce
<1>11. Replacing(q, c, m2, l)
  <2>1. ASSUME NEW z \in DOMAIN m2
        PROVE  /\ z \in SourceVariables /\ z \notin Params /\ m2[z] \in l
               /\ \A j \in 1..Len(p) : j # c => z \notin Binds(p[j]) /\ (j < c => p[j].expr.var # z)
    <3>1. CASE z = x
      BY <1>0, <1>3, <1>4, <1>9, <1>10, <3>1
    <3>2. CASE z # x
      BY <1>3, <3>2 DEF LetPropagationInv, Replacing
    <3> QED BY <3>1, <3>2
  <2>2. ASSUME NEW z \in DOMAIN m2, NEW i \in 1..(Len(p) - 1)
        PROVE  z \notin Binds(q[i]) /\ (i < c => q[i].expr.var # z)
    BY <1>1, <1>2, <2>1
  <2> QED BY <1>1, <2>1, <2>2 DEF Replacing
<1>12. LetsOnce(q)
  <2>1. ASSUME NEW i \in 1..(Len(p) - 1), NEW k \in 1..(Len(p) - 1), q[i].kind = "let"
        PROVE  /\ k # i => q[i].var \notin Binds(q[k])
               /\ k <= i => q[k].expr.var # q[i].var
    <3>1. From(c, i) \in 1..Len(p) /\ From(c, k) \in 1..Len(p) /\ p[From(c, i)].kind = "let"
      BY <1>1, <1>2, <2>1
    <3>2. /\ From(c, k) # From(c, i) => p[From(c, i)].var \notin Binds(p[From(c, k)])
          /\ From(c, k) <= From(c, i) => p[From(c, k)].expr.var # p[From(c, i)].var
      BY <3>1 DEF LetPropagationInv, LetsOnce
    <3> QED BY <1>1, <1>2, <3>2
  <2> QED BY <1>1, <2>1 DEF LetsOnce
<1>13. ASSUME NEW i \in 1..(Len(p) - 1), q[i].kind # "assign" \/ i < c PROVE ParamsStay(q[i])
  BY <1>1, <1>2, <1>13 DEF LetPropagationInv
<1>14. LoadsFirst(q, 1)
  <2>1. ASSUME NEW i \in 1..(Len(p) - 1), q[i].kind = "load"
        PROVE  q[i].output \notin Range(q[i].inputs) /\ \A k \in 1..(i - 1) : q[i].output \notin Mentions(q[k])
    <3>1. From(c, i) \in 1..Len(p) /\ From(c, i) >= 1
      BY <1>2
    <3>2. /\ p[From(c, i)].output \notin Range(p[From(c, i)].inputs)
          /\ \A k \in 1..(From(c, i) - 1) : p[From(c, i)].output \notin Mentions(p[k])
      BY <1>1, <2>1, <3>1 DEF LetPropagationInv, LoadsFirst
    <3>3. ASSUME NEW k \in 1..(i - 1) PROVE q[i].output \notin Mentions(q[k])
      <4>1. k \in 1..(Len(p) - 1) /\ k < i
        BY <1>0
      <4>2. From(c, k) \in 1..Len(p) /\ From(c, k) < From(c, i)
        BY <1>2, <4>1
      <4>3. From(c, k) \in 1..(From(c, i) - 1)
        BY <3>1, <4>2
      <4> QED BY <1>1, <3>2, <4>1, <4>3
    <3> QED BY <1>1, <3>2, <3>3
  <2> QED BY <1>1, <2>1 DEF LoadsFirst
<1>15. ASSUME \A i \in 1..(Len(p) - 1) : ParamsStay(q[i]) PROVE Effects(Ahead(q, c, m2)) = src
  <2> DEFINE w == Ahead(p, c, m)
             w2 == Ahead(q, c, m2)
  <2>1. ASSUME NEW i \in 1..Len(p) PROVE ParamsStay(p[i])
    <3>1. CASE i = c
      BY <3>1 DEF LetPropagationInv
    <3>2. CASE i # c
      BY <1>1, <1>2, <1>15, <3>2
    <3> QED BY <3>1, <3>2
  <2>2. Effects(w) = src
    BY <2>1 DEF LetPropagationInv
  <2>3. /\ Len(w) = Len(p) /\ DOMAIN w = 1..Len(p)
        /\ \A i \in 1..Len(p) : w[i] = IF i < c THEN p[i] ELSE RewrittenBy(m, p[i])
    BY <1>0, AheadIs
  <2>4. /\ Len(w2) = Len(p) - 1 /\ DOMAIN w2 = 1..(Len(p) - 1)
        /\ \A i \in 1..(Len(p) - 1) : w2[i] = IF i < c THEN q[i] ELSE RewrittenBy(m2, q[i])
    <3>1. Len(p) - 1 \in Nat
      BY <1>0
    <3> QED BY <1>1, <3>1, AheadIs
  <2>5. IsProgram(w)
    <3>1. \A i \in 1..Len(p) : RewrittenBy(m, p[i]).kind = p[i].kind
      BY <1>0, LetRewrite
    <3> QED BY <1>0, <3>1, AheadLoops
  <2> HIDE DEF w, w2
  <2>6. w[c].kind = "let" /\ w[c].var = x /\ w[c].expr.op = "copy" /\ w[c].expr.var = y
    <3>1. w[c] = RewrittenBy(m, p[c])
      BY <1>0, <2>3
    <3> QED BY <1>0, <3>1, LetRewrite
  <2>7. ASSUME NEW i \in 1..Len(p), i # c
        PROVE  /\ VarRenamed(w[i], w2[To(c, i)], x, y) /\ x \notin Binds(w[i])
               /\ i < c => w[i].expr.var # x
               /\ i > c => y \notin Binds(w[i])
    <3>0. q[To(c, i)] = p[i] /\ To(c, i) \in 1..(Len(p) - 1)
      BY <1>1, <1>2, <2>7
    <3>1. CASE i < c
      <4>1. w[i] = p[i] /\ To(c, i) < c
        BY <2>3, <3>1 DEF To
      <4>2. w2[To(c, i)] = p[i]
        BY <2>4, <3>0, <4>1
      <4>3. p[i].expr.var # x /\ ~(i > c)
        BY <1>0, <1>10, <3>1
      <4> QED BY <1>9, <2>7, <4>1, <4>2, <4>3 DEF VarRenamed
    <3>2. CASE ~(i < c)
      <4>1. w[i] = RewrittenBy(m, p[i]) /\ ~(To(c, i) < c) /\ i >= c
        BY <1>0, <2>3, <2>7, <3>2 DEF To
      <4>2. w2[To(c, i)] = RewrittenBy(m2, p[i])
        BY <2>4, <3>0, <4>1
      <4>3. /\ w[i].kind = p[i].kind /\ w[i].var = p[i].var /\ w[i].output = p[i].output
            /\ w[i].inputs = p[i].inputs
            /\ w[i].expr.op = p[i].expr.op /\ w[i].expr.var = SeenBy(m, p[i].expr.var)
            /\ Binds(w[i]) = Binds(p[i])
        BY <1>0, <4>1, LetRewrite
      <4>4. \A z \in DOMAIN m2 : z \in SourceVariables /\ m2[z] \in SourceVariables
        <5>1. \A z \in DOMAIN m2 : z \in SourceVariables /\ m2[z] \in l
          BY <1>11 DEF Replacing
        <5> QED BY <1>0, <5>1, ImmutableIs
      <4>5. p[i] \in TilusStmt
        BY Typing
      <4>6. /\ w2[To(c, i)].kind = p[i].kind /\ w2[To(c, i)].var = p[i].var
            /\ w2[To(c, i)].output = p[i].output /\ w2[To(c, i)].inputs = p[i].inputs
            /\ w2[To(c, i)].expr.op = p[i].expr.op /\ w2[To(c, i)].expr.var = SeenBy(m2, p[i].expr.var)
        BY <4>2, <4>4, <4>5, VarRewrite
      <4>7. \A z : SeenBy(m2, z) = IF SeenBy(m, z) = x THEN y ELSE SeenBy(m, z)
        <5>1. \A z \in DOMAIN m : m[z] \in l
          BY DEF LetPropagationInv, Replacing
        <5> QED BY <1>3, <1>5, <1>6, <5>1 DEF SeenBy
      <4>8. VarRenamed(w[i], w2[To(c, i)], x, y)
        BY <4>3, <4>6, <4>7 DEF VarRenamed
      <4>9. y \notin Binds(p[i])
        BY <1>0, <2>1, <4>1, ImmutableIs
      <4> QED BY <1>9, <2>7, <3>2, <4>3, <4>8, <4>9
    <3> QED BY <3>1, <3>2
  <2>8. LetRemoved(w, w2, c, x, y)
    BY <1>7, <2>3, <2>4, <2>6, <2>7 DEF LetRemoved
  <2>9. Effects(w2) = Effects(w)
    BY <2>5, <2>8, LetRemovedEffects
  <2> QED BY <2>2, <2>9 DEF w2
<1>16. m2 # <<>>
  <2>1. DOMAIN <<>> = {}
    BY SMT
  <2>2. DOMAIN m2 # {}
    BY <1>3
  <2> HIDE DEF m2
  <2> QED BY <2>1, <2>2
<1>17. c \in 1..(Len(q) + 1)
  BY <1>0, <1>1
<1>18. \A i \in 1..(Len(p) - 1) : Mentions(q[i]) \subseteq SourceTensors
  BY <1>1, <1>2 DEF LetPropagationInv
<1>19. LetPropagationInv(q, c, m2, l, src)
  BY <1>1, <1>8, <1>11, <1>12, <1>13, <1>14, <1>15, <1>16, <1>18 DEF LetPropagationInv
<1> QED BY <1>1, <1>17, <1>19 DEF q, m2

-----------------------------------------------------------------------------
(* The programs to compile, and their lets. *)

Introduces(a) == a.kind \in {"declare", "item"}

LEMMA SourceIs ==
  ASSUME NEW p \in Programs
  PROVE  /\ p \in Seq(SourceStatement) /\ Typed(p)
         /\ \A i \in 1..Len(p) : Shaped(p[i]) /\ Mentions(p[i]) \subseteq SourceTensors
<1>1. p \in Seq(SourceStatement) /\ WellFormed(p) /\ Len(p) \in Nat /\ DOMAIN p = 1..Len(p)
  BY TransformAssumption DEF Programs
<1>2. OneLoop(p)
  BY <1>1 DEF WellFormed, OneLoop
<1>3. \A i \in 1..Len(p) : Shaped(p[i])
  BY <1>1 DEF WellFormed
<1>4. ASSUME NEW i \in 1..Len(p)
      PROVE  p[i] \in TilusStmt /\ Sound(p[i]) /\ Mentions(p[i]) \subseteq SourceTensors
  <2> DEFINE a == p[i]
  <2>1. a \in SourceStatement
    BY <1>1
  <2>2. Shaped(a)
    BY <1>3
  <2> HIDE DEF a
  <2>3. a.inputs \in Seq(SourceTensors) /\ a.output \in SourceTensors \cup {Nil}
    BY <2>1 DEF SourceStatement
  <2>4. a.inputs \in Seq(TensorNames \X Nat) /\ a.output \in (TensorNames \X Nat) \cup {Nil}
    BY <2>3, Apart
  <2>5. a \in TilusStmt
    BY <2>1, <2>4 DEF SourceStatement, TilusStmt
  <2>6. a.kind # "let"
    BY <2>1 DEF SourceStatement, SourceKinds
  <2>7. Sound(a)
    <3>1. a.kind = "item" => 1 \in DOMAIN a.inputs
      BY <2>2, <2>3 DEF Shaped
    <3> QED BY <2>2, <2>6, <3>1 DEF Shaped, Sound
  <2>8. Range(a.inputs) \subseteq SourceTensors
    BY <2>3 DEF Range
  <2>9. Mentions(a) \subseteq SourceTensors
    BY <2>3, <2>8 DEF Mentions
  <2> QED BY <2>5, <2>7, <2>9 DEF a
<1>5. p \in Seq(TilusStmt)
  BY <1>1, <1>4
<1> QED BY <1>1, <1>2, <1>3, <1>4, <1>5 DEF Typed

LEMMA BeforeIs ==
  ASSUME NEW S, NEW p \in Seq(S), NEW i \in 1..Len(p)
  PROVE  \A b : b \in Stmts(SubSeq(p, 1, i - 1)) <=> \E k \in 1..(i - 1) : b = p[k]
<1>1. /\ DOMAIN SubSeq(p, 1, i - 1) = 1..(i - 1)
      /\ \A k \in 1..(i - 1) : SubSeq(p, 1, i - 1)[k] = p[k]
  OBVIOUS
<1> QED BY <1>1 DEF Stmts

\* What a statement of the source mentions comes before it, and what it
\* introduces does not.
LEMMA SourceOrder ==
  ASSUME NEW p \in Programs, NEW i \in 1..Len(p)
  PROVE  /\ Introduces(p[i]) =>
              /\ p[i].var \notin Params
              /\ \A k \in 1..(i - 1) : Introduces(p[k]) => p[k].var # p[i].var
         /\ p[i].kind = "evaluate" => p[i].expr.var \notin Params
         /\ p[i].expr.var # Nil /\ p[i].expr.var \notin Params =>
              \E k \in 1..(i - 1) : Introduces(p[k]) /\ p[k].var = p[i].expr.var
         /\ \A t \in Range(p[i].inputs) : \E k \in 1..(i - 1) : p[k].output = t
         /\ p[i].kind = "load" /\ ~LoadOut => \A k \in 1..(i - 1) : p[k].output # p[i].output
<1>1. p \in Seq(SourceStatement) /\ WellFormed(p) /\ Len(p) \in Nat /\ DOMAIN p = 1..Len(p)
  BY SourceIs DEF Programs
<1> DEFINE before == Stmts(SubSeq(p, 1, i - 1))
           vars == {s.var : s \in {b \in before : b.kind \in {"declare", "item"}}}
           tensors == {s.output : s \in before}
<1>2. \A b : b \in before <=> \E k \in 1..(i - 1) : b = p[k]
  BY <1>1, BeforeIs
<1>3. /\ VarsOf(p[i].expr) \subseteq vars \cup Params
      /\ Range(p[i].inputs) \subseteq tensors
      /\ p[i].kind \in {"declare", "item"} => p[i].var \notin vars \cup Params
      /\ p[i].kind = "evaluate" => p[i].expr.var \notin Params
      /\ p[i].kind = "load" /\ p[i].output \in tensors => LoadOut
  BY <1>1 DEF WellFormed
<1> HIDE DEF before
<1>4. \A v : v \in vars <=> \E k \in 1..(i - 1) : Introduces(p[k]) /\ p[k].var = v
  <2>1. \A v : v \in vars <=> \E b \in before : b.kind \in {"declare", "item"} /\ b.var = v
    OBVIOUS
  <2> HIDE DEF vars
  <2> QED BY <1>2, <2>1 DEF Introduces
<1>5. \A t : t \in tensors <=> \E k \in 1..(i - 1) : p[k].output = t
  <2>1. \A t : t \in tensors <=> \E b \in before : b.output = t
    OBVIOUS
  <2> HIDE DEF tensors
  <2> QED BY <1>2, <2>1
<1> HIDE DEF vars, tensors
<1>6. p[i].expr.var # Nil => p[i].expr.var \in vars \cup Params
  BY <1>3 DEF VarsOf
<1> QED BY <1>3, <1>4, <1>5, <1>6 DEF Introduces

\* A variable with one value has it from one statement.
LEMMA OneAssign ==
  ASSUME NEW v, Assigns(v) = 1, NEW S, program \in Seq(S), NEW i \in 1..Len(program), NEW k \in 1..Len(program),
         program[i].kind = "declare", program[i].expr.op # "none", program[i].var = v,
         \/ program[k].kind = "assign" /\ program[k].var = v
         \/ program[k].expr.op = "address" /\ program[k].expr.var = v
  PROVE  i = k
<1> DEFINE A == {j \in DOMAIN program :
               LET s == program[j]
               IN  \/ s.kind = "declare" /\ s.expr.op # "none" /\ s.var = v
                   \/ s.kind = "assign" /\ s.var = v
                   \/ s.expr.op = "address" /\ s.expr.var = v}
<1>1. Len(program) \in Nat /\ DOMAIN program = 1..Len(program)
  OBVIOUS
<1>2. IsFiniteSet(1..Len(program)) /\ A \subseteq 1..Len(program)
  BY <1>1, FS_Interval
<1>3. IsFiniteSet(A)
  BY <1>2, FS_Subset
<1>4. Cardinality(A) = 1
  BY DEF Assigns
<1>5. i \in A /\ k \in A
  BY <1>1
<1> HIDE DEF A
<1>6. \E j : A = {j}
  BY <1>3, <1>4, FS_Singleton
<1> QED BY <1>5, <1>6

\* Statement i is the only one that gives its variable a value.
Once(p, i) ==
  \A k \in 1..Len(p) :
    \/ p[k].kind = "assign" /\ p[k].var = p[i].var
    \/ p[k].expr.op = "address" /\ p[k].expr.var = p[i].var
    => k = i

BecomesLet(p, q, i) ==
  /\ p[i].kind = "declare" /\ q[i].kind = "let" /\ q[i].var = p[i].var /\ q[i].expr = p[i].expr
  /\ q[i].output = p[i].output /\ q[i].inputs = p[i].inputs
  /\ q[i] \in TilusStmt /\ Once(p, i)

LetsOf(p, q) ==
  /\ Len(q) = Len(p) /\ q = [i \in 1..Len(p) |-> q[i]]
  /\ \A i \in 1..Len(p) : q[i] = p[i] \/ BecomesLet(p, q, i)

\* A program with lets for some declarations.
LEMMA LetsKeep ==
  ASSUME ~LoadOut, NEW p \in Programs, NEW q, LetsOf(p, q)
  PROVE  Typed(q) /\ 1 \in 1..(Len(q) + 1) /\ LetPropagationInv(q, 1, <<>>, Params, Effects(p))
<1>1. /\ p \in Seq(SourceStatement) /\ Typed(p) /\ Len(p) \in Nat /\ DOMAIN p = 1..Len(p)
      /\ \A i \in 1..Len(p) : Shaped(p[i]) /\ Mentions(p[i]) \subseteq SourceTensors
      /\ \A i \in 1..Len(p) : p[i] \in TilusStmt /\ Sound(p[i]) /\ p[i].kind # "let"
  <2>1. p \in Seq(SourceStatement) /\ Typed(p) /\ \A i \in 1..Len(p) : Shaped(p[i]) /\ Mentions(p[i]) \subseteq SourceTensors
    BY SourceIs
  <2>2. Len(p) \in Nat /\ DOMAIN p = 1..Len(p)
    BY <2>1
  <2>3. ASSUME NEW i \in 1..Len(p) PROVE p[i].kind # "let"
    <3>1. p[i] \in SourceStatement
      BY <2>1
    <3> QED BY <3>1 DEF SourceStatement, SourceKinds
  <2> QED BY <2>1, <2>2, <2>3, Typing
<1>2. Len(q) = Len(p) /\ q = [i \in 1..Len(p) |-> q[i]]
  BY DEF LetsOf
<1>3. ASSUME NEW i \in 1..Len(p)
      PROVE  /\ q[i].var = p[i].var /\ q[i].expr = p[i].expr /\ q[i].output = p[i].output /\ q[i].inputs = p[i].inputs
             /\ q[i].kind = p[i].kind \/ (p[i].kind = "declare" /\ q[i].kind = "let" /\ Once(p, i))
             /\ q[i] \in TilusStmt /\ Sound(q[i])
  <2>1. CASE q[i] = p[i]
    BY <1>1, <2>1
  <2>2. CASE BecomesLet(p, q, i)
    <3>1. Sound(p[i])
      BY <1>1
    <3> QED BY <2>2, <3>1 DEF BecomesLet, Sound, Functional
  <2> QED BY <2>1, <2>2 DEF LetsOf
<1>4. ASSUME NEW i \in 1..Len(p) PROVE Binds(q[i]) = Binds(p[i]) /\ Mentions(q[i]) = Mentions(p[i])
  BY <1>3 DEF Binds, Mentions
<1>5. Typed(q)
  <2>1. q \in Seq(TilusStmt)
    <3>1. q \in [1..Len(p) -> TilusStmt]
      BY <1>2, <1>3
    <3> QED BY <1>1, <3>1, SeqDef
  <2>2. Loops(q) = Loops(p)
    <3>1. \A i \in 1..Len(p) : q[i].kind = "loop" <=> p[i].kind = "loop"
      BY <1>3
    <3> QED BY <1>1, <1>2, <3>1 DEF Loops
  <2> QED BY <1>1, <1>2, <1>3, <2>1, <2>2 DEF Typed, OneLoop
<1>6. Effects(q) = Effects(p)
  <2>1. ASSUME NEW i \in 1..Len(p)
        PROVE  /\ q[i].kind = "loop" <=> p[i].kind = "loop"
               /\ \A s : Perform(s, q[i]) = Perform(s, p[i])
    <3>1. q[i].kind = "loop" <=> p[i].kind = "loop"
      BY <1>3
    <3>2. ASSUME NEW s PROVE Perform(s, q[i]) = Perform(s, p[i])
      <4>1. Sees(s, q[i]) = Sees(s, p[i])
        BY <1>3 DEF Sees
      <4>2. Now(s, q[i]) = Now(s, p[i])
        BY <1>3, <4>1 DEF Now
      <4>3. /\ Binds(q[i]) = Binds(p[i]) /\ Puts(q[i]) = Puts(p[i])
            /\ q[i].kind \in Effectful <=> p[i].kind \in Effectful
        BY <1>3, <1>4 DEF Puts, Functional, Effectful, OptionalOutput
      <4>4. Gives(s, q[i]) = Gives(s, p[i])
        BY <1>3, <4>1 DEF Gives
      <4>5. Yields(s, q[i]) = Yields(s, p[i])
        BY <1>3, <4>2 DEF Yields, Functional
      <4> QED BY <4>2, <4>3, <4>4, <4>5 DEF Perform
    <3> QED BY <3>1, <3>2
  <2>2. IsProgram(p)
    BY <1>1, Typing
  <2> QED BY <1>2, <2>1, <2>2, SameEffects
<1>7. Immutable(q, 1, Params)
  BY DEF Immutable
<1>8. Replacing(q, 1, <<>>, Params)
  BY DEF Replacing
<1>9. LetsOnce(q)
  <2>1. ASSUME NEW i \in 1..Len(p), NEW k \in 1..Len(p), p[i].kind = "declare", Once(p, i)
        PROVE  /\ k # i => p[i].var \notin Binds(p[k])
               /\ k <= i => p[k].expr.var # p[i].var
    <3>1. Introduces(p[i]) /\ p[i].var # Nil /\ p[i].var \notin Params
      BY <1>1, <2>1, SourceOrder DEF Introduces, Sound
    <3>2. ASSUME k # i, Introduces(p[k]) PROVE p[k].var # p[i].var
      <4>1. CASE k < i
        <5>1. k \in 1..(i - 1)
          BY <1>1, <4>1
        <5> QED BY <3>1, <3>2, <5>1, SourceOrder
      <4>2. CASE ~(k < i)
        <5>1. i \in 1..(k - 1)
          BY <1>1, <3>2, <4>2
        <5>2. p[i].var # p[k].var
          BY <3>1, <3>2, <5>1, SourceOrder
        <5> QED BY <5>2
      <4> QED BY <4>1, <4>2
    <3>3. ASSUME k # i, p[i].var \in Binds(p[k]) PROVE FALSE
      <4>1. CASE p[k].kind = "assign"
        <5>1. p[k].var = p[i].var
          BY <3>3, <4>1 DEF Binds
        <5> QED BY <2>1, <3>3, <4>1, <5>1 DEF Once
      <4>2. CASE p[k].kind = "evaluate"
        <5>1. p[k].expr.op = "address" /\ p[k].expr.var = p[i].var
          BY <1>1, <3>3, <4>2 DEF Binds, Shaped
        <5> QED BY <2>1, <3>3, <5>1 DEF Once
      <4>3. CASE p[k].kind \notin {"assign", "evaluate"}
        <5>1. Introduces(p[k]) /\ p[k].var = p[i].var
          BY <1>1, <3>3, <4>3 DEF Binds, Introduces
        <5> QED BY <3>2, <3>3, <5>1
      <4> QED BY <4>1, <4>2, <4>3
    <3>4. ASSUME k <= i, p[k].expr.var = p[i].var PROVE FALSE
      <4>1. PICK j \in 1..(k - 1) : Introduces(p[j]) /\ p[j].var = p[k].expr.var
        BY <3>1, <3>4, SourceOrder
      <4>2. j \in 1..(i - 1)
        BY <1>1, <3>4
      <4> QED BY <3>1, <3>4, <4>1, <4>2, SourceOrder
    <3> QED BY <3>3, <3>4
  <2>2. ASSUME NEW i \in 1..Len(p), q[i].kind = "let" PROVE p[i].kind = "declare" /\ Once(p, i)
    BY <1>1, <1>3, <2>2
  <2>3. ASSUME NEW i \in 1..Len(p), NEW k \in 1..Len(p), q[i].kind = "let"
        PROVE  /\ k # i => q[i].var \notin Binds(q[k])
               /\ k <= i => q[k].expr.var # q[i].var
    BY <1>3, <1>4, <2>1, <2>2, <2>3
  <2> QED BY <1>2, <2>3 DEF LetsOnce
<1>10. ASSUME NEW i \in 1..Len(p), q[i].kind # "assign" \/ i < 1 PROVE ParamsStay(q[i])
  <2>1. p[i].kind # "assign"
    BY <1>1, <1>3, <1>10
  <2>2. CASE p[i].kind = "evaluate"
    <3>1. p[i].expr.var \notin Params
      BY <2>2, SourceOrder
    <3> QED BY <1>4, <2>2, <3>1 DEF Binds, ParamsStay
  <2>3. CASE Introduces(p[i])
    <3>1. p[i].var \notin Params
      BY <2>3, SourceOrder
    <3> QED BY <1>4, <2>3, <3>1 DEF Binds, ParamsStay, Introduces
  <2>4. CASE p[i].kind # "evaluate" /\ ~Introduces(p[i])
    <3>1. Binds(p[i]) = {}
      BY <1>1, <2>1, <2>4 DEF Binds, Introduces
    <3> QED BY <1>4, <3>1 DEF ParamsStay
  <2> QED BY <2>2, <2>3, <2>4
<1>11. LoadsFirst(q, 1)
  <2>1. ASSUME NEW i \in 1..Len(p), p[i].kind = "load"
        PROVE  p[i].output \notin Range(p[i].inputs) /\ \A k \in 1..(i - 1) : p[i].output \notin Mentions(p[k])
    <3>1. \A k \in 1..(i - 1) : p[k].output # p[i].output
      BY <2>1, SourceOrder
    <3>2. p[i].output \notin Range(p[i].inputs)
      BY <3>1, SourceOrder
    <3>3. ASSUME NEW k \in 1..(i - 1), p[i].output \in Range(p[k].inputs) PROVE FALSE
      <4>1. k \in 1..Len(p)
        BY <1>1
      <4>2. \A t \in Range(p[k].inputs) : \E j \in 1..(k - 1) : p[j].output = t
        BY <4>1, SourceOrder
      <4>3. PICK j \in 1..(k - 1) : p[j].output = p[i].output
        BY <3>3, <4>2
      <4>4. j \in 1..(i - 1)
        BY <1>1
      <4> QED BY <3>1, <4>3, <4>4
    <3> QED BY <3>1, <3>2, <3>3 DEF Mentions
  <2>2. ASSUME NEW i \in 1..Len(p), q[i].kind = "load"
        PROVE  q[i].output \notin Range(q[i].inputs) /\ \A k \in 1..(i - 1) : q[i].output \notin Mentions(q[k])
    <3>1. p[i].kind = "load" /\ \A k \in 1..(i - 1) : k \in 1..Len(p)
      BY <1>1, <1>3, <2>2
    <3> QED BY <1>3, <1>4, <2>1, <3>1
  <2> QED BY <1>2, <2>2 DEF LoadsFirst
<1>12. Ahead(q, 1, <<>>) = q
  BY <1>5, AheadEnds
<1>13. \A i \in 1..Len(p) : Mentions(q[i]) \subseteq SourceTensors
  BY <1>1, <1>4
<1>14. LetPropagationInv(q, 1, <<>>, Params, Effects(p))
  BY <1>2, <1>6, <1>7, <1>8, <1>9, <1>10, <1>11, <1>12, <1>13 DEF LetPropagationInv
<1> QED BY <1>1, <1>2, <1>5, <1>14
\* DeclareToLet: a declaration of a variable with one value becomes a let.
LEMMA DeclareToLetKeeps ==
  ASSUME NEW q, program \in Programs,
         q = [i \in DOMAIN program |->
                LET s == program[i]
                IN  IF s.kind = "declare" /\ Assigns(s.var) = 1 /\ s.expr.op # "none"
                    THEN [s EXCEPT !.kind = "let"] ELSE s]
  PROVE  LetsOf(program, q)
<1>1. program \in Seq(SourceStatement) /\ Typed(program)
  BY SourceIs
<1>2. /\ Len(program) \in Nat /\ DOMAIN program = 1..Len(program)
      /\ Len(q) = Len(program) /\ q = [i \in 1..Len(program) |-> q[i]]
  BY <1>1
<1>3. ASSUME NEW i \in 1..Len(program) PROVE q[i] = program[i] \/ BecomesLet(program, q, i)
  <2> DEFINE a == program[i]
             one == a.kind = "declare" /\ Assigns(a.var) = 1 /\ a.expr.op # "none"
             let == [a EXCEPT !.kind = "let"]
  <2>1. q[i] = IF one THEN let ELSE a
    BY <1>2
  <2> HIDE DEF let
  <2>2. CASE ~one
    BY <2>1, <2>2
  <2>3. CASE one
    <3>1. q[i] = let
      BY <2>1, <2>3
    <3>2. /\ let.kind = "let" /\ let.var = a.var /\ let.expr = a.expr /\ let.output = a.output
          /\ let.inputs = a.inputs /\ let \in TilusStmt
      <4>1. a \in TilusStmt
        BY <1>1, Typing
      <4> HIDE DEF a
      <4> QED BY <4>1 DEF let, TilusStmt
    <3>3. Once(program, i)
      BY <1>1, <2>3, OneAssign DEF Once
    <3> QED BY <2>3, <3>1, <3>2, <3>3 DEF BecomesLet
  <2> QED BY <2>2, <2>3
<1> QED BY <1>2, <1>3 DEF LetsOf

-----------------------------------------------------------------------------
(* The lowering of loads and stores.  The source's tensors have version 0,   *)
(* the one that load k of the program writes instead has version k.         *)

LowerLoadStoreInv(p, c, m, src) ==
  /\ \A t \in DOMAIN m : t \in SourceTensors /\ \E k \in 1..(c - 1) : m[t] = <<t[1], k>>
  /\ \A i \in 1..Len(p) : i < c => \A t \in Mentions(p[i]) : t \notin DOMAIN m /\ t[2] < c
  /\ \A i \in 1..Len(p) : i >= c => Mentions(p[i]) \subseteq SourceTensors
  /\ \A i \in 1..Len(p) : i >= c /\ p[i].kind = "load" => p[i].output \notin DOMAIN m
  /\ LoadsFirst(p, c)
  /\ Effects(Ahead(p, c, m)) = src

\* What the rewriter makes of a statement.
LEMMA LowerRewrite ==
  ASSUME NEW p, Typed(p), NEW c \in 1..(Len(p) + 1), NEW m, NEW src,
         LowerLoadStoreInv(p, c, m, src), NEW i \in 1..Len(p), i >= c
  PROVE  LET b == RewrittenBy(m, p[i])
         IN  /\ b \in TilusStmt /\ Sound(b)
             /\ b.kind = p[i].kind /\ b.var = p[i].var /\ b.expr = p[i].expr
             /\ b.output = SeenBy(m, p[i].output)
             /\ DOMAIN b.inputs = DOMAIN p[i].inputs
             /\ \A k \in DOMAIN p[i].inputs : b.inputs[k] = SeenBy(m, p[i].inputs[k])
             /\ \A t \in Mentions(b) : \/ t \in Mentions(p[i]) /\ t \notin DOMAIN m
                                       \/ t[2] \in 1..(c - 1)
<1> DEFINE b == RewrittenBy(m, p[i])
<1>1. p[i] \in TilusStmt /\ Sound(p[i]) /\ IsStmt(p[i])
  BY Typing, Fields
<1>2. ASSUME NEW t \in DOMAIN m
      PROVE  t \in SourceTensors /\ m[t] \in TensorNames \X Nat /\ m[t][2] \in 1..(c - 1)
  <2>1. PICK k \in 1..(c - 1) : m[t] = <<t[1], k>>
    BY DEF LowerLoadStoreInv
  <2>2. t \in SourceTensors
    BY DEF LowerLoadStoreInv
  <2>3. t[1] \in TensorNames
    BY <2>2, Apart
  <2>4. k \in Nat
    OBVIOUS
  <2> QED BY <2>1, <2>2, <2>3, <2>4
<1>3. /\ b \in TilusStmt
      /\ b.kind = p[i].kind /\ b.var = p[i].var /\ b.expr = p[i].expr
      /\ b.output = SeenBy(m, p[i].output)
      /\ DOMAIN b.inputs = DOMAIN p[i].inputs
      /\ \A k \in DOMAIN p[i].inputs : b.inputs[k] = SeenBy(m, p[i].inputs[k])
  BY <1>1, <1>2, TensorRewrite
<1> HIDE DEF b
<1>4. Sound(b)
  <2>1. p[i].output # Nil => b.output # Nil
    BY <1>2, <1>3, Apart DEF SeenBy
  <2> QED BY <1>1, <1>3, <2>1 DEF Sound
<1>5. Nil \notin DOMAIN m
  BY <1>2, Apart
<1>6. ASSUME NEW t \in Mentions(b)
      PROVE  (t \in Mentions(p[i]) /\ t \notin DOMAIN m) \/ t[2] \in 1..(c - 1)
  <2>1. PICK u \in Mentions(p[i]) : t = SeenBy(m, u)
    <3>1. CASE t = b.output /\ t # Nil
      <4>1. t = SeenBy(m, p[i].output) /\ p[i].output # Nil
        BY <1>3, <1>5, <3>1 DEF SeenBy
      <4> QED BY <4>1 DEF Mentions
    <3>2. CASE t \in Range(b.inputs)
      <4>1. PICK k \in DOMAIN p[i].inputs : t = SeenBy(m, p[i].inputs[k])
        BY <1>3, <3>2 DEF Range
      <4> QED BY <4>1 DEF Mentions, Range
    <3> QED BY <3>1, <3>2 DEF Mentions
  <2> QED BY <1>2, <2>1 DEF SeenBy
<1> QED BY <1>3, <1>4, <1>6 DEF b

\* What both steps of the rewriter leave alone: b is the new statement, and m2
\* has tensor t if the statement is a load.
LEMMA LoweredKeeps ==
  ASSUME NEW p, Typed(p), NEW c \in 1..Len(p), NEW m, NEW src, LowerLoadStoreInv(p, c, m, src),
         NEW b, NEW m2, b \in TilusStmt, Sound(b), b.kind = "loop" <=> p[c].kind = "loop",
         \A t \in Mentions(b) : \/ t \in Mentions(p[c]) /\ t \notin DOMAIN m2
                                \/ t \notin SourceTensors /\ t[2] \in 1..c,
         \A t \in DOMAIN m2 : \/ t \in DOMAIN m /\ m2[t] = m[t]
                              \/ /\ p[c].kind = "load" /\ t = p[c].output /\ t \in SourceTensors
                                 /\ m2[t] = <<t[1], c>>
  PROVE  LET q == [p EXCEPT ![c] = b]
         IN  /\ Typed(q) /\ c + 1 \in 1..(Len(q) + 1)
             /\ Effects(Ahead(q, c + 1, m2)) = src => LowerLoadStoreInv(q, c + 1, m2, src)
<1> DEFINE q == [p EXCEPT ![c] = b]
<1>0. Len(p) \in Nat /\ DOMAIN p = 1..Len(p) /\ c \in Nat /\ c <= Len(p)
  BY Typing DEF IsProgram
<1>1. /\ Typed(q) /\ Len(q) = Len(p) /\ DOMAIN q = 1..Len(p)
      /\ \A i \in 1..Len(p) : q[i] = IF i = c THEN b ELSE p[i]
  BY ReplacedTyped
<1> HIDE DEF q
<1>2. /\ Mentions(p[c]) \subseteq SourceTensors
      /\ p[c].kind = "load" => \A k \in 1..(c - 1) : p[c].output \notin Mentions(p[k])
  BY <1>0 DEF LowerLoadStoreInv, LoadsFirst
<1>3. ASSUME NEW t \in DOMAIN m2
      PROVE  t \in SourceTensors /\ \E k \in 1..((c + 1) - 1) : m2[t] = <<t[1], k>>
  <2>1. CASE t \in DOMAIN m /\ m2[t] = m[t]
    <3>1. t \in SourceTensors /\ \E k \in 1..(c - 1) : m2[t] = <<t[1], k>>
      BY <2>1 DEF LowerLoadStoreInv
    <3>2. \A k \in 1..(c - 1) : k \in 1..((c + 1) - 1)
      BY <1>0
    <3> QED BY <3>1, <3>2
  <2>2. CASE t \in SourceTensors /\ m2[t] = <<t[1], c>>
    <3>1. c \in 1..((c + 1) - 1)
      BY <1>0
    <3> QED BY <2>2, <3>1
  <2> QED BY <2>1, <2>2
<1>4. ASSUME NEW i \in 1..Len(p), i < c + 1, NEW t \in Mentions(q[i])
      PROVE  t \notin DOMAIN m2 /\ t[2] < c + 1
  <2>1. CASE i = c
    <3>1. CASE t \in Mentions(p[c]) /\ t \notin DOMAIN m2
      <4>1. t[2] = 0
        BY <1>2, <3>1, Apart
      <4> QED BY <1>0, <3>1, <4>1
    <3>2. CASE t \notin SourceTensors /\ t[2] \in 1..c
      <4>1. t[2] < c + 1
        BY <1>0, <3>2
      <4> QED BY <1>3, <3>2, <4>1
    <3> QED BY <1>1, <1>4, <2>1, <3>1, <3>2
  <2>2. CASE i # c
    <3>1. i < c /\ i \in 1..(c - 1) /\ q[i] = p[i]
      BY <1>0, <1>1, <1>4, <2>2
    <3>2. t \notin DOMAIN m /\ t[2] < c
      BY <1>4, <3>1 DEF LowerLoadStoreInv
    <3>3. t[2] < c + 1
      <4>1. t \in TensorNames \X Nat
        <5>1. IsStmt(p[i])
          BY Typing, Fields
        <5> QED BY <1>4, <3>1, <5>1 DEF IsStmt, Mentions, Range
      <4>2. t[2] \in Nat
        BY <4>1, Apart
      <4> QED BY <1>0, <3>2, <4>2
    <3> QED BY <1>2, <1>4, <3>1, <3>2, <3>3
  <2> QED BY <2>1, <2>2
<1>5. ASSUME NEW i \in 1..Len(p), i >= c + 1
      PROVE  /\ q[i] = p[i] /\ Mentions(p[i]) \subseteq SourceTensors
             /\ p[i].kind = "load" =>
                  /\ p[i].output \notin DOMAIN m2 /\ p[i].output \notin Range(p[i].inputs)
                  /\ p[i].output \in SourceTensors
                  /\ \A k \in 1..(i - 1) : p[i].output \notin Mentions(q[k])
  <2>1. i >= c /\ i # c /\ c \in 1..(i - 1)
    BY <1>0, <1>5
  <2>2. q[i] = p[i] /\ Mentions(p[i]) \subseteq SourceTensors
    BY <1>1, <2>1 DEF LowerLoadStoreInv
  <2>3. ASSUME p[i].kind = "load"
        PROVE  /\ p[i].output \notin DOMAIN m /\ p[i].output \notin Range(p[i].inputs)
               /\ \A k \in 1..(i - 1) : p[i].output \notin Mentions(p[k])
    BY <2>1, <2>3 DEF LowerLoadStoreInv, LoadsFirst
  <2>4. ASSUME p[i].kind = "load" PROVE p[i].output \in SourceTensors
    <3>1. p[i].output # Nil
      BY <2>4, Typing DEF Sound, Functional
    <3> QED BY <2>2, <3>1 DEF Mentions
  <2>5. ASSUME p[i].kind = "load" PROVE p[i].output \notin DOMAIN m2
    <3>1. ASSUME p[c].kind = "load" PROVE p[c].output \in Mentions(p[c])
      <4>1. p[c].output # Nil
        BY <3>1, Typing DEF Sound, Functional
      <4> QED BY <4>1 DEF Mentions
    <3> QED BY <2>1, <2>3, <2>5, <3>1
  <2>6. ASSUME p[i].kind = "load", NEW k \in 1..(i - 1) PROVE p[i].output \notin Mentions(q[k])
    <3>1. k \in 1..Len(p)
      BY <1>0
    <3>2. CASE k = c
      BY <1>1, <2>3, <2>4, <2>6, <3>1, <3>2
    <3>3. CASE k # c
      BY <1>1, <2>3, <2>6, <3>1, <3>3
    <3> QED BY <3>2, <3>3
  <2> QED BY <2>2, <2>3, <2>4, <2>5, <2>6
<1>6. LoadsFirst(q, c + 1)
  BY <1>1, <1>5 DEF LoadsFirst
<1>7. c + 1 \in 1..(Len(q) + 1)
  BY <1>0, <1>1
<1>8. \A i \in 1..Len(p) : i < c + 1 => \A t \in Mentions(q[i]) : t \notin DOMAIN m2 /\ t[2] < c + 1
  BY <1>4
<1>9. \A i \in 1..Len(p) : i >= c + 1 => /\ Mentions(q[i]) \subseteq SourceTensors
                                         /\ q[i].kind = "load" => q[i].output \notin DOMAIN m2
  BY <1>5
<1>10. Effects(Ahead(q, c + 1, m2)) = src => LowerLoadStoreInv(q, c + 1, m2, src)
  BY <1>1, <1>3, <1>6, <1>8, <1>9 DEF LowerLoadStoreInv
<1> QED BY <1>1, <1>7, <1>10 DEF q

\* LowerStore: any other statement takes the tensors of the memo.
LEMMA LowerStoreKeeps ==
  ASSUME NEW p, Typed(p), NEW c \in 1..Len(p), NEW m, NEW src, LowerLoadStoreInv(p, c, m, src),
         p[c].kind # "load", NEW s, s = RewrittenBy(m, p[c]), NEW b,
         b = IF s.kind = "store" THEN [s EXCEPT !.kind = "store_generic"] ELSE s
  PROVE  LET q == [p EXCEPT ![c] = b]
         IN  Typed(q) /\ c + 1 \in 1..(Len(q) + 1) /\ LowerLoadStoreInv(q, c + 1, m, src)
<1>0. /\ Len(p) \in Nat /\ DOMAIN p = 1..Len(p) /\ IsProgram(p)
      /\ c \in Nat /\ c >= 1 /\ c <= Len(p) /\ c \in 1..(Len(p) + 1)
  BY Typing DEF IsProgram
<1>1. /\ s \in TilusStmt /\ Sound(s) /\ s.kind = p[c].kind
      /\ \A t \in Mentions(s) : (t \in Mentions(p[c]) /\ t \notin DOMAIN m) \/ t[2] \in 1..(c - 1)
  BY <1>0, LowerRewrite
<1>2. /\ b.var = s.var /\ b.expr = s.expr /\ b.output = s.output /\ b.inputs = s.inputs /\ b \in TilusStmt
      /\ b.kind = s.kind \/ (s.kind = "store" /\ b.kind = "store_generic")
  <2>1. CASE s.kind = "store"
    <3>1. b = [s EXCEPT !.kind = "store_generic"]
      BY <2>1
    <3> QED BY <1>1, <2>1, <3>1 DEF TilusStmt
  <2>2. CASE s.kind # "store"
    BY <1>1, <2>2
  <2> QED BY <2>1, <2>2
<1>3. Sound(b) /\ Mentions(b) = Mentions(s) /\ (b.kind = "loop" <=> p[c].kind = "loop")
  BY <1>1, <1>2 DEF Sound, Mentions, Functional
<1>4. ASSUME NEW t \in Mentions(b)
      PROVE  (t \in Mentions(p[c]) /\ t \notin DOMAIN m) \/ (t \notin SourceTensors /\ t[2] \in 1..c)
  <2>1. CASE t[2] \in 1..(c - 1)
    <3>1. t[2] \in 1..c /\ t[2] # 0
      BY <1>0, <2>1
    <3> QED BY <3>1, Apart
  <2>2. CASE t \in Mentions(p[c]) /\ t \notin DOMAIN m
    BY <2>2
  <2> QED BY <1>1, <1>3, <1>4, <2>1, <2>2
<1> DEFINE q == [p EXCEPT ![c] = b]
           w == Ahead(p, c, m)
           w2 == Ahead(q, c + 1, m)
<1>5. /\ Typed(q) /\ c + 1 \in 1..(Len(q) + 1)
      /\ Effects(Ahead(q, c + 1, m)) = src => LowerLoadStoreInv(q, c + 1, m, src)
  BY <1>1, <1>2, <1>3, <1>4, LoweredKeeps
<1>6. /\ Len(q) = Len(p) /\ DOMAIN q = 1..Len(p)
      /\ \A i \in 1..Len(p) : q[i] = IF i = c THEN b ELSE p[i]
  BY <1>2, <1>3, ReplacedTyped
<1> HIDE DEF q
<1>7. /\ Len(w) = Len(p) /\ DOMAIN w = 1..Len(p)
      /\ \A i \in 1..Len(p) : w[i] = IF i < c THEN p[i] ELSE RewrittenBy(m, p[i])
  BY <1>0, AheadIs
<1>8. /\ Len(w2) = Len(p) /\ DOMAIN w2 = 1..Len(p)
      /\ \A i \in 1..Len(p) : w2[i] = IF i < c + 1 THEN q[i] ELSE RewrittenBy(m, q[i])
  BY <1>0, <1>6, AheadIs
<1>9. IsProgram(w)
  <2>1. \A i \in 1..Len(p) : RewrittenBy(m, p[i]).kind = p[i].kind
    BY DEF RewrittenBy
  <2> QED BY <1>0, <2>1, AheadLoops
<1> HIDE DEF w, w2
<1>10. ASSUME NEW i \in 1..Len(p)
       PROVE  (w2[i].kind = "loop" <=> w[i].kind = "loop") /\ \A r : Perform(r, w2[i]) = Perform(r, w[i])
  <2>1. CASE i = c
    <3>1. w[i] = s /\ w2[i] = b
      <4>1. ~(i < c) /\ i < c + 1
        BY <1>0, <2>1
      <4> QED BY <1>6, <1>7, <1>8, <2>1, <4>1
    <3>2. ASSUME NEW r PROVE Perform(r, b) = Perform(r, s)
      <4>1. Sees(r, b) = Sees(r, s)
        BY <1>2 DEF Sees
      <4>2. Now(r, b) = Now(r, s)
        BY <1>2, <4>1 DEF Now
      <4>3. Binds(b) = Binds(s) /\ Puts(b) = Puts(s) /\ (b.kind \in Effectful <=> s.kind \in Effectful)
        BY <1>2 DEF Binds, Puts, Functional, Effectful, OptionalOutput
      <4>4. Gives(r, b) = Gives(r, s)
        BY <1>2, <4>1 DEF Gives
      <4>5. Yields(r, b) = Yields(r, s)
        BY <1>2, <4>2 DEF Yields, Functional
      <4> QED BY <4>2, <4>3, <4>4, <4>5 DEF Perform
    <3> QED BY <1>1, <1>3, <3>1, <3>2
  <2>2. CASE i # c
    <3>1. (i < c + 1 <=> i < c) /\ q[i] = p[i]
      BY <1>0, <1>6, <2>2
    <3>2. w2[i] = w[i]
      BY <1>7, <1>8, <3>1
    <3> QED BY <3>2
  <2> QED BY <2>1, <2>2
<1>11. Effects(w2) = Effects(w)
  BY <1>7, <1>8, <1>9, <1>10, SameEffects
<1>12. Effects(w) = src
  BY DEF LowerLoadStoreInv, w
<1> QED BY <1>5, <1>11, <1>12 DEF w2, q

\* LowerLoad: a load writes a tensor of its own, which replaces its output.
LEMMA LowerLoadKeeps ==
  ASSUME NEW p, Typed(p), NEW c \in 1..Len(p), NEW m, NEW src, LowerLoadStoreInv(p, c, m, src),
         p[c].kind = "load", NEW s, s = RewrittenBy(m, p[c]), NEW u, u = <<s.output[1], c>>, NEW b,
         b = [s EXCEPT !.kind = "load_generic", !.output = u]
  PROVE  LET q == [p EXCEPT ![c] = b]
         IN  /\ Typed(q) /\ c + 1 \in 1..(Len(q) + 1)
             /\ LowerLoadStoreInv(q, c + 1, Extended(m, s.output, u), src)
<1> DEFINE t == p[c].output
           m2 == Extended(m, t, u)
<1>0. /\ Len(p) \in Nat /\ DOMAIN p = 1..Len(p) /\ IsProgram(p)
      /\ c \in Nat /\ c >= 1 /\ c <= Len(p) /\ c \in 1..(Len(p) + 1)
  BY Typing DEF IsProgram
<1>1. /\ s \in TilusStmt /\ Sound(s)
      /\ s.kind = p[c].kind /\ s.var = p[c].var /\ s.expr = p[c].expr
      /\ s.output = SeenBy(m, p[c].output)
      /\ DOMAIN s.inputs = DOMAIN p[c].inputs
      /\ \A k \in DOMAIN p[c].inputs : s.inputs[k] = SeenBy(m, p[c].inputs[k])
      /\ \A w \in Mentions(s) : (w \in Mentions(p[c]) /\ w \notin DOMAIN m) \/ w[2] \in 1..(c - 1)
  BY <1>0, LowerRewrite
<1>2. /\ t \notin DOMAIN m /\ t # Nil /\ t \in SourceTensors /\ t[1] \in TensorNames
      /\ t \notin Range(p[c].inputs) /\ t \in Puts(p[c])
      /\ \A k \in 1..(c - 1) : t \notin Mentions(p[k])
  <2>1. t # Nil
    BY Typing DEF Sound, Functional
  <2>2. t \in SourceTensors /\ t \notin DOMAIN m /\ t \notin Range(p[c].inputs)
        /\ \A k \in 1..(c - 1) : t \notin Mentions(p[k])
    BY <1>0, <2>1 DEF LowerLoadStoreInv, LoadsFirst, Mentions
  <2> QED BY <2>1, <2>2, Apart DEF Puts, Functional
<1>3. s.output = t
  BY <1>1, <1>2 DEF SeenBy
<1>4. u = <<t[1], c>> /\ u \in TensorNames \X Nat /\ u[2] = c /\ u \notin SourceTensors /\ u # Nil
  <2>1. u = <<t[1], c>> /\ u \in TensorNames \X Nat /\ u[2] = c
    BY <1>0, <1>2, <1>3
  <2> HIDE DEF t
  <2> QED BY <1>0, <2>1, Apart
<1>5. /\ b.kind = "load_generic" /\ b.var = s.var /\ b.expr = s.expr /\ b.output = u /\ b.inputs = s.inputs
      /\ b \in TilusStmt
  BY <1>1, <1>4 DEF TilusStmt
<1> HIDE DEF t
<1>6. DOMAIN m2 = DOMAIN m \cup {t} /\ m2[t] = u /\ \A w \in DOMAIN m : m2[w] = m[w]
  BY <1>2 DEF Extended
<1> HIDE DEF m2
<1>7. Sound(b) /\ (b.kind = "loop" <=> p[c].kind = "loop")
  BY <1>4, <1>5 DEF Sound
<1>8. ASSUME NEW w \in Mentions(b)
      PROVE  (w \in Mentions(p[c]) /\ w \notin DOMAIN m2) \/ (w \notin SourceTensors /\ w[2] \in 1..c)
  <2>1. CASE w = u
    <3>1. c \in 1..c
      BY <1>0
    <3> QED BY <1>4, <2>1, <3>1
  <2>2. CASE w \in Range(s.inputs)
    <3>1. w \in Mentions(s)
      BY <2>2 DEF Mentions
    <3>2. CASE w[2] \in 1..(c - 1)
      <4>1. w[2] \in 1..c /\ w[2] # 0
        BY <1>0, <3>2
      <4> QED BY <4>1, Apart
    <3>3. CASE ~(w[2] \in 1..(c - 1))
      <4>1. w \in Mentions(p[c]) /\ w \notin DOMAIN m
        BY <1>1, <3>1, <3>3
      <4>2. w # t
        <5>1. PICK k \in DOMAIN p[c].inputs : w = SeenBy(m, p[c].inputs[k])
          BY <1>1, <2>2 DEF Range
        <5>2. p[c].inputs[k] \in DOMAIN m => w[2] \in 1..(c - 1)
          <6>1. ASSUME NEW z \in DOMAIN m PROVE m[z][2] \in 1..(c - 1)
            BY DEF LowerLoadStoreInv
          <6> QED BY <5>1, <6>1 DEF SeenBy
        <5>3. w = p[c].inputs[k]
          BY <3>3, <5>1, <5>2 DEF SeenBy
        <5> QED BY <1>2, <5>3 DEF Range
      <4> QED BY <1>6, <4>1, <4>2
    <3> QED BY <3>2, <3>3
  <2> QED BY <1>5, <1>8, <2>1, <2>2 DEF Mentions
<1> DEFINE q == [p EXCEPT ![c] = b]
           v == Ahead(p, c, m)
           v2 == Ahead(q, c + 1, m2)
<1>9. /\ Typed(q) /\ c + 1 \in 1..(Len(q) + 1)
      /\ Effects(Ahead(q, c + 1, m2)) = src => LowerLoadStoreInv(q, c + 1, m2, src)
  <2>1. \A w \in DOMAIN m2 : \/ w \in DOMAIN m /\ m2[w] = m[w]
                             \/ /\ p[c].kind = "load" /\ w = p[c].output /\ w \in SourceTensors
                                /\ m2[w] = <<w[1], c>>
    BY <1>2, <1>4, <1>6 DEF t
  <2>2. b.kind = "loop" <=> p[c].kind = "loop"
    BY <1>5
  <2>3. b \in TilusStmt /\ Sound(b)
    BY <1>5, <1>7
  <2> QED BY <1>8, <2>1, <2>2, <2>3, LoweredKeeps
<1>10. /\ Len(q) = Len(p) /\ DOMAIN q = 1..Len(p)
       /\ \A i \in 1..Len(p) : q[i] = IF i = c THEN b ELSE p[i]
  BY <1>5, <1>7, ReplacedTyped
<1> HIDE DEF q
<1>11. /\ Len(v) = Len(p) /\ DOMAIN v = 1..Len(p)
       /\ \A i \in 1..Len(p) : v[i] = IF i < c THEN p[i] ELSE RewrittenBy(m, p[i])
  BY <1>0, AheadIs
<1>12. /\ Len(v2) = Len(p) /\ DOMAIN v2 = 1..Len(p)
       /\ \A i \in 1..Len(p) : v2[i] = IF i < c + 1 THEN q[i] ELSE RewrittenBy(m2, q[i])
  BY <1>0, <1>10, AheadIs
<1>13. IsProgram(v)
  <2>1. \A i \in 1..Len(p) : RewrittenBy(m, p[i]).kind = p[i].kind
    BY DEF RewrittenBy
  <2> QED BY <1>0, <2>1, AheadLoops
<1> HIDE DEF v, v2
\* A version below c is neither u nor a source tensor that a load still writes.
<1>14. \A w \in DOMAIN m : w \in SourceTensors /\ m[w] # t /\ m[w] # u /\ m[w] \in TensorNames \X Nat
  <2>1. ASSUME NEW w \in DOMAIN m
        PROVE  w \in SourceTensors /\ m[w] # t /\ m[w] # u /\ m[w] \in TensorNames \X Nat
    <3>1. PICK k \in 1..(c - 1) : m[w] = <<w[1], k>>
      BY DEF LowerLoadStoreInv
    <3>2. w \in SourceTensors
      BY DEF LowerLoadStoreInv
    <3>3. w[1] \in TensorNames /\ t[2] = 0
      BY <1>2, <3>2, Apart
    <3>4. k \in Nat /\ k # 0 /\ k # c /\ m[w][2] = k
      BY <1>0, <3>1
    <3> QED BY <1>4, <3>1, <3>2, <3>3, <3>4
  <2> QED BY <2>1
<1>15. \A w : w # u => SeenBy(m, w) # u /\ SeenBy(m2, w) = IF SeenBy(m, w) = t THEN u ELSE SeenBy(m, w)
  BY <1>2, <1>6, <1>14 DEF SeenBy
<1>16. ASSUME NEW i \in 1..Len(p), i < c
       PROVE  /\ TensorRenamed(p[i], p[i], t, u) /\ p[i].output # u
              /\ \A k \in DOMAIN p[i].inputs : p[i].inputs[k] # u /\ p[i].inputs[k] # t
  <2>1. i \in 1..(c - 1)
    BY <1>0, <1>16
  <2>2. t \notin Mentions(p[i]) /\ \A w \in Mentions(p[i]) : w[2] < c
    BY <1>2, <1>16, <2>1 DEF LowerLoadStoreInv
  <2>3. u \notin Mentions(p[i])
    BY <1>0, <1>4, <2>2
  <2>4. p[i].output # u /\ p[i].output # t
    BY <1>2, <1>4, <2>2, <2>3 DEF Mentions
  <2>5. \A k \in DOMAIN p[i].inputs : p[i].inputs[k] # u /\ p[i].inputs[k] # t
    BY <2>2, <2>3 DEF Mentions, Range
  <2> QED BY <2>4, <2>5 DEF TensorRenamed
<1>17. ASSUME NEW i \in 1..Len(p), i >= c
       PROVE  p[i].output # u /\ \A k \in DOMAIN p[i].inputs : p[i].inputs[k] # u
  <2>1. u \notin Mentions(p[i])
    BY <1>4, <1>17 DEF LowerLoadStoreInv
  <2> QED BY <1>4, <2>1 DEF Mentions, Range
<1>18. ASSUME NEW i \in 1..Len(p), i > c
       PROVE  TensorRenamed(RewrittenBy(m, p[i]), RewrittenBy(m2, p[i]), t, u)
  <2>1. i >= c /\ p[i] \in TilusStmt
    BY <1>0, <1>18, Typing
  <2>2. /\ p[i].output # u /\ \A k \in DOMAIN p[i].inputs : p[i].inputs[k] # u
    BY <1>17, <2>1
  <2>3. \A w \in DOMAIN m2 : w \in SourceTensors /\ m2[w] \in TensorNames \X Nat
    BY <1>2, <1>4, <1>6, <1>14
  <2>4. LET d == RewrittenBy(m, p[i])
        IN  /\ d.kind = p[i].kind /\ d.var = p[i].var /\ d.expr = p[i].expr /\ d.output = SeenBy(m, p[i].output)
            /\ DOMAIN d.inputs = DOMAIN p[i].inputs
            /\ \A k \in DOMAIN p[i].inputs : d.inputs[k] = SeenBy(m, p[i].inputs[k])
    BY <1>14, <2>1, TensorRewrite
  <2>5. LET d == RewrittenBy(m2, p[i])
        IN  /\ d.kind = p[i].kind /\ d.var = p[i].var /\ d.expr = p[i].expr /\ d.output = SeenBy(m2, p[i].output)
            /\ DOMAIN d.inputs = DOMAIN p[i].inputs
            /\ \A k \in DOMAIN p[i].inputs : d.inputs[k] = SeenBy(m2, p[i].inputs[k])
    BY <2>1, <2>3, TensorRewrite
  <2> QED BY <1>15, <2>2, <2>4, <2>5 DEF TensorRenamed
<1>19. /\ TensorRenamed(s, b, t, u)
       /\ \A k \in DOMAIN s.inputs : s.inputs[k] # t
  <2>1. ASSUME NEW k \in DOMAIN s.inputs PROVE s.inputs[k] # t
    <3>1. s.inputs[k] = SeenBy(m, p[c].inputs[k]) /\ p[c].inputs[k] # t
      BY <1>1, <1>2 DEF Range
    <3> QED BY <1>14, <3>1 DEF SeenBy
  <2> QED BY <1>1, <1>3, <1>5, <2>1 DEF TensorRenamed
<1>20. ASSUME NEW i \in 1..Len(p), i >= c
       PROVE  v[i].output # u /\ \A k \in DOMAIN v[i].inputs : v[i].inputs[k] # u
  <2>1. v[i] = RewrittenBy(m, p[i])
    BY <1>0, <1>11, <1>20
  <2>2. /\ v[i].output = SeenBy(m, p[i].output) /\ DOMAIN v[i].inputs = DOMAIN p[i].inputs
        /\ \A k \in DOMAIN p[i].inputs : v[i].inputs[k] = SeenBy(m, p[i].inputs[k])
    BY <1>0, <1>20, <2>1, LowerRewrite
  <2> QED BY <1>15, <1>17, <1>20, <2>2
<1>21. ASSUME NEW i \in 1..Len(p)
       PROVE  /\ TensorRenamed(v[i], v2[i], t, u)
              /\ v[i].output # u
              /\ \A k \in DOMAIN v[i].inputs : v[i].inputs[k] # u /\ (v[i].inputs[k] = t => i > c)
  <2>1. CASE i < c
    <3>1. v[i] = p[i] /\ v2[i] = p[i]
      <4>1. i < c + 1 /\ i # c
        BY <1>0, <2>1
      <4> QED BY <1>10, <1>11, <1>12, <2>1, <4>1
    <3> QED BY <1>16, <2>1, <3>1
  <2>2. CASE i = c
    <3>1. v[i] = s /\ v2[i] = b /\ i >= c
      <4>1. ~(i < c) /\ i < c + 1 /\ i >= c
        BY <1>0, <2>2
      <4> QED BY <1>10, <1>11, <1>12, <2>2, <4>1
    <3> QED BY <1>19, <1>20, <3>1
  <2>3. CASE i > c
    <3>1. v[i] = RewrittenBy(m, p[i]) /\ v2[i] = RewrittenBy(m2, p[i]) /\ i >= c
      <4>1. ~(i < c) /\ ~(i < c + 1) /\ i # c /\ i >= c
        BY <1>0, <2>3
      <4> QED BY <1>10, <1>11, <1>12, <4>1
    <3> QED BY <1>18, <1>20, <2>3, <3>1
  <2> QED BY <1>0, <2>1, <2>2, <2>3
<1>22. t \in Puts(v[c])
  <2>1. v[c] = s
    BY <1>0, <1>11
  <2> QED BY <1>1, <1>2, <1>3, <2>1 DEF Puts, Functional
<1>23. TensorReplaced(v, v2, c, t, u)
  BY <1>2, <1>4, <1>11, <1>12, <1>21, <1>22 DEF TensorReplaced
<1>24. Effects(v2) = Effects(v)
  BY <1>13, <1>23, TensorReplacedEffects
<1>25. Effects(v) = src
  BY DEF LowerLoadStoreInv, v
<1> QED BY <1>3, <1>9, <1>24, <1>25 DEF v2, q, m2

-----------------------------------------------------------------------------
(* The elimination of dead code. *)

\* ExprVars, of a program.
NamesOf(p) == UNION {VarsOf(s.expr) \cup (IF s.kind = "assign" THEN {s.var} ELSE {}) : s \in Stmts(p)}

\* The instructions that count have their inputs among the tensors used, and
\* so have those that write to one of them.
Counted(p, u) ==
  \A i \in 1..Len(p) : p[i].kind \in Effectful \/ (p[i].kind = "item" /\ p[i].var \in NamesOf(p)) =>
    Range(p[i].inputs) \subseteq u
Closed(p, u) ==
  \A i \in 1..Len(p) : p[i].kind \in Functional /\ p[i].output \in u => Range(p[i].inputs) \subseteq u

LEMMA NamesAre ==
  ASSUME NEW p, DOMAIN p = 1..Len(p)
  PROVE  \A v : v \in NamesOf(p) <=>
           \E i \in 1..Len(p) : (p[i].expr.var = v /\ v # Nil) \/ (p[i].kind = "assign" /\ p[i].var = v)
<1>1. \A v : v \in NamesOf(p) <=>
        \E s \in Stmts(p) : v \in VarsOf(s.expr) \/ (s.kind = "assign" /\ s.var = v)
  BY DEF NamesOf
<1>2. \A s : s \in Stmts(p) <=> \E i \in 1..Len(p) : s = p[i]
  BY DEF Stmts
<1> QED BY <1>1, <1>2 DEF VarsOf

\* The tensors and variables that nobody needs.
Unread(p) == {v \in SourceVariables : v \notin NamesOf(p) /\ \E i \in 1..Len(p) : p[i].kind = "item" /\ p[i].var = v}
Unused(p, u) == {p[i].output : i \in 1..Len(p)} \ u

LEMMA NeededAre ==
  ASSUME NEW p, Typed(p), NEW u, Counted(p, u), Closed(p, u), NEW i \in 1..Len(p)
  PROVE  /\ p[i].expr.var \notin Unread(p)
         /\ p[i].kind \in Effectful => Clear(p[i], Unused(p, u))
         /\ p[i].kind = "item" => p[i].var \in Unread(p) \/ Clear(p[i], Unused(p, u))
         /\ p[i].kind \in Functional => p[i].output \in Unused(p, u) \/ Clear(p[i], Unused(p, u))
         /\ p[i].kind = "item" /\ p[i].inputs[1] \notin u => p[i].var \in Unread(p)
         /\ p[i].output \notin u => p[i].output \in Unused(p, u)
<1>1. DOMAIN p = 1..Len(p) /\ Sound(p[i]) /\ IsStmt(p[i])
  BY Typing, Fields DEF IsProgram
<1>2. p[i].expr.var \notin Unread(p)
  <2>1. CASE p[i].expr.var = Nil
    BY <2>1, Apart DEF Unread
  <2>2. CASE p[i].expr.var # Nil
    <3>1. p[i].expr.var \in NamesOf(p)
      BY <1>1, <2>2, NamesAre
    <3> QED BY <3>1 DEF Unread
  <2> QED BY <2>1, <2>2
<1>3. Range(p[i].inputs) \subseteq u => Clear(p[i], Unused(p, u))
  BY DEF Range, Clear, Unused
<1>4. p[i].kind \in Effectful => Clear(p[i], Unused(p, u))
  BY <1>3 DEF Counted
<1>5. p[i].kind = "item" => p[i].var \in SourceVariables
  BY <1>1 DEF Sound, IsStmt
<1>6. p[i].kind = "item" => p[i].var \in Unread(p) \/ Range(p[i].inputs) \subseteq u
  BY <1>5 DEF Counted, Unread
<1>7. p[i].output \notin u => p[i].output \in Unused(p, u)
  BY DEF Unused
<1>8. p[i].kind \in Functional => p[i].output \in Unused(p, u) \/ Clear(p[i], Unused(p, u))
  BY <1>3, <1>7 DEF Closed
<1>9. p[i].kind = "item" /\ p[i].inputs[1] \notin u => p[i].var \in Unread(p)
  BY <1>1, <1>6 DEF Sound, Range
<1> QED BY <1>2, <1>3, <1>4, <1>6, <1>7, <1>8, <1>9

\* Every statement of q is one of p, but for an output that is not a function's.
PartOf(q, p) ==
  \A i \in 1..Len(q) : \E k \in 1..Len(p) :
    /\ q[i].kind = p[k].kind /\ q[i].var = p[k].var /\ q[i].expr = p[k].expr /\ q[i].inputs = p[k].inputs
    /\ q[i].output = p[k].output \/ q[i].kind \notin Functional

\* What is needed of a program that has some of the statements of p.
LEMMA PartNeeds ==
  ASSUME NEW p, NEW q, NEW u, DOMAIN p = 1..Len(p), DOMAIN q = 1..Len(q),
         Counted(p, u), Closed(p, u), PartOf(q, p)
  PROVE  Counted(q, u) /\ Closed(q, u)
<1>1. \A v : v \in NamesOf(q) => v \in NamesOf(p)
  <2>1. ASSUME NEW v \in NamesOf(q) PROVE v \in NamesOf(p)
    <3>1. PICK i \in 1..Len(q) : (q[i].expr.var = v /\ v # Nil) \/ (q[i].kind = "assign" /\ q[i].var = v)
      BY NamesAre
    <3>2. PICK k \in 1..Len(p) : q[i].kind = p[k].kind /\ q[i].var = p[k].var /\ q[i].expr = p[k].expr
      BY DEF PartOf
    <3> QED BY <3>1, <3>2, NamesAre
  <2> QED BY <2>1
<1>2. ASSUME NEW i \in 1..Len(q), q[i].kind \in Effectful \/ (q[i].kind = "item" /\ q[i].var \in NamesOf(q))
      PROVE  Range(q[i].inputs) \subseteq u
  <2>1. PICK k \in 1..Len(p) : q[i].kind = p[k].kind /\ q[i].var = p[k].var /\ q[i].inputs = p[k].inputs
    BY DEF PartOf
  <2> QED BY <1>1, <1>2, <2>1 DEF Counted
<1>3. ASSUME NEW i \in 1..Len(q), q[i].kind \in Functional, q[i].output \in u
      PROVE  Range(q[i].inputs) \subseteq u
  <2>1. PICK k \in 1..Len(p) : /\ q[i].kind = p[k].kind /\ q[i].inputs = p[k].inputs
                               /\ q[i].output = p[k].output \/ q[i].kind \notin Functional
    BY DEF PartOf
  <2> QED BY <1>3, <2>1 DEF Closed
<1> QED BY <1>2, <1>3 DEF Counted, Closed

\* DropDead.
LEMMA DropDeadKeeps ==
  ASSUME NEW p, Typed(p), NEW c \in 1..Len(p), NEW u, Counted(p, u), Closed(p, u),
         \/ p[c].kind \in Functional /\ p[c].output \notin u
         \/ p[c].kind = "item" /\ p[c].inputs[1] \notin u
  PROVE  LET q == RemoveAt(p, c)
         IN  /\ Typed(q) /\ c \in 1..(Len(q) + 1)
             /\ Counted(q, u) /\ Closed(q, u) /\ Effects(q) = Effects(p)
<1> DEFINE q == RemoveAt(p, c)
<1>0. Len(p) \in Nat /\ DOMAIN p = 1..Len(p) /\ IsProgram(p) /\ p \in Seq(TilusStmt)
  BY Typing DEF IsProgram, Typed
<1>1. /\ Typed(q) /\ Len(q) = Len(p) - 1 /\ DOMAIN q = 1..(Len(p) - 1)
      /\ \A i \in 1..(Len(p) - 1) : q[i] = p[From(c, i)]
  BY <1>0, RemovedTyped, RemoveAtIs
<1> HIDE DEF q
<1>2. \A i \in 1..(Len(p) - 1) : From(c, i) \in 1..Len(p)
  BY <1>0, FromTo
<1>3. Counted(q, u) /\ Closed(q, u)
  <2>1. ASSUME NEW i \in 1..Len(q)
        PROVE  \E k \in 1..Len(p) :
                 /\ q[i].kind = p[k].kind /\ q[i].var = p[k].var
                 /\ q[i].expr = p[k].expr /\ q[i].inputs = p[k].inputs
                 /\ q[i].output = p[k].output \/ q[i].kind \notin Functional
    BY <1>1, <1>2
  <2>2. DOMAIN q = 1..Len(q)
    BY <1>1
  <2>3. PartOf(q, p)
    BY <2>1 DEF PartOf
  <2> QED BY <1>0, <2>2, <2>3, PartNeeds
<1>4. ASSUME NEW i \in 1..Len(p), i # c PROVE q[To(c, i)] = p[i]
  BY <1>0, <1>1, <1>4, FromTo
<1>5. c \in 1..(Len(p) + 1) /\ Len(q) = To(c, Len(p)) /\ c \in 1..(Len(q) + 1)
  BY <1>0, <1>1 DEF To
<1>6. Trimmed(p, q, c, Unread(p), Unused(p, u))
  <2>1. ASSUME NEW i \in 1..Len(p), i = c
        PROVE  \/ p[i].kind \in Functional /\ p[i].output \in Unused(p, u)
               \/ p[i].kind = "item" /\ p[i].var \in Unread(p)
    BY <2>1, NeededAre
  <2>2. ASSUME NEW i \in 1..Len(p), i # c
        PROVE  /\ q[To(c, i)] = p[i]
               /\ p[i].expr.var \notin Unread(p)
               /\ p[i].kind \in Effectful => Clear(p[i], Unused(p, u))
               /\ p[i].kind = "item" => p[i].var \in Unread(p) \/ Clear(p[i], Unused(p, u))
               /\ p[i].kind \in Functional => p[i].output \in Unused(p, u) \/ Clear(p[i], Unused(p, u))
    BY <1>4, <2>2, NeededAre
  <2> QED BY <1>1, <1>5, <2>1, <2>2 DEF Trimmed
<1>7. Effects(q) = Effects(p)
  BY <1>0, <1>6, TrimmedEffects
<1> QED BY <1>1, <1>3, <1>5, <1>7 DEF q

\* KeepStmt: b is the statement, or the statement without its output.
LEMMA KeepStmtKeeps ==
  ASSUME NEW p, Typed(p), NEW c \in 1..Len(p), NEW u, Counted(p, u), Closed(p, u), NEW b \in TilusStmt,
         b.kind = p[c].kind, b.var = p[c].var, b.expr = p[c].expr, b.inputs = p[c].inputs,
         b.output = p[c].output \/ (b.output = Nil /\ p[c].output \notin u /\ b.kind \in OptionalOutput)
  PROVE  LET q == [p EXCEPT ![c] = b]
         IN  /\ Typed(q) /\ c + 1 \in 1..(Len(q) + 1)
             /\ Counted(q, u) /\ Closed(q, u) /\ Effects(q) = Effects(p)
<1> DEFINE q == [p EXCEPT ![c] = b]
           d == Len(p) + 1
<1>0. Len(p) \in Nat /\ DOMAIN p = 1..Len(p) /\ IsProgram(p)
  BY Typing DEF IsProgram
<1>2. b.kind \in OptionalOutput => b.kind \notin Functional
  BY DEF OptionalOutput, Functional
<1>3. Sound(b)
  <2>1. Sound(p[c])
    BY Typing
  <2> QED BY <1>2, <2>1 DEF Sound
<1>4. /\ Typed(q) /\ Len(q) = Len(p) /\ DOMAIN q = 1..Len(p)
      /\ \A i \in 1..Len(p) : q[i] = IF i = c THEN b ELSE p[i]
  BY <1>3, ReplacedTyped
<1> HIDE DEF q
<1>5. ASSUME NEW i \in 1..Len(p)
      PROVE  /\ q[i].kind = p[i].kind /\ q[i].var = p[i].var /\ q[i].expr = p[i].expr /\ q[i].inputs = p[i].inputs
             /\ q[i].output = p[i].output \/ (q[i].output = Nil /\ p[i].output \notin u)
             /\ q[i].output = p[i].output \/ q[i].kind \notin Functional
  BY <1>2, <1>4
<1>6. Counted(q, u) /\ Closed(q, u)
  <2>1. ASSUME NEW i \in 1..Len(q)
        PROVE  \E k \in 1..Len(p) :
                 /\ q[i].kind = p[k].kind /\ q[i].var = p[k].var
                 /\ q[i].expr = p[k].expr /\ q[i].inputs = p[k].inputs
                 /\ q[i].output = p[k].output \/ q[i].kind \notin Functional
    BY <1>4, <1>5
  <2>2. DOMAIN q = 1..Len(q)
    BY <1>4
  <2>3. PartOf(q, p)
    BY <2>1 DEF PartOf
  <2> QED BY <1>0, <2>2, <2>3, PartNeeds
<1>7. d \in 1..(Len(p) + 1) /\ \A i \in 0..Len(p) : i # d /\ To(d, i) = i
  BY <1>0 DEF To
<1> HIDE DEF d
<1>8. Trimmed(p, q, d, Unread(p), Unused(p, u))
  <2>1. ASSUME NEW i \in 1..Len(p)
        PROVE  /\ i # d /\ To(d, i) = i
               /\ q[i].kind = p[i].kind /\ q[i].var = p[i].var /\ q[i].expr = p[i].expr /\ q[i].inputs = p[i].inputs
               /\ q[i].output = p[i].output \/ (q[i].output = Nil /\ p[i].output \in Unused(p, u))
               /\ p[i].expr.var \notin Unread(p)
               /\ p[i].kind \in Effectful => Clear(p[i], Unused(p, u))
               /\ p[i].kind = "item" => p[i].var \in Unread(p) \/ Clear(p[i], Unused(p, u))
               /\ p[i].kind \in Functional => p[i].output \in Unused(p, u) \/ Clear(p[i], Unused(p, u))
    <3>1. i # d /\ To(d, i) = i
      BY <1>0, <1>7
    <3>2. /\ q[i].kind = p[i].kind /\ q[i].var = p[i].var /\ q[i].expr = p[i].expr /\ q[i].inputs = p[i].inputs
          /\ q[i].output = p[i].output \/ (q[i].output = Nil /\ p[i].output \notin u)
      BY <1>5
    <3> QED BY <3>1, <3>2, NeededAre
  <2>2. Len(q) = To(d, Len(p))
    BY <1>0, <1>4, <1>7
  <2> QED BY <1>4, <1>7, <2>1, <2>2 DEF Trimmed
<1>9. Effects(q) = Effects(p)
  BY <1>0, <1>8, TrimmedEffects
<1>10. c + 1 \in 1..(Len(q) + 1)
  BY <1>0, <1>4
<1> QED BY <1>4, <1>6, <1>9, <1>10 DEF q

\* The tensors of one sweep.
Sweep(n) ==
  LET sweep[j \in 0..n] ==
        IF j = 0 THEN used
        ELSE With(sweep[j - 1],
                  LAMBDA u : IF program[j].kind \in Functional /\ program[j].output \in u
                             THEN u \cup Range(program[j].inputs) ELSE u)
  IN  sweep

LEMMA SweepIs ==
  ASSUME NEW n \in Nat
  PROVE  /\ Marked(n) = Sweep(n)[n] /\ Sweep(n)[0] = used
         /\ \A j \in 1..n : Sweep(n)[j] = IF program[j].kind \in Functional /\ program[j].output \in Sweep(n)[j - 1]
                                          THEN Sweep(n)[j - 1] \cup Range(program[j].inputs) ELSE Sweep(n)[j - 1]
<1> DEFINE Step(u, j) == IF program[j].kind \in Functional /\ program[j].output \in u
                         THEN u \cup Range(program[j].inputs) ELSE u
           Next(h, j) == IF j = 0 THEN used ELSE Step(h[j - 1], j)
           Runs(h, m) == h = [j \in 0..m |-> Next(h, j)]
           A == {m \in Nat : \E h : Runs(h, m)}
<1>1. 0 \in A
  <2> DEFINE k == [j \in 0..0 |-> used]
  <2>1. \A j \in 0..0 : k[j] = Next(k, j)
    BY DEF k
  <2>2. k = [j \in 0..0 |-> k[j]]
    BY DEF k
  <2> HIDE DEF k, Step
  <2>3. Runs(k, 0)
    BY <2>1, <2>2
  <2> QED BY <2>3
<1>2. ASSUME NEW m \in Nat, m \in A PROVE m + 1 \in A
  <2> HIDE DEF Step
  <2>1. PICK h : Runs(h, m)
    BY <1>2
  <2> DEFINE k == [j \in 0..(m + 1) |-> IF j = m + 1 THEN Step(h[m], m + 1) ELSE h[j]]
  <2>2. ASSUME NEW j \in 0..(m + 1) PROVE k[j] = Next(k, j)
    <3>1. CASE j = m + 1
      <4>1. j # 0 /\ j - 1 = m /\ m \in 0..(m + 1) /\ m # m + 1
        BY <3>1
      <4>2. k[m] = h[m] /\ k[j] = Step(h[m], j)
        BY <3>1, <4>1
      <4> HIDE DEF k
      <4> QED BY <4>1, <4>2
    <3>2. CASE j # m + 1
      <4>1. /\ j \in 0..m
            /\ j # 0 => j - 1 \in 0..(m + 1) /\ j - 1 # m + 1
        BY <3>2
      <4>2. h[j] = Next(h, j) /\ k[j] = h[j]
        BY <2>1, <3>2, <4>1
      <4>3. j # 0 => k[j - 1] = h[j - 1]
        BY <4>1
      <4> HIDE DEF k
      <4> QED BY <4>2, <4>3
    <3> QED BY <3>1, <3>2
  <2>3. Runs(k, m + 1)
    <3>1. k = [j \in 0..(m + 1) |-> k[j]]
      OBVIOUS
    <3> HIDE DEF k
    <3> QED BY <2>2, <3>1
  <2> HIDE DEF k, Runs
  <2> QED BY <2>3
<1> HIDE DEF Step
<1>3. \E h : Runs(h, n)
  <2> HIDE DEF Runs
  <2>1. \A d \in Nat : d \in A
    <3> HIDE DEF A
    <3> QED BY <1>1, <1>2, Reach
  <2> QED BY <2>1
<1> DEFINE sw == Sweep(n)
<1>4. sw = [j \in 0..n |-> IF j = 0 THEN used ELSE Step(sw[j - 1], j)]
  <2> DEFINE With1(h, j) == With(h[j - 1],
                LAMBDA u : IF program[j].kind \in Functional /\ program[j].output \in u
                           THEN u \cup Range(program[j].inputs) ELSE u)
             Whole(h) == h = [j \in 0..n |-> IF j = 0 THEN used ELSE With1(h, j)]
  <2>1. \A h, j : With1(h, j) = Step(h[j - 1], j)
    BY DEF With, Step
  <2>2. sw = CHOOSE h : Whole(h)
    BY DEF Sweep
  <2> HIDE DEF With1, sw
  <2>3. PICK h : Runs(h, n)
    BY <1>3
  <2>4. Whole(h)
    BY <2>1, <2>3
  <2> HIDE DEF Whole, Runs
  <2>5. Whole(sw)
    BY <2>2, <2>4
  <2> QED BY <2>1, <2>5 DEF Whole
<1>5. Marked(n) = sw[n]
  BY DEF Marked, Sweep
<1> HIDE DEF sw
<1>6. sw[0] = used
  BY <1>4
<1>7. ASSUME NEW j \in 1..n PROVE sw[j] = Step(sw[j - 1], j)
  <2>1. j \in 0..n /\ j # 0
    OBVIOUS
  <2> QED BY <1>4, <2>1
<1> QED BY <1>5, <1>6, <1>7 DEF Step, sw

\* A sweep keeps the tensors used, and one that marks no other closes them.
LEMMA MarkedIs ==
  ASSUME Len(program) \in Nat
  PROVE  /\ used \subseteq Marked(Len(program))
         /\ Marked(Len(program)) = used => Closed(program, used)
<1> DEFINE n == Len(program)
           h == Sweep(n)
<1>1. /\ Marked(n) = h[n] /\ h[0] = used
      /\ \A j \in 1..n : h[j] = IF program[j].kind \in Functional /\ program[j].output \in h[j - 1]
                                THEN h[j - 1] \cup Range(program[j].inputs) ELSE h[j - 1]
  BY SweepIs
<1> HIDE DEF h
<1>2. \A j \in 1..n : h[j - 1] \subseteq h[j]
  BY <1>1
<1>3. \A j \in 0..n : used \subseteq h[j]
  <2> DEFINE A == {j \in Nat : j <= n => used \subseteq h[j]}
  <2>1. 0 \in A
    BY <1>1
  <2>2. ASSUME NEW j \in Nat, j \in A PROVE j + 1 \in A
    <3>1. SUFFICES ASSUME j + 1 <= n PROVE used \subseteq h[j + 1]
      OBVIOUS
    <3>2. j <= n /\ j + 1 \in 1..n /\ (j + 1) - 1 = j
      BY <3>1
    <3>3. used \subseteq h[j] /\ h[j] \subseteq h[j + 1]
      BY <1>2, <2>2, <3>2
    <3> QED BY <3>3
  <2>3. \A j \in Nat : j \in A
    <3> HIDE DEF A
    <3> QED BY <2>1, <2>2, Reach
  <2> QED BY <2>3
<1>4. \A j \in 0..n : h[j] \subseteq h[n]
  <2> DEFINE A == {d \in Nat : d <= n => h[n - d] \subseteq h[n]}
  <2>1. 0 \in A
    OBVIOUS
  <2>2. ASSUME NEW d \in Nat, d \in A PROVE d + 1 \in A
    <3>1. SUFFICES ASSUME d + 1 <= n PROVE h[n - (d + 1)] \subseteq h[n]
      OBVIOUS
    <3>2. d <= n /\ n - d \in 1..n /\ (n - d) - 1 = n - (d + 1)
      BY <3>1
    <3>3. h[n - (d + 1)] \subseteq h[n - d] /\ h[n - d] \subseteq h[n]
      BY <1>2, <2>2, <3>2
    <3> QED BY <3>3
  <2>3. \A d \in Nat : d \in A
    <3> HIDE DEF A
    <3> QED BY <2>1, <2>2, Reach
  <2>4. ASSUME NEW j \in 0..n PROVE h[j] \subseteq h[n]
    <3>1. n - j \in Nat /\ n - j <= n /\ n - (n - j) = j
      OBVIOUS
    <3> QED BY <2>3, <3>1
  <2> QED BY <2>4
<1>5. ASSUME Marked(n) = used, NEW i \in 1..n, program[i].kind \in Functional, program[i].output \in used
      PROVE  Range(program[i].inputs) \subseteq used
  <2>1. i - 1 \in 0..n /\ i \in 0..n
    OBVIOUS
  <2>2. program[i].output \in h[i - 1]
    BY <1>3, <1>5, <2>1
  <2>3. Range(program[i].inputs) \subseteq h[i]
    BY <1>1, <1>5, <2>2
  <2> QED BY <1>1, <1>4, <1>5, <2>1, <2>3
<1>6. used \subseteq Marked(n)
  BY <1>1, <1>3
<1> QED BY <1>5, <1>6 DEF Closed

-----------------------------------------------------------------------------
(* The passes. *)

Stages ==
  {"declare_to_let", "let_propagation", "refused", "lower_load_store",
   "collect", "propagate", "eliminate", "done"}

Eliminating == {"collect", "propagate", "eliminate", "done"}

\* What is true of the program that a pass has in its hands.
PassesInv ==
  /\ source \in Programs /\ stage \in Stages
  /\ Typed(program) /\ cursor \in 1..(Len(program) + 1)
  /\ stage = "declare_to_let" => program = source
  /\ stage = "let_propagation" => LetPropagationInv(program, cursor, memo, lets, Effects(source))
  /\ stage = "refused" /\ cursor = 1 /\ memo = <<>> => Effects(program) = Effects(source)
  /\ stage = "lower_load_store" => LowerLoadStoreInv(program, cursor, memo, Effects(source))
  /\ stage \in Eliminating => Effects(program) = Effects(source)
  /\ stage \in {"propagate", "eliminate"} => Counted(program, used)
  /\ stage = "eliminate" => Closed(program, used)

LEMMA PassesInvKeeps ==
  ASSUME PassesInv
  PROVE  PassesKeepEffects
<1>1. CASE stage = "lower_load_store"
  <2>1. SUFFICES ASSUME cursor = 1, memo = <<>> PROVE Effects(program) = Effects(source)
    BY DEF PassesKeepEffects
  <2>2. Ahead(program, 1, <<>>) = program
    BY AheadEnds DEF PassesInv
  <2>3. Effects(Ahead(program, cursor, memo)) = Effects(source)
    BY <1>1 DEF PassesInv, LowerLoadStoreInv
  <2> QED BY <2>1, <2>2, <2>3
<1>2. CASE stage = "let_propagation"
  BY <1>2 DEF PassesInv, PassesKeepEffects, LetPropagationInv
<1>3. CASE stage \notin {"lower_load_store", "let_propagation"}
  BY <1>3 DEF PassesInv, PassesKeepEffects, Stages, Eliminating
<1> QED BY <1>1, <1>2, <1>3

LEMMA InitPasses ==
  ASSUME TransformInit
  PROVE  PassesInv
<1>1. source \in Programs /\ Typed(program) /\ program = source
  BY SourceIs DEF TransformInit
<1>2. Len(program) \in Nat
  BY <1>1, Typing DEF IsProgram
<1> QED BY <1>1, <1>2 DEF TransformInit, PassesInv, Stages, Eliminating

\* The rewriters' memo is the one that the lemmas have as an argument.
LEMMA RewrittenIs ==
  ASSUME NEW s
  PROVE  Rewritten(s) = RewrittenBy(memo, s)
BY DEF Rewritten, RewrittenBy, Seen, SeenBy

LEMMA DeclareToLetStep ==
  ASSUME ~LoadOut, PassesInv, DeclareToLet
  PROVE  PassesInv'
<1>1. /\ source \in Programs /\ program = source
      /\ source' = source /\ lets' = Params
      /\ stage' = "let_propagation" /\ cursor' = 1 /\ memo' = <<>>
  BY DEF PassesInv, DeclareToLet, StartPass
<1>2. LetsOf(program, program')
  <2>1. program \in Programs
    BY <1>1
  <2> QED BY <2>1, DeclareToLetKeeps DEF DeclareToLet
<1>3. /\ Typed(program') /\ cursor' \in 1..(Len(program') + 1)
      /\ LetPropagationInv(program', cursor', memo', lets', Effects(source'))
  BY <1>1, <1>2, LetsKeep
<1> QED BY <1>1, <1>3 DEF PassesInv, Stages, Eliminating

LEMMA PropagateLetStep ==
  ASSUME PassesInv, PropagateLet
  PROVE  PassesInv'
<1> DEFINE s == Rewritten(program[cursor])
<1>1. /\ source \in Programs /\ Typed(program) /\ cursor \in 1..(Len(program) + 1) /\ cursor <= Len(program)
      /\ LetPropagationInv(program, cursor, memo, lets, Effects(source))
      /\ source' = source /\ stage' = "let_propagation" /\ cursor' = cursor /\ lets' = lets
      /\ s.kind = "let" /\ s.expr.op = "copy" /\ s.expr.var \in lets
      /\ memo' = Extended(memo, s.var, s.expr.var)
      /\ program' = RemoveAt(program, cursor)
  BY DEF PassesInv, PropagateLet, Visiting, Renames
<1>2. s = RewrittenBy(memo, program[cursor])
  BY RewrittenIs
<1>3. cursor \in 1..Len(program)
  BY <1>1, Typing DEF IsProgram
<1>4. s.kind = program[cursor].kind /\ s.var = program[cursor].var /\ s.expr.op = program[cursor].expr.op
  BY <1>2 DEF RewrittenBy
<1> HIDE DEF s
<1>5. /\ Typed(program') /\ cursor' \in 1..(Len(program') + 1)
      /\ LetPropagationInv(program', cursor', memo', lets', Effects(source'))
  <2>1. program[cursor].kind = "let" /\ program[cursor].expr.op = "copy"
    BY <1>1, <1>4
  <2>2. RewrittenBy(memo, program[cursor]).expr.var \in lets
    BY <1>1, <1>2
  <2>3. memo' = Extended(memo, program[cursor].var, RewrittenBy(memo, program[cursor]).expr.var)
    BY <1>1, <1>2, <1>4
  <2> QED BY <1>1, <1>3, <2>1, <2>2, <2>3, PropagateLetKeeps
<1> QED BY <1>1, <1>5 DEF PassesInv, Stages, Eliminating

LEMMA RewriteStmtStep ==
  ASSUME PassesInv, RewriteStmt
  PROVE  PassesInv'
<1> DEFINE s == Rewritten(program[cursor])
<1>1. /\ source \in Programs /\ Typed(program) /\ cursor \in 1..(Len(program) + 1) /\ cursor <= Len(program)
      /\ LetPropagationInv(program, cursor, memo, lets, Effects(source))
      /\ source' = source /\ stage' = "let_propagation" /\ cursor' = cursor + 1 /\ memo' = memo
      /\ ~(s.kind = "assign" /\ s.var \in Params)
      /\ lets' = (IF s.kind = "let" THEN lets \cup {s.var} ELSE lets)
      /\ program' = [program EXCEPT ![cursor] = s]
  BY DEF PassesInv, RewriteStmt, Visiting
<1>2. s = RewrittenBy(memo, program[cursor])
  BY RewrittenIs
<1>3. cursor \in 1..Len(program)
  BY <1>1, Typing DEF IsProgram
<1>4. s.kind = program[cursor].kind /\ s.var = program[cursor].var
  BY <1>2 DEF RewrittenBy
<1> HIDE DEF s
<1>5. /\ Typed(program') /\ cursor' \in 1..(Len(program') + 1)
      /\ LetPropagationInv(program', cursor', memo', lets', Effects(source'))
  <2>1. ~(program[cursor].kind = "assign" /\ program[cursor].var \in Params)
    BY <1>1, <1>4
  <2>2. lets' = IF program[cursor].kind = "let" THEN lets \cup {program[cursor].var} ELSE lets
    BY <1>1, <1>4
  <2> DEFINE q == [program EXCEPT ![cursor] = RewrittenBy(memo, program[cursor])]
  <2>3. program' = q
    BY <1>1, <1>2
  <2>4. Typed(program) /\ LetPropagationInv(program, cursor, memo, lets, Effects(source))
    BY <1>1
  <2>5. /\ Typed(q) /\ cursor + 1 \in 1..(Len(q) + 1)
        /\ LetPropagationInv(q, cursor + 1, memo, lets', Effects(source))
    BY <1>3, <2>1, <2>2, <2>4, RewriteStmtKeeps
  <2> HIDE DEF q
  <2> QED BY <1>1, <2>3, <2>5
<1> QED BY <1>1, <1>5 DEF PassesInv, Stages, Eliminating

LEMMA RefuseAssignStep ==
  ASSUME PassesInv, RefuseAssign
  PROVE  PassesInv'
BY DEF PassesInv, RefuseAssign, Visiting, LetPropagationInv, Stages, Eliminating

LEMMA PropagatedStep ==
  ASSUME PassesInv, Propagated
  PROVE  PassesInv'
<1>1. /\ source \in Programs /\ Typed(program) /\ cursor \in 1..(Len(program) + 1) /\ cursor > Len(program)
      /\ LetPropagationInv(program, cursor, memo, lets, Effects(source))
      /\ source' = source /\ stage' = "lower_load_store" /\ cursor' = 1 /\ memo' = <<>>
      /\ program' = program
  BY DEF PassesInv, Propagated, StartPass
<1>2. Len(program) \in Nat /\ cursor = Len(program) + 1
  BY <1>1, Typing DEF IsProgram
<1>3. Effects(program) = Effects(source)
  <2>1. \A i \in 1..Len(program) : ParamsStay(program[i])
    <3>1. \A i \in 1..Len(program) : i < cursor
      BY <1>2
    <3> QED BY <1>1, <3>1 DEF LetPropagationInv
  <2>2. Effects(Ahead(program, cursor, memo)) = Effects(source)
    BY <1>1, <2>1 DEF LetPropagationInv
  <2>3. Ahead(program, Len(program) + 1, memo) = program
    BY <1>1, AheadEnds
  <2> QED BY <1>2, <2>2, <2>3
<1>4. LowerLoadStoreInv(program, 1, <<>>, Effects(source))
  <2>1. DOMAIN <<>> = {}
    OBVIOUS
  <2>2. \A i \in 1..Len(program) : ~(i < 1)
    OBVIOUS
  <2>3. Effects(Ahead(program, 1, <<>>)) = Effects(source)
    BY <1>1, <1>3, AheadEnds
  <2>4. /\ \A i \in 1..Len(program) : Mentions(program[i]) \subseteq SourceTensors
        /\ LoadsFirst(program, 1)
    BY <1>1 DEF LetPropagationInv
  <2> QED BY <2>1, <2>2, <2>3, <2>4 DEF LowerLoadStoreInv
<1>5. cursor' \in 1..(Len(program') + 1)
  BY <1>1, <1>2
<1> QED BY <1>1, <1>4, <1>5 DEF PassesInv, Stages, Eliminating

LEMMA LowerLoadStep ==
  ASSUME PassesInv, LowerLoad
  PROVE  PassesInv'
<1> DEFINE s == Rewritten(program[cursor])
           u == <<s.output[1], cursor>>
           b == [s EXCEPT !.kind = "load_generic", !.output = u]
<1>1. /\ source \in Programs /\ Typed(program) /\ cursor \in 1..(Len(program) + 1) /\ cursor <= Len(program)
      /\ LowerLoadStoreInv(program, cursor, memo, Effects(source))
      /\ source' = source /\ stage' = "lower_load_store" /\ cursor' = cursor + 1
      /\ program[cursor].kind = "load"
  BY DEF PassesInv, LowerLoad, Visiting
<1>2. memo' = Extended(memo, s.output, u)
  BY DEF LowerLoad, Fresh
<1>3. program' = [program EXCEPT ![cursor] = b]
  BY DEF LowerLoad, Fresh
<1>4. s = RewrittenBy(memo, program[cursor])
  BY RewrittenIs
<1>5. cursor \in 1..Len(program)
  BY <1>1, Typing DEF IsProgram
<1>6. u = <<s.output[1], cursor>> /\ b = [s EXCEPT !.kind = "load_generic", !.output = u]
  OBVIOUS
<1> HIDE DEF s, u, b
<1>7. /\ Typed(program') /\ cursor' \in 1..(Len(program') + 1)
      /\ LowerLoadStoreInv(program', cursor', memo', Effects(source'))
  <2> DEFINE q == [program EXCEPT ![cursor] = b]
  <2>1. Typed(program) /\ LowerLoadStoreInv(program, cursor, memo, Effects(source)) /\ program[cursor].kind = "load"
    BY <1>1
  <2>2. /\ Typed(q) /\ cursor + 1 \in 1..(Len(q) + 1)
        /\ LowerLoadStoreInv(q, cursor + 1, Extended(memo, s.output, u), Effects(source))
    BY <1>4, <1>5, <1>6, <2>1, LowerLoadKeeps
  <2> HIDE DEF q
  <2> QED BY <1>1, <1>2, <1>3, <2>2 DEF q
<1> QED BY <1>1, <1>7 DEF PassesInv, Stages, Eliminating

LEMMA LowerStoreStep ==
  ASSUME PassesInv, LowerStore
  PROVE  PassesInv'
<1> DEFINE s == Rewritten(program[cursor])
           b == IF s.kind = "store" THEN [s EXCEPT !.kind = "store_generic"] ELSE s
<1>1. /\ source \in Programs /\ Typed(program) /\ cursor \in 1..(Len(program) + 1) /\ cursor <= Len(program)
      /\ LowerLoadStoreInv(program, cursor, memo, Effects(source))
      /\ source' = source /\ stage' = "lower_load_store" /\ cursor' = cursor + 1 /\ memo' = memo
      /\ program[cursor].kind # "load"
  BY DEF PassesInv, LowerStore, Visiting
<1>2. program' = [program EXCEPT ![cursor] = b]
  BY DEF LowerStore
<1>3. s = RewrittenBy(memo, program[cursor])
  BY RewrittenIs
<1>4. cursor \in 1..Len(program)
  BY <1>1, Typing DEF IsProgram
<1>5. b = IF s.kind = "store" THEN [s EXCEPT !.kind = "store_generic"] ELSE s
  OBVIOUS
<1> HIDE DEF s, b
<1>6. /\ Typed(program') /\ cursor' \in 1..(Len(program') + 1)
      /\ LowerLoadStoreInv(program', cursor', memo', Effects(source'))
  <2> DEFINE q == [program EXCEPT ![cursor] = b]
  <2>1. Typed(program) /\ LowerLoadStoreInv(program, cursor, memo, Effects(source)) /\ program[cursor].kind # "load"
    BY <1>1
  <2>2. /\ Typed(q) /\ cursor + 1 \in 1..(Len(q) + 1)
        /\ LowerLoadStoreInv(q, cursor + 1, memo, Effects(source))
    BY <1>3, <1>4, <1>5, <2>1, LowerStoreKeeps
  <2> HIDE DEF q
  <2> QED BY <1>1, <1>2, <2>2 DEF q
<1> QED BY <1>1, <1>6 DEF PassesInv, Stages, Eliminating

LEMMA LoweredStep ==
  ASSUME PassesInv, Lowered
  PROVE  PassesInv'
<1>1. /\ source \in Programs /\ Typed(program) /\ cursor \in 1..(Len(program) + 1) /\ cursor > Len(program)
      /\ LowerLoadStoreInv(program, cursor, memo, Effects(source))
      /\ source' = source /\ stage' = "collect" /\ cursor' = 1 /\ program' = program
  BY DEF PassesInv, Lowered, StartPass
<1>2. Len(program) \in Nat /\ cursor = Len(program) + 1
  BY <1>1, Typing DEF IsProgram
<1>3. Effects(program) = Effects(source)
  <2>1. Effects(Ahead(program, cursor, memo)) = Effects(source)
    BY <1>1 DEF LowerLoadStoreInv
  <2>2. Ahead(program, Len(program) + 1, memo) = program
    BY <1>1, AheadEnds
  <2> QED BY <1>2, <2>1, <2>2
<1>4. cursor' \in 1..(Len(program') + 1)
  BY <1>1, <1>2
<1> QED BY <1>1, <1>3, <1>4 DEF PassesInv, Stages, Eliminating

LEMMA CollectStep ==
  ASSUME PassesInv, Collect
  PROVE  PassesInv'
<1>1. /\ source \in Programs /\ Typed(program) /\ cursor \in 1..(Len(program) + 1)
      /\ Effects(program) = Effects(source)
      /\ source' = source /\ stage' = "propagate" /\ cursor' = cursor /\ program' = program
      /\ used' = UNION {Range(s.inputs) : s \in
                   {b \in Stmts(program) : b.kind \in Effectful \/ (b.kind = "item" /\ b.var \in ExprVars)}}
  BY DEF PassesInv, Collect, Eliminating
<1>2. ExprVars = NamesOf(program)
  BY DEF ExprVars, NamesOf
<1>3. Counted(program, used')
  <2>1. ASSUME NEW i \in 1..Len(program),
               program[i].kind \in Effectful \/ (program[i].kind = "item" /\ program[i].var \in NamesOf(program))
        PROVE  Range(program[i].inputs) \subseteq used'
    <3>1. DOMAIN program = 1..Len(program)
      BY <1>1, Typing DEF IsProgram
    <3>2. program[i] \in Stmts(program)
      BY <3>1 DEF Stmts
    <3> QED BY <1>1, <1>2, <2>1, <3>2
  <2> QED BY <2>1 DEF Counted
<1> QED BY <1>1, <1>3 DEF PassesInv, Stages, Eliminating

LEMMA PropagateStep ==
  ASSUME PassesInv, Propagate
  PROVE  PassesInv'
<1>1. /\ source \in Programs /\ Typed(program) /\ cursor \in 1..(Len(program) + 1)
      /\ Effects(program) = Effects(source) /\ Counted(program, used)
      /\ source' = source /\ cursor' = cursor /\ program' = program
      /\ used' = Marked(Len(program))
      /\ stage' = IF used' = used THEN "eliminate" ELSE "propagate"
  BY DEF PassesInv, Propagate, Eliminating
<1>2. used \subseteq used' /\ (used' = used => Closed(program, used))
  <2>1. Len(program) \in Nat
    BY <1>1, Typing DEF IsProgram
  <2> QED BY <1>1, <2>1, MarkedIs
<1>3. Counted(program', used')
  BY <1>1, <1>2 DEF Counted
<1>4. stage' = "eliminate" => Closed(program', used')
  BY <1>1, <1>2
<1> QED BY <1>1, <1>3, <1>4 DEF PassesInv, Stages, Eliminating

LEMMA DropDeadStep ==
  ASSUME PassesInv, DropDead
  PROVE  PassesInv'
<1>1. /\ source \in Programs /\ Typed(program) /\ cursor \in 1..(Len(program) + 1) /\ cursor <= Len(program)
      /\ Effects(program) = Effects(source) /\ Counted(program, used) /\ Closed(program, used)
      /\ source' = source /\ stage' = "eliminate" /\ cursor' = cursor /\ used' = used
      /\ Dead(program[cursor]) /\ program' = RemoveAt(program, cursor)
  BY DEF PassesInv, DropDead, Visiting, Eliminating
<1>2. cursor \in 1..Len(program)
  BY <1>1, Typing DEF IsProgram
<1>3. \/ program[cursor].kind \in Functional /\ program[cursor].output \notin used
      \/ program[cursor].kind = "item" /\ program[cursor].inputs[1] \notin used
  BY <1>1 DEF Dead
<1>4. /\ Typed(program') /\ cursor' \in 1..(Len(program') + 1)
      /\ Counted(program', used') /\ Closed(program', used') /\ Effects(program') = Effects(program)
  BY <1>1, <1>2, <1>3, DropDeadKeeps
<1> QED BY <1>1, <1>4 DEF PassesInv, Stages, Eliminating

LEMMA KeepStmtStep ==
  ASSUME PassesInv, KeepStmt
  PROVE  PassesInv'
<1> DEFINE a == program[cursor]
           b == Kept(a)
<1>1. /\ source \in Programs /\ Typed(program) /\ cursor \in 1..(Len(program) + 1) /\ cursor <= Len(program)
      /\ Effects(program) = Effects(source) /\ Counted(program, used) /\ Closed(program, used)
      /\ source' = source /\ stage' = "eliminate" /\ cursor' = cursor + 1 /\ used' = used
  BY DEF PassesInv, KeepStmt, Visiting, Eliminating
<1>2. program' = [program EXCEPT ![cursor] = b]
  BY DEF KeepStmt
<1>3. cursor \in 1..Len(program)
  BY <1>1, Typing DEF IsProgram
<1>4. a \in TilusStmt
  BY <1>1, <1>3, Typing
<1> HIDE DEF a
<1>5. /\ b \in TilusStmt /\ b.kind = a.kind /\ b.var = a.var /\ b.expr = a.expr /\ b.inputs = a.inputs
      /\ b.output = a.output \/ (b.output = Nil /\ a.output \notin used /\ b.kind \in OptionalOutput)
  <2>1. CASE a.kind \in OptionalOutput /\ a.output \notin used
    <3>1. b = [a EXCEPT !.output = Nil]
      BY <2>1 DEF Kept
    <3> QED BY <1>4, <2>1, <3>1 DEF TilusStmt
  <2>2. CASE ~(a.kind \in OptionalOutput /\ a.output \notin used)
    <3>1. b = a
      BY <2>2 DEF Kept
    <3> QED BY <1>4, <3>1
  <2> QED BY <2>1, <2>2
<1> HIDE DEF b
<1>6. /\ Typed(program') /\ cursor' \in 1..(Len(program') + 1)
      /\ Counted(program', used') /\ Closed(program', used') /\ Effects(program') = Effects(program)
  <2> DEFINE q == [program EXCEPT ![cursor] = b]
  <2>1. /\ b.kind = program[cursor].kind /\ b.var = program[cursor].var /\ b.expr = program[cursor].expr
        /\ b.inputs = program[cursor].inputs
        /\ \/ b.output = program[cursor].output
           \/ b.output = Nil /\ program[cursor].output \notin used /\ b.kind \in OptionalOutput
    BY <1>5 DEF a
  <2>2. b \in TilusStmt /\ Typed(program) /\ Counted(program, used) /\ Closed(program, used)
    BY <1>1, <1>5
  <2>3. /\ Typed(q) /\ cursor + 1 \in 1..(Len(q) + 1)
        /\ Counted(q, used) /\ Closed(q, used) /\ Effects(q) = Effects(program)
    BY <1>3, <2>1, <2>2, KeepStmtKeeps
  <2> HIDE DEF q
  <2> QED BY <1>1, <1>2, <2>3 DEF q
<1> QED BY <1>1, <1>6 DEF PassesInv, Stages, Eliminating

LEMMA EliminatedStep ==
  ASSUME PassesInv, Eliminated
  PROVE  PassesInv'
<1>1. /\ source \in Programs /\ Typed(program)
      /\ Effects(program) = Effects(source)
      /\ source' = source /\ stage' = "done" /\ cursor' = 1 /\ program' = program
  BY DEF PassesInv, Eliminated, StartPass, Eliminating
<1>2. cursor' \in 1..(Len(program') + 1)
  BY <1>1, Typing DEF IsProgram
<1> QED BY <1>1, <1>2 DEF PassesInv, Stages, Eliminating

LEMMA PassesStep ==
  ASSUME ~LoadOut, PassesInv, [TransformNext]_transformVars
  PROVE  PassesInv'
<1>1. CASE UNCHANGED transformVars
  BY <1>1 DEF PassesInv, transformVars
<1>2. CASE DeclareToLet
  BY <1>2, DeclareToLetStep
<1>3. CASE PropagateLet
  BY <1>3, PropagateLetStep
<1>4. CASE RewriteStmt
  BY <1>4, RewriteStmtStep
<1>5. CASE RefuseAssign
  BY <1>5, RefuseAssignStep
<1>6. CASE Propagated
  BY <1>6, PropagatedStep
<1>7. CASE LowerLoad
  BY <1>7, LowerLoadStep
<1>8. CASE LowerStore
  BY <1>8, LowerStoreStep
<1>9. CASE Lowered
  BY <1>9, LoweredStep
<1>10. CASE Collect
  BY <1>10, CollectStep
<1>11. CASE Propagate
  BY <1>11, PropagateStep
<1>12. CASE DropDead
  BY <1>12, DropDeadStep
<1>13. CASE KeepStmt
  BY <1>13, KeepStmtStep
<1>14. CASE Eliminated
  BY <1>14, EliminatedStep
<1> QED BY <1>1, <1>2, <1>3, <1>4, <1>5, <1>6, <1>7, <1>8, <1>9, <1>10, <1>11, <1>12, <1>13, <1>14
        DEF TransformNext

\* For a compiler whose load_global makes its output: every pass of the
\* pipeline leaves a program, of any length and over any variables and
\* tensors, whose instructions with side effects are those of the source, in
\* their order, and see the same values (transforms/*.py).
THEOREM PassesKeepTheEffects ==
  ASSUME ~LoadOut
  PROVE  TransformSpec => []PassesKeepEffects
<1>1. TransformInit => PassesInv
  BY InitPasses
<1>2. PassesInv /\ [TransformNext]_transformVars => PassesInv'
  BY PassesStep
<1>3. PassesInv => PassesKeepEffects
  BY PassesInvKeeps
<1> QED BY <1>1, <1>2, <1>3, PTL DEF TransformSpec
=============================================================================
