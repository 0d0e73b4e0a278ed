----------------------------- MODULE Transforms -----------------------------
(***************************************************************************)
(* The passes over the Tilus IR that move or remove statements, in the      *)
(* order of get_default_passes (transforms/__init__.py): declarations become *)
(* lets, lets that only rename are propagated, global loads and stores are  *)
(* lowered, dead code is eliminated.  A rewriter visits the statements in   *)
(* their textual order and remembers in its memo what it made of every      *)
(* variable and tensor it has seen (ir/functors/functor.py).                *)
(*                                                                         *)
(* A program is a sequence of statements                                    *)
(*   [kind, var, expr, output, inputs]                                      *)
(* in which a "loop" statement starts the body of a loop that lasts to the  *)
(* end.  Variables and tensors are pairs <<name, version>>; an expression   *)
(* is [op, var].  An instruction is a statement with the kind of its class. *)
(***************************************************************************)
EXTENDS Indices, FiniteSets

CONSTANTS
  VariableNames, TensorNames,
  Sources,   \* the programs to compile
  Params,    \* parameters of the function
  LoadOut,   \* whether load_global writes to a tensor that exists (out=)
  Nil        \* no variable, no tensor

SourceVariables == VariableNames \X {0}
SourceTensors == TensorNames \X {0}

SourceKinds ==
  {"declare", "assign", "item", "evaluate", "loop", "alloc", "add", "load", "store", "atomic"}

\* An address of a variable is a whole expression here.  The code also allows it inside
\* one, where the visitor does not count it (functor.py:488); such programs are left
\* out, as are the copies that CopyAsync is lowered to and the pointer statements that
\* the lowering of loads and stores inserts.
SourceStatement ==
  [kind : SourceKinds, var : SourceVariables \cup {Nil},
   expr : [op : {"copy", "call", "address", "none"}, var : SourceVariables \cup {Nil}],
   output : SourceTensors \cup {Nil}, inputs : Seq(SourceTensors)]

ASSUME TransformAssumption ==
  /\ VariableNames \cap TensorNames = {} /\ Params \subseteq SourceVariables
  /\ Nil \notin SourceVariables \cup (TensorNames \X Nat)
  /\ Sources \subseteq Seq(SourceStatement)

VARIABLES
  source,    \* the program compiled
  program,   \* what the passes have made of it
  stage,     \* the pass that runs
  cursor,        \* the statement it visits next
  memo,      \* variable or tensor -> what replaces it
  lets,      \* let_vars: variables that never change
  used       \* used_tensors

transformVars == <<source, program, stage, cursor, memo, lets, used>>

-----------------------------------------------------------------------------
(* Statements. *)

Functional == {"alloc", "add", "load", "load_generic"}
OptionalOutput == {"atomic"}
Effectful == {"store", "store_generic"} \cup OptionalOutput

Stmts(p) == {p[i] : i \in DOMAIN p}
VarsOf(expr) == {expr.var} \ {Nil}

\* How often a variable gets a value.  An address counts where it is the whole
\* of an expression: the visitor does not look inside one.
Assigns(v) ==
  Cardinality({i \in DOMAIN program :
    LET s == program[i]
    IN  \/ s.kind = "declare" /\ s.expr.op # "none" /\ s.var = v
        \/ s.kind = "assign" /\ s.var = v
        \/ s.expr.op = "address" /\ s.expr.var = v})

\* f, with value at x.
Extended(f, x, value) == [y \in DOMAIN f \cup {x} |-> IF y = x THEN value ELSE f[y]]

Seen(x) == IF x \in DOMAIN memo THEN memo[x] ELSE x
Rewritten(s) ==
  [kind |-> s.kind, var |-> s.var, expr |-> [op |-> s.expr.op, var |-> Seen(s.expr.var)],
   output |-> Seen(s.output), inputs |-> [i \in DOMAIN s.inputs |-> Seen(s.inputs[i])]]

-----------------------------------------------------------------------------
(* What a program does: the reference for the passes.  A value is a term;   *)
(* the log has what the instructions with side effects saw.                 *)

Entry == [vars |-> [v \in Params |-> <<"param", v>>], tensors |-> <<>>, log |-> <<>>]

Held(store, x) == IF x \in DOMAIN store THEN store[x] ELSE <<"unset">>

Value(s, expr) ==
  CASE expr.op = "copy" -> Held(s.vars, expr.var)
    [] expr.op = "call" -> <<"call", Held(s.vars, expr.var)>>
    [] OTHER -> <<expr.op>>

\* What a statement sees, the variables and tensors it gives a value, and the
\* value.
Sees(s, a) == [i \in DOMAIN a.inputs |-> Held(s.tensors, a.inputs[i])]
Now(s, a) == <<Value(s, a.expr), Sees(s, a), Len(s.log)>>

Binds(a) ==
  IF a.kind \in {"declare", "let", "assign", "item"} THEN {a.var}
  ELSE IF a.kind = "evaluate" THEN {a.expr.var} ELSE {}
Gives(s, a) ==
  IF a.kind = "item" THEN <<"item", Sees(s, a)[1]>>
  ELSE IF a.kind = "evaluate" THEN <<"written", Len(s.log)>> ELSE Value(s, a.expr)

Puts(a) == IF a.kind \in Functional \cup Effectful THEN {a.output} \ {Nil} ELSE {}
Yields(s, a) == <<IF a.kind \in Functional THEN "tensor" ELSE "old", Now(s, a)>>

Updated(store, names, value) ==
  [x \in DOMAIN store \cup names |-> IF x \in names THEN value ELSE store[x]]

Perform(s, a) ==
  [vars |-> Updated(s.vars, Binds(a), Gives(s, a)),
   tensors |-> Updated(s.tensors, Puts(a), Yields(s, a)),
   log |-> IF a.kind \in Effectful THEN Append(s.log, Now(s, a)) ELSE s.log]

\* The state after the statements from first on, begun in state s.
Run(p, first, s) ==
  LET run[i \in (first - 1)..Len(p)] ==
        IF i < first THEN s ELSE With(run[i - 1], LAMBDA t : Perform(t, p[i]))
  IN  run[Len(p)]

\* A loop's body runs twice.
Loops(p) == {i \in DOMAIN p : p[i].kind = "loop"}

Effects(p) ==
  LET once == Run(p, 1, Entry)
  IN  IF Loops(p) = {} THEN once.log ELSE Run(p, CHOOSE i \in Loops(p) : TRUE, once).log

\* What the statements of each kind have.
Shaped(s) ==
  /\ s.var # Nil <=> s.kind \in {"declare", "assign", "item"}
  /\ s.output # Nil => s.kind \in Functional \cup Effectful
  /\ s.kind \in Functional => s.output # Nil
  /\ s.kind = "evaluate" => s.expr.op = "address" /\ s.expr.var # Nil
  /\ s.kind = "item" => Len(s.inputs) = 1

\* What a program may mention is in the text before.
WellFormed(p) ==
  /\ \A i, j \in Loops(p) : i = j
  /\ \A i \in DOMAIN p :
       LET before == Stmts(SubSeq(p, 1, i - 1))
           vars == {s.var : s \in {b \in before : b.kind \in {"declare", "item"}}}
           tensors == {s.output : s \in before}
       IN  /\ Shaped(p[i])
           /\ VarsOf(p[i].expr) \subseteq vars \cup Params
           /\ Range(p[i].inputs) \subseteq tensors
           /\ p[i].kind = "assign" => p[i].var \in vars \cup Params
           /\ p[i].kind \in {"declare", "item"} => p[i].var \notin vars \cup Params
           /\ p[i].kind = "evaluate" => p[i].expr.var \notin Params
           /\ p[i].kind \in {"alloc", "atomic"} => p[i].output \notin tensors
           /\ p[i].kind = "load" /\ p[i].output \in tensors => LoadOut

-----------------------------------------------------------------------------
Programs == {p \in Sources : WellFormed(p)}

TransformInit ==
  /\ source \in Programs
  /\ program = source
  /\ stage = "declare_to_let" /\ cursor = 1
  /\ memo = <<>> /\ lets = {} /\ used = {}

\* Every pass has a rewriter of its own.
StartPass(next) == stage' = next /\ cursor' = 1 /\ memo' = <<>>

\* DeclareToLetRewriter.
DeclareToLet ==
  /\ stage = "declare_to_let"
  /\ program' = [i \in DOMAIN program |->
       LET s == program[i]
       IN  IF s.kind = "declare" /\ Assigns(s.var) = 1 /\ s.expr.op # "none"
           THEN [s EXCEPT !.kind = "let"] ELSE s]
  /\ lets' = Params
  /\ StartPass("let_propagation")
  /\ UNCHANGED <<source, used>>

-----------------------------------------------------------------------------
(* LetPropogationRewriter. *)

Visiting(pass) == stage = pass /\ cursor <= Len(program)
\* Mutant: a let that renames a variable that may change is dropped, too.
Renames_AnyVariable(s) == s.kind = "let" /\ s.expr.op = "copy"

Renames(s) == s.kind = "let" /\ s.expr.op = "copy" /\ s.expr.var \in lets

\* A let that gives another name to an immutable variable is dropped.
PropagateLet ==
  /\ Visiting("let_propagation")
  /\ LET s == Rewritten(program[cursor])
     IN  /\ Renames(s)
         /\ memo' = Extended(memo, s.var, s.expr.var)
  /\ program' = RemoveAt(program, cursor)
  /\ UNCHANGED <<source, stage, cursor, lets, used>>

RewriteStmt ==
  /\ Visiting("let_propagation")
  /\ LET s == Rewritten(program[cursor])
     IN  /\ ~Renames(s)
         /\ ~(s.kind = "assign" /\ s.var \in Params)
         /\ program' = [program EXCEPT ![cursor] = s]
         /\ lets' = IF s.kind = "let" THEN lets \cup {s.var} ELSE lets
  /\ cursor' = cursor + 1
  /\ UNCHANGED <<source, stage, memo, used>>

\* Parameters are taken to be immutable.
RefuseAssign ==
  /\ Visiting("let_propagation")
  /\ program[cursor].kind = "assign" /\ program[cursor].var \in Params
  /\ stage' = "refused"
  /\ UNCHANGED <<source, program, cursor, memo, lets, used>>

Propagated ==
  /\ stage = "let_propagation" /\ cursor > Len(program)
  /\ StartPass("lower_load_store")
  /\ UNCHANGED <<source, program, lets, used>>

-----------------------------------------------------------------------------
(* LowerLoadStoreRewriter. *)

\* The lowered load writes to a tensor of its own, which replaces the output.
Fresh(output) == <<output[1], cursor>>

LowerLoad ==
  /\ Visiting("lower_load_store")
  /\ program[cursor].kind = "load"
  /\ LET s == Rewritten(program[cursor])
     IN  /\ program' = [program EXCEPT ![cursor] = [s EXCEPT !.kind = "load_generic", !.output = Fresh(@)]]
         /\ memo' = Extended(memo, s.output, Fresh(s.output))
  /\ cursor' = cursor + 1
  /\ UNCHANGED <<source, stage, lets, used>>

LowerStore ==
  /\ Visiting("lower_load_store")
  /\ program[cursor].kind # "load"
  /\ LET s == Rewritten(program[cursor])
     IN  program' = [program EXCEPT ![cursor] =
                       IF s.kind = "store" THEN [s EXCEPT !.kind = "store_generic"] ELSE s]
  /\ cursor' = cursor + 1
  /\ UNCHANGED <<source, stage, memo, lets, used>>

Lowered ==
  /\ stage = "lower_load_store" /\ cursor > Len(program)
  /\ StartPass("collect")
  /\ UNCHANGED <<source, program, lets, used>>

-----------------------------------------------------------------------------
(* DeadCodeEliminationPass. *)

\* expr_vars: the variables an expression of any statement mentions.
ExprVars == UNION {VarsOf(s.expr) \cup (IF s.kind = "assign" THEN {s.var} ELSE {}) : s \in Stmts(program)}

Collect ==
  /\ stage = "collect"
  /\ used' = UNION {Range(s.inputs) : s \in
               {b \in Stmts(program) : b.kind \in Effectful \/ (b.kind = "item" /\ b.var \in ExprVars)}}
  /\ stage' = "propagate"
  /\ UNCHANGED <<source, program, cursor, memo, lets>>

\* The tensors used after the functional instructions 1..i of one sweep.
Marked(i) ==
  LET sweep[j \in 0..i] ==
        IF j = 0 THEN used
        ELSE With(sweep[j - 1],
                  LAMBDA u : IF program[j].kind \in Functional /\ program[j].output \in u
                             THEN u \cup Range(program[j].inputs) ELSE u)
  IN  sweep[i]

\* Another sweep as long as the last one has marked a tensor.
Propagate ==
  /\ stage = "propagate"
  /\ used' = Marked(Len(program))
  /\ stage' = IF used' = used THEN "eliminate" ELSE "propagate"
  /\ UNCHANGED <<source, program, cursor, memo, lets>>

Dead(s) ==
  \/ s.kind \in Functional /\ s.output \notin used \cup {Nil}
  \/ s.kind = "item" /\ s.inputs[1] \notin used

\* An instruction with a side effect stays and loses the output nobody reads.
Kept(s) == IF s.kind \in OptionalOutput /\ s.output \notin used THEN [s EXCEPT !.output = Nil] ELSE s

DropDead ==
  /\ Visiting("eliminate")
  /\ Dead(program[cursor])
  /\ program' = RemoveAt(program, cursor)
  /\ UNCHANGED <<source, stage, cursor, memo, lets, used>>

KeepStmt ==
  /\ Visiting("eliminate")
  /\ ~Dead(program[cursor])
  /\ program' = [program EXCEPT ![cursor] = Kept(@)]
  /\ cursor' = cursor + 1
  /\ UNCHANGED <<source, stage, memo, lets, used>>

Eliminated ==
  /\ stage = "eliminate" /\ cursor > Len(program)
  /\ StartPass("done")
  /\ UNCHANGED <<source, program, lets, used>>

TransformNext ==
  \/ DeclareToLet
  \/ PropagateLet \/ RewriteStmt \/ RefuseAssign \/ Propagated
  \/ LowerLoad \/ LowerStore \/ Lowered
  \/ Collect \/ Propagate \/ DropDead \/ KeepStmt \/ Eliminated

TransformSpec == TransformInit /\ [][TransformNext]_transformVars

-----------------------------------------------------------------------------
\* Between two passes the program still does what the source does: the same
\* instructions with side effects, in the same order, see the same values.
PassesKeepEffects == cursor = 1 /\ memo = <<>> => Effects(program) = Effects(source)
=============================================================================
