---------------------------- MODULE MCCompiler ----------------------------
(***************************************************************************)
(* What the compiler computes about a kernel, in one instance for TLC: the  *)
(* grid and the scalar analysis, register and shared layouts, the passes    *)
(* that move statements, and the placement of shared tensors.  The subject  *)
(* chosen at the start moves, the others keep an initial state.             *)
(***************************************************************************)
EXTENDS GridAnalysis, ScalarAnalysis, RegisterLayouts, SharedLayouts, MCTransforms, MCSmemAllocator

VARIABLE subject

compilerVars == <<subject, gridVars, scalarVars, layout, shared, transformVars, vars>>

-----------------------------------------------------------------------------
MCLiterals == {0, 1, 2, 4, 8}
MCMultiples == {<<4, 4>>, <<2, 6>>}
MCBitXor(x, y) == x ^^ y
MCSwizzles == {<<1, 1, 1>>, <<0, 2, 2>>}

MCShapes == {<<2>>, <<2, 2>>, <<1, 3>>}

MCSharedShapes == {<<2>>, <<2, 2>>, <<6>>, <<2, 3>>}
MCSwizzled == {<<<<8, 8>>, 16>>, <<<<16, 4>>, 16>>, <<<<8, 2>>, 16>>, <<<<8, 3>>, 16>>}

-----------------------------------------------------------------------------
(* Functions of three statements for the scalar analysis: x begins with a    *)
(* constant, a bounded or an unbounded value or counts a loop, is changed in *)
(* terms of itself, and y is computed from it.                               *)

V(n) == <<"var", n>>
C(c) == <<"const", c>>
Scalar(kind, v, op, a, b) == [kind |-> kind, var |-> v, op |-> op, a |-> a, b |-> b]

Starts ==
  {Scalar("assign", "x", "add", C(0), C(0)), Scalar("assign", "x", "add", V("p"), C(2)),
   Scalar("assign", "x", "sub", V("b"), V("p")), Scalar("for", "x", "min", V("p"), C(6))}
Middles ==
  {Scalar("assign", "x", op, V("x"), o) : op \in {"add", "sub", "mul", "div"}, o \in {C(3), V("b")}}
  \cup {Scalar("assign", "x", "mod", V("x"), C(2)), Scalar("assign", "x", "min", V("x"), C(2)),
        Scalar("for", "i", "max", V("x"), C(2)), Scalar("for", "i", "add", V("x"), V("b"))}
Finishes ==
  {Scalar("assign", "y", op, V("x"), o) : op \in {"mul", "div", "mod"}, o \in {C(4), C(-2)}}
  \cup {Scalar("assign", "y", "add", V("x"), V("x")), Scalar("assign", "y", "max", V("x"), C(4))}
MCFunctions == {<<s, m, f>> : s \in Starts, m \in Middles, f \in Finishes}
MCParameters == [v \in {"p", "b"} |-> IF v = "p" THEN ScalarSet(4, 0, NoBound) ELSE ScalarSet(1, 0, 2)]

-----------------------------------------------------------------------------
ParkedFunction == CHOOSE f \in Functions : TRUE
ParkedLayout == CHOOSE l \in Elementary : TRUE
ParkedShared == CHOOSE l \in Plain : TRUE
ParkedProgram == CHOOSE p \in Programs : TRUE

CompilerInit ==
  /\ subject \in {"grid", "scalar", "registers", "shared", "passes", "arena"}
  /\ GridInit /\ Init
  /\ subject # "scalar" => func = ParkedFunction
  /\ ScalarInit
  /\ subject # "registers" => layout = ParkedLayout
  /\ RegisterInit
  /\ subject # "shared" => shared = ParkedShared
  /\ SharedInit
  /\ subject # "passes" => source = ParkedProgram
  /\ TransformInit

GridStep ==
  subject = "grid" /\ GridNext /\ UNCHANGED <<subject, scalarVars, layout, shared, transformVars, vars>>
ScalarStep ==
  subject = "scalar" /\ ScalarNext /\ UNCHANGED <<subject, gridVars, layout, shared, transformVars, vars>>
RegisterStep ==
  subject = "registers" /\ RegisterNext /\ UNCHANGED <<subject, gridVars, scalarVars, shared, transformVars, vars>>
SharedStep ==
  subject = "shared" /\ SharedNext /\ UNCHANGED <<subject, gridVars, scalarVars, layout, transformVars, vars>>
PassStep ==
  subject = "passes" /\ TransformNext /\ UNCHANGED <<subject, gridVars, scalarVars, layout, shared, vars>>
ArenaStep ==
  subject = "arena" /\ Next /\ UNCHANGED <<subject, gridVars, scalarVars, layout, shared, transformVars>>

CompilerNext == GridStep \/ ScalarStep \/ RegisterStep \/ SharedStep \/ PassStep \/ ArenaStep

CompilerSpec ==
  CompilerInit /\ [][CompilerNext]_compilerVars /\ WF_scalarVars(subject = "scalar" /\ Analyze)

-----------------------------------------------------------------------------
(* The costly properties, asked where their subject moves.                  *)

\* The operations on register layouts (OperationsRight) and on shared layouts
\* (SharedOffsetsRight) keep what they promise.
LayoutOperationsRight ==
  (subject = "registers" => OperationsRight) /\ (subject = "shared" => SharedOffsetsRight)

\* The scalar analysis ends for every function (AnalysisEnds).
ScalarAnalysisEnds == subject = "scalar" => AnalysisEnds
===========================================================================
