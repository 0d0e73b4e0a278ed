---------------------------- MODULE MCTransforms ----------------------------
(***************************************************************************)
(* Programs of seven statements for Transforms: renamings, variables that   *)
(* change by assignment or through their address, loads before and within a *)
(* loop, tensors written in place, dead and live chains of instructions.    *)
(***************************************************************************)
EXTENDS Transforms

Nm(n) == IF n = "-" THEN Nil ELSE <<n, 0>>
Statement(kind, var, op, v, output, inputs) ==
  [kind |-> kind, var |-> Nm(var), expr |-> [op |-> op, var |-> Nm(v)],
   output |-> Nm(output), inputs |-> [i \in DOMAIN inputs |-> Nm(inputs[i])]]

Declare(x, op, v) == Statement("declare", x, op, v, "-", <<>>)
Assign(x, op, v) == Statement("assign", x, op, v, "-", <<>>)
Item(x, t) == Statement("item", x, "none", "-", "-", <<t>>)
Inst(kind, v, output, inputs) == Statement(kind, "-", IF v = "-" THEN "none" ELSE "copy", v, output, inputs)
Address(x) == Statement("evaluate", "-", "address", x, "-", <<>>)
Loop == Statement("loop", "-", "none", "-", "-", <<>>)

MCSources ==
  {Declare("x", "copy", "p"), Declare("x", "none", "-"), Declare("x", "call", "p")}
  \X {Declare("y", "copy", "x"), Inst("load", "x", "t", <<>>), Inst("alloc", "x", "t", <<>>)}
  \X {Declare("z", "copy", "x"), Declare("z", "copy", "y"), Item("z", "t"), Loop, Inst("add", "-", "r", <<"t", "t">>)}
  \X {Assign("x", "call", "x"), Address("x"), Loop, Inst("load", "p", "t", <<>>), Inst("load", "z", "r", <<>>)}
  \X {Inst("atomic", "z", "s", <<"t">>), Inst("add", "z", "t", <<"t", "r">>), Inst("store", "z", "-", <<"t">>),
      Inst("add", "x", "s", <<"r">>), Assign("p", "copy", "x")}
  \X {Inst("store", "x", "-", <<"r">>), Inst("store", "z", "-", <<"t">>), Inst("add", "-", "t", <<"s">>), Item("w", "s")}
  \X {Inst("store", "w", "-", <<"t">>), Inst("store", "y", "-", <<"s">>), Inst("store", "-", "-", <<"s">>)}
MCParams == {Nm("p")}
MCVariableNames == {"p", "x", "y", "z", "w"}
MCTensorNames == {"t", "r", "s"}
=============================================================================
