--------------------------- MODULE MCCollectives ---------------------------
(***************************************************************************)
(* Instructions on 4 warps of 2 lanes: the dimension lies in lanes, in      *)
(* warps, in both, beside other dimensions and beside repeated data.        *)
(***************************************************************************)
EXTENDS Collectives

Mode(size, kind, rank) == [size |-> size, kind |-> kind, rank |-> rank]
D(size, rank) == Mode(size, "reduced", rank)
S(size) == Mode(size, "spatial", 0)
R(size) == Mode(size, "replicated", 0)
Inst(op, exclusive, spatial, local) ==
  [op |-> op, exclusive |-> exclusive, spatial |-> spatial, local |-> local]

ReduceAll == Inst("reduce", TRUE, <<D(8, 1)>>, <<D(2, 3)>>)
ReduceRepeated == Inst("reduce", TRUE, <<R(2), D(2, 2), S(2)>>, <<S(2), D(2, 0)>>)
ReduceOuter == Inst("reduce", TRUE, <<S(2), D(2, 2), D(2, 1)>>, <<S(2)>>)
ReduceBeside == Inst("reduce", TRUE, <<D(2, 2), S(2), D(2, 1)>>, <<>>)
ReduceLanes == Inst("reduce", TRUE, <<S(4), D(2, 1)>>, <<D(2, 2), S(2)>>)
ScanAround == Inst("scan", TRUE, <<D(2, 2), S(2), D(2, 1)>>, <<S(2), D(2, 0)>>)
ScanRepeated == Inst("scan", FALSE, <<R(2), D(4, 1)>>, <<D(2, 2)>>)
ScanAll == Inst("scan", TRUE, <<D(8, 1)>>, <<>>)

\* For groups of 2 warps: the dimension lies in the warps.
AcrossWarps == {<<Inst("reduce", TRUE, <<D(2, 1), S(2)>>, <<>>)>>}

MCPrograms ==
  {<<ReduceAll, ScanAround>>, <<ScanAround, ReduceRepeated>>, <<ReduceOuter, ReduceAll>>,
   <<ReduceRepeated, ReduceBeside>>, <<ScanRepeated, ScanAll>>, <<ReduceLanes, ReduceAll>>,
   <<ScanAll>>}

\* Run in step, every program comes to its end with right results: RightInStep, on
\* the states of InStep computed one from the other.
MaxSteps == 34
Steps(P) ==
  FoldLeft(LAMBDA run, n : Append(run, StepNext(P, run[n])), <<StepStart(P)>>,
           [n \in 1..MaxSteps |-> n])
ASSUME StepAssumption ==
  \A P \in Programs :
    LET run  == Steps(P)
        last == run[MaxSteps + 1]
    IN  /\ \A n \in DOMAIN run : StepRight(P, run[n])
        /\ StepEnded(P, last) /\ last.instr = Len(P)
=============================================================================
