--------------------------- MODULE DispatchChoice ---------------------------
(***************************************************************************)
(* What a shared dispatch table promises: for each tuning key the          *)
(* processes of one environment choose one schedule, once, and whoever     *)
(* dispatches the key afterwards uses it.  A crash may lose a choice only  *)
(* if no surviving process has used it.                                    *)
(***************************************************************************)
CONSTANTS Procs, TuningKeys, Scheds, None

VARIABLES
    chosen,   \* [TuningKeys -> Scheds or None]
    learned   \* [Procs -> [TuningKeys -> Scheds or None]]

Unlearned == [k \in TuningKeys |-> None]

Init == /\ chosen = Unlearned
        /\ learned = [p \in Procs |-> Unlearned]

Choose(k, s) == /\ chosen[k] = None
                /\ chosen' = [chosen EXCEPT ![k] = s]
                /\ UNCHANGED learned

Learn(p, k) == /\ chosen[k] # None
               /\ learned' = [learned EXCEPT ![p][k] = chosen[k]]
               /\ UNCHANGED chosen

Forget(p) ==
    /\ learned' = [learned EXCEPT ![p] = Unlearned]
    /\ \E lost \in SUBSET {k \in TuningKeys : \A q \in Procs : learned'[q][k] = None} :
          chosen' = [k \in TuningKeys |-> IF k \in lost THEN None ELSE chosen[k]]

Next == \/ \E k \in TuningKeys, s \in Scheds : Choose(k, s)
        \/ \E p \in Procs, k \in TuningKeys : Learn(p, k)
        \/ \E p \in Procs : Forget(p)

Spec == Init /\ [][Next]_<<chosen, learned>>
=============================================================================
