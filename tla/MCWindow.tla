------------------------------ MODULE MCWindow ------------------------------
(* Instance of Window for TLC.                                             *)
EXTENDS Window

CONSTANTS c1, c2, f1, f2

MCCallers == {c1, c2}
MCFlows == {f1, f2}

\* Bound: the processes that are busy at a time.
MCBusy == Cardinality({p \in Procs : pc[p] # "idle"}) <= IF destroys = 0 THEN 3 ELSE 2
=============================================================================
