------------------------- MODULE MCOneShotScheduler -------------------------
(* Instances of OneShotScheduler for TLC. *)
EXTENDS OneShotScheduler

SafetySpec == Init /\ [][Next]_vars

\* State constraint: the last call of a behaviour supplies a cancellable job.
\* The earlier ones are of either kind, and a plain job can do nothing that a
\* cancellable one cannot, except to ignore its token.
MCLastIsCancellable ==
    next_generation > MaxGeneration => gkind[MaxGeneration] = "cancellable"
=============================================================================
