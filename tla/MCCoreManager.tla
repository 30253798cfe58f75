--------------------------- MODULE MCCoreManager ---------------------------
(* Instances of CoreManager for TLC. *)
EXTENDS CoreManager, TLC

\* The recovery slots, and the callers of run_core, are interchangeable; the
\* runs without liveness properties use it.
MCSymmetry == Permutations(Recoverers) \cup Permutations(Callers)

\* Bounds on the behaviours with an update: one fault, and in the safety run the
\* core as a sidecar.  The updater's place tells them apart: it never returns to
\* "idle".
MCOneFault == pc[Upgrader] # "idle" => faults <= 1

MCUpdateBound == MCOneFault /\ (pc[Upgrader] # "idle" => ~enable_service_mode /\ ~use_service_mode)

\* The liveness run bounds the steps and not the states: a fault, and the
\* beginning of an update, are never obliged to happen, so fairness still holds.
MCLiveSpec == Init /\ [][Next /\ MCOneFault']_vars /\ Fairness
=============================================================================
