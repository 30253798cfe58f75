----------------------------- MODULE MCWatchdog -----------------------------
(* Instances of Watchdog for TLC. *)
EXTENDS Watchdog, TLC

\* Launches are interchangeable; the runs without liveness properties use it.
MCSymmetry == Permutations(Launches)
=============================================================================
