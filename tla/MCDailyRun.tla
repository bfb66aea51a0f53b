----------------------------- MODULE MCDailyRun -----------------------------
(* DailyRun with interchangeable processes. *)
EXTENDS DailyRun, TLC

Symmetry == Permutations(Procs)
=============================================================================
