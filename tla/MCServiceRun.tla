---------------------------- MODULE MCServiceRun ----------------------------
(* Instances of ServiceRun for TLC. *)
EXTENDS ServiceRun, TLC

\* Runs, messages and callers are interchangeable.
Symmetry == Permutations(Runs) \cup Permutations(Msgs) \cup Permutations(Callers)
=============================================================================
