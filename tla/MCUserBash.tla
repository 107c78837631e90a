----------------------------- MODULE MCUserBash -----------------------------
(* Instances of UserBash for TLC. *)
EXTENDS UserBash, TLC

\* Calls and aborters are interchangeable.
Symmetry == Permutations(Calls) \cup Permutations(Aborters)
=============================================================================
