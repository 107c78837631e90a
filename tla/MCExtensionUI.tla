---------------------------- MODULE MCExtensionUI ----------------------------
(* Instances of ExtensionUI for TLC. *)
EXTENDS ExtensionUI, TLC

\* Two of the requests and grants at a time: each pair of them overlaps in every way.
Overlapping ==
  Cardinality({r \in Reqs : stage[r] # "new"} \cup {g \in Grants : gstage[g] # "new"}) <= 2

\* Extensions, requests and grants are interchangeable.
Symmetry == Permutations(Exts) \cup Permutations(Reqs) \cup Permutations(Grants)
=============================================================================
