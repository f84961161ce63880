------------------------- MODULE MCProjectLifecycle -------------------------
(* Small instances of ProjectLifecycle. *)
EXTENDS ProjectLifecycle, TLC

CONSTANT p1

\* All names have one default prefix.
MCSlug == [n \in Names |-> p1]

Symmetry ==
    Permutations(Requests) \cup Permutations(Replicas) \cup Permutations(Ids)
    \cup Permutations(Users) \cup Permutations(Names)
=============================================================================
