--------------------------- MODULE MCProjectSync ---------------------------
(* Values for the constants of ProjectSync on small instances. *)
EXTENDS ProjectSync, TLC

CONSTANTS empty, a

MCContents == {empty, a}
MCOneContent == {empty}
\* An injective hash.
MCHash(k) == <<"sha256", k>>

ActorSymmetry == Permutations(Clients) \cup Permutations(Replicas)
=============================================================================
