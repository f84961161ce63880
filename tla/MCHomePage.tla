----------------------------- MODULE MCHomePage -----------------------------
(* The home page on a small instance. *)
EXTENDS HomePage, TLC

Symmetry == Permutations(Flows)
=============================================================================
