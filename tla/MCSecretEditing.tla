-------------------------- MODULE MCSecretEditing --------------------------
(* Small instances of SecretEditing. *)
EXTENDS SecretEditing, TLC

Symmetry ==
    Permutations(Tabs) \cup Permutations(Users) \cup Permutations(Ids)
    \cup Permutations(Names) \cup Permutations(Keys)
=============================================================================
