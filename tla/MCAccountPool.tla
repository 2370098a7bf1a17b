--------------------------- MODULE MCAccountPool ---------------------------
(* Bounds for AccountPool: symmetric clients, users and administrators.    *)
EXTENDS AccountPool, TLC

Symmetry == Permutations(Users) \union Permutations(Selections) \union Permutations(Admins)
=============================================================================
