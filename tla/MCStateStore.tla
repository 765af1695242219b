---------------------------- MODULE MCStateStore ----------------------------
(* Instances of StateStore small enough for TLC. *)
EXTENDS StateStore, TLC

Symmetry == Permutations(Handles) \union Permutations(Owners)
               \union Permutations(Assets) \union Permutations(Bodies)
=============================================================================
