------------------------------- MODULE MCPool -------------------------------
(* Instances of Pool for TLC: two pools of up to three blocks of 1, 2 and 3
   entries; a block of more than three entries is refused as too large. *)
EXTENDS Pool, TLC

Symmetry == Permutations(Pools) \cup Permutations(Var)
=============================================================================
