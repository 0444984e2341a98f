------------------------------ MODULE MCPPool -------------------------------
(* Instances of PPool for TLC: two threads, two variables, a pool of one entry
   that grows once, by two. *)
EXTENDS PPool, TLC

Symmetry == Permutations(Thread) \cup Permutations(Var)
=============================================================================
