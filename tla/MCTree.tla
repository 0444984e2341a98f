------------------------------- MODULE MCTree -------------------------------
(* Instances of Tree for TLC: every tree that calls can make of the keys 1 to 6,
   and what becomes of a tree of twelve keys that is as high as a balanced tree
   can be, so that a removal may rotate at two levels. *)
EXTENDS Tree, TLC

MCKeys == 1 .. 12

MCInserts == {<<k, k>> : k \in 1 .. 6} \cup {<<3, 4>>}
MCCombine(u, v) == IF u = v THEN 4 ELSE v

MCHistories == {<<>>, <<8, 5, 10, 3, 7, 9, 11, 2, 4, 6, 12, 1>>}

View == tree

\* Bounds: trees that have shrunk below ten keys are not followed unless they are of
\* the keys 1 to 6, and the functions of trees of more than two keys stay away.
Bound == tree # NULL =>
           LET keys == Nodes(tree)
           IN  /\ keys \subseteq 1 .. 6 \/ Cardinality(keys) >= 10
               /\ Cardinality(keys) > 2 => ~tree.update /\ ~tree.value_free /\ tree.comp = 1
=============================================================================
