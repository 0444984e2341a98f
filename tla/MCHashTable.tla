---------------------------- MODULE MCHashTable -----------------------------
(* Instances of HashTable for TLC.  Tables start with 8 slots and are rebuilt with
   8 or 16 when the seventh is used. *)
EXTENDS HashTable, TLC

MCKeys == 1 .. 4

\* Key 1 has two values and they change; the values of the others tell them apart.
MCPuts == {<<1, 1>>, <<1, 2>>} \cup {<<k, k + 1>> : k \in 2 .. 4}
MCCombine(u, v) == IF u \in {1, 2} THEN 3 - u ELSE v
MCChange(k, v) == IF k = 1 /\ v \in {1, 2} THEN 3 - v ELSE v

\* Several bases and steps, and two pairs of keys with one hash.
Spread == (1 :> 0) @@ (2 :> 106) @@ (3 :> 106) @@ (4 :> 21)
Dense == (1 :> 33) @@ (2 :> 4) @@ (3 :> 54) @@ (4 :> 11)
MCHashFuncs == {Spread, Dense}
MCSizes == {-1, 7}

\* No action reads reply: it tells the properties of steps what call a step was.
View == <<table, overdue>>

\* Bound: tables with more than six used slots of sixteen are not followed further.
Bound == table # NoTable /\ table.capacity > MinCapacity => table.used <= 6

\* init against its description: the smallest power of two, and at least the
\* minimum, that holds the entries expected in three quarters of its slots.
ASSUME \A n \in 0 .. 100 :
         LET c == InitialCapacity(n)
             enough == {2 ^ e : e \in 3 .. 8} \cap {x \in 8 .. 256 : 4 * n <= 3 * x}
         IN  c \in enough /\ \A x \in enough : c <= x
=============================================================================
