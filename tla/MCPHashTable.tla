---------------------------- MODULE MCPHashTable ----------------------------
(* Instances of PHashTable for TLC.  The table that the threads get has eight slots:
   it has one entry, or three entries and three markers, so that one more insertion
   into an empty slot rebuilds it, or one more entry, because the rebuild failed. *)
EXTENDS PHashTable, TLC

MCKeys == 1 .. 9

\* Keys 1 and 2 have one hash, key 3 has their base and step; 5 to 7 fall on the
\* markers, 8 and 9 on empty slots.
MCFirstHash == (1 :> 0) @@ (2 :> 0) @@ (3 :> 8) @@ (4 :> 2) @@ (5 :> 3) @@ (6 :> 4) @@ (7 :> 5) @@ (8 :> 6) @@ (9 :> 7)
MCSecondHash == [k \in MCKeys |-> 5 * k]

MCHistories ==
  { << <<"put", 1, 1>> >>,
    << <<"put", 1, 1>>, <<"put", 3, 2>>, <<"put", 4, 3>>, <<"put", 5, 1>>, <<"put", 6, 1>>, <<"put", 7, 1>>,
       <<"remove", 5>>, <<"remove", 6>>, <<"remove", 7>> >>,
    << <<"put", 1, 1>>, <<"put", 3, 2>>, <<"put", 4, 3>>, <<"put", 5, 1>>, <<"put", 6, 1>>, <<"put", 7, 1>>,
       <<"put", 8, 2>>, <<"remove", 5>>, <<"remove", 6>>, <<"remove", 7>> >> }

MCCalls == {<<"put", 2, 1>>, <<"put", 8, 1>>, <<"put", 9, 2>>, <<"atomic_update", 1, 1>>,
            <<"get", 1>>, <<"get", 3>>, <<"remove", 1>>,
            <<"size", NULL>>, <<"set_hash", NULL>>, <<"set_update", NULL>>, <<"set_comp", NULL>>}

\* addition, modulo 9
MCCombine(u, v) == 1 + ((u + v - 1) % 9)

\* No action reads reply: it tells ImplementsMap what call a step was.
View == <<table, writer, readers, pc, call, hash, slot, old, count, misused>>
=============================================================================
