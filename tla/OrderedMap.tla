----------------------------- MODULE OrderedMap -----------------------------
(* What the tree of src/include/tree.h promises: a map whose keys are in the order
   of the compare function.  Each call takes effect in one step and leaves in reply
   its arguments, its result, and the entries whose values it passed to value_free. *)
EXTENDS Integers, FiniteSets, Sequences

CONSTANTS Keys,              \* numbers
          Values, NULL,
          Combine(_, _)      \* the update function the program may set

VARIABLES map,       \* map[k]: the value of the entry with key k
          order,     \* 1: ascending, -1: descending, NULL: no compare function
          update,    \* whether an update function is set
          frees,     \* whether a value_free function is set
          reply

vars == <<map, order, update, frees, reply>>

Nothing == [k \in {} |-> NULL]

Reply(call, result, freed) == [call |-> call, result |-> result, freed |-> freed]

Before(k, l) == order * k < order * l

Smaller(k) == {l \in DOMAIN map : Before(l, k)}
Larger(k) == {l \in DOMAIN map : Before(k, l)}

Entry(keys) == IF keys = {} THEN NULL
               ELSE LET k == CHOOSE l \in keys : TRUE
                    IN  <<k, map[k]>>

First == {k \in DOMAIN map : Smaller(k) = {}}
Last == {k \in DOMAIN map : Larger(k) = {}}

(* The entries of a set of keys in order *)
InOrder(keys) == [i \in 1 .. Cardinality(keys) |->
                    CHOOSE k \in keys : Cardinality({l \in keys : Before(l, k)}) = i - 1]

Init == /\ \E keys \in SUBSET Keys : map \in [keys -> Values]
        /\ order \in {1, -1, NULL}
        /\ update = FALSE
        /\ frees = FALSE
        /\ reply = Reply(<<"none">>, 0, Nothing)

(* insert: without memory for a new entry, and without a compare function, nothing
   changes.  The value of an entry that is there is combined with the new one, or
   freed and replaced. *)
Insert(k, v) ==
  LET call == <<"insert", k, v>>
  IN  \/ /\ order = NULL \/ k \notin DOMAIN map
         /\ reply' = Reply(call, -1, Nothing)
         /\ UNCHANGED map
      \/ /\ order # NULL
         /\ IF k \in DOMAIN map
            THEN /\ map' = [map EXCEPT ![k] = IF update THEN Combine(@, v) ELSE v]
                 /\ reply' = Reply(call, 0, IF frees /\ ~update THEN [l \in {k} |-> map[k]] ELSE Nothing)
            ELSE /\ map' = [l \in DOMAIN map \cup {k} |-> IF l = k THEN v ELSE map[l]]
                 /\ reply' = Reply(call, 0, Nothing)

(* The removing calls hand the value to the caller. *)
Delete(call, keys) == /\ reply' = Reply(call, Entry(keys), Nothing)
                      /\ map' = [l \in DOMAIN map \ keys |-> map[l]]

DeleteCall == \/ \E k \in Keys : Delete(<<"delete", k>>, {k} \cap DOMAIN map)
              \/ Delete(<<"delete_min">>, First)
              \/ Delete(<<"delete_max">>, Last)

(* How high a balanced tree of n entries may be: Fewest[h] entries make the height h. *)
Heights(n) ==
  LET Fewest[h \in 0 .. n] == IF h < 2 THEN h ELSE 1 + Fewest[h - 1] + Fewest[h - 2]
  IN  {h \in 0 .. n : Fewest[h] <= n /\ n < 2 ^ h}

(* The calls that only read: all of them asked at once. *)
Answers(height) ==
  [retrieve |-> [k \in Keys |-> Entry({k} \cap DOMAIN map)],
   retrieve_min |-> Entry(First),
   retrieve_max |-> Entry(Last),
   size |-> Cardinality(DOMAIN map),
   height |-> height,
   num_less |-> [k \in Keys |-> Cardinality(Smaller(k))],
   num_less_equal |-> [k \in Keys |-> Cardinality(Smaller(k) \cup ({k} \cap DOMAIN map))],
   num_greater |-> [k \in Keys |-> Cardinality(Larger(k))],
   num_greater_equal |-> [k \in Keys |-> Cardinality(Larger(k) \cup ({k} \cap DOMAIN map))],
   get_rank |-> [r \in 0 .. Cardinality(Keys) |->
                   Entry({k \in DOMAIN map : Cardinality(Smaller(k)) = r})],
   walk |-> InOrder(DOMAIN map),
   walk_from |-> [k \in Keys |-> InOrder(DOMAIN map \ Smaller(k))]]

Ask == /\ order # NULL
       /\ \E h \in Heights(Cardinality(DOMAIN map)) : reply' = Reply(<<"ask">>, Answers(h), Nothing)
       /\ UNCHANGED map

(* The order may only be changed while there are no entries. *)
SetComp == \/ /\ map = Nothing
              /\ order' \in {1, -1, NULL}
              /\ reply' = Reply(<<"set_comp">>, 0, Nothing)
           \/ /\ map # Nothing
              /\ reply' = Reply(<<"set_comp">>, -1, Nothing)
              /\ UNCHANGED order

Set == /\ reply' = Reply(<<"set">>, 0, Nothing)
       /\ {update', frees'} \subseteq BOOLEAN

(* destroy frees the values, and a tree created then has no functions but perhaps
   the order that the type of its keys gives it. *)
Destroy == /\ map' = Nothing
           /\ reply' = Reply(<<"destroy">>, 0, IF frees THEN map ELSE Nothing)
           /\ order' \in {1, -1, NULL}
           /\ update' = FALSE
           /\ frees' = FALSE

Next == \/ /\ (\E k \in Keys, v \in Values : Insert(k, v)) \/ DeleteCall \/ Ask
           /\ UNCHANGED <<order, update, frees>>
        \/ SetComp /\ UNCHANGED <<map, update, frees>>
        \/ Set /\ UNCHANGED <<map, order>>
        \/ Destroy

Spec == Init /\ [][Next]_vars
=============================================================================
