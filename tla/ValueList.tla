------------------------------ MODULE ValueList ------------------------------
(* What the linked list of src/include/linked_list.h promises: a sequence with a place
   in it, which stays at its entry while entries come and go around it. *)
EXTENDS Ordering

CONSTANT Values

VARIABLES values,    \* the entries, or NULL when there is no list
          place,     \* the index of the iterator, 0 when it is at no entry
          order,
          reply

vars == <<values, place, order, reply>>

Reply(call, result) == [call |-> call, result |-> result]

At(p) == IF p \in DOMAIN values THEN values[p] ELSE NULL

Init == values = NULL /\ place = 0 /\ order = NULL /\ reply = Reply(<<"none">>, 0)

Create == /\ values = NULL
          /\ values' \in {NULL, <<>>}
          /\ order' \in {1, -1, NULL}
          /\ place' = 0
          /\ reply' = Reply(<<"init">>, values' # NULL)

SetComp(o) == reply' = Reply(<<"set_comp", o>>, 0) /\ order' = o /\ UNCHANGED <<values, place>>

Destroy == reply' = Reply(<<"destroy">>, 0) /\ values' = NULL /\ place' = 0 /\ order' = NULL

(* d becomes entry p; the place follows its own entry, or the new one if moves. *)
Insert(call, p, d, moves) ==
  /\ reply' = Reply(<<call, d>>, 0)
  /\ values' = SubSeq(values, 1, p - 1) \o <<d>> \o SubSeq(values, p, Len(values))
  /\ place' = IF moves THEN p ELSE IF place >= p THEN place + 1 ELSE place

NoMemory(call) == reply' = Reply(<<call>>, -1) /\ UNCHANGED <<values, place>>

(* Entry p goes; a place at it is lost, or moves to the neighbour called next. *)
Remove(call, p, next) ==
  /\ reply' = Reply(<<call>>, At(p))
  /\ IF At(p) = NULL THEN UNCHANGED <<values, place>>
     ELSE /\ values' = SubSeq(values, 1, p - 1) \o SubSeq(values, p + 1, Len(values))
          /\ place' = IF place = p THEN next ELSE IF place > p THEN place - 1 ELSE place

Move(call, p) == /\ reply' = Reply(<<call>>, At(p))
                 /\ place' = IF At(p) = NULL THEN 0 ELSE p
                 /\ UNCHANGED values

Sort == /\ reply' = Reply(<<"msort">>, IF order = NULL THEN -1 ELSE 0)
        /\ IF order = NULL THEN UNCHANGED <<values, place>>
           ELSE /\ values' = StablySorted(order, values)
                /\ place' = IF place = 0 THEN 0 ELSE Rank(order, values, place)

Grow(d) == \/ Insert("add_start", 1, d, FALSE)
           \/ Insert("add_end", Len(values) + 1, d, FALSE)
           \/ Insert("add_node", Len(values) + 1, d, FALSE)
           \/ place # 0 /\ Insert("insert_before", place, d, TRUE)
           \/ place # 0 /\ Insert("insert_after", place + 1, d, TRUE)

Step == \/ \E d \in Values : Grow(d)
        \/ \E call \in {"add_start", "add_end", "insert_before", "insert_after"} : NoMemory(call)
        \/ Remove("remove_start", 1, 0)
        \/ Remove("remove_end", Len(values), 0)
        \/ reply' = Reply(<<"size">>, Len(values)) /\ UNCHANGED <<values, place>>
        \/ Move("first", 1)
        \/ Move("last", Len(values))
        \/ Move("next", IF place = 0 THEN 0 ELSE place + 1)
        \/ Move("prev", IF place = 0 THEN 0 ELSE place - 1)
        \/ Remove("remove_forward", place, IF place < Len(values) THEN place ELSE 0)
        \/ Remove("remove_backwards", place, place - 1)
        \/ Sort

Next == \/ Create
        \/ values # NULL /\ Destroy
        \/ values # NULL /\ \E o \in {1, -1, NULL} : SetComp(o)
        \/ values # NULL /\ Step /\ UNCHANGED order

Spec == Init /\ [][Next]_vars
=============================================================================
