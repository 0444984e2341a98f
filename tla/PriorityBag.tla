----------------------------- MODULE PriorityBag -----------------------------
(* What the priority queue of src/include/pqueue.h promises: a bag of entries of which
   one with the largest key is on top.  Which one of several is decided by the call
   that changes the bag. *)
EXTENDS Ordering

INSTANCE Bags
INSTANCE BagsExt

CONSTANT Entries

VARIABLES bag,      \* the entries, or NULL when there is no queue
          top,      \* the entry that peek and pop give, NULL when there is none
          order, frees, reply

vars == <<bag, top, order, frees, reply>>

Reply(call, result, freed) ==
  reply'.call = call /\ reply' = [call |-> call, result |-> result, freed |-> freed]

Answer(call, result) == Reply(call, result, EmptyBag) /\ UNCHANGED <<bag, top, order, frees>>

(* How many entries there are, each as often as it is in the bag *)
Size(b) == Cardinality(UNION {{e} \X (1 .. b[e]) : e \in DOMAIN b})

Largest(b) == {e \in DOMAIN b : \A f \in DOMAIN b : Compare(order, e, f) >= 0}

Become(b) == /\ bag' = b
             /\ IF b = EmptyBag THEN top' = NULL ELSE top' \in Largest(b)
             /\ UNCHANGED <<order, frees>>

Init == /\ bag = NULL /\ top = NULL /\ order = NULL /\ frees = FALSE
        /\ reply = [call |-> <<"none">>, result |-> 0, freed |-> EmptyBag]

Create == \/ Answer(<<"init">>, FALSE)
          \/ /\ Reply(<<"init">>, TRUE, EmptyBag)
             /\ bag' = EmptyBag /\ top' = NULL /\ order' \in {1, -1, NULL} /\ frees' = FALSE

Destroy == /\ Reply(<<"destroy">>, 0, IF frees THEN bag ELSE EmptyBag)
           /\ bag' = NULL /\ top' = NULL /\ order' = NULL /\ frees' = FALSE

SetComp(o) == \/ (o = NULL \/ bag # EmptyBag) /\ Answer(<<"set_comp", o>>, -1)
              \/ /\ bag = EmptyBag
                 /\ Reply(<<"set_comp", o>>, 0, EmptyBag)
                 /\ order' = o
                 /\ UNCHANGED <<bag, top, frees>>

SetValueFree(b) == /\ Reply(<<"set_value_free", b>>, 0, EmptyBag)
                   /\ frees' = b
                   /\ UNCHANGED <<bag, top, order>>

Push(e) == \/ Answer(<<"push", e>>, -1)
           \/ Reply(<<"push", e>>, 0, EmptyBag) /\ Become(BagAdd(bag, e))

Pop == IF bag = EmptyBag THEN Answer(<<"pop">>, NULL)
       ELSE Reply(<<"pop">>, top, EmptyBag) /\ Become(BagRemove(bag, top))

Call == \/ Destroy \/ Pop
        \/ \E o \in {1, -1, NULL} : SetComp(o)
        \/ \E b \in BOOLEAN : SetValueFree(b)
        \/ \E e \in Entries : Push(e)
        \/ Answer(<<"peek">>, top)
        \/ Answer(<<"size">>, Size(bag))
        \/ Answer(<<"is_empty">>, bag = EmptyBag)

Next == \/ bag = NULL /\ Create
        \/ bag # NULL /\ Call

Spec == Init /\ [][Next]_vars
=============================================================================
