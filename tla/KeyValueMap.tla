---------------------------- MODULE KeyValueMap -----------------------------
(* What the hash tables of src/include/hash_table.h and phash_table.h promise: a
   map from keys to values.  Each call takes effect in one step and leaves its
   call and result in reply.

   Two keys may be the same key to the table although they differ (by its compare
   function, or by their hashes when it has none): then they have the same id.  The
   key of an entry is the one it was inserted with. *)
EXTENDS Integers, FiniteSets, Sequences

CONSTANTS Keys, Values, NULL,
          Combine(_, _),     \* the update function the program may set
          Change(_, _)       \* the function it may apply to all entries

VARIABLES map,       \* map[k]: the value of the entry with key k
          id,        \* id[k]: what tells key k from other keys
          update,    \* whether an update function is set
          ready,     \* whether there is a table, with a hash function
          misused,   \* whether the program broke a documented rule
          reply      \* the last call: its arguments and what it returned

vars == <<map, id, update, ready, misused, reply>>

Reply(call, rc, value) == [call |-> call, rc |-> rc, value |-> value]

Found(k) == LET ids == id
            IN  {l \in DOMAIN map : ids[l] = ids[k]}

Distinct(keys, ids) == \A k, l \in keys : k # l => ids[k] # ids[l]

Init == /\ \E keys \in SUBSET Keys : map \in [keys -> Values]
        /\ DOMAIN id = Keys
        /\ Distinct(DOMAIN map, id)
        /\ update \in BOOLEAN
        /\ ready \in BOOLEAN
        /\ misused = FALSE
        /\ reply = Reply(<<"none">>, 0, NULL)

(* put: a new key gets an entry, unless memory is short: then nothing changes.  An
   entry that is there is always updated. *)
Stores(call, k, v, combine) ==
  \/ /\ Found(k) = {}
     /\ \/ /\ reply' = Reply(call, 0, NULL)
           /\ map' = [l \in DOMAIN map \cup {k} |-> IF l = k THEN v ELSE map[l]]
        \/ /\ reply' = Reply(call, -1, NULL)
           /\ UNCHANGED map
  \/ /\ reply' = Reply(call, 1, NULL)
     /\ \E l \in Found(k) :
           map' = [map EXCEPT ![l] = IF combine THEN Combine(@, v) ELSE v]

Put(k, v) == /\ reply'.call = <<"put", k, v>>
             /\ Stores(<<"put", k, v>>, k, v, update)

(* atomic_update always combines. *)
AtomicUpdate(k, v) == /\ reply'.call = <<"atomic_update", k, v>>
                      /\ Stores(<<"atomic_update", k, v>>, k, v, TRUE)

(* get and remove answer with the value of the entry. *)
Lookup(call, k) == IF Found(k) = {} THEN Reply(call, 0, NULL)
                   ELSE Reply(call, 1, map[CHOOSE l \in Found(k) : TRUE])

Get(k) == /\ reply'.call = <<"get", k>>
          /\ reply' = Lookup(<<"get", k>>, k)
          /\ UNCHANGED map

Remove(k) == /\ reply'.call = <<"remove", k>>
             /\ reply' = Lookup(<<"remove", k>>, k)
             /\ map' = [l \in DOMAIN map \ Found(k) |-> map[l]]

Apply == /\ reply' = Reply(<<"apply">>, 0, NULL)
         /\ map' = [l \in DOMAIN map |-> Change(l, map[l])]

Size == /\ reply' = Reply(<<"size", NULL>>, Cardinality(DOMAIN map), NULL)
        /\ UNCHANGED map

(* An iteration from first to its end meets every entry once. *)
Walk == /\ reply'.call = <<"walk">>
        /\ Len(reply'.value) = Cardinality(DOMAIN map)
        /\ {reply'.value[i] : i \in DOMAIN reply'.value} = {<<k, map[k]>> : k \in DOMAIN map}
        /\ UNCHANGED map

(* A call that needs a table and a hash function, and has none. *)
NotReady == /\ ~ready
            /\ reply'.rc = -1
            /\ UNCHANGED map

Call == /\ ready
        /\ \/ \E k \in Keys : Get(k) \/ Remove(k)
           \/ \E k \in Keys, v \in Values : Put(k, v) \/ AtomicUpdate(k, v)

(* The functions of a table may be changed as long as no two entries become the
   same key; init, clone and the set functions do that, and may fail. *)
Configure == /\ reply'.call = <<"configure">>
             /\ DOMAIN id' = Keys
             /\ update' \in BOOLEAN
             /\ ready' \in BOOLEAN
             /\ Distinct(DOMAIN map, id')
             /\ UNCHANGED map

Destroy == /\ reply' = Reply(<<"destroy">>, 0, NULL)
           /\ map' = [k \in {} |-> NULL]
           /\ DOMAIN id' = Keys
           /\ update' \in BOOLEAN
           /\ ready' = FALSE

(* Nothing is promised to a program that breaks a rule. *)
Misuse == misused' = TRUE

Next == \/ /\ UNCHANGED <<id, update, ready, misused>>
           /\ Call \/ NotReady \/ Apply \/ Size \/ Walk
        \/ (Configure \/ Destroy) /\ UNCHANGED misused
        \/ Misuse

Spec == Init /\ [][Next]_vars
=============================================================================
