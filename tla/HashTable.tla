----------------------------- MODULE HashTable ------------------------------
(* A hash table of src/include/hash_table.h in a program with one thread: each
   call is one step.  Any malloc or calloc may fail.  The program creates and
   destroys the table, changes its functions, and may go on with a clone. *)
EXTENDS ProbeTable, Sequences

CONSTANTS Keys, Values,
          Puts,              \* the pairs of a key and a value that the program puts
          Combine(_, _),     \* the update function the program may set
          Change(_, _),      \* the function it passes to apply
          HashFuncs,         \* the hash functions, with hash_mix64 applied: Keys -> Nat
          DefaultHash,       \* what hash.h has for the type of the keys; may be NULL
          DefaultComp,       \* whether comp.h has a compare function for it
          ExpectedSizes,     \* the sizes passed to init
          MaxCapacity        \* bound: larger tables are not allocated

Node == [hash : Nat, key : Keys, value : Values]

ASSUME HashAssumption == /\ Puts \subseteq Keys \X Values
                         /\ HashFuncs \subseteq [Keys -> Nat]
                         /\ DefaultHash \in HashFuncs \cup {NULL}
                         /\ DefaultComp \in BOOLEAN
                         /\ ExpectedSizes \subseteq Int
                         /\ MaxCapacity \in Nat
ASSUME NodeAssumption == NULL \notin Node /\ DELETED \notin Node
ASSUME ValueAssumption == /\ \A u, v \in Values : Combine(u, v) \in Values
                          /\ \A k \in Keys, v \in Values : Change(k, v) \in Values

(* A null pointer in place of a table: unlike NULL, known to differ from every table. *)
NoTable == [capacity |-> 0]

VARIABLES table,     \* the table, or NoTable
          reply,     \* the last call and its result
          overdue    \* history: a rebuild failed and none has succeeded since

vars == <<table, reply, overdue>>

Answer(call, rc, value) == [call |-> call, rc |-> rc, value |-> value]
Failed(call) == Answer(call, -1, NULL)
Configured == Answer(<<"configure">>, 0, NULL)

Hash(k) == table.hash_func[k]

Ready == table # NoTable /\ table.hash_func # NULL

Init == table = NoTable /\ reply = Answer(<<"none">>, 0, NULL) /\ overdue = FALSE

-----------------------------------------------------------------------------
Create(n) ==
  /\ table = NoTable
  /\ \/ /\ InitialCapacity(n) <= MaxCapacity
        /\ table' = New(n, DefaultHash, DefaultComp, FALSE)
        /\ reply' = Configured
     \/ table' = NoTable /\ reply' = Failed(<<"configure">>)
  /\ UNCHANGED overdue

Destroy == /\ table # NoTable
           /\ table' = NoTable
           /\ overdue' = FALSE
           /\ reply' = Answer(<<"destroy">>, 0, NULL)

(* set_hash is refused unless the table is empty; markers may be left in it. *)
SetHash(f) ==
  /\ table # NoTable
  /\ IF table.size > 0 THEN reply' = Answer(<<"configure">>, -1, NULL) /\ UNCHANGED table
     ELSE reply' = Configured /\ table' = [table EXCEPT !.hash_func = f]
  /\ UNCHANGED overdue

(* A program that takes the compare function away has no two entries with the same
   hash, which would then be the same key. *)
SetComp(c) ==
  /\ table # NoTable
  /\ c \/ \A s, u \in Live(table) : s # u => table.A[s].hash # table.A[u].hash
  /\ table' = [table EXCEPT !.comp = c]
  /\ reply' = Configured
  /\ UNCHANGED overdue

SetUpdate(u) ==
  /\ table # NoTable
  /\ table' = [table EXCEPT !.update = u]
  /\ reply' = Configured
  /\ UNCHANGED overdue

-----------------------------------------------------------------------------
(* put *)

Absent(k) == table.A[End(table, Hash(k), k)] = NULL

PutFound(k, v) ==
  LET s == End(table, Hash(k), k)
  IN  /\ Ready
      /\ ~Absent(k)
      /\ table' = [table EXCEPT !.A[s].value = IF table.update THEN Combine(@, v) ELSE v]
      /\ reply' = Answer(<<"put", k, v>>, 1, NULL)
      /\ UNCHANGED overdue

PutNew(k, v) ==
  LET s == Target(table, Hash(k))
      t == Inserted(table, s, [hash |-> Hash(k), key |-> k, value |-> v])
  IN  /\ Ready
      /\ Absent(k)
      /\ ~LastSlot(table, s)
      /\ \/ /\ ~OverLoaded(t)
            /\ table' = t
            /\ UNCHANGED overdue
         \/ /\ OverLoaded(t)
            /\ NewCapacity(t) <= MaxCapacity
            /\ table' = Rebuilt(t)
            /\ overdue' = FALSE
         \/ /\ OverLoaded(t)
            /\ table' = t
            /\ overdue' = TRUE
      /\ reply' = Answer(<<"put", k, v>>, 0, NULL)

PutNoMemory(k, v) ==
  /\ Ready
  /\ Absent(k)
  /\ ~LastSlot(table, Target(table, Hash(k)))
  /\ reply' = Failed(<<"put", k, v>>)
  /\ UNCHANGED <<table, overdue>>

PutRefused(k, v) ==
  /\ Ready
  /\ Absent(k)
  /\ LastSlot(table, Target(table, Hash(k)))
  /\ reply' = Failed(<<"put", k, v>>)
  /\ UNCHANGED <<table, overdue>>

-----------------------------------------------------------------------------
(* get and remove *)

Get(k) ==
  LET s == End(table, Hash(k), k)
  IN  /\ Ready
      /\ reply' = IF Absent(k) THEN Answer(<<"get", k>>, 0, NULL)
                  ELSE Answer(<<"get", k>>, 1, table.A[s].value)
      /\ UNCHANGED <<table, overdue>>

Remove(k) ==
  LET s == End(table, Hash(k), k)
  IN  /\ Ready
      /\ ~Absent(k)
      /\ table' = Removed(table, s)
      /\ reply' = Answer(<<"remove", k>>, 1, table.A[s].value)
      /\ UNCHANGED overdue

RemoveAbsent(k) ==
  /\ Ready
  /\ Absent(k)
  /\ reply' = Answer(<<"remove", k>>, 0, NULL)
  /\ UNCHANGED <<table, overdue>>

(* put, get and remove without a table or without a hash function. *)
NotReady == /\ ~Ready
            /\ \E k \in Keys : reply' = Answer(<<"get", k>>, -1, NULL)
            /\ UNCHANGED <<table, overdue>>

-----------------------------------------------------------------------------
Apply ==
  /\ table # NoTable
  /\ table' = [table EXCEPT !.A = [s \in Slots(table) |->
                 LET n == table.A[s]
                 IN  IF IsNode(n) THEN [n EXCEPT !.value = Change(n.key, n.value)] ELSE n]]
  /\ reply' = Answer(<<"apply">>, 0, NULL)
  /\ UNCHANGED overdue

Size == /\ table # NoTable
        /\ reply' = Answer(<<"size", NULL>>, table.size, NULL)
        /\ UNCHANGED <<table, overdue>>

(* first, and next until it answers that there are no more: the position passes the
   slots without entries. *)
Meet(met, x) == IF IsNode(x) THEN Append(met, <<x.key, x.value>>) ELSE met

Walked(t) ==
  LET Met[curr \in 0 .. t.capacity] ==
        IF curr = 0 THEN <<>> ELSE Meet(Met[curr - 1], t.A[curr - 1])
  IN  Met[t.capacity]

Walk == /\ table # NoTable
        /\ reply' = Answer(<<"walk">>, 0, Walked(table))
        /\ UNCHANGED <<table, overdue>>

(* clone: the copy has only the room that its entries need.  The program destroys
   the original and goes on with the copy. *)
Copied(t) ==
  [PlaceAll(New(t.size, t.hash_func, t.comp, t.update), t.A)
     EXCEPT !.size = t.size, !.used = t.size]

Clone == /\ table # NoTable
         /\ table' = Copied(table)
         /\ overdue' = FALSE
         /\ reply' = Configured

CloneFails == /\ table # NoTable
              /\ reply' = Failed(<<"configure">>)
              /\ UNCHANGED <<table, overdue>>

Next == \/ \E n \in ExpectedSizes : Create(n)
        \/ Destroy \/ Apply \/ Size \/ Walk \/ Clone \/ CloneFails \/ NotReady
        \/ \E f \in HashFuncs : SetHash(f)
        \/ \E b \in BOOLEAN : SetComp(b) \/ SetUpdate(b)
        \/ \E k \in Keys : Get(k) \/ Remove(k) \/ RemoveAbsent(k)
        \/ \E p \in Puts : LET k == p[1]
                            v == p[2]
                        IN  PutFound(k, v) \/ PutNew(k, v) \/ PutNoMemory(k, v) \/ PutRefused(k, v)

Spec == Init /\ [][Next]_vars

-----------------------------------------------------------------------------
(* Properties *)

\* A table has the fields of the struct, and its counters and its shift agree with
\* its slots: size is the number of entries, used that of entries and markers.
TypeOK == /\ \/ table = NoTable
             \/ /\ table.hash_func \in HashFuncs \cup {NULL}
                /\ {table.comp, table.update} \subseteq BOOLEAN
                /\ \A s \in Live(table) : table.A[s] \in Node
                /\ WellFormed(table)
          /\ overdue \in BOOLEAN

\* Every call returns: the probing for any key, present or not, comes to an empty
\* slot, whatever was put and removed and whichever allocations failed.
ProbesEnd == Ready => ProbesEndIn(table, {Hash(k) : k \in Keys})

\* The counters are true, and unless a rebuild failed for lack of memory, also in a
\* clone, at most three quarters of the slots are in use.
LoadBounded == /\ TypeOK
               /\ table # NoTable /\ ~overdue => 4 * table.used <= 3 * table.capacity

\* What the table says as a map, for ImplementsMap: its entries, and what tells
\* its keys apart
Entries == IF table = NoTable THEN [k \in {} |-> NULL] ELSE Contents(table)
Id(k) == IF ~Ready THEN NULL ELSE IF table.comp THEN <<Hash(k), k>> ELSE <<Hash(k)>>
Ids == [k \in Keys |-> Id(k)]
Updates == table # NoTable /\ table.update

Map == INSTANCE KeyValueMap WITH
         map <- Entries, id <- Ids, update <- Updates, ready <- Ready,
         misused <- FALSE

\* The table is a map: a key is found, with the value last stored for it, exactly
\* from its put to its removal, through removals of other keys on its way, reuse
\* of their slots, rebuilding, cloning and changes of the functions, and a call
\* that fails changes nothing.
ImplementsMap == Map!Spec
=============================================================================
