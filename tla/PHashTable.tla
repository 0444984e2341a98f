----------------------------- MODULE PHashTable -----------------------------
(* The thread-safe hash table of src/include/phash_table.h: a hash table and a
   read-write lock.  A call computes the hash of its key before it takes the lock,
   with the hash function the table has then; get takes the lock for reading,
   every other call but size for writing.

   The steps of a call: it starts (hash computed), takes the lock, looks for the
   key, reads or writes the slot it found, perhaps rebuilds the table, and releases
   the lock.  Other threads may move between any two of them. *)
EXTENDS ProbeTable, Sequences

CONSTANTS Threads, Keys, Values,
          Calls,             \* the calls the threads make, see CallTypes
          Combine(_, _),     \* the function of set_update and of atomic_update
          FirstHash, SecondHash,  \* the hash function of the table and the one for set_hash
          DefaultComp,       \* whether comp.h has a compare function for the keys
          Histories,         \* the sequences of calls that may have been made before the
                             \* table is shared
          MaxCapacity,       \* bound: larger tables are not allocated
          MaxCalls           \* bound: calls after the table is shared

CallTypes == ({"put", "atomic_update"} \X Keys \X Values)
               \cup ({"get", "remove"} \X Keys)
               \cup ({"size", "set_hash", "set_update", "set_comp"} \X {NULL})

Node == [hash : Nat, key : Keys, value : Values]

ASSUME PHashAssumption == /\ NULL \notin Threads
                          /\ Calls \subseteq CallTypes
                          /\ Histories \subseteq Seq(CallTypes)
                          /\ {FirstHash, SecondHash} \subseteq [Keys -> Nat]
                          /\ DefaultComp \in BOOLEAN
                          /\ MaxCapacity \in Nat
                          /\ MaxCalls \in Nat
ASSUME NodeAssumption == NULL \notin Node /\ DELETED \notin Node
ASSUME ValueAssumption == \A u, v \in Values : Combine(u, v) \in Values

VARIABLES table,
          writer,    \* the thread that holds the lock for writing, or NULL
          readers,   \* the threads that hold it for reading
          pc,        \* pc[t]: "idle", or where thread t is inside its call
          call,      \* call[t]: the call it is in
          hash,      \* hash[t]: the hash it computed
          slot,      \* slot[t]: the slot it found
          old,       \* old[t]: the value it read there
          count,     \* the number of calls started
          reply,     \* history: the last call that took effect, and its result
          misused    \* history: set_hash took effect while another call was running

vars == <<table, writer, readers, pc, call, hash, slot, old, count, reply, misused>>

Answer(t, rc, value) == [call |-> call[t], rc |-> rc, value |-> value]

Key(t) == call[t][2]
Keyed == {"put", "atomic_update", "get", "remove"}

(* The table as the threads get it: puts of new keys and removals were made, and no
   rebuild had memory.  A call for which there is no room or no entry changed nothing. *)
Put1(t, k, v) ==
  LET h == t.hash_func[k]
      s == Target(t, h)
  IN  IF t.A[End(t, h, k)] = NULL /\ ~LastSlot(t, s)
      THEN Inserted(t, s, [hash |-> h, key |-> k, value |-> v])
      ELSE t

Remove1(t, k) == LET s == End(t, t.hash_func[k], k)
                 IN  IF t.A[s] = NULL THEN t ELSE Removed(t, s)

Do(t, c) == CASE c[1] = "put" -> Put1(t, c[2], c[3])
              [] c[1] = "remove" -> Remove1(t, c[2])
              [] OTHER -> t

EmptyTable == New(0, FirstHash, DefaultComp, FALSE)

After(history) ==
  LET T[n \in 0 .. Len(history)] ==
        IF n = 0 THEN EmptyTable ELSE Do(T[n - 1], history[n])
  IN  T[Len(history)]

Shared == {After(history) : history \in Histories}

Init == /\ table \in Shared
        /\ writer = NULL
        /\ readers = {}
        /\ pc = [t \in Threads |-> "idle"]
        /\ call = [t \in Threads |-> NULL]
        /\ hash = [t \in Threads |-> 0]
        /\ slot = [t \in Threads |-> 0]
        /\ old = [t \in Threads |-> NULL]
        /\ count = 0
        /\ reply = [call |-> <<"none">>, rc |-> 0, value |-> NULL]
        /\ misused = FALSE

Go(t, l) == pc' = [pc EXCEPT ![t] = l]

-----------------------------------------------------------------------------
(* Starting a call *)

Start(t, c) ==
  /\ pc[t] = "idle"
  /\ count < MaxCalls
  /\ c[1] # "size"
  /\ count' = count + 1
  /\ call' = [call EXCEPT ![t] = c]
  /\ hash' = [hash EXCEPT ![t] = IF c[1] \in Keyed THEN table.hash_func[c[2]] ELSE 0]
  /\ Go(t, "lock")
  /\ UNCHANGED <<table, writer, readers, slot, old, reply, misused>>

(* size is one load of an atomic counter, without the lock. *)
Size(t, c) ==
  /\ pc[t] = "idle"
  /\ count < MaxCalls
  /\ c[1] = "size"
  /\ count' = count + 1
  /\ reply' = [call |-> c, rc |-> table.size, value |-> NULL]
  /\ UNCHANGED <<table, writer, readers, pc, call, hash, slot, old, misused>>

\* Mutant: get does not wait for a writer to finish.
RdLockAnyway(t) ==
  /\ pc[t] = "lock"
  /\ call[t][1] = "get"
  /\ readers' = readers \cup {t}
  /\ Go(t, "locked")
  /\ UNCHANGED <<table, writer, call, hash, slot, old, count, reply, misused>>

RdLock(t) ==
  /\ pc[t] = "lock"
  /\ call[t][1] = "get"
  /\ writer = NULL
  /\ readers' = readers \cup {t}
  /\ Go(t, "locked")
  /\ UNCHANGED <<table, writer, call, hash, slot, old, count, reply, misused>>

WrLock(t) ==
  /\ pc[t] = "lock"
  /\ call[t][1] # "get"
  /\ writer = NULL /\ readers = {}
  /\ writer' = t
  /\ Go(t, "locked")
  /\ UNCHANGED <<table, readers, call, hash, slot, old, count, reply, misused>>

-----------------------------------------------------------------------------
(* Inside the lock *)

Present(t) == IsNode(table.A[End(table, hash[t], Key(t))])

LookFound(t) ==
  LET s == End(table, hash[t], Key(t))
  IN  /\ pc[t] = "locked"
      /\ call[t][1] \in Keyed
      /\ Present(t)
      /\ slot' = [slot EXCEPT ![t] = s]
      /\ old' = [old EXCEPT ![t] = table.A[s].value]
      /\ Go(t, "found")
      /\ UNCHANGED <<table, writer, readers, call, hash, count, reply, misused>>

LookAbsent(t) ==
  /\ pc[t] = "locked"
  /\ call[t][1] \in {"get", "remove"}
  /\ ~Present(t)
  /\ reply' = Answer(t, 0, NULL)
  /\ Go(t, "unlock absent")
  /\ UNCHANGED <<table, writer, readers, call, hash, slot, old, count, misused>>

(* put of a new key: where it goes, and whether it can go there. *)
LookNew(t) ==
  LET s == Target(table, hash[t])
  IN  /\ pc[t] = "locked"
      /\ call[t][1] \in {"put", "atomic_update"}
      /\ ~Present(t)
      /\ ~LastSlot(table, s)
      /\ slot' = [slot EXCEPT ![t] = s]
      /\ Go(t, "new")
      /\ UNCHANGED <<table, writer, readers, call, hash, old, count, reply, misused>>

\* the last slot, or no node from the pool
LookFails(t) ==
  /\ pc[t] = "locked"
  /\ call[t][1] \in {"put", "atomic_update"}
  /\ ~Present(t)
  /\ reply' = Answer(t, -1, NULL)
  /\ Go(t, "unlock")
  /\ UNCHANGED <<table, writer, readers, call, hash, slot, old, count, misused>>

Read(t) ==
  /\ pc[t] = "found"
  /\ call[t][1] = "get"
  /\ reply' = Answer(t, 1, table.A[slot[t]].value)
  /\ Go(t, "unlock")
  /\ UNCHANGED <<table, writer, readers, call, hash, slot, old, count, misused>>

Replace(t) ==
  /\ pc[t] = "found"
  /\ call[t][1] \in {"put", "atomic_update"}
  /\ table' = [table EXCEPT !.A[slot[t]].value =
                 IF call[t][1] = "atomic_update" \/ table.update
                 THEN Combine(old[t], call[t][3]) ELSE call[t][3]]
  /\ reply' = Answer(t, 1, NULL)
  /\ Go(t, "unlock")
  /\ UNCHANGED <<writer, readers, call, hash, slot, old, count, misused>>

TakeOut(t) ==
  /\ pc[t] = "found"
  /\ call[t][1] = "remove"
  /\ table' = Removed(table, slot[t])
  /\ reply' = Answer(t, 1, table.A[slot[t]].value)
  /\ Go(t, "unlock")
  /\ UNCHANGED <<writer, readers, call, hash, slot, old, count, misused>>

Insert(t) ==
  /\ pc[t] = "new"
  /\ table' = Inserted(table, slot[t], [hash |-> hash[t], key |-> Key(t), value |-> call[t][3]])
  /\ reply' = Answer(t, 0, NULL)
  /\ Go(t, IF OverLoaded(table') THEN "rebuild" ELSE "unlock")
  /\ UNCHANGED <<writer, readers, call, hash, slot, old, count, misused>>

Rebuild(t) ==
  /\ pc[t] = "rebuild"
  /\ NewCapacity(table) <= MaxCapacity
  /\ table' = Rebuilt(table)
  /\ Go(t, "unlock")
  /\ UNCHANGED <<writer, readers, call, hash, slot, old, count, reply, misused>>

RebuildFails(t) ==
  /\ pc[t] = "rebuild"
  /\ Go(t, "unlock")
  /\ UNCHANGED <<table, writer, readers, call, hash, slot, old, count, reply, misused>>

\* Mutant: set_hash does not ask whether there are entries.
SetAnyHash(t) ==
  /\ pc[t] = "locked"
  /\ call[t][1] \notin Keyed
  /\ LET refused == FALSE
     IN  /\ table' = CASE refused -> table
                       [] call[t][1] = "set_update" -> [table EXCEPT !.update = TRUE]
                       [] call[t][1] = "set_comp" -> [table EXCEPT !.comp = TRUE]
                       [] OTHER -> [table EXCEPT !.hash_func = SecondHash]
         /\ reply' = [call |-> <<"configure">>, rc |-> IF refused THEN -1 ELSE 0, value |-> NULL]
         /\ misused' = \/ misused
                       \/ /\ call[t][1] = "set_hash" /\ ~refused
                          /\ \E u \in Threads \ {t} : pc[u] # "idle"
         /\ Go(t, IF refused THEN "unlock refused" ELSE "unlock")
  /\ UNCHANGED <<writer, readers, call, hash, slot, old, count>>

(* The functions of the table.  set_hash must not run together with other calls:
   they may have computed their hashes with the old function. *)
Set(t) ==
  /\ pc[t] = "locked"
  /\ call[t][1] \notin Keyed
  /\ LET refused == call[t][1] = "set_hash" /\ table.size > 0
     IN  /\ table' = CASE refused -> table
                       [] call[t][1] = "set_update" -> [table EXCEPT !.update = TRUE]
                       [] call[t][1] = "set_comp" -> [table EXCEPT !.comp = TRUE]
                       [] OTHER -> [table EXCEPT !.hash_func = SecondHash]
         /\ reply' = [call |-> <<"configure">>, rc |-> IF refused THEN -1 ELSE 0, value |-> NULL]
         /\ misused' = \/ misused
                       \/ /\ call[t][1] = "set_hash" /\ ~refused
                          /\ \E u \in Threads \ {t} : pc[u] # "idle"
         /\ Go(t, IF refused THEN "unlock refused" ELSE "unlock")
  /\ UNCHANGED <<writer, readers, call, hash, slot, old, count>>

-----------------------------------------------------------------------------
(* Releasing the lock: each return statement has its own release. *)

Release(t) ==
  /\ writer' = IF writer = t THEN NULL ELSE writer
  /\ readers' = readers \ {t}
  /\ Go(t, "idle")
  /\ UNCHANGED <<table, call, hash, slot, old, count, reply, misused>>

(* put and atomic_update *)
UnlockPut(t) == pc[t] = "unlock" /\ call[t][1] \in {"put", "atomic_update"} /\ Release(t)

\* get, and its loop came to an empty slot
UnlockGetAbsent(t) == pc[t] = "unlock absent" /\ call[t][1] = "get" /\ Release(t)

UnlockGet(t) == pc[t] = "unlock" /\ call[t][1] = "get" /\ Release(t)

\* Mutant: this return statement has no release.
UnlockRemoveAbsentForgotten(t) ==
  /\ pc[t] = "unlock absent"
  /\ call[t][1] = "remove"
  /\ Go(t, "idle")
  /\ UNCHANGED <<table, writer, readers, call, hash, slot, old, count, reply, misused>>

\* remove, and its loop came to an empty slot
UnlockRemoveAbsent(t) == pc[t] = "unlock absent" /\ call[t][1] = "remove" /\ Release(t)

UnlockRemove(t) == pc[t] = "unlock" /\ call[t][1] = "remove" /\ Release(t)

\* set_hash on a table with entries
UnlockRefused(t) == pc[t] = "unlock refused" /\ Release(t)

UnlockSet(t) == pc[t] = "unlock" /\ call[t][1] \notin Keyed /\ Release(t)

Unlock(t) == \/ UnlockPut(t) \/ UnlockGetAbsent(t) \/ UnlockGet(t)
             \/ UnlockRemoveAbsent(t) \/ UnlockRemove(t)
             \/ UnlockRefused(t) \/ UnlockSet(t)

Lock(t) == RdLock(t) \/ WrLock(t)

Inside(t) == \/ LookFound(t) \/ LookAbsent(t) \/ LookNew(t) \/ LookFails(t)
             \/ Read(t) \/ Replace(t) \/ TakeOut(t) \/ Insert(t)
             \/ Rebuild(t) \/ RebuildFails(t) \/ Set(t) \/ Unlock(t)

Next == \E t \in Threads : \/ \E c \in Calls : Start(t, c) \/ Size(t, c)
                           \/ Lock(t) \/ Inside(t)

Spec == Init /\ [][Next]_vars

-----------------------------------------------------------------------------
(* Properties *)

\* The fields have their types; at every step of every thread, holding the lock or
\* not, size is the number of entries (it is read without the lock) and used that of
\* the slots that are not empty.
TypeOK == /\ WellFormed(table)
          /\ \A s \in Live(table) : table.A[s] \in Node
          /\ writer \in Threads \cup {NULL}
          /\ readers \subseteq Threads
          /\ pc \in [Threads -> {"idle", "lock", "locked", "found", "new", "rebuild", "unlock",
                               "unlock absent", "unlock refused"}]
          /\ call \in [Threads -> Calls \cup {NULL}]
          /\ hash \in [Threads -> Nat]
          /\ slot \in [Threads -> Nat]
          /\ old \in [Threads -> Values \cup {NULL}]
          /\ count \in 0 .. MaxCalls
          /\ misused \in BOOLEAN

\* Every probing ends, also one with a hash that was computed with a hash function
\* that was then replaced: an empty slot is always left.
ProbesEnd == \A t \in Threads :
               ProbesEndIn(table, {table.hash_func[k] : k \in Keys} \cup {hash[t]})

\* Every way out of a call releases the lock, and no other thread's lock: a thread
\* holds it exactly while it is inside, whichever return statement it comes to.  What it does there never waits, so that the
\* threads waiting for the lock get their turn.
HeldInside == \A t \in Threads :
                (writer = t \/ t \in readers) <=> pc[t] \notin {"idle", "lock"}

\* What a thread found inside the lock stays so until it uses it: the slot of the key
\* and the value there, or the free slot where the key goes.
FoundKept ==
  \A t \in Threads :
    /\ pc[t] = "found" => /\ slot[t] = End(table, hash[t], Key(t))
                          /\ IsNode(table.A[slot[t]])
                          /\ table.A[slot[t]].value = old[t]
    /\ pc[t] = "new" => slot[t] = Target(table, hash[t]) /\ ~LastSlot(table, slot[t])

\* The slot that a thread found inside the lock stays what it was: the key's entry
\* with the value read there, or free.  Between the steps of a call the counters are
\* true, and probing by anybody would end, too.
SlotKept == /\ TypeOK
            /\ ProbesEnd
            /\ FoundKept
            /\ \A t \in Threads :
                 /\ pc[t] = "found" => Holds(table, slot[t], hash[t], Key(t))
                 /\ pc[t] = "new" => ~IsNode(table.A[slot[t]])

\* What the table says as a map, for ImplementsMap: its entries, and what tells its
\* keys apart
Entries == Contents(table)
Id(k) == IF table.comp THEN <<table.hash_func[k], k>> ELSE <<table.hash_func[k]>>
Ids == [k \in Keys |-> Id(k)]
Updates == table.update

Map == INSTANCE KeyValueMap WITH
         Change <- Combine, map <- Entries, id <- Ids, update <- Updates, ready <- TRUE

\* The calls of all threads take effect one after the other, each at one moment
\* while it runs, as on a map (as long as set_hash is not called together with
\* other calls); so no atomic_update is lost.
ImplementsMap == Map!Spec
=============================================================================
