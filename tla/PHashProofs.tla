---------------------------- MODULE PHashProofs ----------------------------
(* Theorems about PHashTable, for every number of threads, all calls, hash functions and
   histories: its lock, its slots between any two steps, and that it implements
   KeyValueMap. *)
EXTENDS PHashTable, ProbeProofs

Inner == {"locked", "found", "new", "rebuild", "unlock", "unlock absent", "unlock refused"}
Labels == {"idle", "lock"} \cup Inner

(* The part of the type invariant that is about the lock, and HeldInside.  A thread
   that takes the lock for writing finds nobody inside, because nobody holds it. *)
LockInv == /\ writer \in Threads \cup {NULL}
           /\ readers \subseteq Threads
           /\ pc \in [Threads -> Labels]
           /\ HeldInside

(* While a thread writes, no other is inside. *)
WriterAlone == writer # NULL => \A t \in Threads \ {writer} : pc[t] \in {"idle", "lock"}

(* Initially nobody holds the lock, and nobody is inside. *)
LEMMA LockInit == ASSUME Init PROVE LockInv /\ readers = {}
  BY PHashAssumption DEF Init, LockInv, HeldInside, Labels

(* Every return statement gives the lock back, and does nothing else. *)
LEMMA EveryUnlockReleases ==
  ASSUME NEW t \in Threads, Unlock(t)
  PROVE  Release(t) /\ pc[t] \in {"unlock", "unlock absent", "unlock refused"}
BY DEF Unlock, UnlockPut, UnlockGetAbsent, UnlockGet, UnlockRemoveAbsent, UnlockRemove,
       UnlockRefused, UnlockSet

(* What the steps between taking the lock and releasing it do to the lock: nothing. *)
Onward(t) == /\ pc[t] \in Inner
             /\ \E l \in Inner : pc' = [pc EXCEPT ![t] = l]
             /\ UNCHANGED <<writer, readers>>

LEMMA InsideGoesOn ==
  ASSUME NEW t \in Threads, pc \in [Threads -> Labels], Inside(t)
  PROVE  Onward(t) \/ Unlock(t)
<1>1. CASE LookFound(t) BY <1>1 DEF LookFound, Go, Onward, Inner
<1>2. CASE LookAbsent(t) BY <1>2 DEF LookAbsent, Go, Onward, Inner
<1>3. CASE LookNew(t) BY <1>3 DEF LookNew, Go, Onward, Inner
<1>4. CASE LookFails(t) BY <1>4 DEF LookFails, Go, Onward, Inner
<1>5. CASE Read(t) BY <1>5 DEF Read, Go, Onward, Inner
<1>6. CASE Replace(t) BY <1>6 DEF Replace, Go, Onward, Inner
<1>7. CASE TakeOut(t) BY <1>7 DEF TakeOut, Go, Onward, Inner
<1>8. CASE Insert(t) BY <1>8 DEF Insert, Go, Onward, Inner
<1>9. CASE Rebuild(t) BY <1>9 DEF Rebuild, Go, Onward, Inner
<1>10. CASE RebuildFails(t) BY <1>10 DEF RebuildFails, Go, Onward, Inner
<1>11. CASE Set(t) BY <1>11 DEF Set, Go, Onward, Inner
<1>12. CASE Unlock(t) BY <1>12
<1>13. QED
  BY <1>1, <1>2, <1>3, <1>4, <1>5, <1>6, <1>7, <1>8, <1>9, <1>10, <1>11, <1>12, Inside(t)
  DEF Inside

(* Every step leaves the lock with those inside. *)
LEMMA LockStep == ASSUME LockInv, [Next]_vars PROVE LockInv'
<1>1. CASE UNCHANGED vars
  BY <1>1 DEF vars, LockInv, HeldInside, Labels, Inner
<1>2. ASSUME NEW t \in Threads, NEW c \in Calls, Start(t, c) PROVE LockInv'
  BY <1>2 DEF Start, Go, LockInv, HeldInside, Labels, Inner
<1>3. ASSUME NEW t \in Threads, NEW c \in Calls, Size(t, c) PROVE LockInv'
  BY <1>3 DEF Size, LockInv, HeldInside, Labels, Inner
<1>4. ASSUME NEW t \in Threads, RdLock(t) PROVE LockInv'
  BY <1>4, PHashAssumption DEF RdLock, Go, LockInv, HeldInside, Labels, Inner
<1>5. ASSUME NEW t \in Threads, WrLock(t) PROVE LockInv'
  BY <1>5, PHashAssumption DEF WrLock, Go, LockInv, HeldInside, Labels, Inner
<1>6. ASSUME NEW t \in Threads, Onward(t) PROVE LockInv'
  BY <1>6 DEF Onward, LockInv, HeldInside, Labels, Inner
<1>7. ASSUME NEW t \in Threads, Unlock(t) PROVE LockInv'
  BY <1>7, EveryUnlockReleases, PHashAssumption
  DEF Release, Go, LockInv, HeldInside, Labels, Inner
<1>8. QED
  BY <1>1, <1>2, <1>3, <1>4, <1>5, <1>6, <1>7, InsideGoesOn DEF Next, Lock, LockInv

(* HeldInside of PHashTable (phash_put, phash_get and the others): every way out of a
   call releases the lock, and no thread gives away the lock of another. *)
THEOREM Held == Spec => []HeldInside
<1>1. Init => LockInv
  BY LockInit
<1>2. LockInv /\ [Next]_vars => LockInv'
  BY LockStep
<1>3. LockInv => HeldInside
  BY DEF LockInv
<1>4. QED
  BY <1>1, <1>2, <1>3, PTL DEF Spec

-----------------------------------------------------------------------------
(* Who changes the table *)

(* get takes the lock for reading, the others for writing; nobody reads while somebody
   writes; a new entry comes from the two functions that put one. *)
ModeInv ==
  /\ LockInv
  /\ writer # NULL => readers = {} /\ call[writer][1] # "get"
  /\ \A t \in readers : call[t][1] = "get"
  /\ \A t \in Threads : pc[t] \in {"new", "rebuild"} => call[t][1] # "get"
  /\ call \in [Threads -> Calls \cup {NULL}]
  /\ DOMAIN hash = Threads /\ DOMAIN slot = Threads /\ DOMAIN old = Threads

LEMMA ModeInit == ASSUME Init PROVE ModeInv
  BY LockInit DEF Init, ModeInv

(* Inside a call its thread keeps the lock, and comes to "new" or "rebuild" only if it
   is no get. *)
LEMMA InsideMode ==
  ASSUME ModeInv, NEW t \in Threads, Inside(t), ~Unlock(t)
  PROVE  /\ UNCHANGED <<writer, readers, call>>
         /\ \A u \in Threads \ {t} : pc'[u] = pc[u]
         /\ pc'[t] \in {"new", "rebuild"} => call[t][1] # "get"
         /\ DOMAIN hash' = DOMAIN hash /\ DOMAIN slot' = DOMAIN slot /\ DOMAIN old' = DOMAIN old
<1> USE DEF ModeInv, LockInv, Go
<1>1. CASE LookFound(t) BY <1>1 DEF LookFound
<1>2. CASE LookAbsent(t) BY <1>2 DEF LookAbsent
<1>3. CASE LookNew(t) BY <1>3 DEF LookNew
<1>4. CASE LookFails(t) BY <1>4 DEF LookFails
<1>5. CASE Read(t) BY <1>5 DEF Read
<1>6. CASE Replace(t) BY <1>6 DEF Replace
<1>7. CASE TakeOut(t) BY <1>7 DEF TakeOut
<1>8. CASE Insert(t) BY <1>8 DEF Insert
<1>9. CASE Rebuild(t) BY <1>9 DEF Rebuild
<1>10. CASE RebuildFails(t) BY <1>10 DEF RebuildFails
<1>11. CASE Set(t) BY <1>11 DEF Set
<1>12. QED
  BY <1>1, <1>2, <1>3, <1>4, <1>5, <1>6, <1>7, <1>8, <1>9, <1>10, <1>11 DEF Inside

LEMMA ModeStep == ASSUME ModeInv, [Next]_vars PROVE ModeInv'
<1> USE DEF ModeInv
<1>0. LockInv'
  BY LockStep
<1>1. CASE UNCHANGED vars
  BY <1>0, <1>1 DEF vars
<1>2. ASSUME NEW t \in Threads, NEW c \in Calls, Start(t, c) PROVE ModeInv'
  <2>1. t # writer /\ t \notin readers
    BY <1>2 DEF Start, LockInv, HeldInside
  <2>2. QED
    BY <1>0, <1>2, <2>1, PHashAssumption DEF Start, Go, LockInv
<1>3. ASSUME NEW t \in Threads, NEW c \in Calls, Size(t, c) PROVE ModeInv'
  BY <1>0, <1>3 DEF Size
<1>4. ASSUME NEW t \in Threads, RdLock(t) PROVE ModeInv'
  BY <1>0, <1>4 DEF RdLock, Go, LockInv
<1>5. ASSUME NEW t \in Threads, WrLock(t) PROVE ModeInv'
  BY <1>0, <1>5 DEF WrLock, Go, LockInv
<1>6. ASSUME NEW t \in Threads, Inside(t), ~Unlock(t) PROVE ModeInv'
  BY <1>0, <1>6, InsideMode
<1>7. ASSUME NEW t \in Threads, Unlock(t) PROVE ModeInv'
  <2>1. Release(t)
    BY <1>7, EveryUnlockReleases
  <2> QED
    BY <1>0, <2>1 DEF Release, Go, LockInv
<1>8. QED
  BY <1>1, <1>2, <1>3, <1>4, <1>5, <1>6, <1>7 DEF Next, Lock

(* The table changes only in the hands of the thread that holds it for writing, and
   then no other thread is inside. *)
ChangedAlone ==
  [][table' # table => /\ writer \in Threads
                       /\ \A t \in Threads \ {writer} : pc[t] \in {"idle", "lock"}]_vars

(* Only these steps change the table, and a get makes none of them. *)
LEMMA ChangingStep ==
  ASSUME ModeInv, NEW t \in Threads, Inside(t), table' # table
  PROVE  pc[t] \in Inner /\ call[t][1] # "get"
<1>1. Replace(t) \/ TakeOut(t) \/ Insert(t) \/ Rebuild(t) \/ Set(t)
  BY EveryUnlockReleases
  DEF Inside, LookFound, LookAbsent, LookNew, LookFails, Read, RebuildFails, Release
<1>2. CASE Replace(t) BY <1>2 DEF Replace, Inner
<1>3. CASE TakeOut(t) BY <1>3 DEF TakeOut, Inner
<1>4. CASE Insert(t) BY <1>4 DEF Insert, Inner, ModeInv
<1>5. CASE Rebuild(t) BY <1>5 DEF Rebuild, Inner, ModeInv
<1>6. CASE Set(t) BY <1>6 DEF Set, Inner, Keyed
<1>7. QED
  BY <1>1, <1>2, <1>3, <1>4, <1>5, <1>6

(* It has the lock, and nobody else is inside. *)
LEMMA ChangerAlone ==
  ASSUME ModeInv, NEW t \in Threads, Inside(t), table' # table
  PROVE  writer = t /\ \A u \in Threads \ {t} : pc[u] \in {"idle", "lock"}
<1>1. pc[t] \in Inner /\ call[t][1] # "get"
  BY ChangingStep
<1>2. writer = t
  BY <1>1 DEF ModeInv, LockInv, HeldInside, Inner
<1>3. readers = {}
  BY <1>2, PHashAssumption DEF ModeInv
<1>4. QED
  BY <1>2, <1>3 DEF ModeInv, LockInv, HeldInside

LEMMA ChangeStep ==
  ASSUME ModeInv, [Next]_vars, table' # table
  PROVE  writer \in Threads /\ \A t \in Threads \ {writer} : pc[t] \in {"idle", "lock"}
<1>1. PICK t \in Threads : Inside(t)
  BY DEF Next, Lock, Start, Size, RdLock, WrLock, vars
<1>2. QED
  BY <1>1, ChangerAlone

(* No thread reads or writes the table of a thread-safe hash table while another changes
   it (phash_table.h: every call but size is inside the lock). *)
THEOREM Changes == Spec => ChangedAlone
<1>1. Init => ModeInv
  BY ModeInit
<1>2. ModeInv /\ [Next]_vars => ModeInv'
  BY ModeStep
<1>3. ModeInv /\ [Next]_vars => [table' # table => /\ writer \in Threads
        /\ \A t \in Threads \ {writer} : pc[t] \in {"idle", "lock"}]_vars
  BY ChangeStep
<1>4. QED
  BY <1>1, <1>2, <1>3, PTL DEF Spec, ChangedAlone

-----------------------------------------------------------------------------
(* What was found stays *)

LEMMA FoundInit == ASSUME Init PROVE FoundKept
  BY DEF Init, FoundKept

(* A step of a call changes nothing of the other calls. *)
LEMMA FoundInside ==
  ASSUME ModeInv, FoundKept, NEW t \in Threads, Inside(t)
  PROVE  /\ \A u \in Threads \ {t} : /\ pc'[u] = pc[u] /\ slot'[u] = slot[u]
                                     /\ hash'[u] = hash[u] /\ old'[u] = old[u]
                                     /\ call'[u] = call[u]
         /\ pc'[t] = "found" => LookFound(t)
         /\ pc'[t] = "new" => LookNew(t)
<1> USE DEF ModeInv, LockInv, Go, Labels, Inner
<1>1. CASE LookFound(t) BY <1>1 DEF LookFound
<1>2. CASE LookAbsent(t) BY <1>2 DEF LookAbsent
<1>3. CASE LookNew(t) BY <1>3 DEF LookNew
<1>4. CASE LookFails(t) BY <1>4 DEF LookFails
<1>5. CASE Read(t) BY <1>5 DEF Read
<1>6. CASE Replace(t) BY <1>6 DEF Replace
<1>7. CASE TakeOut(t) BY <1>7 DEF TakeOut
<1>8. CASE Insert(t) BY <1>8 DEF Insert
<1>9. CASE Rebuild(t) BY <1>9 DEF Rebuild
<1>10. CASE RebuildFails(t) BY <1>10 DEF RebuildFails
<1>11. CASE Set(t) BY <1>11 DEF Set
<1>12. CASE Unlock(t)
  <2>1. Release(t) /\ pc[t] # "idle"
    BY <1>12, EveryUnlockReleases
  <2> QED
    BY <2>1 DEF Release
<1>13. QED
  BY <1>1, <1>2, <1>3, <1>4, <1>5, <1>6, <1>7, <1>8, <1>9, <1>10, <1>11, <1>12 DEF Inside

(* A thread finds the slot of its key or a free one, and the table stays the same for the
   threads that found one before, because the lock keeps others from changing it. *)
LEMMA FoundStep == ASSUME ModeInv, FoundKept, [Next]_vars PROVE FoundKept'
<1>1. CASE UNCHANGED vars
  BY <1>1 DEF vars, FoundKept, Key
<1>2. ASSUME NEW t \in Threads, NEW c \in Calls, Start(t, c) PROVE FoundKept'
  BY <1>2 DEF Start, Go, FoundKept, Key, ModeInv, LockInv
<1>3. ASSUME NEW t \in Threads, NEW c \in Calls, Size(t, c) PROVE FoundKept'
  BY <1>3 DEF Size, FoundKept, Key
<1>4. ASSUME NEW t \in Threads, RdLock(t) PROVE FoundKept'
  BY <1>4 DEF RdLock, Go, FoundKept, Key, ModeInv, LockInv
<1>5. ASSUME NEW t \in Threads, WrLock(t) PROVE FoundKept'
  BY <1>5 DEF WrLock, Go, FoundKept, Key, ModeInv, LockInv
<1>6. ASSUME NEW t \in Threads, Inside(t) PROVE FoundKept'
  <2>1. ASSUME NEW u \in Threads \ {t}, pc[u] \in {"found", "new"} PROVE table' = table
    BY <1>6, <2>1, ChangerAlone
  <2>2. ASSUME NEW u \in Threads \ {t}
        PROVE  /\ pc'[u] = "found" => /\ slot'[u] = End(table', hash'[u], call'[u][2])
                                      /\ IsNode(table'.A[slot'[u]])
                                      /\ table'.A[slot'[u]].value = old'[u]
               /\ pc'[u] = "new" => /\ slot'[u] = Target(table', hash'[u])
                                    /\ ~LastSlot(table', slot'[u])
    BY <1>6, <2>1, FoundInside DEF FoundKept, Key
  <2>3. CASE LookFound(t)
    BY <2>2, <2>3 DEF LookFound, Go, Present, Key, FoundKept, ModeInv, LockInv
  <2>4. CASE LookNew(t)
    BY <2>2, <2>4 DEF LookNew, Go, Key, FoundKept, ModeInv, LockInv
  <2>5. CASE pc'[t] \notin {"found", "new"}
    BY <2>2, <2>5 DEF FoundKept, Key
  <2>6. QED
    BY <1>6, <2>3, <2>4, <2>5, FoundInside
<1>7. QED
  BY <1>1, <1>2, <1>3, <1>4, <1>5, <1>6 DEF Next, Lock

(* phash_put_locked, phash_get and phash_remove look for a slot and then use it: what
   they found is still there. *)
THEOREM Found == Spec => []FoundKept
<1>1. Init => ModeInv /\ FoundKept
  BY ModeInit, FoundInit
<1>2. ModeInv /\ FoundKept /\ [Next]_vars => ModeInv' /\ FoundKept'
  BY ModeStep, FoundStep
<1>3. QED
  BY <1>1, <1>2, PTL DEF Spec
-----------------------------------------------------------------------------
(* The table that the threads get *)

SharedTable(t) == /\ SoundTable(t, Node)
                  /\ t.hash_func \in [Keys -> Nat]
                  /\ t.comp \in BOOLEAN /\ t.update \in BOOLEAN

LEMMA NodesAreNodes == AreNodes(Node)
BY NodeAssumption DEF AreNodes, Node, IsNode

LEMMA CallArguments ==
  ASSUME NEW c \in CallTypes
  PROVE  /\ c[1] \in Keyed => c[2] \in Keys
         /\ c[1] \in {"put", "atomic_update"} => c[3] \in Values
BY DEF CallTypes, Keyed

(* Probing in such a table ends in it. *)
LEMMA ProbingEnds ==
  ASSUME NEW t, SharedTable(t), NEW h \in Nat, NEW k
  PROVE  /\ End(t, h, k) \in Slots(t)
         /\ t.A[End(t, h, k)] # NULL => /\ End(t, h, k) \in Live(t)
                                        /\ t.A[End(t, h, k)] \in Node
                                        /\ Holds(t, End(t, h, k), h, k)
         /\ Target(t, h) \in Slots(t) /\ ~IsNode(t.A[Target(t, h)])
<1>1. SoundTable(t, Node) /\ Sized(t) /\ \E e \in Slots(t) : t.A[e] = NULL
  BY SoundSized DEF SharedTable
<1>2. /\ End(t, h, k) \in Slots(t)
      /\ t.A[End(t, h, k)] = NULL \/ Holds(t, End(t, h, k), h, k)
  BY <1>1, EndStops
<1>3. Target(t, h) \in Slots(t) /\ ~IsNode(t.A[Target(t, h)])
  BY <1>1, TargetIsFree DEF IsNode
<1>4. Holds(t, End(t, h, k), h, k) => End(t, h, k) \in Live(t)
  BY <1>2 DEF Holds, Live
<1> QED
  BY <1>1, <1>2, <1>3, <1>4 DEF SoundTable

(* A new entry in a free slot, and the removal of one *)
LEMMA InsertedShared ==
  ASSUME NEW t, SharedTable(t), NEW s \in Slots(t), ~IsNode(t.A[s]), ~LastSlot(t, s), NEW x \in Node,
         NEW u, u = Inserted(t, s, x)
  PROVE  SharedTable(u)
<1>1. SoundTable(u, Node) /\ u.hash_func = t.hash_func /\ {u.comp, u.update} = {t.comp, t.update}
  <2>1. SoundTable(t, Node)
    BY DEF SharedTable
  <2> QED
    BY <2>1, NodesAreNodes, InsertedSound
<1>2. {t.comp, t.update} \subseteq BOOLEAN
  BY DEF SharedTable
<1>3. {u.comp, u.update} \subseteq BOOLEAN
  BY ONLY <1>1, <1>2, Zenon
<1> QED
  BY <1>1, <1>3 DEF SharedTable

LEMMA RemovedShared ==
  ASSUME NEW t, SharedTable(t), NEW s \in Live(t), NEW u, u = Removed(t, s)
  PROVE  SharedTable(u)
<1>1. SoundTable(u, Node) /\ u.hash_func = t.hash_func /\ {u.comp, u.update} = {t.comp, t.update}
  BY RemovedSound DEF SharedTable
<1>2. {t.comp, t.update} \subseteq BOOLEAN
  BY DEF SharedTable
<1>3. {u.comp, u.update} \subseteq BOOLEAN
  BY ONLY <1>1, <1>2, Zenon
<1> QED
  BY <1>1, <1>3 DEF SharedTable

LEMMA DoKeeps ==
  ASSUME NEW t, SharedTable(t), NEW c \in CallTypes
  PROVE  SharedTable(Do(t, c))
<1>1. CASE c[1] = "put"
  <2> DEFINE h == t.hash_func[c[2]]
             x == [hash |-> h, key |-> c[2], value |-> c[3]]
             s == Target(t, h)
  <2>1. c[2] \in Keys /\ c[3] \in Values
    BY <1>1, CallArguments DEF Keyed
  <2>2. h \in Nat /\ x \in Node
    BY <2>1 DEF SharedTable, Node
  <2>3. Do(t, c) \in {t, Inserted(t, s, x)} /\ (Do(t, c) # t => ~LastSlot(t, s))
    BY <1>1 DEF Do, Put1
  <2> HIDE DEF h, x
  <2>4. s \in Slots(t) /\ ~IsNode(t.A[s])
    BY <2>2, ProbingEnds
  <2> QED
    BY <2>2, <2>3, <2>4, InsertedShared
<1>2. CASE c[1] = "remove"
  <2> DEFINE h == t.hash_func[c[2]]
             s == End(t, h, c[2])
  <2>1. c[2] \in Keys
    BY <1>2, CallArguments DEF Keyed
  <2>2. h \in Nat
    BY <2>1 DEF SharedTable
  <2>3. Do(t, c) \in {t, Removed(t, s)} /\ (Do(t, c) # t => t.A[s] # NULL)
    BY <1>2 DEF Do, Remove1
  <2> HIDE DEF h
  <2>4. t.A[s] # NULL => s \in Live(t)
    BY <2>2, ProbingEnds
  <2> QED
    BY <2>3, <2>4, RemovedShared
<1>3. CASE c[1] \notin {"put", "remove"}
  BY <1>3 DEF Do
<1> QED
  BY <1>1, <1>2, <1>3

LEMMA DoFiles ==
  ASSUME NEW t, SharedTable(t), Filed(t), NEW c \in CallTypes
  PROVE  Filed(Do(t, c))
<1>1. SoundTable(t, Node)
  BY DEF SharedTable
<1>2. PICK m : m = Contents(t)
  OBVIOUS
<1>3. CASE c[1] = "put"
  <2> DEFINE h == t.hash_func[c[2]]
  <2>1. c[2] \in Keys /\ c[3] \in Values
    BY <1>3, CallArguments DEF Keyed
  <2>2. PICK x \in Node : x = [hash |-> h, key |-> c[2], value |-> c[3]]
    BY <2>1 DEF SharedTable, Node
  <2>3. PICK s : s = Target(t, h)
    OBVIOUS
  <2>4. Do(t, c) # t => Do(t, c) = Inserted(t, s, x) /\ t.A[End(t, h, c[2])] = NULL
    BY <1>3, <2>2, <2>3 DEF Do, Put1
  <2>5. x.hash = h /\ x.key = c[2]
    BY <2>2
  <2>6. PICK u : u = Inserted(t, s, x)
    OBVIOUS
  <2>7. x.hash = t.hash_func[x.key] /\ s = Target(t, x.hash)
    BY <2>3, <2>5
  <2>8. t.A[End(t, x.hash, x.key)] = NULL => Filed(u)
    BY <1>1, <1>2, <2>6, <2>7, NodesAreNodes, InsertedFiled
  <2> QED
    BY <2>4, <2>5, <2>6, <2>8
<1>4. CASE c[1] = "remove"
  <2> DEFINE h == t.hash_func[c[2]]
             s == End(t, h, c[2])
  <2>1. c[2] \in Keys
    BY <1>4, CallArguments DEF Keyed
  <2>2. h \in Nat
    BY <2>1 DEF SharedTable
  <2>3. Do(t, c) \in {t, Removed(t, s)} /\ (Do(t, c) # t => t.A[s] # NULL)
    BY <1>4 DEF Do, Remove1
  <2> HIDE DEF h
  <2>4. t.A[s] # NULL => s \in Live(t)
    BY <2>2, ProbingEnds
  <2> HIDE DEF s
  <2>5. PICK u : u = Removed(t, s)
    OBVIOUS
  <2>6. s \in Live(t) => Filed(u)
    BY <1>1, <1>2, <2>5, NodesAreNodes, RemovedFiled
  <2> QED
    BY <2>3, <2>4, <2>5, <2>6
<1>5. CASE c[1] \notin {"put", "remove"}
  BY <1>5 DEF Do
<1> QED
  BY <1>3, <1>4, <1>5

(* The tables of a history one after the other: the recursive function of After exists. *)
LEMMA HistoryInOrder ==
  ASSUME NEW history, NEW N \in Nat, Len(history) = N
  PROVE  \E T : /\ T = [n \in 0 .. N |-> IF n = 0 THEN EmptyTable ELSE Do(T[n - 1], history[n])]
                /\ After(history) = T[N]
<1> DEFINE Body(f, n) == IF n = 0 THEN EmptyTable ELSE Do(f[n - 1], history[n])
           S == {k \in Nat : \E g : g = [n \in 0 .. k |-> Body(g, n)]}
<1>1. 0 \in S
  <2> DEFINE g == [n \in 0 .. 0 |-> EmptyTable]
  <2>1. g = [n \in 0 .. 0 |-> Body(g, n)]
    OBVIOUS
  <2> QED
    BY <2>1
<1>2. ASSUME NEW k \in S PROVE k + 1 \in S
  <2>1. k \in Nat /\ k + 1 \in Nat
    OBVIOUS
  <2>2. PICK g : g = [n \in 0 .. k |-> Body(g, n)]
    OBVIOUS
  <2> DEFINE h == [n \in 0 .. k + 1 |-> IF n = k + 1 THEN Do(g[k], history[k + 1]) ELSE g[n]]
  <2>3. ASSUME NEW n \in 0 .. k + 1 PROVE h[n] = Body(h, n)
    <3>1. CASE n = 0
      <4>1. 0 \in 0 .. k + 1 /\ 0 \in 0 .. k /\ 0 # k + 1
        BY <2>1
      <4>2. h[0] = g[0] /\ g[0] = EmptyTable
        BY <2>2, <4>1
      <4> HIDE DEF h
      <4> QED
        BY <3>1, <4>2
    <3>2. CASE n \in 1 .. k
      <4>1. n \in 0 .. k /\ n - 1 \in 0 .. k /\ n # 0 /\ n # k + 1 /\ n - 1 # k + 1
        BY <2>1, <3>2
      <4>2. h[n] = g[n] /\ h[n - 1] = g[n - 1]
        BY <2>1, <4>1
      <4>3. g[n] = Body(g, n)
        BY <2>2, <4>1
      <4> HIDE DEF h
      <4> QED
        BY <4>1, <4>2, <4>3
    <3>3. CASE n = k + 1
      <4>1. n - 1 = k /\ k \in 0 .. k + 1 /\ k # k + 1 /\ n # 0
        BY <2>1, <3>3
      <4>2. h[n] = Do(g[k], history[k + 1]) /\ h[k] = g[k]
        BY <3>3, <4>1
      <4> HIDE DEF h
      <4> QED
        BY <3>3, <4>1, <4>2
    <3>4. n = 0 \/ n \in 1 .. k \/ n = k + 1
      BY <2>1
    <3> HIDE DEF h, Body
    <3> QED
      BY <3>1, <3>2, <3>3, <3>4
  <2>4. h = [n \in 0 .. k + 1 |-> Body(h, n)]
    <3>1. h = [n \in 0 .. k + 1 |-> h[n]]
      OBVIOUS
    <3> HIDE DEF h, Body
    <3> QED
      BY <2>3, <3>1
  <2> HIDE DEF h
  <2> QED
    BY <2>1, <2>4
<1> HIDE DEF S
<1>3. N \in S
  BY <1>1, <1>2, NatInduced DEF S
<1> DEFINE F == CHOOSE g : g = [n \in 0 .. N |-> Body(g, n)]
<1>4. F = [n \in 0 .. N |-> Body(F, n)]
  <2>1. \E g : g = [n \in 0 .. N |-> Body(g, n)]
    BY <1>3 DEF S
  <2> QED
    BY <2>1
<1>5. After(history) = F[N]
  BY DEF After
<1> HIDE DEF F
<1> QED
  BY <1>4, <1>5

(* Whatever was put and removed before, the table is sound, and each of its
   entries is where probing for its key ends. *)
LEMMA SharedSound == ASSUME NEW t \in Shared PROVE SharedTable(t) /\ Filed(t)
<1>1. PICK history \in Seq(CallTypes) : t = After(history)
  BY PHashAssumption DEF Shared
<1>2. PICK N \in Nat : N = Len(history)
  OBVIOUS
<1>3. PICK T : /\ T = [n \in 0 .. N |-> IF n = 0 THEN EmptyTable ELSE Do(T[n - 1], history[n])]
               /\ After(history) = T[N]
  BY <1>2, HistoryInOrder
<1> DEFINE S == {n \in Nat : n <= N => SharedTable(T[n]) /\ Filed(T[n])}
<1>4. 0 \in S
  <2>1. PICK no : no = FALSE
    OBVIOUS
  <2> DEFINE u == New(0, FirstHash, DefaultComp, no)
  <2>2. /\ Fresh(u) /\ u.size = 0 /\ u.used = 0
        /\ u.hash_func = FirstHash /\ u.comp = DefaultComp /\ u.update = no
    BY NewFresh
  <2>3. T[0] = EmptyTable
    BY <1>3
  <2>4. EmptyTable = u
    BY <2>1 DEF EmptyTable
  <2> HIDE DEF u
  <2>5. SoundTable(u, Node)
    BY <2>2, FreshSound
  <2>6. SharedTable(u)
    BY <2>1, <2>2, <2>5, PHashAssumption DEF SharedTable
  <2>7. Live(u) = {}
    BY <2>2 DEF Fresh, Live, IsNode
  <2>8. Filed(u)
    BY <2>7 DEF Filed, InPlace
  <2> QED
    BY <2>3, <2>4, <2>6, <2>8
<1>5. ASSUME NEW n \in S PROVE n + 1 \in S
  <2> SUFFICES ASSUME n + 1 <= N PROVE SharedTable(T[n + 1]) /\ Filed(T[n + 1])
    OBVIOUS
  <2>1. n \in Nat /\ SharedTable(T[n]) /\ Filed(T[n])
    OBVIOUS
  <2>2. n + 1 \in 0 .. N /\ n + 1 # 0 /\ (n + 1) - 1 = n /\ n + 1 \in 1 .. N
    BY <2>1
  <2>3. T[n + 1] = Do(T[n], history[n + 1])
    BY <1>3, <2>2
  <2>4. history[n + 1] \in CallTypes
    BY <1>2, <2>2
  <2> QED
    BY <2>1, <2>3, <2>4, DoKeeps, DoFiles
<1> HIDE DEF S
<1>6. N \in S
  BY <1>4, <1>5, NatInduced DEF S
<1> QED
  BY <1>1, <1>3, <1>6 DEF S

-----------------------------------------------------------------------------
(* The table between the steps *)

TableInv ==
  /\ SharedTable(table)
  /\ hash \in [Threads -> Nat] /\ slot \in [Threads -> Nat]
  /\ old \in [Threads -> Values \cup {NULL}]
  /\ count \in 0 .. MaxCalls /\ misused \in BOOLEAN
  /\ \A t \in Threads : /\ pc[t] # "idle" => call[t] \in Calls
                        /\ pc[t] = "found" => call[t][1] \in Keyed
                        /\ pc[t] = "new" => call[t][1] \in {"put", "atomic_update"}

PInv == ModeInv /\ FoundKept /\ TableInv

LEMMA PInit == ASSUME Init PROVE PInv
<1>1. SharedTable(table)
  BY SharedSound DEF Init
<1>2. /\ hash \in [Threads -> Nat] /\ slot \in [Threads -> Nat]
      /\ old \in [Threads -> Values \cup {NULL}]
      /\ \A t \in Threads : pc[t] = "idle"
  BY DEF Init
<1>3. count \in 0 .. MaxCalls /\ misused \in BOOLEAN
  <2>1. MaxCalls \in Nat
    BY PHashAssumption
  <2>2. count = 0 /\ misused = FALSE
    BY DEF Init
  <2>3. count \in 0 .. MaxCalls
    BY <2>1, <2>2
  <2>4. misused \in BOOLEAN
    BY <2>2
  <2> QED
    BY <2>3, <2>4
<1>4. TableInv
  BY <1>1, <1>2, <1>3 DEF TableInv
<1> QED
  BY <1>4, ModeInit, FoundInit DEF PInv

(* The slots that the threads found *)
LEMMA FoundSlot ==
  ASSUME PInv, NEW t \in Threads, pc[t] = "found"
  PROVE  /\ slot[t] \in Live(table) /\ table.A[slot[t]] \in Node
         /\ Holds(table, slot[t], hash[t], Key(t))
         /\ old[t] = table.A[slot[t]].value
         /\ call[t] \in CallTypes
<1>1. SharedTable(table) /\ hash[t] \in Nat /\ call[t] \in CallTypes
  BY PHashAssumption DEF PInv, TableInv
<1>2. /\ slot[t] = End(table, hash[t], Key(t)) /\ IsNode(table.A[slot[t]])
      /\ old[t] = table.A[slot[t]].value
  BY DEF PInv, FoundKept
<1>3. table.A[slot[t]] # NULL
  BY <1>2 DEF IsNode
<1> QED
  BY <1>1, <1>2, <1>3, ProbingEnds

LEMMA NewSlot ==
  ASSUME PInv, NEW t \in Threads, pc[t] = "new"
  PROVE  /\ slot[t] \in Slots(table) /\ ~IsNode(table.A[slot[t]]) /\ ~LastSlot(table, slot[t])
         /\ [hash |-> hash[t], key |-> Key(t), value |-> call[t][3]] \in Node
<1>1. /\ SharedTable(table) /\ hash[t] \in Nat /\ call[t] \in CallTypes
      /\ call[t][1] \in {"put", "atomic_update"}
  BY PHashAssumption DEF PInv, TableInv
<1>2. slot[t] = Target(table, hash[t]) /\ ~LastSlot(table, slot[t])
  BY DEF PInv, FoundKept
<1>3. Key(t) \in Keys /\ call[t][3] \in Values
  BY <1>1, CallArguments DEF Key, Keyed
<1> QED
  BY <1>1, <1>2, <1>3, ProbingEnds DEF Node

(* Another value of an entry *)
LEMMA ReplaceKeeps ==
  ASSUME PInv, NEW t \in Threads, Replace(t)
  PROVE  SharedTable(table')
<1> DEFINE s == slot[t]
           w == IF call[t][1] = "atomic_update" \/ table.update
                THEN Combine(old[t], call[t][3]) ELSE call[t][3]
           x == [table.A[s] EXCEPT !.value = w]
<1>1. pc[t] = "found" /\ call[t][1] \in {"put", "atomic_update"}
  BY DEF Replace
<1>2. /\ s \in Live(table) /\ table.A[s] \in Node /\ old[t] = table.A[s].value
      /\ call[t] \in CallTypes /\ SharedTable(table)
  BY <1>1, FoundSlot DEF PInv, TableInv
<1>3. table' = [table EXCEPT !.A[s].value = w]
  BY DEF Replace
<1> HIDE DEF s
<1>4. w \in Values
  BY <1>1, <1>2, CallArguments, ValueAssumption DEF Node
<1> HIDE DEF w
<1>5. x \in Node
  BY <1>2, <1>4 DEF Node
<1>6. table' = WithSlot(table, s, x, table.size, table.used)
  BY <1>2, <1>3 DEF SharedTable, SoundTable, TableFields, WithSlot
<1> HIDE DEF x
<1>7. /\ SoundTable(table', Node) /\ table'.hash_func = table.hash_func
      /\ table'.comp = table.comp /\ table'.update = table.update
  BY <1>2, <1>5, <1>6, NodesAreNodes, ReplacedSound DEF SharedTable
<1> QED
  BY <1>2, <1>7 DEF SharedTable

(* Other functions of the table *)
LEMMA SetKeeps ==
  ASSUME PInv, NEW t \in Threads, Set(t)
  PROVE  SharedTable(table')
<1>1. SharedTable(table) /\ SecondHash \in [Keys -> Nat]
  BY PHashAssumption DEF PInv, TableInv
<1>2. PICK yes : yes = TRUE
  OBVIOUS
<1>3. \/ table' = table
      \/ table' = [table EXCEPT !.update = yes]
      \/ table' = [table EXCEPT !.comp = yes]
      \/ table' = [table EXCEPT !.hash_func = SecondHash]
  BY <1>2 DEF Set
<1>4. ASSUME NEW u, \/ u = [table EXCEPT !.update = yes]
                    \/ u = [table EXCEPT !.comp = yes]
                    \/ u = [table EXCEPT !.hash_func = SecondHash]
      PROVE  SharedTable(u)
  <2>1. TableFields(table) /\ SoundTable(table, Node)
    BY <1>1 DEF SharedTable, SoundTable
  <2>2. /\ TableFields(u) /\ u.A = table.A /\ u.capacity = table.capacity /\ u.shift = table.shift
        /\ u.size = table.size /\ u.used = table.used
        /\ u.hash_func \in {table.hash_func, SecondHash}
        /\ u.comp \in {table.comp, yes} /\ u.update \in {table.update, yes}
    BY <2>1, <1>4 DEF TableFields
  <2>3. SoundTable(u, Node)
    BY <2>1, <2>2, FunctionsSound
  <2> QED
    BY <1>1, <1>2, <2>2, <2>3 DEF SharedTable
<1> QED
  BY <1>1, <1>3, <1>4

LEMMA TableStep ==
  ASSUME PInv, NEW t \in Threads, Inside(t)
  PROVE  SharedTable(table')
<1>1. SharedTable(table)
  BY DEF PInv, TableInv
<1>2. CASE table' = table
  BY <1>1, <1>2
<1>3. CASE TakeOut(t)
  <2>1. pc[t] = "found" /\ table' = Removed(table, slot[t])
    BY <1>3 DEF TakeOut
  <2> QED
    BY <1>1, <2>1, FoundSlot, RemovedShared
<1>4. CASE Insert(t)
  <2> DEFINE x == [hash |-> hash[t], key |-> Key(t), value |-> call[t][3]]
  <2>1. pc[t] = "new" /\ table' = Inserted(table, slot[t], x)
    BY <1>4 DEF Insert
  <2>2. x \in Node
    BY <2>1, NewSlot
  <2> HIDE DEF x
  <2> QED
    BY <1>1, <2>1, <2>2, NewSlot, InsertedShared
<1>5. CASE Rebuild(t)
  <2>1. table' = Rebuilt(table)
    BY <1>5 DEF Rebuild
  <2> QED
    BY <1>1, <2>1, NodesAreNodes, RebuiltSound DEF SharedTable
<1> QED
  BY <1>2, <1>3, <1>4, <1>5, ReplaceKeeps, SetKeeps, EveryUnlockReleases
  DEF Inside, LookFound, LookAbsent, LookNew, LookFails, Read, RebuildFails, Release

(* A step inside a call finds a slot of the table and keeps the call and its hash. *)
Typed(t) ==
  /\ UNCHANGED <<call, hash, count>>
  /\ \A u \in Threads \ {t} : pc'[u] = pc[u]
  /\ pc[t] # "idle"
  /\ slot' \in [Threads -> Nat] /\ old' \in [Threads -> Values \cup {NULL}]
  /\ misused' \in BOOLEAN
  /\ pc'[t] = "found" => call[t][1] \in Keyed
  /\ pc'[t] = "new" => call[t][1] \in {"put", "atomic_update"}

LEMMA TypesInside == ASSUME PInv, NEW t \in Threads, Inside(t) PROVE Typed(t)
<1>1. /\ SharedTable(table) /\ slot \in [Threads -> Nat]
      /\ old \in [Threads -> Values \cup {NULL}] /\ misused \in BOOLEAN
      /\ hash[t] \in Nat /\ pc \in [Threads -> Labels]
  BY DEF PInv, TableInv, ModeInv, LockInv
<1>2. Slots(table) \subseteq Nat
  BY <1>1, SoundSized, SizedSlots DEF SharedTable
<1> DEFINE e == End(table, hash[t], Key(t))
           f == Target(table, hash[t])
<1>3. /\ e \in Nat /\ f \in Nat
      /\ IsNode(table.A[e]) => table.A[e].value \in Values
  <2>1. IsNode(table.A[e]) => table.A[e] \in Node
    BY <1>1, ProbingEnds DEF IsNode
  <2>2. e \in Slots(table) /\ f \in Slots(table)
    BY <1>1, ProbingEnds
  <2> QED
    BY <1>2, <2>1, <2>2 DEF Node
<1>4. LookFound(t) => /\ slot' = [slot EXCEPT ![t] = e] /\ IsNode(table.A[e])
                      /\ old' = [old EXCEPT ![t] = table.A[e].value]
  BY DEF LookFound, Present
<1>5. LookNew(t) => slot' = [slot EXCEPT ![t] = f]
  BY DEF LookNew
<1> HIDE DEF e, f
<1> USE <1>1 DEF Typed, Go
<1>6. CASE LookFound(t) BY <1>3, <1>4, <1>6 DEF LookFound
<1>7. CASE LookAbsent(t) BY <1>7 DEF LookAbsent
<1>8. CASE LookNew(t) BY <1>3, <1>5, <1>8 DEF LookNew
<1>9. CASE LookFails(t) BY <1>9 DEF LookFails
<1>10. CASE Read(t) BY <1>10 DEF Read
<1>11. CASE Replace(t) BY <1>11 DEF Replace
<1>12. CASE TakeOut(t) BY <1>12 DEF TakeOut
<1>13. CASE Insert(t) BY <1>13 DEF Insert
<1>14. CASE Rebuild(t) BY <1>14 DEF Rebuild
<1>15. CASE RebuildFails(t) BY <1>15 DEF RebuildFails
<1>16. CASE Set(t)
  <2>1. misused' \in BOOLEAN
    BY <1>16 DEF Set
  <2> QED
    BY <1>16, <2>1 DEF Set
<1>17. CASE Unlock(t)
  <2>1. Release(t) /\ pc[t] # "idle"
    BY <1>17, EveryUnlockReleases
  <2> QED
    BY <2>1 DEF Release
<1> QED
  BY <1>6, <1>7, <1>8, <1>9, <1>10, <1>11, <1>12, <1>13, <1>14, <1>15, <1>16, <1>17
  DEF Inside

LEMMA TypesStep == ASSUME PInv, [Next]_vars PROVE TableInv'
<1>1. TableInv
  BY DEF PInv
<1>2. pc \in [Threads -> Labels] /\ call \in [Threads -> Calls \cup {NULL}]
  BY DEF PInv, ModeInv, LockInv
<1>3. MaxCalls \in Nat /\ count \in Nat
  BY <1>1, PHashAssumption DEF TableInv
<1>4. CASE UNCHANGED vars
  BY <1>1, <1>4 DEF vars, TableInv
<1>5. ASSUME NEW t \in Threads, NEW c \in Calls, Start(t, c) PROVE TableInv'
  <2>1. c \in CallTypes
    BY PHashAssumption
  <2>2. (IF c[1] \in Keyed THEN table.hash_func[c[2]] ELSE 0) \in Nat
    BY <1>1, <2>1, CallArguments DEF TableInv, SharedTable
  <2>3. hash' \in [Threads -> Nat]
    BY <1>1, <1>5, <2>2 DEF Start, TableInv
  <2>4. count' \in 0 .. MaxCalls
    BY <1>3, <1>5 DEF Start
  <2>5. \A u \in Threads : /\ pc'[u] = IF u = t THEN "lock" ELSE pc[u]
                           /\ call'[u] = IF u = t THEN c ELSE call[u]
    <3>1. pc' = [pc EXCEPT ![t] = "lock"] /\ call' = [call EXCEPT ![t] = c]
      BY <1>5 DEF Start, Go
    <3>2. \A u \in Threads : pc'[u] = IF u = t THEN "lock" ELSE pc[u]
      BY <1>2, <3>1
    <3>3. \A u \in Threads : call'[u] = IF u = t THEN c ELSE call[u]
      BY <1>2, <3>1
    <3> QED
      BY <3>2, <3>3
  <2>6. UNCHANGED <<table, slot, old, misused>>
    BY <1>5 DEF Start
  <2> QED
    BY <1>1, <2>3, <2>4, <2>5, <2>6 DEF TableInv
<1>6. ASSUME NEW t \in Threads, NEW c \in Calls, Size(t, c) PROVE TableInv'
  <2>1. count' \in 0 .. MaxCalls
    BY <1>3, <1>6 DEF Size
  <2> QED
    BY <1>1, <1>6, <2>1 DEF Size, TableInv
<1>7. ASSUME NEW t \in Threads, Lock(t) PROVE TableInv'
  <2>1. /\ UNCHANGED <<table, call, hash, slot, old, count, misused>>
        /\ pc[t] = "lock" /\ \A u \in Threads : pc'[u] = IF u = t THEN "locked" ELSE pc[u]
    BY <1>2, <1>7 DEF Lock, RdLock, WrLock, Go
  <2> QED
    BY <1>1, <2>1 DEF TableInv
<1>8. ASSUME NEW t \in Threads, Inside(t) PROVE TableInv'
  <2>1. Typed(t) /\ SharedTable(table')
    BY <1>8, TypesInside, TableStep
  <2> QED
    BY <1>1, <2>1 DEF TableInv, Typed
<1> QED
  BY <1>4, <1>5, <1>6, <1>7, <1>8 DEF Next

LEMMA PInvariant == Spec => []PInv
<1>1. Init => PInv
  BY PInit
<1>2. PInv /\ [Next]_vars => PInv'
  BY ModeStep, FoundStep, TypesStep DEF PInv
<1> QED
  BY <1>1, <1>2, PTL DEF Spec

(* phash_put_locked, phash_get, phash_remove and phash_rehash: what a thread found inside
   the lock is what it uses; between any two steps of all threads the counters are true,
   and the probing of every key, and of a hash that a waiting thread computed with a hash
   function since replaced, comes to an empty slot. *)
THEOREM SlotIsKept == Spec => []SlotKept
<1>1. PInv => TypeOK
  <2> SUFFICES ASSUME PInv PROVE TypeOK
    OBVIOUS
  <2>1. WellFormed(table) /\ \A s \in Live(table) : table.A[s] \in Node
    BY DEF PInv, TableInv, SharedTable, SoundTable
  <2> QED
    BY <2>1 DEF PInv, TableInv, ModeInv, LockInv, Labels, Inner, TypeOK
<1>2. PInv => ProbesEnd
  <2> SUFFICES ASSUME PInv, NEW t \in Threads
               PROVE  ProbesEndIn(table, {table.hash_func[k] : k \in Keys} \cup {hash[t]})
    BY DEF ProbesEnd
  <2>1. SoundTable(table, Node) /\ table.hash_func \in [Keys -> Nat] /\ hash[t] \in Nat
    BY DEF PInv, TableInv, SharedTable
  <2>2. {table.hash_func[k] : k \in Keys} \cup {hash[t]} \in SUBSET Nat
    BY <2>1
  <2> QED
    BY <2>1, <2>2, SoundProbesEnd
<1>3. PInv => /\ FoundKept
              /\ \A t \in Threads :
                   /\ pc[t] = "found" => Holds(table, slot[t], hash[t], Key(t))
                   /\ pc[t] = "new" => ~IsNode(table.A[slot[t]])
  BY FoundSlot, NewSlot DEF PInv
<1>4. PInv => SlotKept
  BY <1>1, <1>2, <1>3 DEF SlotKept
<1> QED
  BY <1>4, PInvariant, PTL

-----------------------------------------------------------------------------
(* The table as a map *)

(* As long as set_hash kept to its rule: every entry is where probing for its key ends, the
   hash of a call under way is the one that the table gives its key now, and a thread about
   to insert a key knows that it is absent.  (size is no call of several steps.) *)
FiledInv ==
  ~misused =>
    /\ Filed(table)
    /\ \A t \in Threads :
         /\ pc[t] # "idle" => call[t][1] # "size"
         /\ pc[t] # "idle" /\ call[t][1] \in Keyed => hash[t] = table.hash_func[Key(t)]
         /\ pc[t] = "new" => table.A[End(table, hash[t], Key(t))] = NULL

Good == PInv /\ FiledInv /\ ~misused

LEMMA TableGood ==
  ASSUME Good
  PROVE  /\ SharedTable(table) /\ SoundTable(table, Node) /\ TableFields(table) /\ Sized(table)
         /\ Filed(table)
         /\ Entries = Contents(table) /\ Entries = [l \in DOMAIN Entries |-> Entries[l]]
         /\ DOMAIN Entries = {table.A[s].key : s \in Live(table)}
         /\ \A s \in Live(table) : /\ table.A[s] \in Node
                                   /\ Entries[table.A[s].key] = table.A[s].value
         /\ Cardinality(DOMAIN Entries) = table.size
<1>1. /\ SharedTable(table) /\ SoundTable(table, Node) /\ TableFields(table) /\ Filed(table)
      /\ Entries = Contents(table)
  BY DEF Good, FiledInv, PInv, TableInv, SharedTable, SoundTable, Entries
<1>2. Sized(table)
  BY <1>1, SoundSized
<1>3. PICK m : m = Contents(table)
  OBVIOUS
<1>4. /\ m = [l \in DOMAIN m |-> m[l]]
      /\ DOMAIN m = {table.A[s].key : s \in Live(table)}
      /\ \A s \in Live(table) : m[table.A[s].key] = table.A[s].value
      /\ Cardinality(DOMAIN m) = Cardinality(Live(table))
  BY <1>1, <1>2, <1>3, ContentsAre
<1>5. Cardinality(Live(table)) = table.size /\ \A s \in Live(table) : table.A[s] \in Node
  BY <1>1 DEF SoundTable, WellFormed
<1> QED
  BY <1>1, <1>2, <1>3, <1>4, <1>5

LEMMA SameKey ==
  ASSUME NEW k \in Keys, NEW l \in Keys
  PROVE  Ids[l] = Ids[k] <=> /\ table.hash_func[l] = table.hash_func[k]
                             /\ table.comp => l = k
BY DEF Ids, Id

(* What the map finds is the entry at which probing ends. *)
LEMMA FoundIs ==
  ASSUME Good, NEW k \in Keys, NEW h, h = table.hash_func[k], NEW s, s = End(table, h, k)
  PROVE  /\ table.A[s] = NULL => Map!Found(k) = {}
         /\ table.A[s] # NULL => /\ s \in Live(table) /\ table.A[s] \in Node
                                 /\ table.A[s].key \in DOMAIN Entries
                                 /\ Entries[table.A[s].key] = table.A[s].value
                                 /\ Map!Found(k) = {table.A[s].key}
<1>1. /\ SoundTable(table, Node) /\ Sized(table) /\ Filed(table) /\ h \in Nat
      /\ DOMAIN Entries = {table.A[r].key : r \in Live(table)}
      /\ \A r \in Live(table) : table.A[r] \in Node /\ Entries[table.A[r].key] = table.A[r].value
  BY TableGood DEF SharedTable
<1>2. \E e \in Slots(table) : table.A[e] = NULL
  BY <1>1, SoundSized
<1>3. /\ table.A[s] = NULL => \A r \in Live(table) : ~Holds(table, r, h, k)
      /\ table.A[s] # NULL => /\ s \in Live(table) /\ Holds(table, s, h, k)
                              /\ \A r \in Live(table) : Holds(table, r, h, k) => r = s
  BY <1>1, <1>2, EndIsHolder DEF Filed
<1>4. ASSUME NEW r \in Live(table)
      PROVE  table.A[r].key \in Map!Found(k) <=> Holds(table, r, h, k)
  <2>1. PICK l \in Keys : l = table.A[r].key
    BY <1>1 DEF Node
  <2>2. l \in DOMAIN Entries /\ table.hash_func[l] = table.A[r].hash /\ IsNode(table.A[r])
    BY <1>1, <2>1 DEF Filed, Live
  <2>3. l \in Map!Found(k) <=> Ids[l] = Ids[k]
    BY <2>2 DEF Map!Found
  <2> QED
    BY <2>1, <2>2, <2>3, SameKey DEF Holds
<1>5. \A l \in Map!Found(k) : \E r \in Live(table) : l = table.A[r].key
  BY <1>1 DEF Map!Found
<1> QED
  BY <1>1, <1>3, <1>4, <1>5

(* The call of a thread, and its hash *)
LEMMA CallIs ==
  ASSUME Good, NEW t \in Threads, pc[t] # "idle", call[t][1] \in Keyed
  PROVE  /\ Key(t) \in Keys /\ hash[t] = table.hash_func[Key(t)] /\ hash[t] \in Nat
         /\ call[t][1] = "get" => call[t] = <<"get", Key(t)>>
         /\ call[t][1] = "remove" => call[t] = <<"remove", Key(t)>>
         /\ call[t][1] \in {"put", "atomic_update"} => /\ call[t][3] \in Values
                                                       /\ call[t] = <<call[t][1], Key(t), call[t][3]>>
<1>1. call[t] \in CallTypes /\ hash[t] \in Nat /\ hash[t] = table.hash_func[Key(t)]
  BY PHashAssumption DEF Good, PInv, TableInv, FiledInv
<1> QED
  BY <1>1, CallArguments DEF CallTypes, Keyed, Key

(* A step that leaves the table as it is *)
LEMMA Untouched ==
  ASSUME table' = table
  PROVE  Entries' = Entries /\ Ids' = Ids /\ Updates' = Updates
BY DEF Entries, Ids, Id, Updates

LEMMA SameFunctions ==
  ASSUME table'.hash_func = table.hash_func, table'.comp = table.comp, table'.update = table.update
  PROVE  Ids' = Ids /\ Updates' = Updates
BY DEF Ids, Id, Updates

LEMMA LookAbsentMaps ==
  ASSUME Good, NEW t \in Threads, LookAbsent(t)
  PROVE  Map!Next
<1>1. /\ pc[t] # "idle" /\ call[t][1] \in {"get", "remove"} /\ call[t][1] \in Keyed
      /\ table' = table /\ misused' = misused
  BY DEF LookAbsent, Keyed
<1>2. reply' = Map!Reply(call[t], 0, NULL) /\ reply'.call = call[t]
  BY DEF LookAbsent, Answer, Map!Reply
<1>3. PICK k \in Keys : k = Key(t) /\ hash[t] = table.hash_func[k]
  BY <1>1, CallIs
<1>4. table.A[End(table, hash[t], k)] = NULL
  <2>1. SharedTable(table) /\ hash[t] \in Nat
    BY <1>1, CallIs, TableGood
  <2> QED
    BY <1>3, <2>1, ProbingEnds DEF LookAbsent, Present, Live
<1>5. Map!Found(k) = {}
  BY <1>3, <1>4, FoundIs
<1>6. Entries' = Entries /\ Ids' = Ids /\ Updates' = Updates
  BY <1>1, Untouched
<1>7. CASE call[t][1] = "get"
  <2>1. call[t] = <<"get", k>>
    BY <1>1, <1>3, <1>7, CallIs
  <2>2. Map!Get(k)
    BY <1>2, <1>5, <1>6, <2>1 DEF Map!Get, Map!Lookup
  <2> QED
    BY <1>1, <1>6, <2>2 DEF Map!Next, Map!Call
<1>8. CASE call[t][1] = "remove"
  <2>1. call[t] = <<"remove", k>>
    BY <1>1, <1>3, <1>8, CallIs
  <2>2. Entries' = [l \in DOMAIN Entries \ Map!Found(k) |-> Entries[l]]
    BY <1>5, <1>6, TableGood
  <2>3. Map!Remove(k)
    BY <1>2, <1>5, <2>1, <2>2 DEF Map!Remove, Map!Lookup
  <2> QED
    BY <1>1, <1>6, <2>3 DEF Map!Next, Map!Call
<1> QED
  BY <1>1, <1>7, <1>8

(* put and atomic_update of a key that is not there *)
LEMMA NewKeyMaps ==
  ASSUME Good, NEW t \in Threads, pc[t] # "idle", call[t][1] \in {"put", "atomic_update"},
         Map!Found(Key(t)) = {}, NEW k, k = Key(t), NEW v, v = call[t][3],
         \/ /\ reply' = Map!Reply(call[t], 0, NULL)
            /\ Entries' = [l \in DOMAIN Entries \cup {k} |-> IF l = k THEN v ELSE Entries[l]]
         \/ reply' = Map!Reply(call[t], -1, NULL) /\ Entries' = Entries,
         Ids' = Ids, Updates' = Updates, misused' = misused
  PROVE  Map!Next
<1>1. k \in Keys /\ v \in Values /\ call[t] = <<call[t][1], k, v>>
  BY CallIs DEF Keyed
<1>2. reply'.call = call[t]
  BY DEF Map!Reply
<1>3. CASE call[t][1] = "put"
  <2>1. Map!Put(k, v)
    BY <1>1, <1>2, <1>3 DEF Map!Put, Map!Stores
  <2> QED
    BY <1>1, <2>1 DEF Map!Next, Map!Call
<1>4. CASE call[t][1] = "atomic_update"
  <2>1. Map!AtomicUpdate(k, v)
    BY <1>1, <1>2, <1>4 DEF Map!AtomicUpdate, Map!Stores
  <2> QED
    BY <1>1, <2>1 DEF Map!Next, Map!Call
<1> QED
  BY <1>3, <1>4

LEMMA LookFailsMaps ==
  ASSUME Good, NEW t \in Threads, LookFails(t)
  PROVE  Map!Next
<1>1. /\ pc[t] # "idle" /\ call[t][1] \in {"put", "atomic_update"} /\ call[t][1] \in Keyed
      /\ table' = table /\ misused' = misused
  BY DEF LookFails, Keyed
<1>2. reply' = Map!Reply(call[t], -1, NULL)
  BY DEF LookFails, Answer, Map!Reply
<1>3. PICK k \in Keys : k = Key(t) /\ hash[t] = table.hash_func[k]
  BY <1>1, CallIs
<1>4. table.A[End(table, hash[t], k)] = NULL
  <2>1. SharedTable(table) /\ hash[t] \in Nat
    BY <1>1, CallIs, TableGood
  <2> QED
    BY <1>3, <2>1, ProbingEnds DEF LookFails, Present, Live
<1>5. Map!Found(Key(t)) = {}
  BY <1>3, <1>4, FoundIs
<1>6. Entries' = Entries /\ Ids' = Ids /\ Updates' = Updates
  BY <1>1, Untouched
<1> QED
  BY <1>1, <1>2, <1>3, <1>5, <1>6, NewKeyMaps

LEMMA InsertMaps ==
  ASSUME Good, NEW t \in Threads, Insert(t)
  PROVE  Map!Next /\ Filed(table') /\ table'.hash_func = table.hash_func
<1> DEFINE s == slot[t]
           x == [hash |-> hash[t], key |-> Key(t), value |-> call[t][3]]
<1>1. /\ pc[t] = "new" /\ pc[t] # "idle" /\ misused' = misused
      /\ call[t][1] \in {"put", "atomic_update"} /\ call[t][1] \in Keyed
      /\ table' = Inserted(table, s, x)
  BY DEF Insert, Good, PInv, TableInv, Keyed
<1>2. reply' = Map!Reply(call[t], 0, NULL)
  BY DEF Insert, Answer, Map!Reply
<1>3. PICK k, v : /\ k = Key(t) /\ v = call[t][3] /\ k \in Keys /\ v \in Values
                  /\ hash[t] = table.hash_func[k] /\ hash[t] \in Nat
  BY <1>1, CallIs
<1>4. s = Target(table, hash[t]) /\ table.A[End(table, hash[t], k)] = NULL
  BY <1>1, <1>3 DEF Good, PInv, FoundKept, FiledInv
<1>5. Map!Found(Key(t)) = {}
  BY <1>3, <1>4, FoundIs
<1>6. x \in Node /\ s \in Slots(table)
  BY <1>1, NewSlot DEF Good
<1>7. x.hash = hash[t] /\ x.key = k /\ x.value = v
  BY <1>3
<1> HIDE DEF x, s
<1>8. /\ SoundTable(table, Node) /\ TableFields(table) /\ Filed(table) /\ Sized(table)
      /\ Entries = Contents(table)
  BY TableGood
<1>9. PICK u : u = Inserted(table, s, x)
  OBVIOUS
<1>10. PICK e : e = Contents(table)
  OBVIOUS
<1>11. /\ s = Target(table, x.hash) /\ table.A[End(table, x.hash, x.key)] = NULL
       /\ x.hash = table.hash_func[x.key]
  BY <1>3, <1>4, <1>7
<1>12. /\ Filed(u)
       /\ Contents(u) = [l \in DOMAIN e \cup {x.key} |-> IF l = x.key THEN x.value ELSE e[l]]
  BY ONLY <1>6, <1>8, <1>9, <1>10, <1>11, NodesAreNodes, InsertedFiled
<1>13. Entries' = [l \in DOMAIN Entries \cup {k} |-> IF l = k THEN v ELSE Entries[l]]
  BY <1>1, <1>7, <1>8, <1>9, <1>10, <1>12 DEF Entries
<1>14. u.hash_func = table.hash_func /\ u.comp = table.comp /\ u.update = table.update
  <2>1. PICK size, used : u = WithSlot(table, s, x, size, used)
    <3>1. u = WithSlot(table, s, x, table.size + 1,
                       IF table.A[s] = NULL THEN table.used + 1 ELSE table.used)
      BY <1>8, <1>9 DEF Inserted, TableFields, WithSlot
    <3> QED
      BY <3>1
  <2> QED
    BY <1>6, <1>8, <2>1, SlotChanged
<1>15. Ids' = Ids /\ Updates' = Updates
  BY <1>1, <1>9, <1>14, SameFunctions
<1> QED
  BY <1>1, <1>2, <1>3, <1>5, <1>9, <1>12, <1>13, <1>14, <1>15, NewKeyMaps

(* The calls that found their key *)
LEMMA FoundGood ==
  ASSUME Good, NEW t \in Threads, pc[t] = "found", NEW s, s = slot[t], NEW k, k = Key(t)
  PROVE  /\ k \in Keys /\ s \in Live(table) /\ table.A[s] \in Node
         /\ old[t] = table.A[s].value
         /\ table.A[s].key \in DOMAIN Entries /\ Entries[table.A[s].key] = table.A[s].value
         /\ Map!Found(k) = {table.A[s].key}
<1>1. call[t][1] \in Keyed /\ s = End(table, hash[t], k)
  BY DEF Good, PInv, TableInv, FoundKept
<1>2. PICK h : h = hash[t] /\ h = table.hash_func[k] /\ k \in Keys
  BY <1>1, CallIs
<1>3. s \in Live(table) /\ old[t] = table.A[s].value
  BY FoundSlot DEF Good
<1>4. table.A[s] # NULL
  BY <1>3 DEF Live, IsNode
<1> QED
  BY <1>1, <1>2, <1>3, <1>4, FoundIs

LEMMA ReadMaps ==
  ASSUME Good, NEW t \in Threads, Read(t)
  PROVE  Map!Next
<1>1. /\ pc[t] = "found" /\ pc[t] # "idle" /\ call[t][1] = "get" /\ call[t][1] \in Keyed
      /\ table' = table /\ misused' = misused
      /\ reply' = Map!Reply(call[t], 1, table.A[slot[t]].value) /\ reply'.call = call[t]
  BY DEF Read, Answer, Keyed, Map!Reply
<1>2. PICK k, s : k = Key(t) /\ s = slot[t]
  OBVIOUS
<1>3. /\ k \in Keys /\ Entries[table.A[s].key] = table.A[s].value
      /\ Map!Found(k) = {table.A[s].key}
  BY <1>1, <1>2, FoundGood
<1>4. call[t] = <<"get", k>>
  BY <1>1, <1>2, CallIs
<1>5. Entries' = Entries /\ Ids' = Ids /\ Updates' = Updates
  BY <1>1, Untouched
<1>6. Map!Get(k)
  BY <1>1, <1>2, <1>3, <1>4, <1>5 DEF Map!Get, Map!Lookup
<1> QED
  BY <1>1, <1>3, <1>5, <1>6 DEF Map!Next, Map!Call

LEMMA TakeOutMaps ==
  ASSUME Good, NEW t \in Threads, TakeOut(t)
  PROVE  Map!Next /\ Filed(table') /\ table'.hash_func = table.hash_func
<1>1. /\ pc[t] = "found" /\ pc[t] # "idle" /\ call[t][1] = "remove" /\ call[t][1] \in Keyed
      /\ table' = Removed(table, slot[t]) /\ misused' = misused
      /\ reply' = Map!Reply(call[t], 1, table.A[slot[t]].value) /\ reply'.call = call[t]
  BY DEF TakeOut, Answer, Keyed, Map!Reply
<1>2. PICK k, s : k = Key(t) /\ s = slot[t]
  OBVIOUS
<1>3. /\ k \in Keys /\ s \in Live(table) /\ Entries[table.A[s].key] = table.A[s].value
      /\ Map!Found(k) = {table.A[s].key}
  BY <1>1, <1>2, FoundGood
<1>4. call[t] = <<"remove", k>>
  BY <1>1, <1>2, CallIs
<1>5. /\ SoundTable(table, Node) /\ TableFields(table) /\ Filed(table) /\ Sized(table)
      /\ Entries = Contents(table)
  BY TableGood
<1>6. PICK u : u = Removed(table, s)
  OBVIOUS
<1>7. Filed(u) /\ Contents(u) = [l \in DOMAIN Entries \ {table.A[s].key} |-> Entries[l]]
  <2>1. PICK e : e = Contents(table)
    OBVIOUS
  <2>2. Filed(u) /\ Contents(u) = [l \in DOMAIN e \ {table.A[s].key} |-> e[l]]
    BY ONLY <1>3, <1>5, <1>6, <2>1, NodesAreNodes, RemovedFiled
  <2> QED
    BY <1>5, <2>1, <2>2
<1>8. u.hash_func = table.hash_func /\ u.comp = table.comp /\ u.update = table.update
  <2>1. u = WithSlot(table, s, DELETED, table.size - 1, table.used)
    BY <1>5, <1>6 DEF Removed, TableFields, WithSlot
  <2> QED
    BY <1>3, <1>5, <2>1, SlotChanged DEF Live
<1>9. Entries' = [l \in DOMAIN Entries \ Map!Found(k) |-> Entries[l]]
  BY <1>1, <1>2, <1>3, <1>6, <1>7 DEF Entries
<1>10. Ids' = Ids /\ Updates' = Updates
  BY <1>1, <1>2, <1>6, <1>8, SameFunctions
<1>11. Map!Remove(k)
  BY <1>1, <1>2, <1>3, <1>4, <1>9 DEF Map!Remove, Map!Lookup
<1>12. Map!Next
  BY <1>1, <1>3, <1>10, <1>11 DEF Map!Next, Map!Call
<1> QED
  BY <1>1, <1>2, <1>6, <1>7, <1>8, <1>12

(* put and atomic_update of a key that is there *)
LEMMA ReplaceMaps ==
  ASSUME Good, NEW t \in Threads, Replace(t)
  PROVE  Map!Next /\ Filed(table') /\ table'.hash_func = table.hash_func
<1> DEFINE w == IF call[t][1] = "atomic_update" \/ table.update
                THEN Combine(old[t], call[t][3]) ELSE call[t][3]
<1>1. /\ pc[t] = "found" /\ pc[t] # "idle" /\ call[t][1] \in {"put", "atomic_update"}
      /\ call[t][1] \in Keyed /\ misused' = misused
      /\ reply' = Map!Reply(call[t], 1, NULL) /\ reply'.call = call[t]
  BY DEF Replace, Answer, Keyed, Map!Reply
<1>2. PICK k, s, v : k = Key(t) /\ s = slot[t] /\ v = call[t][3]
  OBVIOUS
<1>3. /\ k \in Keys /\ s \in Live(table) /\ table.A[s] \in Node /\ old[t] = table.A[s].value
      /\ table.A[s].key \in DOMAIN Entries /\ Entries[table.A[s].key] = table.A[s].value
      /\ Map!Found(k) = {table.A[s].key}
  BY <1>1, <1>2, FoundGood
<1>4. v \in Values /\ call[t] = <<call[t][1], k, v>>
  BY <1>1, <1>2, CallIs
<1>5. table' = [table EXCEPT !.A[s].value = w]
  BY <1>2 DEF Replace
<1>6. /\ w \in Values
      /\ call[t][1] = "put" => w = IF Updates THEN Combine(Entries[table.A[s].key], v) ELSE v
      /\ call[t][1] = "atomic_update" => w = Combine(Entries[table.A[s].key], v)
  BY <1>1, <1>2, <1>3, <1>4, ValueAssumption DEF Node, Updates
<1> HIDE DEF w
<1>7. PICK x : x = [table.A[s] EXCEPT !.value = w]
  OBVIOUS
<1>8. x \in Node /\ x.hash = table.A[s].hash /\ x.key = table.A[s].key /\ x.value = w
  BY <1>3, <1>6, <1>7 DEF Node
<1>9. /\ SoundTable(table, Node) /\ TableFields(table) /\ Filed(table) /\ Sized(table)
      /\ Entries = Contents(table) /\ Entries = [l \in DOMAIN Entries |-> Entries[l]]
      /\ DOMAIN Entries = {table.A[r].key : r \in Live(table)}
      /\ \A r \in Live(table) : table.A[r] \in Node /\ Entries[table.A[r].key] = table.A[r].value
  BY TableGood
<1>10. PICK u : u = table'
  OBVIOUS
<1>11. u = WithSlot(table, s, x, table.size, table.used)
  BY <1>5, <1>7, <1>9, <1>10 DEF TableFields, WithSlot
<1>12. /\ SoundTable(u, Node) /\ u.hash_func = table.hash_func /\ u.comp = table.comp
       /\ u.update = table.update
  BY <1>3, <1>8, <1>9, <1>11, NodesAreNodes, ReplacedSound
<1>13. /\ u.capacity = table.capacity /\ u.shift = table.shift
       /\ \A r \in Slots(table) : u.A[r] = IF r = s THEN x ELSE table.A[r]
  BY <1>3, <1>9, <1>11, SlotChanged DEF Live
<1>14. \A r \in Live(table) : r \in Slots(table) /\ (r # s => table.A[r].key # table.A[s].key)
  BY <1>3, <1>9, KeysDiffer DEF Live
<1> DEFINE m == [Entries EXCEPT ![table.A[s].key] = w]
<1>15. /\ DOMAIN m = DOMAIN Entries /\ m = [l \in DOMAIN m |-> m[l]]
       /\ \A r \in Live(table) : m[table.A[r].key] = u.A[r].value
  BY <1>3, <1>8, <1>9, <1>13, <1>14
<1>16. \A r \in Slots(table) : IF IsNode(table.A[r])
                               THEN /\ u.A[r] \in Node
                                    /\ u.A[r].hash = table.A[r].hash /\ u.A[r].key = table.A[r].key
                               ELSE u.A[r] = table.A[r]
  BY <1>3, <1>8, <1>9, <1>13 DEF Live
<1> HIDE DEF m
<1>17. Filed(u) /\ Contents(u) = m
  <2>1. DOMAIN m = DOMAIN Contents(table)
    BY <1>9, <1>15
  <2> QED
    BY ONLY <1>9, <1>12, <1>13, <1>15, <1>16, <2>1, NodesAreNodes, ChangedFiled
<1>18. Entries' = m
  BY <1>10, <1>17 DEF Entries
<1>19. Ids' = Ids /\ Updates' = Updates
  BY <1>10, <1>12, SameFunctions
<1>20. CASE call[t][1] = "put"
  <2>1. Entries' = [Entries EXCEPT ![table.A[s].key] = IF Updates THEN Combine(@, v) ELSE v]
    BY <1>6, <1>18, <1>20 DEF m
  <2>2. Map!Put(k, v)
    BY <1>1, <1>3, <1>4, <1>20, <2>1 DEF Map!Put, Map!Stores, Map!Reply
  <2> QED
    BY <1>1, <1>3, <1>4, <1>10, <1>12, <1>17, <1>19, <2>2 DEF Map!Next, Map!Call
<1>21. CASE call[t][1] = "atomic_update"
  <2>1. Entries' = [Entries EXCEPT ![table.A[s].key] = IF TRUE THEN Combine(@, v) ELSE v]
    BY <1>6, <1>18, <1>21 DEF m
  <2>2. Map!AtomicUpdate(k, v)
    BY <1>1, <1>3, <1>4, <1>21, <2>1 DEF Map!AtomicUpdate, Map!Stores, Map!Reply
  <2> QED
    BY <1>1, <1>3, <1>4, <1>10, <1>12, <1>17, <1>19, <2>2 DEF Map!Next, Map!Call
<1> QED
  BY <1>1, <1>20, <1>21

(* size reads its counter without the lock. *)
LEMMA SizeMaps ==
  ASSUME Good, NEW t \in Threads, NEW c \in Calls, Size(t, c)
  PROVE  Map!Next
<1>1. /\ c[1] = "size" /\ table' = table /\ misused' = misused
      /\ reply' = Map!Reply(c, table.size, NULL)
  BY DEF Size, Map!Reply
<1>2. c = <<"size", NULL>>
  BY <1>1, PHashAssumption DEF CallTypes
<1>3. Entries' = Entries /\ Ids' = Ids /\ Updates' = Updates
  BY <1>1, Untouched
<1>4. Map!Cardinality(DOMAIN Entries) = Cardinality(DOMAIN Entries)
  BY DEF Map!Cardinality, Cardinality, Map!IsFiniteSet, IsFiniteSet
<1>5. Map!Size
  BY <1>1, <1>2, <1>3, <1>4, TableGood DEF Map!Size
<1> QED
  BY <1>1, <1>3, <1>5 DEF Map!Next

(* The rebuilding cannot be seen. *)
LEMMA RebuildStutters ==
  ASSUME Good, NEW t \in Threads, Rebuild(t)
  PROVE  UNCHANGED Map!vars /\ Filed(table') /\ table'.hash_func = table.hash_func
<1>1. /\ SharedTable(table) /\ SoundTable(table, Node) /\ Filed(table)
  BY TableGood
<1>2. PICK u : u = Rebuilt(table)
  OBVIOUS
<1>3. Filed(u) /\ Contents(u) = Contents(table)
  BY <1>1, <1>2, NodesAreNodes, RebuiltFiled
<1>4. u.hash_func = table.hash_func /\ u.comp = table.comp /\ u.update = table.update
  BY <1>1, <1>2, NodesAreNodes, RebuiltSound
<1>5. table' = u /\ misused' = misused /\ reply' = reply
  BY <1>2 DEF Rebuild
<1>6. Entries' = Entries /\ Ids' = Ids /\ Updates' = Updates
  BY <1>3, <1>4, <1>5, SameFunctions DEF Entries
<1> QED
  BY <1>3, <1>4, <1>5, <1>6 DEF Map!vars

(* The set functions: as long as set_hash keeps to its rule, nobody else has computed a
   hash when the hash function changes, and there are no entries. *)
LEMMA SetFiles ==
  ASSUME Good, NEW t \in Threads, Set(t), ~misused'
  PROVE  /\ Filed(table') /\ Entries' = Entries /\ reply'.call = <<"configure">>
         /\ \/ table'.hash_func = table.hash_func
            \/ \A u \in Threads \ {t} : pc[u] = "idle"
<1>1. /\ SharedTable(table) /\ SoundTable(table, Node) /\ TableFields(table) /\ Filed(table)
      /\ Sized(table) /\ Entries = Contents(table)
  BY TableGood
<1>2. pc[t] # "idle" /\ call[t][1] \notin Keyed /\ call[t] \in CallTypes /\ call[t][1] # "size"
  BY PHashAssumption DEF Set, Good, PInv, TableInv, FiledInv
<1>3. call[t][1] \in {"set_hash", "set_update", "set_comp"}
  BY <1>2 DEF CallTypes, Keyed
<1>4. PICK yes : yes = TRUE
  OBVIOUS
<1>5. table.size = 0 => Live(table) = {}
  <2>1. IsFiniteSet(Live(table)) /\ table.size = Cardinality(Live(table))
    BY <1>1, LiveFinite DEF SoundTable, WellFormed
  <2> QED
    BY <2>1, FS_EmptySet
<1>6. table.size \in Nat
  BY <1>1, SoundSized
<1>7. \/ table' = table
      \/ table' = [table EXCEPT !.update = yes]
      \/ table' = [table EXCEPT !.comp = yes]
      \/ /\ table' = [table EXCEPT !.hash_func = SecondHash] /\ ~(table.size > 0)
         /\ call[t][1] = "set_hash"
  BY <1>3, <1>4 DEF Set
<1>8. call[t][1] = "set_hash" /\ ~(table.size > 0) => \A u \in Threads \ {t} : pc[u] = "idle"
  BY DEF Set
<1>9. reply'.call = <<"configure">>
  BY DEF Set
<1>10. ASSUME NEW u, \/ u = [table EXCEPT !.update = yes]
                     \/ u = [table EXCEPT !.comp = yes]
                     \/ u = [table EXCEPT !.hash_func = SecondHash] /\ ~(table.size > 0)
       PROVE  Filed(u) /\ Contents(u) = Contents(table)
  <2>1. /\ u.A = table.A /\ u.capacity = table.capacity /\ u.shift = table.shift
        /\ u.hash_func = table.hash_func \/ Live(table) = {}
        /\ u.comp = table.comp \/ u.comp = yes
    BY <1>1, <1>5, <1>6, <1>10 DEF TableFields
  <2>2. table.comp \in BOOLEAN
    BY <1>1 DEF SharedTable
  <2>3. u.comp = table.comp \/ u.comp = TRUE
    BY <1>4, <2>1
  <2> QED
    BY ONLY <1>1, <2>1, <2>2, <2>3, NodesAreNodes, ConfiguredFiled
<1>11. Filed(table') /\ Contents(table') = Contents(table)
  BY <1>1, <1>7, <1>10
<1>12. table'.hash_func = table.hash_func \/ (call[t][1] = "set_hash" /\ ~(table.size > 0))
  <2>1. PICK u : u = table'
    OBVIOUS
  <2>2. \/ u = table \/ u = [table EXCEPT !.update = yes] \/ u = [table EXCEPT !.comp = yes]
        \/ (call[t][1] = "set_hash" /\ ~(table.size > 0))
    BY <1>7, <2>1
  <2>3. \/ u.hash_func = table.hash_func
        \/ (call[t][1] = "set_hash" /\ ~(table.size > 0))
    BY <1>1, <2>2 DEF TableFields
  <2> QED
    BY <2>1, <2>3
<1> QED
  BY <1>8, <1>9, <1>11, <1>12 DEF Entries

(* No two entries are the same key to the table. *)
LEMMA IdsDiffer == Good => Map!Distinct(DOMAIN Entries, Ids)
<1> SUFFICES ASSUME Good, NEW k \in DOMAIN Entries, NEW l \in DOMAIN Entries, Ids[k] = Ids[l]
             PROVE  k = l
  BY DEF Map!Distinct
<1>1. /\ Sized(table) /\ Filed(table)
      /\ DOMAIN Entries = {table.A[r].key : r \in Live(table)}
      /\ \A r \in Live(table) : table.A[r] \in Node
  BY TableGood
<1>2. PICK s \in Live(table), r \in Live(table) : k = table.A[s].key /\ l = table.A[r].key
  BY <1>1
<1>3. k \in Keys /\ l \in Keys
  BY <1>1, <1>2 DEF Node
<1>4. table.hash_func[k] = table.hash_func[l] /\ (table.comp => k = l)
  BY <1>3, SameKey
<1>5. Holds(table, r, table.A[s].hash, table.A[s].key)
  BY <1>1, <1>2, <1>4 DEF Filed, Holds, Live
<1> QED
  BY <1>1, <1>2, <1>5, PlacesDiffer DEF Filed

LEMMA Configures ==
  ASSUME Good', Entries' = Entries, reply'.call = <<"configure">>, misused' = misused
  PROVE  Map!Next
<1>1. (Good => Map!Distinct(DOMAIN Entries, Ids))'
  BY IdsDiffer, PTL
<1>2. Map!Distinct(DOMAIN Entries, Ids')
  BY <1>1 DEF Map!Distinct
<1>3. DOMAIN Ids' = Keys
  BY DEF Ids
<1>4. Updates' \in BOOLEAN
  BY DEF Updates, Good, PInv, TableInv, SharedTable
<1> QED
  BY <1>2, <1>3, <1>4 DEF Map!Next, Map!Configure

(* A step inside a call that is no misuse *)
LEMMA InsideFiles ==
  ASSUME Good, NEW t \in Threads, Inside(t), ~misused'
  PROVE  /\ Filed(table')
         /\ table'.hash_func = table.hash_func \/ \A u \in Threads \ {t} : pc[u] = "idle"
         /\ Set(t) \/ table'.hash_func = table.hash_func
<1>1. CASE table' = table
  BY <1>1, TableGood
<1>2. CASE Set(t)
  BY <1>2, SetFiles
<1> QED
  BY <1>1, <1>2, ReplaceMaps, TakeOutMaps, InsertMaps, RebuildStutters,
     EveryUnlockReleases
  DEF Inside, LookFound, LookAbsent, LookNew, LookFails, Read, RebuildFails, Release

(* A rule that was broken stays broken. *)
LEMMA MisuseStays ==
  ASSUME PInv, PInv', [Next]_vars, ~misused'
  PROVE  ~misused /\ misused' = misused
<1>1. misused \in BOOLEAN /\ misused' \in BOOLEAN
  BY DEF PInv, TableInv
<1>2. ASSUME NEW t \in Threads, Inside(t), ~Set(t) PROVE misused' = misused
  BY <1>2, EveryUnlockReleases
  DEF Inside, LookFound, LookAbsent, LookNew, LookFails, Read, Replace, TakeOut,
     Insert, Rebuild, RebuildFails, Release
<1>3. ASSUME NEW t \in Threads, Set(t) PROVE ~misused
  BY <1>3 DEF Set
<1>4. ASSUME NEW t \in Threads, NEW c \in Calls, Start(t, c) \/ Size(t, c) PROVE misused' = misused
  BY <1>4 DEF Start, Size
<1>5. ASSUME NEW t \in Threads, Lock(t) PROVE misused' = misused
  BY <1>5 DEF Lock, RdLock, WrLock
<1>6. CASE UNCHANGED vars
  BY <1>6 DEF vars
<1>7. ~misused
  BY <1>2, <1>3, <1>4, <1>5, <1>6 DEF Next
<1> QED
  BY <1>1, <1>7

LEMMA FiledInit == ASSUME Init PROVE FiledInv
<1>1. Filed(table)
  BY SharedSound DEF Init
<1> QED
  BY <1>1 DEF Init, FiledInv

LEMMA FiledStep == ASSUME PInv, PInv', FiledInv, [Next]_vars PROVE FiledInv'
<1> SUFFICES ASSUME ~misused' PROVE FiledInv'
  BY DEF FiledInv
<1>1. Good
  BY MisuseStays DEF Good
<1>2. /\ Filed(table)
      /\ \A t \in Threads :
           /\ pc[t] # "idle" => call[t][1] # "size"
           /\ pc[t] # "idle" /\ call[t][1] \in Keyed => hash[t] = table.hash_func[Key(t)]
           /\ pc[t] = "new" => table.A[End(table, hash[t], Key(t))] = NULL
      /\ pc \in [Threads -> Labels] /\ call \in [Threads -> Calls \cup {NULL}]
      /\ hash \in [Threads -> Nat]
  BY <1>1 DEF Good, FiledInv, PInv, TableInv, ModeInv, LockInv
<1>3. CASE UNCHANGED vars
  BY <1>2, <1>3 DEF vars, FiledInv, Key
<1>4. ASSUME NEW t \in Threads, NEW c \in Calls, Start(t, c) PROVE FiledInv'
  <2>1. /\ table' = table /\ c[1] # "size"
        /\ pc' = [pc EXCEPT ![t] = "lock"] /\ call' = [call EXCEPT ![t] = c]
        /\ hash' = [hash EXCEPT ![t] = IF c[1] \in Keyed THEN table.hash_func[c[2]] ELSE 0]
    BY <1>4 DEF Start, Go
  <2> QED
    BY <1>2, <2>1 DEF FiledInv, Key
<1>5. ASSUME NEW t \in Threads, NEW c \in Calls, Size(t, c) PROVE FiledInv'
  BY <1>2, <1>5 DEF Size, FiledInv, Key
<1>6. ASSUME NEW t \in Threads, Lock(t) PROVE FiledInv'
  <2>1. /\ UNCHANGED <<table, call, hash>>
        /\ pc[t] = "lock" /\ pc' = [pc EXCEPT ![t] = "locked"]
    BY <1>6 DEF Lock, RdLock, WrLock, Go
  <2> QED
    BY <1>2, <2>1 DEF FiledInv, Key
<1>7. ASSUME NEW t \in Threads, Inside(t) PROVE FiledInv'
  <2>1. /\ Filed(table')
        /\ table'.hash_func = table.hash_func \/ \A u \in Threads \ {t} : pc[u] = "idle"
        /\ Set(t) \/ table'.hash_func = table.hash_func
    BY <1>1, <1>7, InsideFiles
  <2>2. /\ UNCHANGED <<call, hash>> /\ pc[t] # "idle"
        /\ \A u \in Threads \ {t} : pc'[u] = pc[u]
    BY <1>7, TypesInside DEF Typed
  <2>3. Set(t) => call[t][1] \notin Keyed
    BY DEF Set
  <2>4. ASSUME NEW u \in Threads
        PROVE  /\ pc'[u] # "idle" => call[u][1] # "size"
               /\ pc'[u] # "idle" /\ call[u][1] \in Keyed => hash[u] = table'.hash_func[Key(u)]
    BY <1>2, <2>1, <2>2, <2>3
  <2>5. ASSUME NEW u \in Threads, pc'[u] = "new"
        PROVE  table'.A[End(table', hash[u], Key(u))] = NULL
    <3>1. CASE u = t
      <4>1. LookNew(t)
        BY <1>7, <2>5, <3>1, FoundInside DEF PInv
      <4>2. table' = table /\ ~IsNode(table.A[End(table, hash[t], Key(t))])
        BY <4>1 DEF LookNew, Present
      <4>3. SharedTable(table) /\ hash[t] \in Nat
        BY <1>1, <1>2, TableGood
      <4> QED
        BY <3>1, <4>2, <4>3, ProbingEnds DEF Live
    <3>2. CASE u # t
      <4>1. table' = table
        BY <1>7, <2>2, <2>5, <3>2, ChangerAlone DEF PInv
      <4> QED
        BY <1>2, <2>2, <2>5, <3>2, <4>1
    <3> QED
      BY <3>1, <3>2
  <2> QED
    BY <2>1, <2>2, <2>4, <2>5 DEF FiledInv, Key
<1> QED
  BY <1>3, <1>4, <1>5, <1>6, <1>7 DEF Next

(* Each step is a step of the map, or none that it sees. *)
LEMMA StepMaps ==
  ASSUME PInv, PInv', FiledInv, FiledInv', [Next]_vars
  PROVE  [Map!Next]_(Map!vars)
<1>1. CASE UNCHANGED vars
  <2>1. Entries' = Entries /\ Ids' = Ids /\ Updates' = Updates
    BY <1>1, Untouched DEF vars
  <2> QED
    BY <1>1, <2>1 DEF vars, Map!vars
<1>2. CASE misused'
  BY <1>2 DEF Map!Next, Map!Misuse, PInv, TableInv
<1>3. ASSUME Next, ~misused' PROVE [Map!Next]_(Map!vars)
  <2>1. Good /\ Good' /\ misused' = misused
    BY <1>3, MisuseStays DEF Good
  <2>2. ASSUME table' = table, reply' = reply PROVE UNCHANGED Map!vars
    BY <2>1, <2>2, Untouched DEF Map!vars
  <2>3. ASSUME NEW t \in Threads, NEW c \in Calls, Start(t, c) PROVE UNCHANGED Map!vars
    BY <2>2, <2>3 DEF Start
  <2>4. ASSUME NEW t \in Threads, NEW c \in Calls, Size(t, c) PROVE Map!Next
    BY <2>1, <2>4, SizeMaps
  <2>5. ASSUME NEW t \in Threads, Lock(t) PROVE UNCHANGED Map!vars
    BY <2>2, <2>5 DEF Lock, RdLock, WrLock
  <2>6. ASSUME NEW t \in Threads, Set(t) PROVE Map!Next
    BY <1>3, <2>1, <2>6, SetFiles, Configures
  <2>7. ASSUME NEW t \in Threads,
               LookFound(t) \/ LookNew(t) \/ RebuildFails(t) \/ Unlock(t)
        PROVE  UNCHANGED Map!vars
    BY <2>2, <2>7, EveryUnlockReleases DEF LookFound, LookNew, RebuildFails, Release
  <2>8. ASSUME NEW t \in Threads, Inside(t) PROVE [Map!Next]_(Map!vars)
    BY <2>1, <2>6, <2>7, <2>8, LookAbsentMaps, LookFailsMaps, ReadMaps, ReplaceMaps, TakeOutMaps,
       InsertMaps, RebuildStutters DEF Inside
  <2> QED
    BY <1>3, <2>3, <2>4, <2>5, <2>8 DEF Next
<1> QED
  BY <1>1, <1>2, <1>3

(* The thread-safe hash table is a map (phash_put, phash_get, phash_remove, phash_size and
   atomic_update by any number of threads): each call takes effect in one step between its
   beginning and its end, and answers what the map answers at that moment, although its hash
   was computed before and the table may be rebuilt meanwhile. *)
THEOREM PTableIsMap == Spec => ImplementsMap
<1>1. Init => Map!Init
  <2> SUFFICES ASSUME Init PROVE Map!Init
    OBVIOUS
  <2>1. Good
    BY PInit, FiledInit DEF Init, Good
  <2>2. /\ Entries = [l \in DOMAIN Entries |-> Entries[l]]
        /\ DOMAIN Entries = {table.A[s].key : s \in Live(table)}
        /\ \A s \in Live(table) : /\ table.A[s] \in Node
                                  /\ Entries[table.A[s].key] = table.A[s].value
    BY <2>1, TableGood
  <2>3. DOMAIN Entries \in SUBSET Keys /\ \A l \in DOMAIN Entries : Entries[l] \in Values
    BY <2>2 DEF Node
  <2>4. Entries \in [DOMAIN Entries -> Values]
    BY <2>2, <2>3
  <2>5. Map!Distinct(DOMAIN Entries, Ids)
    BY <2>1, IdsDiffer
  <2>6. DOMAIN Ids = Keys /\ Updates \in BOOLEAN
    BY <2>1, TableGood DEF Ids, Updates, SharedTable
  <2>7. misused = FALSE /\ reply = Map!Reply(<<"none">>, 0, NULL)
    BY DEF Init, Map!Reply
  <2> QED
    BY <2>3, <2>4, <2>5, <2>6, <2>7 DEF Map!Init
<1>2. Init => FiledInv
  BY FiledInit
<1>3. PInv /\ PInv' /\ FiledInv /\ [Next]_vars => FiledInv' /\ [Map!Next]_(Map!vars)
  BY FiledStep, StepMaps
<1> QED
  BY <1>1, <1>2, <1>3, PInvariant, PTL DEF Spec, ImplementsMap, Map!Spec

=============================================================================
