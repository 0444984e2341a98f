----------------------------- MODULE HashProofs -----------------------------
(* Theorems about HashTable, for all keys, values, hash functions and sizes, whichever
   allocations fail. *)
EXTENDS HashTable, ProbeProofs

(* A table that is not too full, unless the last rebuild failed *)
SoundHash(t, late) ==
  /\ SoundTable(t, Node)
  /\ t.hash_func \in HashFuncs \cup {NULL}
  /\ t.comp \in BOOLEAN /\ t.update \in BOOLEAN
  /\ ~late => 4 * t.used <= 3 * t.capacity

HashInv == overdue \in BOOLEAN /\ (table = NoTable \/ SoundHash(table, overdue))

LEMMA NodesAreNodes == AreNodes(Node)
BY NodeAssumption DEF AreNodes, Node, IsNode

LEMMA HashOfKey ==
  ASSUME HashInv, Ready, NEW k \in Keys
  PROVE  Hash(k) \in Nat
BY HashAssumption DEF HashInv, SoundHash, Ready, Hash

LEMMA CreateKeeps == ASSUME HashInv, NEW n \in ExpectedSizes, Create(n) PROVE HashInv'
<1>1. n \in Int
  BY HashAssumption
<1>2. PICK no : no = FALSE
  OBVIOUS
<1> DEFINE t == New(n, DefaultHash, DefaultComp, no)
<1>3. /\ Fresh(t) /\ t.size = 0 /\ t.used = 0 /\ t.capacity \in Nat
      /\ t.hash_func = DefaultHash /\ t.comp = DefaultComp /\ t.update = no
  BY <1>1, NewFresh
<1> HIDE DEF t
<1>4. SoundTable(t, Node)
  BY <1>3, FreshSound
<1>5. 4 * t.used <= 3 * t.capacity
  BY <1>3
<1>6. SoundHash(t, overdue)
  BY <1>2, <1>3, <1>4, <1>5, HashAssumption DEF SoundHash
<1>7. table' \in {t, NoTable} /\ overdue' = overdue
  BY <1>2 DEF Create, t
<1> QED
  BY <1>6, <1>7 DEF HashInv

LEMMA SetKeeps ==
  ASSUME HashInv, table # NoTable, NEW f \in HashFuncs \cup {NULL}, NEW c \in BOOLEAN, NEW u \in BOOLEAN,
         NEW t, t = [table EXCEPT !.hash_func = f, !.comp = c, !.update = u]
  PROVE  SoundHash(t, overdue)
<1>1. SoundTable(table, Node) /\ (~overdue => 4 * table.used <= 3 * table.capacity)
  BY DEF HashInv, SoundHash
<1>2. t = [A |-> table.A, capacity |-> table.capacity, shift |-> table.shift, size |-> table.size,
           used |-> table.used, hash_func |-> f, comp |-> c, update |-> u]
  BY <1>1 DEF SoundTable, TableFields
<1>3. /\ t.A = table.A /\ t.capacity = table.capacity /\ t.shift = table.shift
      /\ t.size = table.size /\ t.used = table.used
      /\ t.hash_func = f /\ t.comp = c /\ t.update = u
  BY <1>2
<1>4. TableFields(t)
  BY <1>2, <1>3 DEF TableFields
<1>5. SoundTable(t, Node)
  BY <1>1, <1>3, <1>4, FunctionsSound
<1> QED
  BY <1>1, <1>3, <1>5 DEF SoundHash

LEMMA SettersKeep ==
  ASSUME HashInv, \/ \E f \in HashFuncs : SetHash(f)
                  \/ \E b \in BOOLEAN : SetComp(b) \/ SetUpdate(b)
  PROVE  HashInv'
<1>1. table # NoTable /\ overdue' = overdue
  BY DEF SetHash, SetComp, SetUpdate
<1>2. /\ table.hash_func \in HashFuncs \cup {NULL} /\ table.comp \in BOOLEAN /\ table.update \in BOOLEAN
      /\ TableFields(table)
  BY <1>1 DEF HashInv, SoundHash, SoundTable
<1>3. \/ table' = table
      \/ \E f \in HashFuncs \cup {NULL}, c, u \in BOOLEAN :
           table' = [table EXCEPT !.hash_func = f, !.comp = c, !.update = u]
  <2>1. ASSUME NEW f \in HashFuncs, SetHash(f), table' # table
        PROVE  table' = [table EXCEPT !.hash_func = f, !.comp = table.comp, !.update = table.update]
    BY <1>2, <2>1 DEF SetHash, TableFields
  <2>2. ASSUME NEW b \in BOOLEAN, SetComp(b)
        PROVE  table' = [table EXCEPT !.hash_func = table.hash_func, !.comp = b, !.update = table.update]
    BY <1>2, <2>2 DEF SetComp, TableFields
  <2>3. ASSUME NEW b \in BOOLEAN, SetUpdate(b)
        PROVE  table' = [table EXCEPT !.hash_func = table.hash_func, !.comp = table.comp, !.update = b]
    BY <1>2, <2>3 DEF SetUpdate, TableFields
  <2> QED
    BY <1>2, <2>1, <2>2, <2>3
<1>4. SoundHash(table', overdue) \/ table' = table
  BY <1>1, <1>3, SetKeeps
<1> QED
  BY <1>1, <1>4 DEF HashInv
-----------------------------------------------------------------------------
(* put and remove *)

(* Where the probing for a key ends in a table with a hash function *)
LEMMA EndIsSlot ==
  ASSUME HashInv, Ready, NEW k \in Keys
  PROVE  LET s == End(table, Hash(k), k)
         IN  s \in Slots(table) /\ (~Absent(k) => s \in Live(table) /\ table.A[s] \in Node)
<1> DEFINE s == End(table, Hash(k), k)
<1>1. SoundTable(table, Node) /\ Hash(k) \in Nat
  BY HashOfKey DEF HashInv, SoundHash, Ready
<1>2. Sized(table) /\ \E e \in Slots(table) : table.A[e] = NULL
  BY <1>1, SoundSized
<1>3. s \in Slots(table) /\ (table.A[s] = NULL \/ Holds(table, s, Hash(k), k))
  BY <1>1, <1>2, EndStops
<1> HIDE DEF s
<1>4. ~Absent(k) => s \in Live(table)
  BY <1>3 DEF Absent, Holds, Live, s
<1> QED
  BY <1>1, <1>3, <1>4 DEF SoundTable, s

LEMMA TargetIsSlot ==
  ASSUME HashInv, Ready, NEW k \in Keys
  PROVE  Target(table, Hash(k)) \in Slots(table) /\ ~IsNode(table.A[Target(table, Hash(k))])
<1>1. SoundTable(table, Node) /\ Hash(k) \in Nat
  BY HashOfKey DEF HashInv, SoundHash, Ready
<1>2. Sized(table) /\ \E e \in Slots(table) : ~IsNode(table.A[e])
  BY <1>1, SoundSized DEF IsNode
<1> QED
  BY <1>1, <1>2, TargetIsFree

LEMMA PutFoundKeeps ==
  ASSUME HashInv, NEW k \in Keys, NEW v \in Values, PutFound(k, v)
  PROVE  HashInv'
<1> DEFINE s == End(table, Hash(k), k)
           w == IF table.update THEN Combine(table.A[s].value, v) ELSE v
           x == [table.A[s] EXCEPT !.value = w]
<1>1. Ready /\ ~Absent(k) /\ table # NoTable /\ SoundHash(table, overdue) /\ overdue' = overdue
  BY DEF PutFound, Ready, HashInv
<1>2. s \in Slots(table) /\ s \in Live(table) /\ table.A[s] \in Node
  BY <1>1, EndIsSlot
<1>3. table' = [table EXCEPT !.A[s].value = w]
  BY DEF PutFound
<1> HIDE DEF s
<1>4. w \in Values
  BY <1>2, ValueAssumption DEF Node
<1> HIDE DEF w
<1>5. x \in Node
  BY <1>2, <1>4 DEF Node
<1>6. table' = WithSlot(table, s, x, table.size, table.used)
  BY <1>1, <1>3 DEF SoundHash, SoundTable, TableFields, WithSlot
<1> HIDE DEF x
<1>7. /\ SoundTable(table', Node) /\ table'.used = table.used /\ table'.capacity = table.capacity
      /\ table'.hash_func = table.hash_func /\ table'.comp = table.comp
      /\ table'.update = table.update
  BY <1>1, <1>2, <1>5, <1>6, NodesAreNodes, ReplacedSound DEF SoundHash
<1> QED
  BY <1>1, <1>7 DEF HashInv, SoundHash

LEMMA PutNewKeeps ==
  ASSUME HashInv, NEW k \in Keys, NEW v \in Values, PutNew(k, v)
  PROVE  HashInv'
<1> DEFINE s == Target(table, Hash(k))
           x == [hash |-> Hash(k), key |-> k, value |-> v]
           t == Inserted(table, s, x)
<1>1. Ready /\ table # NoTable /\ SoundHash(table, overdue) /\ ~LastSlot(table, s)
  BY DEF PutNew, Ready, HashInv
<1>2. x \in Node
  BY <1>1, HashOfKey DEF Node
<1>3. s \in Slots(table) /\ ~IsNode(table.A[s])
  BY <1>1, TargetIsSlot
<1>4. \/ ~OverLoaded(t) /\ table' = t /\ overdue' = overdue
      \/ table' = Rebuilt(t) /\ overdue' = FALSE
      \/ table' = t /\ overdue' = TRUE
  BY DEF PutNew
<1> HIDE DEF x, s
<1>5. /\ SoundTable(t, Node) /\ t.hash_func = table.hash_func
      /\ {t.comp, t.update} = {table.comp, table.update}
  BY <1>1, <1>2, <1>3, NodesAreNodes, InsertedSound DEF SoundHash
<1> HIDE DEF t
<1>6. t.hash_func \in HashFuncs \cup {NULL} /\ t.comp \in BOOLEAN /\ t.update \in BOOLEAN
  <2>1. {table.comp, table.update} \subseteq BOOLEAN
    BY <1>1 DEF SoundHash
  <2>2. {t.comp, t.update} \subseteq BOOLEAN
    BY ONLY <1>5, <2>1, Zenon
  <2> QED
    BY <1>1, <1>5, <2>2 DEF SoundHash
<1>7. CASE ~OverLoaded(t) /\ table' = t /\ overdue' = overdue
  <2>1. t.used \in Nat /\ t.capacity \in Nat
    BY <1>5, SoundSized
  <2> QED
    BY <1>1, <1>5, <1>6, <1>7, <2>1 DEF HashInv, SoundHash, OverLoaded
<1>8. CASE table' = Rebuilt(t) /\ overdue' = FALSE
  BY <1>5, <1>6, <1>8, NodesAreNodes, RebuiltSound DEF HashInv, SoundHash
<1>9. CASE table' = t /\ overdue' = TRUE
  BY <1>5, <1>6, <1>9 DEF HashInv, SoundHash
<1> QED
  BY <1>4, <1>7, <1>8, <1>9

LEMMA RemoveKeeps ==
  ASSUME HashInv, NEW k \in Keys, Remove(k)
  PROVE  HashInv'
<1> DEFINE s == End(table, Hash(k), k)
           t == Removed(table, s)
<1>1. /\ Ready /\ ~Absent(k) /\ table # NoTable /\ SoundHash(table, overdue)
      /\ table' = t /\ overdue' = overdue
  BY DEF Remove, Ready, HashInv
<1>2. s \in Live(table)
  BY <1>1, EndIsSlot
<1> HIDE DEF s
<1>3. /\ SoundTable(t, Node) /\ t.used = table.used /\ t.capacity = table.capacity
      /\ t.hash_func = table.hash_func
      /\ {t.comp, t.update} = {table.comp, table.update}
  BY <1>1, <1>2, RemovedSound DEF SoundHash
<1> HIDE DEF t
<1>4. {table.comp, table.update} \subseteq BOOLEAN
  BY <1>1 DEF SoundHash
<1>5. {t.comp, t.update} \subseteq BOOLEAN
  BY ONLY <1>3, <1>4, Zenon
<1> QED
  BY <1>1, <1>3, <1>5 DEF HashInv, SoundHash

-----------------------------------------------------------------------------
(* apply and clone *)

LEMMA ApplyIs ==
  ASSUME HashInv, Apply, NEW t, t = table'
  PROVE  /\ table # NoTable /\ SoundHash(table, overdue) /\ overdue' = overdue
         /\ TableFields(t) /\ DOMAIN t.A = Slots(table)
         /\ t.capacity = table.capacity /\ t.shift = table.shift
         /\ t.size = table.size /\ t.used = table.used
         /\ t.hash_func = table.hash_func /\ t.comp = table.comp /\ t.update = table.update
         /\ \A s \in Slots(table) : IF IsNode(table.A[s])
                                    THEN /\ t.A[s] \in Node
                                         /\ t.A[s].hash = table.A[s].hash
                                         /\ t.A[s].key = table.A[s].key
                                         /\ t.A[s].value = Change(table.A[s].key, table.A[s].value)
                                    ELSE t.A[s] = table.A[s]
<1> DEFINE Changed(s) == IF IsNode(table.A[s])
                         THEN [table.A[s] EXCEPT !.value = Change(table.A[s].key, table.A[s].value)]
                         ELSE table.A[s]
           B == [s \in Slots(table) |-> Changed(s)]
<1>1. table # NoTable /\ SoundHash(table, overdue) /\ overdue' = overdue
  BY DEF Apply, HashInv
<1>2. t = [table EXCEPT !.A = B]
  BY DEF Apply
<1>3. ASSUME NEW s \in Slots(table), IsNode(table.A[s])
      PROVE  /\ Changed(s) \in Node
             /\ Changed(s).hash = table.A[s].hash /\ Changed(s).key = table.A[s].key
             /\ Changed(s).value = Change(table.A[s].key, table.A[s].value)
  <2>1. table.A[s] \in Node
    BY <1>1, <1>3 DEF SoundHash, SoundTable, Live
  <2>2. PICK n \in Node : n = table.A[s]
    BY <2>1
  <2>3. Change(n.key, n.value) \in Values
    BY ValueAssumption DEF Node
  <2>4. Changed(s) = [n EXCEPT !.value = Change(n.key, n.value)]
    BY <1>3, <2>2
  <2> QED
    BY <2>2, <2>3, <2>4 DEF Node
<1>4. DOMAIN B = Slots(table) /\ \A s \in Slots(table) : B[s] = Changed(s)
  OBVIOUS
<1>5. \A s \in Slots(table) : ~IsNode(table.A[s]) => Changed(s) = table.A[s]
  OBVIOUS
<1> HIDE DEF B, Changed
<1>6. /\ TableFields(t) /\ t.A = B
      /\ t.capacity = table.capacity /\ t.shift = table.shift
      /\ t.size = table.size /\ t.used = table.used
      /\ t.hash_func = table.hash_func /\ t.comp = table.comp /\ t.update = table.update
  BY <1>1, <1>2 DEF SoundHash, SoundTable, TableFields
<1> QED
  BY <1>1, <1>3, <1>4, <1>5, <1>6

LEMMA ApplyKeeps == ASSUME HashInv, Apply PROVE HashInv'
<1>1. PICK t : t = table'
  OBVIOUS
<1>2. SoundTable(t, Node)
  BY <1>1, ApplyIs, NodesAreNodes, MappedSound DEF SoundHash
<1> QED
  BY <1>1, <1>2, ApplyIs DEF HashInv, SoundHash

(* A copy is a new table with the same functions, filled with the nodes. *)
LEMMA CopiedRefills ==
  ASSUME NEW t, SoundTable(t, Node)
  PROVE  \E n : /\ Fresh(n) /\ t.size < n.capacity /\ 4 * t.size <= 3 * n.capacity
                /\ n.hash_func = t.hash_func /\ n.comp = t.comp /\ n.update = t.update
                /\ Copied(t) = Refilled(n, t.A, t.size)
<1> DEFINE n == New(t.size, t.hash_func, t.comp, t.update)
           v == PlaceAll(n, t.A)
<1>1. t.size \in Nat
  BY SoundSized
<1>2. /\ Fresh(n) /\ 4 * t.size <= 3 * n.capacity /\ n.capacity \in Nat /\ n.capacity >= 4
      /\ n.hash_func = t.hash_func /\ n.comp = t.comp /\ n.update = t.update
  BY <1>1, NewFresh
<1>3. Copied(t) = [v EXCEPT !.size = t.size, !.used = t.size]
  BY DEF Copied
<1> HIDE DEF n
<1>4. t.size < n.capacity
  BY <1>1, <1>2
<1>5. v = [n EXCEPT !.A = v.A]
  BY <1>2, <1>4, NodesAreNodes, RefilledSound
<1>6. Refilled(n, t.A, t.size) =
        [A |-> v.A, capacity |-> n.capacity, shift |-> n.shift, size |-> t.size,
         used |-> t.size, hash_func |-> n.hash_func, comp |-> n.comp, update |-> n.update]
  BY DEF Refilled
<1> HIDE DEF v
<1>7. Copied(t) = Refilled(n, t.A, t.size)
  BY <1>2, <1>3, <1>5, <1>6 DEF Fresh, TableFields
<1> QED
  BY <1>2, <1>4, <1>7

LEMMA CloneKeeps == ASSUME HashInv, Clone PROVE HashInv'
<1>1. table # NoTable /\ SoundHash(table, overdue) /\ table' = Copied(table) /\ overdue' = FALSE
  BY DEF Clone, HashInv
<1>2. SoundTable(table, Node)
  BY <1>1 DEF SoundHash
<1>3. PICK n : /\ Fresh(n) /\ table.size < n.capacity /\ 4 * table.size <= 3 * n.capacity
               /\ n.hash_func = table.hash_func /\ n.comp = table.comp /\ n.update = table.update
               /\ Copied(table) = Refilled(n, table.A, table.size)
  BY <1>2, CopiedRefills
<1>4. PICK r : r = Refilled(n, table.A, table.size)
  OBVIOUS
<1>5. SoundTable(r, Node)
  BY <1>2, <1>3, <1>4, NodesAreNodes, RefilledSound
<1>6. /\ r.used = table.size /\ r.capacity = n.capacity
      /\ r.hash_func = table.hash_func /\ r.comp = table.comp /\ r.update = table.update
  BY <1>3, <1>4, RefilledFields
<1>7. SoundHash(r, FALSE)
  BY <1>1, <1>3, <1>5, <1>6 DEF SoundHash
<1> QED
  BY <1>1, <1>3, <1>4, <1>7 DEF HashInv

-----------------------------------------------------------------------------
(* Theorems *)

LEMMA StepKeeps == ASSUME HashInv, Next PROVE HashInv'
<1>1. ASSUME Destroy PROVE HashInv'
  BY <1>1 DEF Destroy, HashInv
<1>2. ASSUME table' = table, overdue' = overdue PROVE HashInv'
  BY <1>2 DEF HashInv
<1>3. ASSUME \/ Size \/ Walk \/ CloneFails \/ NotReady
             \/ \E k \in Keys : Get(k) \/ RemoveAbsent(k)
             \/ \E k \in Keys, v \in Values : PutNoMemory(k, v) \/ PutRefused(k, v)
      PROVE  HashInv'
  BY <1>2, <1>3 DEF Size, Walk, CloneFails, NotReady, Get, RemoveAbsent, PutNoMemory, PutRefused
<1>4. ASSUME NEW p \in Puts PROVE p[1] \in Keys /\ p[2] \in Values
  BY HashAssumption
<1> QED
  BY <1>1, <1>3, <1>4, CreateKeeps, SettersKeep, PutFoundKeeps, PutNewKeeps, RemoveKeeps,
     ApplyKeeps, CloneKeeps DEF Next

LEMMA HashInvariant == Spec => []HashInv
<1>1. Init => HashInv
  BY DEF Init, HashInv
<1>2. HashInv /\ [Next]_vars => HashInv'
  <2>1. ASSUME HashInv, vars' = vars PROVE HashInv'
    BY <2>1 DEF vars, HashInv
  <2> QED
    BY <2>1, StepKeeps
<1> QED
  BY <1>1, <1>2, PTL DEF Spec

(* Every call returns: whatever was put and removed, and whichever allocations failed,
   the way of every hash through the table comes to an empty slot, where the loops of
   put, get and remove stop. *)
THEOREM EveryProbeEnds == Spec => []ProbesEnd
<1>1. HashInv => ProbesEnd
  <2> SUFFICES ASSUME HashInv, Ready PROVE ProbesEndIn(table, {Hash(k) : k \in Keys})
    BY DEF ProbesEnd
  <2>1. {Hash(k) : k \in Keys} \in SUBSET Nat
    BY HashOfKey
  <2>2. SoundTable(table, Node)
    BY DEF HashInv, SoundHash, Ready
  <2> QED
    BY <2>1, <2>2, SoundProbesEnd
<1> QED
  BY <1>1, HashInvariant, PTL

(* The counters of a table are true, and unless the last rebuild failed for lack of
   memory, three quarters of its slots at most are entries or markers. *)
THEOREM LoadIsBounded == Spec => []LoadBounded
<1>1. HashInv => LoadBounded
  <2>1. ASSUME HashInv, table = NoTable PROVE LoadBounded
    <3>1. TypeOK
      BY <2>1 DEF HashInv, TypeOK
    <3> QED
      BY <2>1, <3>1 DEF LoadBounded
  <2>2. ASSUME HashInv, table # NoTable PROVE LoadBounded
    <3>1. SoundHash(table, overdue) /\ overdue \in BOOLEAN
      BY <2>2 DEF HashInv
    <3>2. {table.comp, table.update} \subseteq BOOLEAN
      BY <3>1 DEF SoundHash
    <3> QED
      BY <3>1, <3>2 DEF SoundHash, SoundTable, LoadBounded, TypeOK
  <2> QED
    BY <2>1, <2>2
<1> QED
  BY <1>1, HashInvariant, PTL

-----------------------------------------------------------------------------
(* An iteration meets every entry once. *)

(* The loop of an iteration, slot by slot *)
LEMMA MeetsInOrder ==
  ASSUME NEW t, NEW A, A = t.A, NEW N \in Nat, t.capacity = N
  PROVE  \E F : /\ F = [n \in 0 .. N |-> IF n = 0 THEN <<>> ELSE Meet(F[n - 1], A[n - 1])]
                /\ Walked(t) = F[N]
<1> DEFINE Body(f, n) == IF n = 0 THEN <<>> ELSE Meet(f[n - 1], A[n - 1])
           S == {k \in Nat : \E g : g = [n \in 0 .. k |-> Body(g, n)]}
<1>1. 0 \in S
  <2> DEFINE g == [n \in 0 .. 0 |-> <<>>]
  <2>1. g = [n \in 0 .. 0 |-> Body(g, n)]
    OBVIOUS
  <2> QED
    BY <2>1
<1>2. ASSUME NEW k \in S PROVE k + 1 \in S
  <2>1. k \in Nat /\ k + 1 \in Nat
    OBVIOUS
  <2>2. PICK g : g = [n \in 0 .. k |-> Body(g, n)]
    OBVIOUS
  <2> DEFINE h == [n \in 0 .. k + 1 |-> IF n = k + 1 THEN Meet(g[k], A[k]) ELSE g[n]]
  <2>3. ASSUME NEW n \in 0 .. k + 1 PROVE h[n] = Body(h, n)
    <3>1. CASE n = 0
      BY <2>1, <2>2, <3>1
    <3>2. CASE n \in 1 .. k
      <4>1. n \in 0 .. k /\ n - 1 \in 0 .. k /\ n # 0 /\ n # k + 1 /\ n - 1 # k + 1
        BY <2>1, <3>2
      <4>2. h[n] = g[n] /\ h[n - 1] = g[n - 1]
        BY <2>1, <4>1
      <4>3. g[n] = Body(g, n)
        BY <2>2, <4>1
      <4> HIDE DEF h
      <4> QED
        BY <4>1, <4>2, <4>3
    <3>3. CASE n = k + 1
      <4>1. n - 1 = k /\ k \in 0 .. k + 1 /\ k # k + 1 /\ n # 0
        BY ONLY <2>1, <3>3
      <4>2. h[n] = Meet(g[k], A[k]) /\ h[k] = g[k]
        BY <3>3, <4>1
      <4> HIDE DEF h
      <4> QED
        BY <4>1, <4>2
    <3> QED
      BY <2>1, <3>1, <3>2, <3>3
  <2>4. h = [n \in 0 .. k + 1 |-> Body(h, n)]
    <3>1. h = [n \in 0 .. k + 1 |-> h[n]]
      OBVIOUS
    <3> HIDE DEF h, Body
    <3> QED
      BY <2>3, <3>1
  <2> HIDE DEF h
  <2> QED
    BY <2>1, <2>4
<1> HIDE DEF S
<1>3. N \in S
  BY <1>1, <1>2, NatInduced DEF S
<1> DEFINE F == CHOOSE g : g = [n \in 0 .. N |-> Body(g, n)]
<1>4. F = [n \in 0 .. N |-> Body(F, n)]
  <2>1. \E g : g = [n \in 0 .. N |-> Body(g, n)]
    BY <1>3 DEF S
  <2> QED
    BY <2>1
<1>5. Walked(t) = F[N]
  BY DEF Walked
<1> HIDE DEF F
<1> QED
  BY <1>4, <1>5

Pair(x) == <<x.key, x.value>>

Elements(q) == {q[i] : i \in DOMAIN q}

LEMMA OneMore ==
  ASSUME NEW P, NEW q \in Seq(P), NEW x \in P
  PROVE  /\ Append(q, x) \in Seq(P) /\ Len(Append(q, x)) = Len(q) + 1
         /\ Elements(Append(q, x)) = Elements(q) \cup {x}
<1>1. PICK r : r = Append(q, x)
  OBVIOUS
<1>2. /\ r \in Seq(P) /\ Len(r) = Len(q) + 1 /\ Len(q) \in Nat
      /\ DOMAIN r = 1 .. Len(q) + 1 /\ DOMAIN q = 1 .. Len(q)
      /\ \A i \in 1 .. Len(q) : r[i] = q[i]
      /\ r[Len(q) + 1] = x
  BY <1>1
<1>3. DOMAIN r = DOMAIN q \cup {Len(q) + 1}
  BY <1>2
<1>4. Elements(r) = Elements(q) \cup {x}
  BY <1>2, <1>3 DEF Elements
<1> QED
  BY <1>1, <1>2, <1>4

LEMMA WalkedIs ==
  ASSUME NEW t, Sized(t), \A s \in Live(t) : t.A[s] \in Node
  PROVE  /\ Len(Walked(t)) = Cardinality(Live(t))
         /\ Elements(Walked(t)) = {Pair(t.A[s]) : s \in Live(t)}
<1> DEFINE N == t.capacity
           A == t.A
           P == Keys \X Values
           Good(q, n) == /\ q \in Seq(P) /\ Len(q) = Cardinality(Nodes(A, n))
                         /\ Elements(q) = {Pair(A[s]) : s \in Nodes(A, n)}
<1>1. N \in Nat /\ Live(t) = Nodes(A, N)
  BY SizedSlots DEF Live, Nodes, Slots
<1>2. \A s \in Live(t) : Pair(A[s]) \in P
  BY DEF Pair, Node
<1>3. PICK F : /\ F = [n \in 0 .. N |-> IF n = 0 THEN <<>> ELSE Meet(F[n - 1], A[n - 1])]
               /\ Walked(t) = F[N]
  BY <1>1, MeetsInOrder
<1> HIDE DEF N, A, P
<1> DEFINE S == {n \in Nat : n <= N => Good(F[n], n)}
<1>4. 0 \in S
  <2>1. F[0] = <<>>
    BY <1>1, <1>3
  <2>2. Nodes(A, 0) = {}
    BY DEF Nodes
  <2>3. <<>> \in Seq(P) /\ Len(<<>>) = 0 /\ Elements(<<>>) = {}
    BY DEF Elements
  <2> QED
    BY <2>1, <2>2, <2>3, FS_EmptySet
<1>5. ASSUME NEW n \in S PROVE n + 1 \in S
  <2> SUFFICES ASSUME n + 1 <= N PROVE Good(F[n + 1], n + 1)
    OBVIOUS
  <2>1. n \in Nat /\ n + 1 \in 0 .. N /\ (n + 1) - 1 = n /\ n <= N /\ n + 1 # 0
    BY <1>1
  <2>2. F[n + 1] = Meet(F[n], A[n])
    BY <1>3, <2>1
  <2>3. Good(F[n], n)
    BY <2>1
  <2> HIDE DEF S
  <2>4. CASE ~IsNode(A[n])
    <3>1. F[n + 1] = F[n] /\ Nodes(A, n + 1) = Nodes(A, n)
      BY <2>1, <2>2, <2>4, NodesNext DEF Meet
    <3> QED
      BY <2>3, <3>1
  <2>5. CASE IsNode(A[n])
    <3>1. F[n + 1] = Append(F[n], Pair(A[n]))
      BY <2>2, <2>5 DEF Meet, Pair
    <3>2. /\ Nodes(A, n + 1) = Nodes(A, n) \cup {n}
          /\ Cardinality(Nodes(A, n + 1)) = Cardinality(Nodes(A, n)) + 1
      BY <2>1, <2>5, NodesNext
    <3>3. Pair(A[n]) \in P
      BY <1>1, <1>2, <2>1, <2>5 DEF Nodes
    <3>4. /\ F[n + 1] \in Seq(P) /\ Len(F[n + 1]) = Len(F[n]) + 1
          /\ Elements(F[n + 1]) = Elements(F[n]) \cup {Pair(A[n])}
      BY <2>3, <3>1, <3>3, OneMore
    <3>5. {Pair(A[s]) : s \in Nodes(A, n + 1)} = {Pair(A[s]) : s \in Nodes(A, n)} \cup {Pair(A[n])}
      BY <3>2
    <3> QED
      BY <2>3, <3>2, <3>4, <3>5
  <2> QED
    BY <2>4, <2>5
<1> HIDE DEF S
<1>6. N \in S
  BY <1>1, <1>4, <1>5, NatInduced DEF S
<1>7. Good(F[N], N)
  BY <1>1, <1>6 DEF S
<1> QED
  BY <1>1, <1>3, <1>7 DEF A

-----------------------------------------------------------------------------
(* The table as a map *)

(* A table whose nodes are where probing finds them *)
Kept(t) == Filed(t) /\ (t.hash_func = NULL => Live(t) = {})

MapInv == HashInv /\ (table = NoTable \/ Kept(table))

LEMMA TableSound ==
  ASSUME MapInv, table # NoTable
  PROVE  /\ SoundHash(table, overdue) /\ SoundTable(table, Node) /\ Sized(table)
         /\ Filed(table) /\ Kept(table)
         /\ Entries = Contents(table) /\ Entries = [l \in DOMAIN Entries |-> Entries[l]]
         /\ DOMAIN Entries = {table.A[s].key : s \in Live(table)}
         /\ \A s \in Live(table) : /\ table.A[s] \in Node
                                   /\ Entries[table.A[s].key] = table.A[s].value
         /\ Cardinality(DOMAIN Entries) = table.size
<1>1. /\ SoundHash(table, overdue) /\ SoundTable(table, Node) /\ Filed(table) /\ Kept(table)
      /\ Entries = Contents(table)
  BY DEF MapInv, HashInv, SoundHash, Kept, Entries
<1>2. Sized(table)
  BY <1>1, SoundSized
<1>3. PICK m : m = Contents(table)
  OBVIOUS
<1>4. /\ m = [l \in DOMAIN m |-> m[l]]
      /\ DOMAIN m = {table.A[s].key : s \in Live(table)}
      /\ \A s \in Live(table) : m[table.A[s].key] = table.A[s].value
      /\ Cardinality(DOMAIN m) = Cardinality(Live(table))
  BY <1>1, <1>2, <1>3, ContentsAre
<1>5. Cardinality(Live(table)) = table.size /\ \A s \in Live(table) : table.A[s] \in Node
  BY <1>1 DEF SoundTable, WellFormed
<1> QED
  BY <1>1, <1>2, <1>3, <1>4, <1>5

LEMMA SameKey ==
  ASSUME Ready, NEW k \in Keys, NEW l \in Keys
  PROVE  Ids[l] = Ids[k] <=> Hash(l) = Hash(k) /\ (table.comp => l = k)
BY DEF Ids, Id

(* What the map finds is the entry at which probing ends. *)
LEMMA FoundIs ==
  ASSUME MapInv, Ready, NEW k \in Keys, NEW s, s = End(table, Hash(k), k)
  PROVE  /\ Absent(k) => Map!Found(k) = {}
         /\ ~Absent(k) => /\ s \in Live(table) /\ table.A[s] \in Node
                          /\ table.A[s].key \in DOMAIN Entries
                          /\ Entries[table.A[s].key] = table.A[s].value
                          /\ Map!Found(k) = {table.A[s].key}
<1>1. table # NoTable /\ HashInv /\ Hash(k) \in Nat
  BY HashOfKey DEF Ready, MapInv
<1>2. /\ SoundTable(table, Node) /\ Sized(table) /\ Filed(table)
      /\ DOMAIN Entries = {table.A[r].key : r \in Live(table)}
      /\ \A r \in Live(table) : table.A[r] \in Node /\ Entries[table.A[r].key] = table.A[r].value
  BY <1>1, TableSound
<1>3. \E e \in Slots(table) : table.A[e] = NULL
  BY <1>2, SoundSized
<1>4. /\ Absent(k) => \A r \in Live(table) : ~Holds(table, r, Hash(k), k)
      /\ ~Absent(k) => /\ s \in Live(table) /\ Holds(table, s, Hash(k), k)
                       /\ \A r \in Live(table) : Holds(table, r, Hash(k), k) => r = s
  BY <1>1, <1>2, <1>3, EndIsHolder DEF Filed, Absent
<1>5. ASSUME NEW r \in Live(table)
      PROVE  table.A[r].key \in Map!Found(k) <=> Holds(table, r, Hash(k), k)
  <2>1. PICK l \in Keys : l = table.A[r].key
    BY <1>2 DEF Node
  <2>2. l \in DOMAIN Entries /\ Hash(l) = table.A[r].hash /\ IsNode(table.A[r])
    BY <1>2, <2>1 DEF Filed, Hash, Live
  <2>3. l \in Map!Found(k) <=> Ids[l] = Ids[k]
    BY <2>2 DEF Map!Found
  <2> QED
    BY <2>1, <2>2, <2>3, SameKey DEF Holds
<1>6. \A l \in Map!Found(k) : \E r \in Live(table) : l = table.A[r].key
  BY <1>2 DEF Map!Found
<1> QED
  BY <1>2, <1>4, <1>5, <1>6

(* Steps that leave the functions of the table alone *)
LEMMA SameFunctions ==
  ASSUME \/ table' = table
         \/ /\ table # NoTable /\ table' # NoTable
            /\ table'.hash_func = table.hash_func /\ table'.comp = table.comp
            /\ table'.update = table.update
  PROVE  Ids' = Ids /\ Updates' = Updates /\ Ready' = Ready
BY DEF Ids, Id, Updates, Ready, Hash

LEMMA TablesExist == ASSUME NEW t, TableFields(t) PROVE t # NoTable
BY DEF TableFields, NoTable

(* Each call is a step of the map.  The calls that change nothing: *)
LEMMA Untouched ==
  ASSUME table' = table
  PROVE  Entries' = Entries /\ Ids' = Ids /\ Updates' = Updates /\ Ready' = Ready
BY DEF Entries, Ids, Id, Updates, Ready, Hash

LEMMA PutFailsMaps ==
  ASSUME MapInv, NEW k \in Keys, NEW v \in Values, PutNoMemory(k, v) \/ PutRefused(k, v)
  PROVE  Map!Next
<1>1. Ready /\ Absent(k) /\ table' = table
  BY DEF PutNoMemory, PutRefused
<1>2. reply' = Map!Reply(<<"put", k, v>>, -1, NULL)
  BY DEF PutNoMemory, PutRefused, Answer, Failed, Map!Reply
<1>3. Map!Found(k) = {}
  BY <1>1, FoundIs
<1>4. Map!Put(k, v)
  <2>1. reply'.call = <<"put", k, v>>
    BY <1>2 DEF Map!Reply
  <2> QED
    BY <1>1, <1>2, <1>3, <2>1, Untouched DEF Map!Put, Map!Stores
<1> QED
  BY <1>1, <1>4, Untouched DEF Map!Next, Map!Call

LEMMA GetMaps ==
  ASSUME MapInv, NEW k \in Keys, Get(k)
  PROVE  Map!Next
<1> DEFINE s == End(table, Hash(k), k)
<1>1. Ready /\ table' = table
  BY DEF Get
<1>2. reply' = IF Absent(k) THEN Map!Reply(<<"get", k>>, 0, NULL)
                ELSE Map!Reply(<<"get", k>>, 1, table.A[s].value)
  BY DEF Get, Answer, Map!Reply
<1>3. /\ Absent(k) => Map!Found(k) = {}
      /\ ~Absent(k) => /\ Map!Found(k) = {table.A[s].key}
                       /\ Entries[table.A[s].key] = table.A[s].value
  BY <1>1, FoundIs
<1> HIDE DEF s
<1>4. reply' = Map!Lookup(<<"get", k>>, k)
  BY <1>2, <1>3 DEF Map!Lookup
<1>5. reply'.call = <<"get", k>>
  BY <1>2 DEF Map!Reply
<1>6. Map!Get(k)
  BY <1>1, <1>4, <1>5, Untouched DEF Map!Get
<1> QED
  BY <1>1, <1>6, Untouched DEF Map!Next, Map!Call

LEMMA RemoveAbsentMaps ==
  ASSUME MapInv, NEW k \in Keys, RemoveAbsent(k)
  PROVE  Map!Next
<1>1. Ready /\ Absent(k) /\ table' = table /\ table # NoTable
  BY DEF RemoveAbsent, Ready
<1>2. reply' = Map!Reply(<<"remove", k>>, 0, NULL)
  BY DEF RemoveAbsent, Answer, Map!Reply
<1>3. Map!Found(k) = {}
  BY <1>1, FoundIs
<1>4. reply'.call = <<"remove", k>>
  BY <1>2 DEF Map!Reply
<1>5. Entries' = [l \in DOMAIN Entries \ Map!Found(k) |-> Entries[l]]
  BY <1>1, <1>3, Untouched, TableSound
<1>6. Map!Remove(k)
  BY <1>2, <1>3, <1>4, <1>5 DEF Map!Remove, Map!Lookup
<1> QED
  BY <1>1, <1>6, Untouched DEF Map!Next, Map!Call

(* The map counts as the table does. *)
LEMMA CountsAgree == \A S : Map!Cardinality(S) = Cardinality(S)
BY DEF Map!Cardinality, Cardinality, Map!IsFiniteSet, IsFiniteSet

LEMMA SizeMaps == ASSUME MapInv, Size PROVE Map!Next
<1>1. table # NoTable /\ table' = table
  BY DEF Size
<1>2. reply' = Map!Reply(<<"size", NULL>>, table.size, NULL)
  BY DEF Size, Answer, Map!Reply
<1>3. Map!Size
  <2>1. Cardinality(DOMAIN Entries) = table.size
    BY <1>1, TableSound
  <2>2. Entries' = Entries
    BY <1>1, Untouched
  <2> QED
    BY <1>2, <2>1, <2>2, CountsAgree DEF Map!Size
<1> QED
  BY <1>1, <1>3, Untouched DEF Map!Next

LEMMA WalkMaps == ASSUME MapInv, Walk PROVE Map!Next
<1>1. table # NoTable /\ table' = table
  BY DEF Walk
<1>2. reply' = Map!Reply(<<"walk">>, 0, Walked(table))
  BY DEF Walk, Answer, Map!Reply
<1>3. /\ Sized(table) /\ SoundTable(table, Node)
      /\ DOMAIN Entries = {table.A[r].key : r \in Live(table)}
      /\ \A r \in Live(table) : table.A[r] \in Node /\ Entries[table.A[r].key] = table.A[r].value
      /\ Cardinality(DOMAIN Entries) = table.size
  BY <1>1, TableSound
<1>4. /\ Len(Walked(table)) = Cardinality(Live(table))
      /\ Elements(Walked(table)) = {Pair(table.A[r]) : r \in Live(table)}
  BY <1>3, WalkedIs
<1>5. {<<l, Entries[l]>> : l \in DOMAIN Entries} = {Pair(table.A[r]) : r \in Live(table)}
  BY <1>3 DEF Pair
<1>6. PICK q : q = Walked(table)
  OBVIOUS
<1>7. reply'.call = <<"walk">> /\ reply'.value = q
  BY <1>2, <1>6 DEF Map!Reply
<1>8. Len(q) = Cardinality(DOMAIN Entries)
  BY <1>3, <1>4, <1>6 DEF SoundTable, WellFormed
<1>9. {q[i] : i \in DOMAIN q} = {<<l, Entries[l]>> : l \in DOMAIN Entries}
  BY <1>4, <1>5, <1>6 DEF Elements
<1>10. Map!Walk
  <2>1. Entries' = Entries
    BY <1>1, Untouched
  <2>2. {reply'.value[i] : i \in DOMAIN reply'.value} = {<<l, Entries[l]>> : l \in DOMAIN Entries}
    BY <1>7, <1>9
  <2> QED
    BY <1>7, <1>8, <2>1, <2>2, CountsAgree DEF Map!Walk
<1> QED
  BY <1>1, <1>10, Untouched DEF Map!Next

LEMMA NotReadyMaps == ASSUME NotReady PROVE Map!Next
<1>1. ~Ready /\ table' = table
  BY DEF NotReady
<1>2. reply'.rc = -1
  BY DEF NotReady, Answer
<1> QED
  BY <1>1, <1>2, Untouched DEF Map!Next, Map!NotReady

(* The calls that change the table: *)
LEMMA PutFoundMaps ==
  ASSUME MapInv, HashInv', NEW k \in Keys, NEW v \in Values, PutFound(k, v)
  PROVE  Map!Next /\ Kept(table')
<1> DEFINE s == End(table, Hash(k), k)
           w == IF table.update THEN Combine(table.A[s].value, v) ELSE v
           x == [table.A[s] EXCEPT !.value = w]
<1>1. Ready /\ ~Absent(k) /\ table # NoTable
  BY DEF PutFound, Ready
<1>2. table' = [table EXCEPT !.A[s].value = w]
  BY DEF PutFound
<1>3. reply' = Map!Reply(<<"put", k, v>>, 1, NULL)
  BY DEF PutFound, Answer, Map!Reply
<1>4. /\ s \in Live(table) /\ table.A[s] \in Node
      /\ table.A[s].key \in DOMAIN Entries /\ Entries[table.A[s].key] = table.A[s].value
      /\ Map!Found(k) = {table.A[s].key}
  BY <1>1, FoundIs
<1> HIDE DEF s
<1>5. w \in Values
  BY <1>4, ValueAssumption DEF Node
<1>6. Updates <=> table.update
  BY <1>1 DEF Updates
<1>7. w = IF Updates THEN Combine(Entries[table.A[s].key], v) ELSE v
  BY <1>4, <1>6
<1> HIDE DEF w
<1>8. x \in Node /\ x.hash = table.A[s].hash /\ x.key = table.A[s].key /\ x.value = w
  BY <1>4, <1>5 DEF Node
<1> DEFINE m == [Entries EXCEPT ![table.A[s].key] = w]
<1>9. /\ SoundTable(table, Node) /\ TableFields(table) /\ Filed(table) /\ Sized(table)
      /\ Entries = Contents(table)
      /\ table.hash_func = NULL => Live(table) = {}
      /\ DOMAIN Entries = {table.A[r].key : r \in Live(table)}
      /\ \A r \in Live(table) : table.A[r] \in Node /\ Entries[table.A[r].key] = table.A[r].value
  BY <1>1, TableSound DEF SoundTable, Kept
<1>10. table' = WithSlot(table, s, x, table.size, table.used)
  BY <1>2, <1>9 DEF TableFields, WithSlot
<1> HIDE DEF x
<1>11. PICK u : u = table'
  OBVIOUS
<1>12. /\ SoundTable(u, Node) /\ u.hash_func = table.hash_func /\ u.comp = table.comp
       /\ u.update = table.update
  BY <1>4, <1>8, <1>9, <1>10, <1>11, NodesAreNodes, ReplacedSound
<1>13. /\ u.capacity = table.capacity /\ u.shift = table.shift
       /\ \A r \in Slots(table) : u.A[r] = IF r = s THEN x ELSE table.A[r]
  BY <1>4, <1>9, <1>10, <1>11, SlotChanged DEF Live
<1>14. \A r \in Live(table) : r \in Slots(table) /\ (r # s => table.A[r].key # table.A[s].key)
  BY <1>4, <1>9, KeysDiffer DEF Live
<1>15. /\ DOMAIN m = DOMAIN Entries /\ m = [l \in DOMAIN m |-> m[l]]
       /\ \A r \in Live(table) : m[table.A[r].key] = u.A[r].value
  BY <1>4, <1>8, <1>9, <1>13, <1>14
<1>16. \A r \in Slots(table) : IF IsNode(table.A[r])
                               THEN /\ u.A[r] \in Node
                                    /\ u.A[r].hash = table.A[r].hash /\ u.A[r].key = table.A[r].key
                               ELSE u.A[r] = table.A[r]
  BY <1>4, <1>8, <1>9, <1>13 DEF Live
<1> HIDE DEF m
<1>17. Filed(u) /\ Contents(u) = m
  BY <1>9, <1>12, <1>13, <1>15, <1>16, NodesAreNodes, ChangedFiled
<1>18. u # NoTable
  BY <1>12, TablesExist DEF SoundTable
<1>19. Entries' = m
  BY <1>11, <1>17, <1>18 DEF Entries
<1>20. u.hash_func # NULL
  BY <1>1, <1>12 DEF Ready
<1>21. Map!Put(k, v)
  <2>1. Entries' = [Entries EXCEPT ![table.A[s].key] = IF Updates THEN Combine(@, v) ELSE v]
    BY <1>7, <1>19 DEF m
  <2> QED
    BY <1>3, <1>4, <2>1 DEF Map!Put, Map!Stores, Map!Reply
<1>22. Ids' = Ids /\ Updates' = Updates /\ Ready' = Ready
  BY <1>1, <1>11, <1>12, <1>18, SameFunctions
<1>23. Map!Next
  BY <1>1, <1>21, <1>22 DEF Map!Next, Map!Call
<1> QED
  BY <1>11, <1>17, <1>20, <1>23 DEF Kept

LEMMA RemoveMaps ==
  ASSUME MapInv, HashInv', NEW k \in Keys, Remove(k)
  PROVE  Map!Next /\ Kept(table')
<1> DEFINE s == End(table, Hash(k), k)
<1>1. Ready /\ ~Absent(k) /\ table # NoTable /\ table' = Removed(table, s)
  BY DEF Remove, Ready
<1>2. reply' = Map!Reply(<<"remove", k>>, 1, table.A[s].value)
  BY DEF Remove, Answer, Map!Reply
<1>3. /\ s \in Live(table) /\ table.A[s] \in Node
      /\ table.A[s].key \in DOMAIN Entries /\ Entries[table.A[s].key] = table.A[s].value
      /\ Map!Found(k) = {table.A[s].key}
  BY <1>1, FoundIs
<1> HIDE DEF s
<1>4. /\ SoundTable(table, Node) /\ Filed(table) /\ Entries = Contents(table)
      /\ TableFields(table) /\ Sized(table) /\ s \in Slots(table)
  BY <1>1, <1>3, TableSound DEF SoundTable, Live
<1>5. PICK u : u = Removed(table, s)
  OBVIOUS
<1>6. /\ SoundTable(u, Node) /\ Filed(u)
      /\ Contents(u) = [l \in DOMAIN Entries \ {table.A[s].key} |-> Entries[l]]
  BY <1>3, <1>4, <1>5, NodesAreNodes, RemovedFiled, RemovedSound
<1>7. u = WithSlot(table, s, DELETED, table.size - 1, table.used)
  BY <1>4, <1>5 DEF Removed, TableFields, WithSlot
<1>8. u.hash_func = table.hash_func /\ u.comp = table.comp /\ u.update = table.update
  BY <1>4, <1>7, SlotChanged
<1>9. u # NoTable
  BY <1>6, TablesExist DEF SoundTable
<1>10. Entries' = [l \in DOMAIN Entries \ Map!Found(k) |-> Entries[l]]
  BY <1>1, <1>3, <1>5, <1>6, <1>9 DEF Entries
<1>11. Map!Remove(k)
  <2>1. reply'.call = <<"remove", k>>
    BY <1>2 DEF Map!Reply
  <2> QED
    BY <1>2, <1>3, <1>10, <2>1 DEF Map!Remove, Map!Lookup
<1>12. Ids' = Ids /\ Updates' = Updates /\ Ready' = Ready
  BY <1>1, <1>5, <1>8, <1>9, SameFunctions
<1>13. Map!Next
  BY <1>1, <1>11, <1>12 DEF Map!Next, Map!Call
<1> QED
  BY <1>1, <1>5, <1>6, <1>8, <1>13 DEF Kept, Ready

LEMMA PutNewMaps ==
  ASSUME MapInv, HashInv', NEW k \in Keys, NEW v \in Values, PutNew(k, v)
  PROVE  Map!Next /\ Kept(table')
<1> DEFINE s == Target(table, Hash(k))
           x == [hash |-> Hash(k), key |-> k, value |-> v]
<1>1. Ready /\ Absent(k) /\ table # NoTable /\ ~LastSlot(table, s) /\ Hash(k) \in Nat
  BY HashOfKey DEF PutNew, Ready, MapInv
<1>2. table' \in {Inserted(table, s, x), Rebuilt(Inserted(table, s, x))}
  BY DEF PutNew
<1>3. reply' = Map!Reply(<<"put", k, v>>, 0, NULL)
  BY DEF PutNew, Answer, Map!Reply
<1>4. Map!Found(k) = {}
  BY <1>1, FoundIs
<1>5. x \in Node /\ x.hash = Hash(k) /\ x.key = k /\ x.value = v
  BY <1>1 DEF Node
<1>6. s = Target(table, x.hash) /\ table.A[End(table, x.hash, x.key)] = NULL
  BY <1>1, <1>5 DEF Absent
<1>7. x.hash = table.hash_func[x.key]
  BY <1>5 DEF Hash
<1>8. /\ SoundTable(table, Node) /\ TableFields(table) /\ Filed(table) /\ Sized(table)
      /\ Entries = Contents(table)
  BY <1>1, TableSound DEF SoundTable
<1>9. s \in Slots(table) /\ ~IsNode(table.A[s])
  BY <1>1, TargetIsSlot DEF MapInv
<1> HIDE DEF x, s
<1>10. PICK t : t = Inserted(table, s, x)
  OBVIOUS
<1>11. SoundTable(t, Node)
  BY <1>1, <1>5, <1>8, <1>9, <1>10, NodesAreNodes, InsertedSound
<1> DEFINE m == [l \in DOMAIN Entries \cup {k} |-> IF l = k THEN v ELSE Entries[l]]
<1>12. Filed(t) /\ Contents(t) = m
  <2>1. /\ Filed(t)
        /\ Contents(t) = [l \in DOMAIN Entries \cup {x.key} |-> IF l = x.key THEN x.value ELSE Entries[l]]
    <3>1. x \in Node /\ SoundTable(table, Node) /\ Filed(table)
      BY <1>5, <1>8
    <3>2. PICK e : e = Contents(table)
      OBVIOUS
    <3>3. /\ Filed(t)
          /\ Contents(t) = [l \in DOMAIN e \cup {x.key} |-> IF l = x.key THEN x.value ELSE e[l]]
      BY ONLY <1>6, <1>7, <1>10, <3>1, <3>2, NodesAreNodes, InsertedFiled
    <3> QED
      BY <1>8, <3>2, <3>3
  <2> QED
    BY <1>5, <2>1
<1> HIDE DEF m
<1>13. t.hash_func = table.hash_func /\ t.comp = table.comp /\ t.update = table.update
  <2>1. t = [table EXCEPT !.A = t.A, !.size = t.size, !.used = t.used]
    BY <1>8, <1>10, <1>11 DEF Inserted, SoundTable, TableFields
  <2> QED
    BY <1>8, <2>1 DEF TableFields
<1>14. PICK u : u = table'
  OBVIOUS
<1>15. /\ SoundTable(u, Node) /\ Filed(u) /\ Contents(u) = m
       /\ u.hash_func = table.hash_func /\ u.comp = table.comp /\ u.update = table.update
  <2>1. CASE u = t
    BY <1>11, <1>12, <1>13, <2>1
  <2>2. CASE u = Rebuilt(t)
    BY <1>11, <1>12, <1>13, <2>2, NodesAreNodes, RebuiltSound, RebuiltFiled
  <2> QED
    BY <1>2, <1>10, <1>14, <2>1, <2>2
<1>16. u # NoTable
  BY <1>15, TablesExist DEF SoundTable
<1>17. Entries' = m
  BY <1>14, <1>15, <1>16 DEF Entries
<1>18. Map!Put(k, v)
  BY <1>3, <1>4, <1>17 DEF Map!Put, Map!Stores, Map!Reply, m
<1>19. Ids' = Ids /\ Updates' = Updates /\ Ready' = Ready
  BY <1>1, <1>14, <1>15, <1>16, SameFunctions
<1>20. Map!Next
  BY <1>1, <1>18, <1>19 DEF Map!Next, Map!Call
<1> QED
  BY <1>1, <1>14, <1>15, <1>20 DEF Kept, Ready

LEMMA ApplyMaps ==
  ASSUME MapInv, HashInv', Apply
  PROVE  Map!Next /\ Kept(table')
<1>1. table # NoTable /\ HashInv
  BY DEF Apply, MapInv
<1>2. reply' = Map!Reply(<<"apply">>, 0, NULL)
  BY DEF Apply, Answer, Map!Reply
<1>3. /\ SoundTable(table, Node) /\ Filed(table) /\ Sized(table) /\ Entries = Contents(table)
      /\ table.hash_func = NULL => Live(table) = {}
      /\ DOMAIN Entries = {table.A[r].key : r \in Live(table)}
      /\ \A r \in Live(table) : Entries[table.A[r].key] = table.A[r].value
  BY <1>1, TableSound DEF Kept
<1>4. PICK t : t = table'
  OBVIOUS
<1>5. /\ TableFields(t) /\ DOMAIN t.A = Slots(table)
      /\ t.capacity = table.capacity /\ t.shift = table.shift
      /\ t.size = table.size /\ t.used = table.used
      /\ t.hash_func = table.hash_func /\ t.comp = table.comp /\ t.update = table.update
      /\ \A s \in Slots(table) : IF IsNode(table.A[s])
                                 THEN /\ t.A[s] \in Node
                                      /\ t.A[s].hash = table.A[s].hash
                                      /\ t.A[s].key = table.A[s].key
                                      /\ t.A[s].value = Change(table.A[s].key, table.A[s].value)
                                 ELSE t.A[s] = table.A[s]
  BY <1>1, <1>4, ApplyIs
<1>6. SoundTable(t, Node)
  BY <1>3, <1>5, NodesAreNodes, MappedSound
<1> DEFINE m == [l \in DOMAIN Entries |-> Change(l, Entries[l])]
<1>7. /\ DOMAIN m = DOMAIN Entries /\ m = [l \in DOMAIN m |-> m[l]]
      /\ \A s \in Live(table) : m[table.A[s].key] = t.A[s].value
  BY <1>3, <1>5 DEF Live
<1> HIDE DEF m
<1>8. Filed(t) /\ Contents(t) = m
  BY <1>3, <1>5, <1>6, <1>7, NodesAreNodes, ChangedFiled
<1>9. t # NoTable
  BY <1>5, TablesExist
<1>10. Live(t) = Live(table)
  <2>1. Slots(t) = Slots(table)
    BY <1>5 DEF Slots
  <2> QED
    BY <1>5, <2>1, NodesAreNodes DEF Live, AreNodes
<1>11. Map!Apply
  BY <1>2, <1>4, <1>8, <1>9 DEF Map!Apply, Entries, m
<1>12. Ids' = Ids /\ Updates' = Updates /\ Ready' = Ready
  BY <1>1, <1>4, <1>5, <1>9, SameFunctions
<1>13. Map!Next
  BY <1>11, <1>12 DEF Map!Next
<1> QED
  BY <1>3, <1>4, <1>5, <1>8, <1>10, <1>13 DEF Kept

(* Whatever the functions of the table, no two of its entries are the same key. *)
LEMMA IdsDiffer == MapInv => Map!Distinct(DOMAIN Entries, Ids)
<1> SUFFICES ASSUME MapInv, NEW k \in DOMAIN Entries, NEW l \in DOMAIN Entries, Ids[k] = Ids[l]
             PROVE  k = l
  BY DEF Map!Distinct
<1>1. table # NoTable
  BY DEF Entries
<1>2. /\ Sized(table) /\ Filed(table) /\ Kept(table)
      /\ DOMAIN Entries = {table.A[r].key : r \in Live(table)}
      /\ \A r \in Live(table) : table.A[r] \in Node
  BY <1>1, TableSound
<1>3. PICK s \in Live(table), r \in Live(table) : k = table.A[s].key /\ l = table.A[r].key
  BY <1>2
<1>4. Ready /\ k \in Keys /\ l \in Keys
  BY <1>1, <1>2, <1>3 DEF Kept, Ready, Node
<1>5. Hash(k) = Hash(l) /\ (table.comp => k = l)
  BY <1>4, SameKey
<1>6. Holds(table, r, table.A[s].hash, table.A[s].key)
  BY <1>2, <1>3, <1>5 DEF Filed, Hash, Holds, Live
<1> QED
  BY <1>2, <1>3, <1>6, PlacesDiffer DEF Filed

(* init, clone and the set functions *)
LEMMA Configures ==
  ASSUME MapInv', Entries' = Entries, reply'.call = <<"configure">>
  PROVE  Map!Next
<1>1. (MapInv => Map!Distinct(DOMAIN Entries, Ids))'
  BY IdsDiffer, PTL
<1>2. Map!Distinct(DOMAIN Entries, Ids')
  BY <1>1 DEF Map!Distinct
<1>3. DOMAIN Ids' = Keys /\ Ready' \in BOOLEAN
  BY DEF Ids, Ready
<1>4. Updates' \in BOOLEAN
  BY DEF Updates, MapInv, HashInv, SoundHash
<1>5. reply'.call = <<"configure">>
  BY <1>1
<1> QED
  BY <1>2, <1>3, <1>4, <1>5 DEF Map!Next, Map!Configure

LEMMA CreateMaps ==
  ASSUME MapInv, HashInv', NEW n \in ExpectedSizes, Create(n)
  PROVE  Map!Next /\ MapInv'
<1>1. n \in Int /\ table = NoTable /\ reply'.call = <<"configure">>
  <2>1. reply' \in {Configured, Failed(<<"configure">>)} /\ table = NoTable
    BY DEF Create
  <2>2. Configured.call = <<"configure">> /\ Failed(<<"configure">>).call = <<"configure">>
    BY DEF Configured, Failed, Answer
  <2> QED
    BY <2>1, <2>2, HashAssumption
<1>2. PICK no : no = FALSE
  OBVIOUS
<1>3. PICK t : t = New(n, DefaultHash, DefaultComp, no)
  OBVIOUS
<1>4. Fresh(t)
  BY <1>1, <1>3, NewFresh
<1>5. Live(t) = {}
  BY <1>4 DEF Fresh, Live, IsNode
<1>6. Kept(t)
  BY <1>5 DEF Kept, Filed, InPlace
<1>7. table' \in {t, NoTable}
  BY <1>2, <1>3 DEF Create
<1>8. MapInv'
  BY <1>6, <1>7 DEF MapInv
<1>9. Contents(t) = [k \in {} |-> NULL]
  BY <1>5 DEF Contents
<1>10. Entries' = Entries
  BY <1>1, <1>7, <1>9 DEF Entries
<1> QED
  BY <1>1, <1>8, <1>10, Configures

LEMMA ReconfiguredMaps ==
  ASSUME MapInv, HashInv', table # NoTable, reply'.call = <<"configure">>,
         NEW f \in HashFuncs \cup {NULL}, NEW c \in BOOLEAN, NEW u \in BOOLEAN,
         table' = [table EXCEPT !.hash_func = f, !.comp = c, !.update = u],
         f = table.hash_func \/ table.size = 0,
         \/ c \in {table.comp, TRUE}
         \/ \A s, r \in Live(table) : s # r => table.A[s].hash # table.A[r].hash
  PROVE  Map!Next /\ MapInv'
<1>1. /\ SoundHash(table, overdue) /\ SoundTable(table, Node) /\ Filed(table)
      /\ Entries = Contents(table) /\ TableFields(table) /\ table.comp \in BOOLEAN
      /\ table.hash_func = NULL => Live(table) = {}
  BY TableSound DEF Kept, SoundHash, SoundTable
<1>2. PICK t : t = table'
  OBVIOUS
<1>3. t = [A |-> table.A, capacity |-> table.capacity, shift |-> table.shift, size |-> table.size,
           used |-> table.used, hash_func |-> f, comp |-> c, update |-> u]
  BY <1>1, <1>2 DEF TableFields
<1>4. /\ t.A = table.A /\ t.capacity = table.capacity /\ t.shift = table.shift
      /\ t.hash_func = f /\ t.comp = c /\ t.update = u /\ TableFields(t)
  BY <1>3 DEF TableFields
<1>5. table.size = 0 => Live(table) = {}
  <2>1. IsFiniteSet(Live(table)) /\ table.size = Cardinality(Live(table))
    BY <1>1, SoundSized, LiveFinite DEF SoundTable, WellFormed
  <2> QED
    BY <2>1, FS_EmptySet
<1>6. Filed(t) /\ Contents(t) = Contents(table)
  BY <1>1, <1>4, <1>5, NodesAreNodes, ConfiguredFiled
<1>7. t # NoTable
  BY <1>4, TablesExist
<1>8. Live(t) = Live(table)
  BY <1>4 DEF Live, Slots
<1>9. MapInv'
  BY <1>1, <1>2, <1>4, <1>5, <1>6, <1>8 DEF MapInv, Kept
<1>10. Entries' = Entries
  BY <1>1, <1>2, <1>6, <1>7 DEF Entries
<1> QED
  BY <1>9, <1>10, Configures

LEMMA StillMaps ==
  ASSUME MapInv, HashInv', table' = table, reply'.call = <<"configure">>
  PROVE  Map!Next /\ MapInv'
<1>1. MapInv'
  BY DEF MapInv
<1>2. Entries' = Entries
  BY DEF Entries
<1> QED
  BY <1>1, <1>2, Configures

LEMMA SettersMap ==
  ASSUME MapInv, HashInv',
         \/ \E f \in HashFuncs : SetHash(f)
         \/ \E b \in BOOLEAN : SetComp(b) \/ SetUpdate(b)
  PROVE  Map!Next /\ MapInv'
<1>1. table # NoTable /\ reply'.call = <<"configure">>
  BY DEF SetHash, SetComp, SetUpdate, Configured, Answer
<1>2. /\ table.hash_func \in HashFuncs \cup {NULL} /\ table.comp \in BOOLEAN /\ table.update \in BOOLEAN
      /\ TableFields(table)
  BY <1>1 DEF MapInv, HashInv, SoundHash, SoundTable
<1>3. ASSUME NEW f \in HashFuncs, SetHash(f), table' # table PROVE Map!Next /\ MapInv'
  <2>1. ~(table.size > 0)
    BY <1>3 DEF SetHash
  <2>2. table' = [table EXCEPT !.hash_func = f, !.comp = table.comp, !.update = table.update]
    BY <1>2, <1>3 DEF SetHash, TableFields
  <2>3. table.size = 0
    <3>1. table.size \in Nat
      BY <1>1, TableSound, SoundSized
    <3> QED
      BY <2>1, <3>1
  <2>4. f \in HashFuncs \cup {NULL} /\ table.comp \in {table.comp, TRUE}
    BY <1>3
  <2> QED
    BY <1>1, <1>2, <2>2, <2>3, <2>4, ReconfiguredMaps
<1>4. ASSUME NEW b \in BOOLEAN, SetComp(b) PROVE Map!Next /\ MapInv'
  <2>1. table' = [table EXCEPT !.hash_func = table.hash_func, !.comp = b, !.update = table.update]
    BY <1>2, <1>4 DEF SetComp, TableFields
  <2>2. \/ b \in {table.comp, TRUE}
        \/ \A s, r \in Live(table) : s # r => table.A[s].hash # table.A[r].hash
    BY <1>4 DEF SetComp
  <2> QED
    BY <1>1, <1>2, <1>4, <2>1, <2>2, ReconfiguredMaps
<1>5. ASSUME NEW b \in BOOLEAN, SetUpdate(b) PROVE Map!Next /\ MapInv'
  <2>1. table' = [table EXCEPT !.hash_func = table.hash_func, !.comp = table.comp, !.update = b]
    BY <1>2, <1>5 DEF SetUpdate, TableFields
  <2>2. table.comp \in {table.comp, TRUE}
    OBVIOUS
  <2> QED
    BY <1>1, <1>2, <1>5, <2>1, <2>2, ReconfiguredMaps
<1>6. CASE table' = table
  BY <1>1, <1>6, StillMaps
<1> QED
  BY <1>3, <1>4, <1>5, <1>6

LEMMA CloneMaps == ASSUME MapInv, HashInv', Clone PROVE Map!Next /\ MapInv'
<1>1. table # NoTable /\ table' = Copied(table) /\ reply'.call = <<"configure">>
  BY DEF Clone, Configured, Answer
<1>2. /\ SoundTable(table, Node) /\ Filed(table) /\ Entries = Contents(table) /\ Sized(table)
      /\ table.hash_func = NULL => Live(table) = {}
  BY <1>1, TableSound DEF Kept
<1>3. PICK n : /\ Fresh(n) /\ table.size < n.capacity /\ 4 * table.size <= 3 * n.capacity
               /\ n.hash_func = table.hash_func /\ n.comp = table.comp /\ n.update = table.update
               /\ Copied(table) = Refilled(n, table.A, table.size)
  BY <1>2, CopiedRefills
<1>4. PICK r : r = Refilled(n, table.A, table.size)
  OBVIOUS
<1>5. SoundTable(r, Node) /\ Filed(r) /\ Contents(r) = Contents(table)
  BY <1>2, <1>3, <1>4, NodesAreNodes, RefilledSound, RefilledFiled
<1>6. r.hash_func = table.hash_func /\ r.size = table.size
  BY <1>3, <1>4, RefilledFields
<1>7. table.hash_func = NULL => Live(r) = {}
  <2>1. Sized(r) /\ Cardinality(Live(r)) = Cardinality(Live(table)) /\ IsFiniteSet(Live(r))
    BY <1>2, <1>5, <1>6, SoundSized, LiveFinite DEF SoundTable, WellFormed
  <2> QED
    BY <1>2, <2>1, FS_EmptySet
<1>8. r # NoTable
  BY <1>5, TablesExist DEF SoundTable
<1>9. MapInv'
  BY <1>1, <1>3, <1>4, <1>5, <1>6, <1>7 DEF MapInv, Kept
<1>10. Entries' = Entries
  BY <1>1, <1>2, <1>3, <1>4, <1>5, <1>8 DEF Entries
<1> QED
  BY <1>1, <1>9, <1>10, Configures

LEMMA DestroyMaps == ASSUME HashInv', Destroy PROVE Map!Next /\ MapInv'
<1>1. table' = NoTable /\ reply' = Map!Reply(<<"destroy">>, 0, NULL)
  BY DEF Destroy, Answer, Map!Reply
<1>2. MapInv'
  BY <1>1 DEF MapInv
<1>3. DOMAIN Ids' = Keys /\ Updates' = FALSE /\ Ready' = FALSE
  BY <1>1 DEF Ids, Updates, Ready
<1>4. Entries' = [k \in {} |-> NULL]
  BY <1>1 DEF Entries
<1> QED
  BY <1>1, <1>2, <1>3, <1>4 DEF Map!Next, Map!Destroy

LEMMA StepMaps == ASSUME MapInv, HashInv', Next PROVE Map!Next /\ MapInv'
<1>1. ASSUME Kept(table') PROVE MapInv'
  BY <1>1 DEF MapInv
<1>2. ASSUME table' = table PROVE MapInv'
  BY <1>2 DEF MapInv
<1>3. ASSUME NEW p \in Puts PROVE p[1] \in Keys /\ p[2] \in Values
  BY HashAssumption
<1>4. ASSUME NEW k \in Keys, NEW v \in Values,
             PutFound(k, v) \/ PutNew(k, v) \/ PutNoMemory(k, v) \/ PutRefused(k, v)
      PROVE  Map!Next /\ MapInv'
  <2>1. PutNoMemory(k, v) \/ PutRefused(k, v) => table' = table
    BY DEF PutNoMemory, PutRefused
  <2> QED
    BY <1>1, <1>2, <1>4, <2>1, PutFoundMaps, PutNewMaps, PutFailsMaps
<1>5. ASSUME NEW k \in Keys, Get(k) \/ Remove(k) \/ RemoveAbsent(k) PROVE Map!Next /\ MapInv'
  <2>1. Get(k) \/ RemoveAbsent(k) => table' = table
    BY DEF Get, RemoveAbsent
  <2> QED
    BY <1>1, <1>2, <1>5, <2>1, GetMaps, RemoveMaps, RemoveAbsentMaps
<1>6. ASSUME Size \/ Walk \/ NotReady PROVE Map!Next /\ MapInv'
  <2>1. table' = table
    BY <1>6 DEF Size, Walk, NotReady
  <2> QED
    BY <1>2, <1>6, <2>1, SizeMaps, WalkMaps, NotReadyMaps
<1>7. ASSUME CloneFails PROVE Map!Next /\ MapInv'
  <2>1. table' = table /\ reply'.call = <<"configure">>
    BY <1>7 DEF CloneFails, Failed, Answer
  <2> QED
    BY <2>1, StillMaps
<1>8. ASSUME Apply PROVE Map!Next /\ MapInv'
  BY <1>1, <1>8, ApplyMaps
<1> QED
  BY <1>3, <1>4, <1>5, <1>6, <1>7, <1>8, CreateMaps, DestroyMaps, SettersMap, CloneMaps DEF Next

(* The hash table is a map: every call is a step of KeyValueMap, so what get, remove, walk
   and size answer is what the calls before have stored, whatever has been removed and put in
   between, however often the table was rebuilt or copied, and when allocations failed. *)
THEOREM TableIsMap == Spec => ImplementsMap
<1>1. Init => Map!Init
  <2> SUFFICES ASSUME Init PROVE Map!Init
    OBVIOUS
  <2>1. table = NoTable /\ reply = Answer(<<"none">>, 0, NULL)
    BY DEF Init
  <2>2. Entries = [k \in {} |-> NULL] /\ Ready = FALSE /\ Updates = FALSE
    BY <2>1 DEF Entries, Ready, Updates
  <2>3. Entries \in [{} -> Values] /\ DOMAIN Entries = {}
    BY <2>2
  <2>4. DOMAIN Ids = Keys /\ reply = Map!Reply(<<"none">>, 0, NULL)
    BY <2>1 DEF Ids, Answer, Map!Reply
  <2>5. Map!Distinct(DOMAIN Entries, Ids)
    BY <2>3 DEF Map!Distinct
  <2> QED
    BY <2>2, <2>3, <2>4, <2>5 DEF Map!Init
<1>2. Init => MapInv
  BY DEF Init, MapInv, HashInv
<1>3. MapInv /\ HashInv' /\ [Next]_vars => [Map!Next]_(Map!vars) /\ MapInv'
  <2>1. ASSUME MapInv, UNCHANGED vars PROVE UNCHANGED Map!vars /\ MapInv'
    <3>1. Entries' = Entries /\ Ids' = Ids /\ Updates' = Updates /\ Ready' = Ready /\ reply' = reply
      BY <2>1, Untouched DEF vars
    <3> QED
      BY <2>1, <3>1 DEF Map!vars, vars, MapInv, HashInv
  <2> QED
    BY <2>1, StepMaps
<1> QED
  BY <1>1, <1>2, <1>3, HashInvariant, PTL DEF Spec, ImplementsMap, Map!Spec

=============================================================================
