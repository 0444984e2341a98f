----------------------------- MODULE ProbeTable -----------------------------
(* The open addressing that hash_table.h and phash_table.h share: where the entry
   of a key may be, how it is found, and how a table is rebuilt.

   A table is a record with the fields of the code's struct: A holds NULL, DELETED
   (the marker of a removed entry) or a node in every slot.  A node is a record
   and not a pointer, and the pool that nodes come from is the subject of module
   Pool: here it may fail to give one at any time. *)
EXTENDS Integers, FiniteSets

CONSTANTS NULL, DELETED,
          MinCapacity      \* 16 in the code

ASSUME CapacityAssumption == \E n \in 3 .. 62 : MinCapacity = 2 ^ n
ASSUME MarkerAssumption == NULL # DELETED

Slots(t) == 0 .. t.capacity - 1

IsNode(x) == x \notin {NULL, DELETED}

Live(t) == {s \in Slots(t) : IsNode(t.A[s])}
Deleted(t) == {s \in Slots(t) : t.A[s] = DELETED}

(* The slots in the order in which they are probed for a hash.  The capacity is a
   power of two: & (capacity - 1) is % capacity, and >> shift is \div 2 ^ shift. *)
Base(t, hash) == hash % t.capacity

Step(t, hash) == LET step == (hash \div 2 ^ t.shift) % t.capacity
                 IN  IF step % 2 = 0 THEN step + 1 ELSE step

Probe(t, hash, i) == (Base(t, hash) + i * Step(t, hash)) % t.capacity

(* The first slot on this way that satisfies Stop. *)
First(t, hash, Stop(_)) ==
  Probe(t, hash, CHOOSE i \in Slots(t) : /\ Stop(Probe(t, hash, i))
                                         /\ \A j \in 0 .. i - 1 : ~Stop(Probe(t, hash, j)))

(* CS_KEYEQ: a table without a compare function takes its hash for the key. *)
Holds(t, s, hash, k) == /\ IsNode(t.A[s])
                        /\ t.A[s].hash = hash
                        /\ t.comp => t.A[s].key = k

(* Where the probing of put, get and remove for a key ends: at its entry or at an
   empty slot, past the markers of removed entries. *)
End(t, hash, k) == First(t, hash, LAMBDA s : t.A[s] = NULL \/ Holds(t, s, hash, k))

(* Where put stores a new entry: the first slot on the way that is free. *)
Target(t, hash) == First(t, hash, LAMBDA s : ~IsNode(t.A[s]))

FirstEmpty(t, hash) == First(t, hash, LAMBDA s : t.A[s] = NULL)

-----------------------------------------------------------------------------
(* Rebuilding: the nodes are stored again slot by slot, in a table without
   markers.  Their keys are known to differ. *)

Place(t, x) == IF IsNode(x)
               THEN [t EXCEPT !.A[FirstEmpty(t, x.hash)] = x]
               ELSE t

PlaceAll(t, A) ==
  LET From[n \in 0 .. Cardinality(DOMAIN A)] ==
        IF n = 0 THEN t ELSE Place(From[n - 1], A[n - 1])
  IN  From[Cardinality(DOMAIN A)]

Cleared(t, capacity, shift) ==
  [t EXCEPT !.A = [s \in 0 .. capacity - 1 |-> NULL], !.capacity = capacity, !.shift = shift]

\* Mutant: the markers are not counted.
OverLoadedByEntries(t) == 4 * t.size > 3 * t.capacity

OverLoaded(t) == 4 * t.used > 3 * t.capacity

NewCapacity(t) == IF 8 * t.size > 3 * t.capacity THEN 2 * t.capacity ELSE t.capacity

\* Mutant: the nodes are stored with the steps of the old capacity.
RebuiltKeepsShift(t) ==
  LET shift == IF NewCapacity(t) # t.capacity THEN t.shift + 1 ELSE t.shift
  IN  [PlaceAll(Cleared(t, NewCapacity(t), t.shift), t.A)
         EXCEPT !.used = t.size, !.shift = shift]

Rebuilt(t) ==
  LET doubled == NewCapacity(t) # t.capacity
      shift == IF doubled THEN t.shift + 1 ELSE t.shift
  IN  [PlaceAll(Cleared(t, NewCapacity(t), shift), t.A) EXCEPT !.used = t.size]

-----------------------------------------------------------------------------
(* init: room for three quarters of the capacity. *)

Log2(c) == CHOOSE n \in 0 .. c : 2 ^ n = c

RoundUpPow2(x) == 2 ^ (CHOOSE n \in 0 .. x : 2 ^ n >= x /\ \A m \in 0 .. n - 1 : 2 ^ m < x)

InitialCapacity(expected) ==
  LET n == IF expected > 0 THEN expected ELSE 0
      slots == (n \div 3) * 4 + ((n % 3) * 4) \div 3
  IN  IF slots <= MinCapacity THEN MinCapacity ELSE RoundUpPow2(slots)

New(expected, hash_func, comp, update) ==
  LET c == InitialCapacity(expected)
  IN  [A |-> [s \in 0 .. c - 1 |-> NULL], capacity |-> c, shift |-> Log2(c),
       size |-> 0, used |-> 0, hash_func |-> hash_func, comp |-> comp, update |-> update]

-----------------------------------------------------------------------------
(* Changes of one slot *)

Inserted(t, s, node) ==
  [t EXCEPT !.A[s] = node, !.size = @ + 1,
            !.used = IF t.A[s] = NULL THEN @ + 1 ELSE @]

Removed(t, s) == [t EXCEPT !.A[s] = DELETED, !.size = @ - 1]

(* Probes stop at an empty slot, so the last one is never used up. *)
\* Mutant: the last empty slot may be used.
LastSlotNever(t, s) == FALSE

LastSlot(t, s) == t.A[s] = NULL /\ t.used + 1 >= t.capacity

-----------------------------------------------------------------------------
(* What has to hold in every table that is not in the middle of a change *)

WellFormed(t) ==
  /\ t.capacity >= MinCapacity
  /\ t.capacity = 2 ^ t.shift
  /\ DOMAIN t.A = Slots(t)
  /\ t.size = Cardinality(Live(t))
  /\ t.used = Cardinality(Live(t) \cup Deleted(t))

ProbesEndIn(t, hashes) ==
  \A hash \in hashes : \E i \in Slots(t) : t.A[Probe(t, hash, i)] = NULL

Contents(t) == LET live == Live(t)
               IN  [k \in {t.A[s].key : s \in live} |->
                      t.A[CHOOSE s \in live : t.A[s].key = k].value]
=============================================================================
