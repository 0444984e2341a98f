---------------------------- MODULE ProbeProofs ----------------------------
(* Facts about ProbeTable that both hash tables need: probing with an odd step meets
   every slot of a table whose size is a power of two, and a rebuilt table has all the
   entries and nothing else. *)
EXTENDS ProbeTable, FiniteSetTheorems, WellFoundedInduction, TLAPS

-----------------------------------------------------------------------------
(* Induction and powers of two *)

LEMMA NatInduced ==
  ASSUME NEW S, S \subseteq Nat, 0 \in S, \A n \in S : n + 1 \in S
  PROVE  S = Nat
<1> SUFFICES ASSUME NEW x \in Nat \ S PROVE FALSE
  OBVIOUS
<1>1. PICK z \in Nat \ S : \A y \in Nat \ S : ~(<<y, z>> \in OpToRel(<, Nat))
  BY NatLessThanWellFounded, WFMin
<1>2. z - 1 \in Nat /\ z - 1 \notin S
  OBVIOUS
<1>3. <<z - 1, z>> \in OpToRel(<, Nat)
  BY <1>2 DEF OpToRel
<1> QED
  BY <1>1, <1>2, <1>3

(* A set of natural numbers has a smallest one. *)
LEMMA Smallest ==
  ASSUME NEW S, S \subseteq Nat, S # {}
  PROVE  \E n \in S : \A m \in 0 .. n - 1 : m \notin S
<1>1. PICK n \in S : \A m \in S : ~(<<m, n>> \in OpToRel(<, Nat))
  BY NatLessThanWellFounded, WFMin
<1>2. \A m \in 0 .. n - 1 : <<m, n>> \in OpToRel(<, Nat)
  BY DEF OpToRel
<1> QED
  BY <1>1, <1>2

(* 2 ^ n is the number of the subsets of a set with n elements. *)
LEMMA PowerIsNumber == \A n \in Nat : 2 ^ n \in Nat
<1> SUFFICES ASSUME NEW n \in Nat PROVE 2 ^ n \in Nat
  OBVIOUS
<1>1. IsFiniteSet(1 .. n) /\ Cardinality(1 .. n) = n
  BY FS_Interval
<1> QED
  BY <1>1, FS_SUBSET, FS_CardinalityType

LEMMA PowerDoubles == \A n \in Nat : 2 ^ (n + 1) = 2 * 2 ^ n
<1> SUFFICES ASSUME NEW n \in Nat PROVE 2 ^ (n + 1) = 2 * 2 ^ n
  OBVIOUS
<1> DEFINE S == 1 .. n
           T == 1 .. n + 1
           With == {U \cup {n + 1} : U \in SUBSET S}
           f == [U \in SUBSET S |-> U \cup {n + 1}]
<1>1. IsFiniteSet(S) /\ Cardinality(S) = n /\ IsFiniteSet(T) /\ Cardinality(T) = n + 1
  BY FS_Interval
<1>2. IsFiniteSet(SUBSET S) /\ Cardinality(SUBSET S) = 2 ^ n /\ Cardinality(SUBSET T) = 2 ^ (n + 1)
  BY <1>1, FS_SUBSET
<1>3. f \in Bijection(SUBSET S, With)
  <2>1. f \in [SUBSET S -> With]
    OBVIOUS
  <2>2. ASSUME NEW U \in SUBSET S, NEW V \in SUBSET S, f[U] = f[V] PROVE U = V
    <3>1. n + 1 \notin U /\ n + 1 \notin V
      OBVIOUS
    <3> QED
      BY <3>1, <2>2
  <2>3. \A W \in With : \E U \in SUBSET S : f[U] = W
    OBVIOUS
  <2> HIDE DEF f, With
  <2> QED
    BY <2>1, <2>2, <2>3 DEF Bijection, Injection, Surjection, IsInjective
<1>4. IsFiniteSet(With) /\ Cardinality(With) = 2 ^ n
  BY <1>2, <1>3, FS_Bijection DEF ExistsBijection
<1>5. (SUBSET S) \cap With = {}
  <2> SUFFICES ASSUME NEW W, W \in SUBSET S, W \in With PROVE FALSE
    OBVIOUS
  <2>1. n + 1 \in W
    OBVIOUS
  <2>2. n + 1 \notin S
    OBVIOUS
  <2> QED
    BY <2>1, <2>2
<1>6. SUBSET T = (SUBSET S) \cup With
  <2>1. T = S \cup {n + 1}
    OBVIOUS
  <2>2. ASSUME NEW W \in SUBSET T, n + 1 \in W PROVE W \in With
    <3>1. W = (W \ {n + 1}) \cup {n + 1} /\ W \ {n + 1} \in SUBSET S
      BY <2>1, <2>2
    <3> QED
      BY <3>1
  <2>3. ASSUME NEW W \in SUBSET T, n + 1 \notin W PROVE W \in SUBSET S
    BY <2>1, <2>3
  <2>4. \A W \in With : W \in SUBSET T
    BY <2>1
  <2>5. SUBSET S \subseteq SUBSET T
    BY <2>1
  <2>6. SUBSET T \subseteq (SUBSET S) \cup With
    BY <2>2, <2>3
  <2>7. With \subseteq SUBSET T
    BY <2>4
  <2> HIDE DEF S, T, With
  <2>8. \A A, B, C : A \subseteq C /\ B \subseteq C /\ C \subseteq A \cup B => C = A \cup B
    OBVIOUS
  <2> QED
    BY ONLY <2>5, <2>6, <2>7, <2>8
<1>7. Cardinality(SUBSET T) = 2 ^ n + 2 ^ n - Cardinality({})
  BY <1>2, <1>4, <1>5, <1>6, FS_Union
<1> HIDE DEF S, T, With, f
<1> QED
  BY <1>2, <1>7, FS_EmptySet, PowerIsNumber

LEMMA PowerGrows == \A n \in Nat : 2 ^ n > n
<1> DEFINE S == {n \in Nat : 2 ^ n > n}
<1>1. 0 \in S
  OBVIOUS
<1>2. \A n \in S : n + 1 \in S
  BY PowerDoubles, PowerIsNumber
<1> HIDE DEF S
<1>3. S = Nat
  BY <1>1, <1>2, NatInduced DEF S
<1> QED
  BY <1>3 DEF S
LEMMA PowerPositive == \A n \in Nat : 2 ^ n \in Nat \ {0} /\ 2 ^ n >= 1
BY PowerGrows, PowerIsNumber

-----------------------------------------------------------------------------
(* Probing *)

LEMMA Division ==
  ASSUME NEW c \in Nat \ {0}, NEW x \in Int
  PROVE  /\ x = c * (x \div c) + (x % c)
         /\ x % c \in 0 .. c - 1 /\ x \div c \in Int
         /\ x \in Nat => x \div c \in Nat
OBVIOUS

(* A power of two that divides a multiple of d by an odd number divides d. *)
LEMMA OddFactor ==
  \A n \in Nat : \A s, d \in Int :
    s % 2 = 1 /\ (\E k \in Int : s * d = 2 ^ n * k) => \E k \in Int : d = 2 ^ n * k
<1> DEFINE Divides(n, x) == \E k \in Int : x = 2 ^ n * k
           S == {n \in Nat : \A s, d \in Int : s % 2 = 1 /\ Divides(n, s * d) => Divides(n, d)}
<1>1. 0 \in S
  <2>1. \A d \in Int : d = 2 ^ 0 * d
    OBVIOUS
  <2> QED
    BY <2>1
<1>2. ASSUME NEW n \in S PROVE n + 1 \in S
  <2>1. n \in Nat /\ n + 1 \in Nat
    OBVIOUS
  <2> SUFFICES ASSUME NEW s \in Int, NEW d \in Int, s % 2 = 1, Divides(n + 1, s * d)
               PROVE  Divides(n + 1, d)
    BY <2>1
  <2> DEFINE p == 2 ^ n
  <2>2. p \in Nat /\ 2 ^ (n + 1) = 2 * p
    BY <2>1, PowerIsNumber, PowerDoubles
  <2> HIDE DEF p
  <2>3. PICK k \in Int : s * d = 2 ^ (n + 1) * k
    OBVIOUS
  <2>4. PICK m \in Int : m = p * k
    BY <2>2
  <2>5. s * d = 2 * m
    <3>1. (2 * p) * k = 2 * (p * k)
      BY <2>2
    <3> QED
      BY <2>2, <2>3, <2>4, <3>1
  <2>6. PICK e \in Int : d = 2 * e
    <3>1. PICK a \in Int : s = 2 * a + 1
      BY Division
    <3>2. PICK q \in Int : q = a * d
      OBVIOUS
    <3>3. (2 * a + 1) * d = 2 * (a * d) + d
      OBVIOUS
    <3>4. m - q \in Int /\ d = 2 * (m - q)
      BY <2>5, <3>1, <3>2, <3>3
    <3> QED
      BY <3>4, Zenon
  <2>7. s * e = p * k
    <3>1. PICK x \in Int : x = s * e
      OBVIOUS
    <3>2. s * (2 * e) = 2 * (s * e)
      OBVIOUS
    <3>3. 2 * x = 2 * m
      BY <2>5, <2>6, <3>1, <3>2
    <3> QED
      BY <2>4, <3>1, <3>3
  <2>8. PICK j \in Int : e = p * j
    BY <2>7 DEF p
  <2>9. d = (2 * p) * j
    <3>1. (2 * p) * j = 2 * (p * j)
      BY <2>2
    <3> QED
      BY <2>6, <2>8, <3>1
  <2> QED
    BY <2>2, <2>9
<1> HIDE DEF S
<1>3. S = Nat
  BY <1>1, <1>2, NatInduced DEF S
<1> QED
  BY <1>3 DEF S

(* Numbers with one remainder differ by a multiple. *)
LEMMA SameRemainder ==
  ASSUME NEW c \in Nat \ {0}, NEW x \in Int, NEW y \in Int, x % c = y % c
  PROVE  \E k \in Int : x - y = c * k
<1> DEFINE a == x \div c
           b == y \div c
<1>1. x = c * a + (x % c) /\ y = c * b + (y % c) /\ a \in Int /\ b \in Int /\ x % c \in Int
  BY Division
<1> HIDE DEF a, b
<1>2. x - y = c * a - c * b
  <2>1. c * a \in Int /\ c * b \in Int
    BY <1>1
  <2> QED
    BY <1>1, <2>1
<1>3. c * a - c * b = c * (a - b) /\ a - b \in Int
  BY <1>1
<1> QED
  BY <1>2, <1>3

(* A way through c slots with an odd step meets none of them twice. *)
LEMMA WayMeetsOnce ==
  ASSUME NEW n \in Nat, NEW c, c = 2 ^ n, NEW b \in Nat, NEW s \in Nat, s % 2 = 1,
         NEW i \in 0 .. c - 1, NEW j \in 0 .. c - 1, (b + i * s) % c = (b + j * s) % c
  PROVE  i = j
<1>1. c \in Nat \ {0}
  BY PowerPositive
<1>2. PICK k \in Int : (b + i * s) - (b + j * s) = c * k
  <2>1. b + i * s \in Int /\ b + j * s \in Int
    BY <1>1
  <2> QED
    BY <1>1, <2>1, SameRemainder
<1>3. s * (i - j) = 2 ^ n * k /\ i - j \in Int
  <2>1. (b + i * s) - (b + j * s) = s * (i - j)
    BY <1>1
  <2> QED
    BY <1>1, <1>2, <2>1
<1>4. PICK m \in Int : i - j = c * m
  <2>1. PICK d \in Int : d = i - j
    BY <1>3
  <2>2. s * d = 2 ^ n * k /\ s \in Int
    BY <1>3, <2>1
  <2>3. n \in Nat /\ s % 2 = 1 /\ d \in Int
    OBVIOUS
  <2>4. \E m \in Int : d = 2 ^ n * m
    BY ONLY <2>2, <2>3, OddFactor, ZenonT(60)
  <2> QED
    BY <2>1, <2>4
<1>5. m = 0
  <2>1. i - j < c /\ i - j > -c
    BY <1>1
  <2>2. m >= 1 => c * m >= c
    BY <1>1
  <2>3. m <= -1 => c * m <= -c
    BY <1>1
  <2> QED
    BY <1>1, <1>4, <2>1, <2>2, <2>3
<1> QED
  BY <1>1, <1>4, <1>5

-----------------------------------------------------------------------------
(* The ways through a table *)

(* A table has a power of two slots, with the shift that belongs to it. *)
Sized(t) == t.shift \in Nat /\ t.capacity = 2 ^ t.shift /\ DOMAIN t.A = Slots(t)

LEMMA SizedSlots ==
  ASSUME NEW t, Sized(t)
  PROVE  /\ t.capacity \in Nat \ {0}
         /\ IsFiniteSet(Slots(t)) /\ Cardinality(Slots(t)) = t.capacity
         /\ Slots(t) \subseteq Nat
<1>1. t.capacity \in Nat \ {0}
  BY PowerPositive DEF Sized
<1>2. IsFiniteSet(0 .. t.capacity - 1) /\ Cardinality(0 .. t.capacity - 1) = t.capacity
  <2>1. PICK b \in Nat : b = t.capacity - 1
    BY <1>1
  <2>2. IsFiniteSet(0 .. b) /\ Cardinality(0 .. b) = b + 1
    BY FS_Interval
  <2> QED
    BY <1>1, <2>1, <2>2
<1> QED
  BY <1>1, <1>2 DEF Slots

LEMMA StepIsOdd ==
  ASSUME NEW t, Sized(t), NEW hash \in Nat
  PROVE  /\ Base(t, hash) \in Nat
         /\ Step(t, hash) \in Nat /\ Step(t, hash) % 2 = 1
<1> DEFINE p == 2 ^ t.shift
           step == (hash \div p) % t.capacity
<1>1. t.capacity \in Nat \ {0} /\ p \in Nat \ {0}
  BY SizedSlots, PowerPositive DEF Sized
<1> HIDE DEF p
<1>2. hash \div p \in Nat
  <2>1. \A c \in Nat \ {0}, x \in Nat : x \div c \in Nat
    BY Division
  <2> QED
    BY ONLY <1>1, <2>1, hash \in Nat
<1>3. step \in Nat
  BY <1>1, <1>2, Division
<1>4. Base(t, hash) \in Nat
  BY <1>1, Division DEF Base
<1>5. Step(t, hash) = IF step % 2 = 0 THEN step + 1 ELSE step
  BY DEF Step, p
<1> HIDE DEF step
<1> QED
  BY <1>3, <1>4, <1>5

(* Every slot is met on every way. *)
LEMMA ProbeMeetsAll ==
  ASSUME NEW t, Sized(t), NEW hash \in Nat
  PROVE  /\ \A i \in Slots(t) : Probe(t, hash, i) \in Slots(t)
         /\ \A s \in Slots(t) : \E i \in Slots(t) : Probe(t, hash, i) = s
<1> DEFINE f == [i \in Slots(t) |-> Probe(t, hash, i)]
<1>1. t.capacity \in Nat \ {0} /\ IsFiniteSet(Slots(t))
  BY SizedSlots
<1>2. Base(t, hash) \in Nat /\ Step(t, hash) \in Nat /\ Step(t, hash) % 2 = 1
  BY StepIsOdd
<1>3. ASSUME NEW i \in Slots(t) PROVE Probe(t, hash, i) \in Slots(t)
  <2>1. Base(t, hash) + i * Step(t, hash) \in Int
    BY <1>1, <1>2 DEF Slots
  <2> QED
    BY <1>1, <2>1, Division DEF Probe, Slots
<1>4. ASSUME NEW i \in Slots(t), NEW j \in Slots(t), Probe(t, hash, i) = Probe(t, hash, j)
      PROVE  i = j
  BY <1>2, <1>4, WayMeetsOnce DEF Probe, Slots, Sized
<1>5. f \in Injection(Slots(t), Slots(t))
  BY <1>3, <1>4 DEF Injection, IsInjective
<1>6. f \in Surjection(Slots(t), Slots(t))
  BY <1>1, <1>5, FS_Injection
<1>7. \A s \in Slots(t) : \E i \in Slots(t) : f[i] = s
  BY <1>6 DEF Surjection
<1> QED
  BY <1>3, <1>7

(* On every way there is a first slot of a set. *)
LEMMA FirstOnWay ==
  ASSUME NEW t, Sized(t), NEW hash \in Nat, NEW P \in SUBSET Slots(t), P # {}
  PROVE  \E i \in Slots(t) : /\ Probe(t, hash, i) \in P
                             /\ \A j \in 0 .. i - 1 : Probe(t, hash, j) \notin P
<1> DEFINE S == {i \in Slots(t) : Probe(t, hash, i) \in P}
<1>1. S # {} /\ S \subseteq Nat
  BY ProbeMeetsAll, SizedSlots, SMTT(30)
<1>2. PICK i \in S : \A j \in 0 .. i - 1 : j \notin S
  BY <1>1, Smallest
<1>3. \A j \in 0 .. i - 1 : j \in Slots(t)
  BY SizedSlots DEF Slots
<1> QED
  BY <1>2, <1>3

LEMMA FirstEmptyIsEmpty ==
  ASSUME NEW t, Sized(t), NEW hash \in Nat, \E s \in Slots(t) : t.A[s] = NULL
  PROVE  /\ FirstEmpty(t, hash) \in Slots(t) /\ t.A[FirstEmpty(t, hash)] = NULL
         /\ \E i \in Slots(t) : /\ Probe(t, hash, i) = FirstEmpty(t, hash)
                                /\ \A j \in 0 .. i - 1 : t.A[Probe(t, hash, j)] # NULL
<1> DEFINE P == {s \in Slots(t) : t.A[s] = NULL}
           Here(i) == /\ t.A[Probe(t, hash, i)] = NULL
                      /\ \A j \in 0 .. i - 1 : ~(t.A[Probe(t, hash, j)] = NULL)
           i0 == CHOOSE i \in Slots(t) : Here(i)
<1>1. PICK i \in Slots(t) : /\ Probe(t, hash, i) \in P
                            /\ \A j \in 0 .. i - 1 : Probe(t, hash, j) \notin P
  BY FirstOnWay
<1>2. \A j \in 0 .. i - 1 : j \in Slots(t)
  BY SizedSlots DEF Slots
<1>3. Here(i)
  BY <1>1, <1>2, ProbeMeetsAll
<1>4. i0 \in Slots(t) /\ Here(i0)
  BY <1>3
<1>5. FirstEmpty(t, hash) = Probe(t, hash, i0)
  BY DEF FirstEmpty, First
<1> HIDE DEF i0
<1> QED
  BY <1>4, <1>5, ProbeMeetsAll

LEMMA TargetIsFree ==
  ASSUME NEW t, Sized(t), NEW hash \in Nat, \E s \in Slots(t) : ~IsNode(t.A[s])
  PROVE  /\ Target(t, hash) \in Slots(t) /\ ~IsNode(t.A[Target(t, hash)])
         /\ \E i \in Slots(t) : /\ Probe(t, hash, i) = Target(t, hash)
                                /\ \A j \in 0 .. i - 1 : IsNode(t.A[Probe(t, hash, j)])
<1> DEFINE P == {s \in Slots(t) : ~IsNode(t.A[s])}
           Here(i) == /\ ~IsNode(t.A[Probe(t, hash, i)])
                      /\ \A j \in 0 .. i - 1 : ~(~IsNode(t.A[Probe(t, hash, j)]))
           i0 == CHOOSE i \in Slots(t) : Here(i)
<1>1. PICK i \in Slots(t) : /\ Probe(t, hash, i) \in P
                            /\ \A j \in 0 .. i - 1 : Probe(t, hash, j) \notin P
  BY FirstOnWay
<1>2. \A j \in 0 .. i - 1 : j \in Slots(t)
  BY SizedSlots DEF Slots
<1>3. Here(i)
  BY <1>1, <1>2, ProbeMeetsAll
<1>4. i0 \in Slots(t) /\ Here(i0)
  BY <1>3
<1>5. Target(t, hash) = Probe(t, hash, i0)
  BY DEF Target, First
<1> HIDE DEF i0
<1> QED
  BY <1>4, <1>5, ProbeMeetsAll

LEMMA EndStops ==
  ASSUME NEW t, Sized(t), NEW hash \in Nat, NEW k, \E s \in Slots(t) : t.A[s] = NULL
  PROVE  /\ End(t, hash, k) \in Slots(t)
         /\ t.A[End(t, hash, k)] = NULL \/ Holds(t, End(t, hash, k), hash, k)
<1> DEFINE P == {s \in Slots(t) : t.A[s] = NULL \/ Holds(t, s, hash, k)}
           Stop(s) == t.A[s] = NULL \/ Holds(t, s, hash, k)
           Here(i) == /\ Stop(Probe(t, hash, i))
                      /\ \A j \in 0 .. i - 1 : ~Stop(Probe(t, hash, j))
           i0 == CHOOSE i \in Slots(t) : Here(i)
<1>1. PICK i \in Slots(t) : /\ Probe(t, hash, i) \in P
                            /\ \A j \in 0 .. i - 1 : Probe(t, hash, j) \notin P
  BY FirstOnWay
<1>2. \A j \in 0 .. i - 1 : j \in Slots(t)
  BY SizedSlots DEF Slots
<1>3. Here(i)
  BY <1>1, <1>2, ProbeMeetsAll
<1>4. i0 \in Slots(t) /\ Here(i0)
  BY <1>3
<1>5. End(t, hash, k) = Probe(t, hash, i0)
  BY DEF End, First
<1> HIDE DEF i0
<1> QED
  BY <1>4, <1>5, ProbeMeetsAll

-----------------------------------------------------------------------------
(* Rebuilding *)

TableFields(t) ==
  t = [A |-> t.A, capacity |-> t.capacity, shift |-> t.shift, size |-> t.size, used |-> t.used,
       hash_func |-> t.hash_func, comp |-> t.comp, update |-> t.update]

LEMMA NewSlots ==
  ASSUME NEW t, TableFields(t), NEW A
  PROVE  LET u == [t EXCEPT !.A = A]
         IN  /\ u.A = A /\ u.capacity = t.capacity /\ u.shift = t.shift
             /\ TableFields(u) /\ Slots(u) = Slots(t)
BY DEF TableFields, Slots

LEMMA LiveFinite ==
  ASSUME NEW t, Sized(t)
  PROVE  /\ IsFiniteSet(Live(t)) /\ IsFiniteSet(Live(t) \cup Deleted(t))
         /\ Cardinality(Live(t)) \in Nat /\ Cardinality(Live(t) \cup Deleted(t)) \in Nat
         /\ Cardinality(Live(t)) <= Cardinality(Live(t) \cup Deleted(t))
<1>1. IsFiniteSet(Slots(t))
  BY SizedSlots
<1>2. Live(t) \in SUBSET Slots(t) /\ Live(t) \cup Deleted(t) \in SUBSET Slots(t)
  BY DEF Live, Deleted
<1>3. IsFiniteSet(Live(t)) /\ IsFiniteSet(Live(t) \cup Deleted(t))
  BY <1>1, <1>2, FS_Subset
<1>4. Live(t) \in SUBSET (Live(t) \cup Deleted(t))
  OBVIOUS
<1> QED
  BY <1>3, <1>4, FS_Subset, FS_CardinalityType

(* The table that has the first n slots of A. *)
Nodes(A, n) == {m \in 0 .. n - 1 : IsNode(A[m])}

Placed(u, t, A, n) ==
  /\ u = [t EXCEPT !.A = u.A]
  /\ DOMAIN u.A = Slots(t)
  /\ \A s \in Slots(t) : u.A[s] = NULL \/ (IsNode(u.A[s]) /\ \E m \in 0 .. n - 1 : u.A[s] = A[m])
  /\ Cardinality(Live(u)) = Cardinality(Nodes(A, n))

LEMMA NodesFinite ==
  ASSUME NEW A, NEW n \in Nat
  PROVE  IsFiniteSet(Nodes(A, n)) /\ Cardinality(Nodes(A, n)) \in Nat
<1>1. IsFiniteSet(0 .. n - 1)
  <2>1. PICK b \in Int : b = n - 1
    OBVIOUS
  <2> QED
    BY <2>1, FS_Interval
<1>2. Nodes(A, n) \in SUBSET (0 .. n - 1)
  BY DEF Nodes
<1> QED
  BY <1>1, <1>2, FS_Subset, FS_CardinalityType

LEMMA NodesNext ==
  ASSUME NEW A, NEW n \in Nat
  PROVE  /\ IsNode(A[n]) => /\ Nodes(A, n + 1) = Nodes(A, n) \cup {n}
                            /\ Cardinality(Nodes(A, n + 1)) = Cardinality(Nodes(A, n)) + 1
         /\ ~IsNode(A[n]) => Nodes(A, n + 1) = Nodes(A, n)
<1>1. n \notin Nodes(A, n) /\ 0 .. (n + 1) - 1 = (0 .. n - 1) \cup {n}
  BY DEF Nodes
<1>2. IsNode(A[n]) => Nodes(A, n + 1) = Nodes(A, n) \cup {n}
  BY <1>1 DEF Nodes
<1>3. ~IsNode(A[n]) => Nodes(A, n + 1) = Nodes(A, n)
  BY <1>1 DEF Nodes
<1>4. Cardinality(Nodes(A, n) \cup {n}) = Cardinality(Nodes(A, n)) + 1
  BY <1>1, NodesFinite, FS_AddElement
<1> QED
  BY <1>2, <1>3, <1>4

(* A table with fewer entries than slots, and no markers, has an empty slot. *)
LEMMA RoomLeft ==
  ASSUME NEW t, Sized(t), Cardinality(Live(t) \cup Deleted(t)) < t.capacity
  PROVE  \E s \in Slots(t) : t.A[s] = NULL
<1> SUFFICES ASSUME \A s \in Slots(t) : t.A[s] # NULL PROVE FALSE
  OBVIOUS
<1>1. Slots(t) = Live(t) \cup Deleted(t)
  BY DEF Live, Deleted, IsNode
<1> QED
  BY <1>1, SizedSlots

LEMMA PlacedFields ==
  ASSUME NEW t, TableFields(t), Sized(t), NEW A, NEW n, NEW u, Placed(u, t, A, n)
  PROVE  /\ TableFields(u) /\ Slots(u) = Slots(t) /\ Sized(u) /\ Deleted(u) = {}
         /\ u.capacity = t.capacity /\ u.shift = t.shift /\ u.comp = t.comp
<1> DEFINE B == u.A
<1>1. u = [t EXCEPT !.A = B]
  BY DEF Placed
<1>2. DOMAIN B = Slots(t)
  BY DEF Placed
<1> HIDE DEF B
<1>3. /\ TableFields(u) /\ Slots(u) = Slots(t) /\ Sized(u)
      /\ u.capacity = t.capacity /\ u.shift = t.shift
  BY <1>1, <1>2, NewSlots DEF Sized
<1>4. u.comp = t.comp
  BY <1>1 DEF TableFields
<1> QED
  BY <1>3, <1>4, MarkerAssumption DEF Placed, Deleted, IsNode

(* A node goes to the first empty slot on its way. *)
LEMMA PlaceNode ==
  ASSUME NEW t, TableFields(t), Sized(t),
         NEW A, NEW n \in Nat, NEW u, Placed(u, t, A, n), IsNode(A[n]), A[n].hash \in Nat,
         Cardinality(Nodes(A, n + 1)) <= t.capacity, NEW w, w = Place(u, A[n])
  PROVE  \E e \in Slots(t) :
           /\ u.A[e] = NULL
           /\ w = [t EXCEPT !.A = w.A] /\ DOMAIN w.A = Slots(t) /\ Slots(w) = Slots(t)
           /\ \A s \in Slots(t) : w.A[s] = IF s = e THEN A[n] ELSE u.A[s]
           /\ \E i \in Slots(t) : /\ Probe(u, A[n].hash, i) = e
                                  /\ \A j \in 0 .. i - 1 : u.A[Probe(u, A[n].hash, j)] # NULL
<1> DEFINE e == FirstEmpty(u, A[n].hash)
           B == [u.A EXCEPT ![e] = A[n]]
<1>1. TableFields(u) /\ Slots(u) = Slots(t) /\ Sized(u) /\ u.capacity = t.capacity /\ Deleted(u) = {}
  BY PlacedFields
<1>2. Cardinality(Live(u) \cup Deleted(u)) < u.capacity
  <2>1. Live(u) \cup Deleted(u) = Live(u)
    BY <1>1
  <2>2. Cardinality(Live(u)) + 1 <= t.capacity
    BY NodesNext DEF Placed
  <2> QED
    BY <1>1, <2>1, <2>2, LiveFinite, SizedSlots
<1>3. /\ e \in Slots(t) /\ u.A[e] = NULL
      /\ \E i \in Slots(t) : /\ Probe(u, A[n].hash, i) = e
                             /\ \A j \in 0 .. i - 1 : u.A[Probe(u, A[n].hash, j)] # NULL
  BY <1>1, <1>2, RoomLeft, FirstEmptyIsEmpty
<1> HIDE DEF e
<1>4. w = [u EXCEPT !.A = B]
  BY DEF Place, e
<1>5. w.A = B /\ Slots(w) = Slots(t)
  BY <1>1, <1>4, NewSlots
<1>6. w = [t EXCEPT !.A = w.A]
  <2>1. u = [t EXCEPT !.A = u.A]
    BY DEF Placed
  <2>2. w = [t EXCEPT !.A = B]
    BY <1>4, <2>1 DEF TableFields
  <2> QED
    BY <1>5, <2>2
<1>7. DOMAIN w.A = Slots(t) /\ \A s \in Slots(t) : w.A[s] = IF s = e THEN A[n] ELSE u.A[s]
  BY <1>5 DEF Placed
<1> QED
  BY <1>3, <1>5, <1>6, <1>7

LEMMA PlaceOne ==
  ASSUME NEW t, TableFields(t), Sized(t),
         NEW A, NEW n \in Nat, NEW u, Placed(u, t, A, n),
         IsNode(A[n]) => A[n].hash \in Nat,
         Cardinality(Nodes(A, n + 1)) <= t.capacity
  PROVE  Placed(Place(u, A[n]), t, A, n + 1)
<1>1. Slots(u) = Slots(t) /\ Sized(u)
  BY PlacedFields
<1>2. CASE ~IsNode(A[n])
  <2>1. Place(u, A[n]) = u /\ Nodes(A, n + 1) = Nodes(A, n)
    BY <1>2, NodesNext DEF Place
  <2>2. \A m \in 0 .. n - 1 : m \in 0 .. (n + 1) - 1
    OBVIOUS
  <2> QED
    BY <2>1, <2>2 DEF Placed
<1>3. CASE IsNode(A[n])
  <2> DEFINE w == Place(u, A[n])
  <2>1. PICK e \in Slots(t) :
          /\ u.A[e] = NULL
          /\ w = [t EXCEPT !.A = w.A] /\ DOMAIN w.A = Slots(t) /\ Slots(w) = Slots(t)
          /\ \A s \in Slots(t) : w.A[s] = IF s = e THEN A[n] ELSE u.A[s]
    BY <1>3, PlaceNode
  <2> HIDE DEF w
  <2>2. ASSUME NEW s \in Slots(t)
        PROVE  w.A[s] = NULL \/ (IsNode(w.A[s]) /\ \E m \in 0 .. (n + 1) - 1 : w.A[s] = A[m])
    <3>1. n \in 0 .. (n + 1) - 1 /\ \A m \in 0 .. n - 1 : m \in 0 .. (n + 1) - 1
      OBVIOUS
    <3> QED
      BY <1>3, <2>1, <3>1 DEF Placed
  <2>3. Live(w) = Live(u) \cup {e} /\ e \notin Live(u)
    BY <1>1, <1>3, <2>1 DEF Live, IsNode
  <2>4. Cardinality(Live(w)) = Cardinality(Nodes(A, n + 1))
    <3>1. Cardinality(Live(w)) = Cardinality(Live(u)) + 1
      BY <1>1, <2>3, LiveFinite, FS_AddElement
    <3> QED
      BY <1>3, <3>1, NodesNext DEF Placed
  <2> QED
    BY <2>1, <2>2, <2>4 DEF Placed, w
<1> QED
  BY <1>2, <1>3

(* The loop of PlaceAll, slot by slot *)
LEMMA PlacesInOrder ==
  ASSUME NEW t, NEW A, NEW N \in Nat, Cardinality(DOMAIN A) = N
  PROVE  \E F : /\ F = [n \in 0 .. N |-> IF n = 0 THEN t ELSE Place(F[n - 1], A[n - 1])]
                /\ PlaceAll(t, A) = F[N]
<1> DEFINE Body(f, n) == IF n = 0 THEN t ELSE Place(f[n - 1], A[n - 1])
           S == {k \in Nat : \E g : g = [n \in 0 .. k |-> Body(g, n)]}
<1>1. 0 \in S
  <2> DEFINE g == [n \in 0 .. 0 |-> t]
  <2>1. g = [n \in 0 .. 0 |-> Body(g, n)]
    OBVIOUS
  <2> QED
    BY <2>1
<1>2. ASSUME NEW k \in S PROVE k + 1 \in S
  <2>1. k \in Nat /\ k + 1 \in Nat
    OBVIOUS
  <2>2. PICK g : g = [n \in 0 .. k |-> Body(g, n)]
    OBVIOUS
  <2> DEFINE h == [n \in 0 .. k + 1 |-> IF n = k + 1 THEN Place(g[k], A[k]) ELSE g[n]]
  <2>3. ASSUME NEW n \in 0 .. k + 1 PROVE h[n] = Body(h, n)
    <3>1. CASE n = 0
      BY <2>1, <2>2, <3>1
    <3>2. CASE n \in 1 .. k
      <4>1. n \in 0 .. k /\ n - 1 \in 0 .. k /\ n # 0 /\ n # k + 1 /\ n - 1 # k + 1
        BY <2>1, <3>2
      <4>2. h[n] = g[n] /\ h[n - 1] = g[n - 1]
        BY <2>1, <4>1
      <4>3. g[n] = Body(g, n)
        BY <2>2, <4>1
      <4> HIDE DEF h
      <4> QED
        BY <4>1, <4>2, <4>3
    <3>3. CASE n = k + 1
      <4>1. n - 1 = k /\ k \in 0 .. k + 1 /\ k # k + 1 /\ n # 0
        BY <2>1, <3>3
      <4>2. h[n] = Place(g[k], A[k]) /\ h[k] = g[k]
        BY <3>3, <4>1
      <4> HIDE DEF h
      <4> QED
        BY <4>1, <4>2
    <3> QED
      BY <2>1, <3>1, <3>2, <3>3
  <2>4. h = [n \in 0 .. k + 1 |-> Body(h, n)]
    <3>1. h = [n \in 0 .. k + 1 |-> h[n]]
      OBVIOUS
    <3> HIDE DEF h, Body
    <3> QED
      BY <2>3, <3>1
  <2> HIDE DEF h
  <2> QED
    BY <2>1, <2>4
<1> HIDE DEF S
<1>3. N \in S
  BY <1>1, <1>2, NatInduced DEF S
<1> DEFINE F == CHOOSE g : g = [n \in 0 .. N |-> Body(g, n)]
<1>4. F = [n \in 0 .. N |-> Body(F, n)]
  <2>1. \E g : g = [n \in 0 .. N |-> Body(g, n)]
    BY <1>3 DEF S
  <2> QED
    BY <2>1
<1>5. PlaceAll(t, A) = F[N]
  BY DEF PlaceAll
<1> HIDE DEF F
<1> QED
  BY <1>4, <1>5

(* The tables in between have the entries of the slots so far. *)
LEMMA PlaceAllPlaced ==
  ASSUME NEW t, TableFields(t), Sized(t), \A s \in Slots(t) : t.A[s] = NULL,
         NEW o, Sized(o), \A s \in Live(o) : o.A[s].hash \in Nat,
         Cardinality(Live(o)) <= t.capacity,
         NEW A, A = o.A, NEW N, N = o.capacity
  PROVE  /\ N \in Nat /\ Slots(o) = 0 .. N - 1 /\ Live(o) = Nodes(A, N)
         /\ \A n \in Nat : n <= N => Cardinality(Nodes(A, n)) <= t.capacity
         /\ \E F : /\ F = [n \in 0 .. N |-> IF n = 0 THEN t ELSE Place(F[n - 1], A[n - 1])]
                   /\ PlaceAll(t, A) = F[N]
                   /\ \A n \in 0 .. N : Placed(F[n], t, A, n)
<1>1. N \in Nat /\ Slots(o) = 0 .. N - 1 /\ DOMAIN A = 0 .. N - 1 /\ Cardinality(DOMAIN A) = N
  BY SizedSlots DEF Sized, Slots
<1>2. Live(o) = Nodes(A, N)
  BY <1>1 DEF Live, Nodes
<1>3. PICK F : /\ F = [n \in 0 .. N |-> IF n = 0 THEN t ELSE Place(F[n - 1], A[n - 1])]
               /\ PlaceAll(t, A) = F[N]
  BY ONLY <1>1, PlacesInOrder, ZenonT(60)
<1>4. ASSUME NEW n \in Nat, n <= N
      PROVE  Cardinality(Nodes(A, n)) <= t.capacity
  <2>1. Nodes(A, n) \in SUBSET Nodes(A, N)
    BY <1>1, <1>4 DEF Nodes
  <2>2. Cardinality(Nodes(A, n)) <= Cardinality(Nodes(A, N))
    BY <1>1, <2>1, NodesFinite, FS_Subset
  <2> QED
    BY <1>1, <1>2, <2>2, NodesFinite, SizedSlots
<1> DEFINE S == {n \in Nat : n <= N => Placed(F[n], t, A, n)}
<1>5. 0 \in S
  <2>1. F[0] = t
    BY <1>1, <1>3
  <2>2. Live(t) = {} /\ Nodes(A, 0) = {}
    BY DEF Live, Nodes, IsNode
  <2>3. t = [t EXCEPT !.A = t.A] /\ DOMAIN t.A = Slots(t)
    BY DEF TableFields, Sized
  <2>4. Placed(t, t, A, 0)
    BY <2>2, <2>3 DEF Placed
  <2> QED
    BY <2>1, <2>4
<1>6. ASSUME NEW n \in S PROVE n + 1 \in S
  <2> SUFFICES ASSUME n + 1 <= N PROVE Placed(F[n + 1], t, A, n + 1)
    OBVIOUS
  <2>1. n \in Nat /\ n + 1 \in 0 .. N /\ (n + 1) - 1 = n /\ n <= N /\ n + 1 # 0 /\ n \in 0 .. N - 1
    BY <1>1
  <2>2. F[n + 1] = Place(F[n], A[n])
    BY <1>3, <2>1
  <2>3. Placed(F[n], t, A, n)
    BY <2>1
  <2>4. IsNode(A[n]) => A[n].hash \in Nat
    BY <1>1, <2>1 DEF Live
  <2>5. Cardinality(Nodes(A, n + 1)) <= t.capacity
    BY <1>4, <2>1
  <2> HIDE DEF S
  <2> QED
    BY <2>1, <2>2, <2>3, <2>4, <2>5, PlaceOne
<1> HIDE DEF S
<1>7. S = Nat
  BY <1>5, <1>6, NatInduced DEF S
<1>8. \A n \in 0 .. N : Placed(F[n], t, A, n)
  BY <1>1, <1>7 DEF S
<1> QED
  BY <1>1, <1>2, <1>3, <1>4, <1>8

(* A table made of the slots of another one has its entries and no markers. *)
LEMMA PlaceAllKeeps ==
  ASSUME NEW t, TableFields(t), Sized(t), \A s \in Slots(t) : t.A[s] = NULL,
         NEW o, Sized(o), \A s \in Live(o) : o.A[s].hash \in Nat,
         Cardinality(Live(o)) <= t.capacity
  PROVE  LET u == PlaceAll(t, o.A)
         IN  /\ u = [t EXCEPT !.A = u.A] /\ DOMAIN u.A = Slots(t)
             /\ \A s \in Slots(t) : u.A[s] = NULL \/ \E m \in Live(o) : u.A[s] = o.A[m]
             /\ Deleted(u) = {}
             /\ Cardinality(Live(u)) = Cardinality(Live(o))
<1> DEFINE A == o.A
           N == o.capacity
           u == PlaceAll(t, A)
<1>1. Live(o) = Nodes(A, N) /\ N \in Nat /\ Placed(u, t, A, N)
  BY PlaceAllPlaced
<1> HIDE DEF u, A, N
<1>2. \A s \in Slots(t) : u.A[s] = NULL \/ \E m \in Live(o) : u.A[s] = A[m]
  BY <1>1 DEF Placed, Nodes
<1>3. Deleted(u) = {}
  BY <1>1, PlacedFields
<1> QED
  BY <1>1, <1>2, <1>3 DEF Placed, u, A

-----------------------------------------------------------------------------
(* Changes of a table *)

(* A table whose counters are true, whose nodes are in N, and that has an empty slot. *)
SoundTable(t, N) ==
  /\ TableFields(t) /\ t.shift \in Nat
  /\ WellFormed(t)
  /\ t.used < t.capacity
  /\ \A s \in Live(t) : t.A[s] \in N

AreNodes(N) == \A x \in N : IsNode(x) /\ x.hash \in Nat

LEMMA SoundSized ==
  ASSUME NEW t, NEW N, SoundTable(t, N)
  PROVE  /\ Sized(t) /\ t.capacity \in Nat \ {0} /\ t.size \in Nat /\ t.used \in Nat
         /\ t.size <= t.used
         /\ \E s \in Slots(t) : t.A[s] = NULL
<1>1. Sized(t)
  BY DEF SoundTable, WellFormed, Sized
<1> QED
  BY <1>1, SizedSlots, LiveFinite, RoomLeft DEF SoundTable, WellFormed

(* Every probing of a sound table comes to an empty slot. *)
LEMMA SoundProbesEnd ==
  ASSUME NEW t, NEW N, SoundTable(t, N), NEW hashes \in SUBSET Nat
  PROVE  ProbesEndIn(t, hashes)
<1> SUFFICES ASSUME NEW hash \in hashes
             PROVE  \E i \in Slots(t) : t.A[Probe(t, hash, i)] = NULL
  BY DEF ProbesEndIn
<1>1. PICK s \in Slots(t) : t.A[s] = NULL
  BY SoundSized
<1>2. PICK i \in Slots(t) : Probe(t, hash, i) = s
  BY SoundSized, ProbeMeetsAll
<1> QED
  BY <1>1, <1>2

(* What one slot does to the sets of slots. *)
WithSlot(t, s, x, size, used) ==
  [t EXCEPT !.A = [t.A EXCEPT ![s] = x], !.size = size, !.used = used]

LEMMA SlotChanged ==
  ASSUME NEW t, TableFields(t), Sized(t), NEW s \in Slots(t), NEW x, NEW a, NEW b,
         NEW u, u = WithSlot(t, s, x, a, b)
  PROVE  /\ TableFields(u) /\ Sized(u) /\ u.shift = t.shift /\ u.capacity = t.capacity
         /\ u.size = a /\ u.used = b /\ Slots(u) = Slots(t)
         /\ u.hash_func = t.hash_func /\ u.comp = t.comp /\ u.update = t.update
         /\ \A r \in Slots(t) : u.A[r] = IF r = s THEN x ELSE t.A[r]
         /\ IsNode(x) => Live(u) = Live(t) \cup {s} /\ Deleted(u) = Deleted(t) \ {s}
         /\ x = DELETED => Live(u) = Live(t) \ {s} /\ Deleted(u) = Deleted(t) \cup {s}
<1> DEFINE B == [t.A EXCEPT ![s] = x]
<1>1. DOMAIN B = DOMAIN t.A /\ \A r \in DOMAIN t.A : B[r] = IF r = s THEN x ELSE t.A[r]
  BY DEF Sized
<1> HIDE DEF B
<1>2. u = [A |-> B, capacity |-> t.capacity, shift |-> t.shift, size |-> a, used |-> b,
           hash_func |-> t.hash_func, comp |-> t.comp, update |-> t.update]
  BY DEF TableFields, B, WithSlot
<1>3. /\ u.A = B /\ u.shift = t.shift /\ u.capacity = t.capacity /\ u.size = a /\ u.used = b
      /\ TableFields(u) /\ Slots(u) = Slots(t)
      /\ u.hash_func = t.hash_func /\ u.comp = t.comp /\ u.update = t.update
  <2>1. /\ u.A = B /\ u.shift = t.shift /\ u.capacity = t.capacity /\ u.size = a /\ u.used = b
        /\ u.hash_func = t.hash_func /\ u.comp = t.comp /\ u.update = t.update
    BY <1>2
  <2>2. TableFields(u)
    BY <1>2, <2>1 DEF TableFields
  <2>3. Slots(u) = Slots(t)
    BY <2>1 DEF Slots
  <2> QED
    BY <2>1, <2>2, <2>3
<1>4. Sized(u)
  BY <1>1, <1>3 DEF Sized
<1>5. \A r \in Slots(t) : u.A[r] = IF r = s THEN x ELSE t.A[r]
  BY <1>1, <1>3 DEF Sized
<1>6. IsNode(x) => Live(u) = Live(t) \cup {s} /\ Deleted(u) = Deleted(t) \ {s}
  BY <1>3, <1>5 DEF Live, Deleted, IsNode
<1>7. x = DELETED => Live(u) = Live(t) \ {s} /\ Deleted(u) = Deleted(t) \cup {s}
  BY <1>3, <1>5, MarkerAssumption DEF Live, Deleted, IsNode
<1> QED
  BY <1>3, <1>4, <1>5, <1>6, <1>7

LEMMA InsertedSound ==
  ASSUME NEW t, NEW N, SoundTable(t, N), AreNodes(N), NEW s \in Slots(t), ~IsNode(t.A[s]),
         ~LastSlot(t, s), NEW x \in N
  PROVE  /\ SoundTable(Inserted(t, s, x), N)
         /\ Slots(Inserted(t, s, x)) = Slots(t)
         /\ Inserted(t, s, x).hash_func = t.hash_func
         /\ {Inserted(t, s, x).comp, Inserted(t, s, x).update} = {t.comp, t.update}
<1> DEFINE used == IF t.A[s] = NULL THEN t.used + 1 ELSE t.used
           u == Inserted(t, s, x)
<1>1. Sized(t) /\ TableFields(t) /\ t.size \in Nat /\ t.used \in Nat /\ t.capacity \in Nat
  BY SoundSized DEF SoundTable
<1>2. u = WithSlot(t, s, x, t.size + 1, used)
  BY <1>1 DEF Inserted, TableFields, WithSlot
<1> HIDE DEF u
<1>3. IsNode(x)
  BY DEF AreNodes
<1>4. /\ TableFields(u) /\ Sized(u) /\ u.shift = t.shift /\ u.capacity = t.capacity
      /\ u.size = t.size + 1 /\ u.used = used /\ Slots(u) = Slots(t)
      /\ u.hash_func = t.hash_func /\ u.comp = t.comp /\ u.update = t.update
      /\ \A r \in Slots(t) : u.A[r] = IF r = s THEN x ELSE t.A[r]
      /\ Live(u) = Live(t) \cup {s} /\ Deleted(u) = Deleted(t) \ {s}
  BY <1>1, <1>2, <1>3, SlotChanged
<1>5. u.size = Cardinality(Live(u))
  <2>1. s \notin Live(t)
    BY DEF Live
  <2> QED
    BY <1>1, <1>4, <2>1, LiveFinite, FS_AddElement DEF SoundTable, WellFormed
<1>6. u.used = Cardinality(Live(u) \cup Deleted(u))
  <2>1. Live(u) \cup Deleted(u) = (Live(t) \cup Deleted(t)) \cup {s}
    BY <1>4
  <2>2. s \in Live(t) \cup Deleted(t) <=> t.A[s] # NULL
    BY MarkerAssumption DEF Live, Deleted, IsNode
  <2>3. IsFiniteSet(Live(t) \cup Deleted(t)) /\ t.used = Cardinality(Live(t) \cup Deleted(t))
    BY <1>1, LiveFinite DEF SoundTable, WellFormed
  <2>4. CASE t.A[s] = NULL
    <3>1. Cardinality((Live(t) \cup Deleted(t)) \cup {s}) = Cardinality(Live(t) \cup Deleted(t)) + 1
      BY <2>2, <2>3, <2>4, FS_AddElement
    <3> QED
      BY <1>4, <2>1, <2>3, <2>4, <3>1
  <2>5. CASE t.A[s] # NULL
    BY <1>4, <2>1, <2>2, <2>3, <2>5
  <2> QED
    BY <2>4, <2>5
<1>7. u.used < u.capacity
  BY <1>1, <1>4 DEF LastSlot, SoundTable
<1>8. \A r \in Live(u) : u.A[r] \in N
  BY <1>4 DEF SoundTable, Live
<1>9. WellFormed(u)
  BY <1>4, <1>5, <1>6 DEF WellFormed, Sized, SoundTable
<1> QED
  BY <1>4, <1>7, <1>8, <1>9 DEF SoundTable, u

LEMMA RemovedSound ==
  ASSUME NEW t, NEW N, SoundTable(t, N), NEW s \in Live(t)
  PROVE  /\ SoundTable(Removed(t, s), N)
         /\ Slots(Removed(t, s)) = Slots(t)
         /\ Removed(t, s).used = t.used /\ Removed(t, s).capacity = t.capacity
         /\ Removed(t, s).hash_func = t.hash_func
         /\ {Removed(t, s).comp, Removed(t, s).update} = {t.comp, t.update}
<1> DEFINE u == Removed(t, s)
<1>1. /\ Sized(t) /\ TableFields(t) /\ t.size \in Nat /\ t.used \in Nat /\ t.capacity \in Nat
      /\ s \in Slots(t)
  BY SoundSized DEF SoundTable, Live
<1>2. u = WithSlot(t, s, DELETED, t.size - 1, t.used)
  BY <1>1 DEF Removed, TableFields, WithSlot
<1> HIDE DEF u
<1>4. /\ TableFields(u) /\ Sized(u) /\ u.shift = t.shift /\ u.capacity = t.capacity
      /\ u.size = t.size - 1 /\ u.used = t.used /\ Slots(u) = Slots(t)
      /\ u.hash_func = t.hash_func /\ u.comp = t.comp /\ u.update = t.update
      /\ \A r \in Slots(t) : u.A[r] = IF r = s THEN DELETED ELSE t.A[r]
      /\ Live(u) = Live(t) \ {s} /\ Deleted(u) = Deleted(t) \cup {s}
  BY <1>1, <1>2, SlotChanged
<1>5. u.size = Cardinality(Live(u))
  BY <1>1, <1>4, LiveFinite, FS_RemoveElement DEF SoundTable, WellFormed
<1>6. u.used = Cardinality(Live(u) \cup Deleted(u))
  <2>1. Live(u) \cup Deleted(u) = Live(t) \cup Deleted(t)
    BY <1>4
  <2> QED
    BY <1>4, <2>1 DEF SoundTable, WellFormed
<1>8. \A r \in Live(u) : u.A[r] \in N
  BY <1>4 DEF SoundTable, Live
<1>9. WellFormed(u)
  BY <1>4, <1>5, <1>6 DEF WellFormed, Sized, SoundTable
<1> QED
  BY <1>4, <1>8, <1>9 DEF SoundTable, u

(* An entry gets another value. *)
LEMMA ReplacedSound ==
  ASSUME NEW t, NEW N, SoundTable(t, N), AreNodes(N), NEW s \in Live(t), NEW x \in N,
         NEW u, u = WithSlot(t, s, x, t.size, t.used)
  PROVE  /\ SoundTable(u, N)
         /\ Slots(u) = Slots(t)
         /\ u.used = t.used /\ u.capacity = t.capacity
         /\ u.hash_func = t.hash_func /\ u.comp = t.comp /\ u.update = t.update
<1>1. /\ Sized(t) /\ TableFields(t) /\ t.size \in Nat /\ t.used \in Nat /\ t.capacity \in Nat
      /\ s \in Slots(t)
  BY SoundSized DEF SoundTable, Live
<1>3. IsNode(x)
  BY DEF AreNodes
<1>4. /\ TableFields(u) /\ Sized(u) /\ u.shift = t.shift /\ u.capacity = t.capacity
      /\ u.size = t.size /\ u.used = t.used /\ Slots(u) = Slots(t)
      /\ u.hash_func = t.hash_func /\ u.comp = t.comp /\ u.update = t.update
      /\ \A r \in Slots(t) : u.A[r] = IF r = s THEN x ELSE t.A[r]
      /\ Live(u) = Live(t) \cup {s} /\ Deleted(u) = Deleted(t) \ {s}
  BY <1>1, <1>3, SlotChanged
<1>5. Live(u) = Live(t) /\ Deleted(u) = Deleted(t)
  <2>1. s \notin Deleted(t)
    BY DEF Live, Deleted, IsNode
  <2> QED
    BY <1>4, <2>1
<1>8. \A r \in Live(u) : u.A[r] \in N
  BY <1>4 DEF SoundTable, Live
<1>9. WellFormed(u)
  BY <1>4, <1>5 DEF WellFormed, Sized, SoundTable
<1> QED
  BY <1>4, <1>8, <1>9 DEF SoundTable

(* A fresh table t filled with the slots A, which have n entries *)
Refilled(t, A, n) ==
  [A |-> PlaceAll(t, A).A, capacity |-> t.capacity, shift |-> t.shift, size |-> n, used |-> n,
   hash_func |-> t.hash_func, comp |-> t.comp, update |-> t.update]

Fresh(t) == /\ TableFields(t) /\ t.shift \in Nat /\ Sized(t) /\ t.capacity >= MinCapacity
            /\ \A s \in Slots(t) : t.A[s] = NULL

LEMMA RefilledSound ==
  ASSUME NEW t, Fresh(t), NEW o, NEW N, AreNodes(N), SoundTable(o, N), o.size < t.capacity
  PROVE  /\ PlaceAll(t, o.A) = [t EXCEPT !.A = PlaceAll(t, o.A).A]
         /\ SoundTable(Refilled(t, o.A, o.size), N)
<1> DEFINE v == PlaceAll(t, o.A)
           u == Refilled(t, o.A, o.size)
<1>1. Sized(o) /\ o.size = Cardinality(Live(o)) /\ o.size \in Nat
  BY SoundSized DEF SoundTable, WellFormed
<1>2. TableFields(t) /\ Sized(t) /\ t.capacity \in Nat /\ \A s \in Slots(t) : t.A[s] = NULL
  BY SizedSlots DEF Fresh
<1>3. \A s \in Live(o) : o.A[s] \in N /\ o.A[s].hash \in Nat
  BY DEF SoundTable, AreNodes
<1>4. Cardinality(Live(o)) <= t.capacity
  BY <1>1, <1>2
<1>5. /\ v = [t EXCEPT !.A = v.A] /\ DOMAIN v.A = Slots(t)
      /\ \A s \in Slots(t) : v.A[s] = NULL \/ \E m \in Live(o) : v.A[s] = o.A[m]
      /\ Deleted(v) = {}
      /\ Cardinality(Live(v)) = Cardinality(Live(o))
  BY <1>1, <1>2, <1>3, <1>4, PlaceAllKeeps
<1> HIDE DEF v
<1>6. Slots(v) = Slots(t)
  BY <1>2, <1>5, NewSlots
<1>7. /\ u.A = v.A /\ u.capacity = t.capacity /\ u.shift = t.shift
      /\ u.size = o.size /\ u.used = o.size
  BY DEF Refilled, v
<1>8. TableFields(u)
  BY DEF TableFields, Refilled
<1>9. Slots(u) = Slots(t) /\ Slots(u) = Slots(v)
  BY <1>6, <1>7 DEF Slots
<1> HIDE DEF u
<1>10. Live(u) = Live(v) /\ Deleted(u) = {}
  BY <1>5, <1>7, <1>9 DEF Live, Deleted
<1>11. WellFormed(u)
  <2>1. Live(u) \cup Deleted(u) = Live(u)
    BY <1>10
  <2> QED
    BY <1>1, <1>5, <1>7, <1>9, <1>10, <2>1 DEF WellFormed, Fresh, Sized
<1>12. \A s \in Live(u) : u.A[s] \in N
  BY <1>3, <1>5, <1>7, <1>9 DEF Live, IsNode
<1> QED
  BY <1>5, <1>7, <1>8, <1>11, <1>12 DEF SoundTable, Fresh, u, v

LEMMA ClearedIs ==
  ASSUME NEW t, TableFields(t), NEW capacity, NEW shift, NEW u, u = Cleared(t, capacity, shift)
  PROVE  u = [A |-> [s \in 0 .. capacity - 1 |-> NULL], capacity |-> capacity, shift |-> shift,
              size |-> t.size, used |-> t.used,
              hash_func |-> t.hash_func, comp |-> t.comp, update |-> t.update]
<1> DEFINE A == [s \in 0 .. capacity - 1 |-> NULL]
<1>1. u = [t EXCEPT !.A = A, !.capacity = capacity, !.shift = shift]
  BY DEF Cleared
<1> HIDE DEF A
<1>2. u = [A |-> A, capacity |-> capacity, shift |-> shift, size |-> t.size, used |-> t.used,
           hash_func |-> t.hash_func, comp |-> t.comp, update |-> t.update]
  BY <1>1 DEF TableFields
<1> QED
  BY <1>2 DEF A

(* A rebuilt table is a fresh one with the same functions, filled with the nodes, and has
   room, whether it was doubled or not. *)
LEMMA RebuiltRefills ==
  ASSUME NEW t, NEW N, AreNodes(N), SoundTable(t, N)
  PROVE  \E c : /\ Fresh(c) /\ t.size < c.capacity /\ 4 * t.size <= 3 * c.capacity
                /\ c.hash_func = t.hash_func /\ c.comp = t.comp /\ c.update = t.update
                /\ Rebuilt(t) = Refilled(c, t.A, t.size)
<1> DEFINE capacity == NewCapacity(t)
           shift == IF capacity # t.capacity THEN t.shift + 1 ELSE t.shift
           c == Cleared(t, capacity, shift)
<1>1. /\ Sized(t) /\ t.capacity \in Nat \ {0} /\ t.size \in Nat /\ t.used \in Nat /\ t.size <= t.used
      /\ TableFields(t) /\ t.shift \in Nat /\ t.capacity = 2 ^ t.shift /\ t.used < t.capacity
      /\ t.capacity >= MinCapacity
  BY SoundSized DEF SoundTable, WellFormed
<1>2. /\ capacity \in {t.capacity, 2 * t.capacity} /\ capacity \in Nat \ {0}
      /\ 4 * t.size <= 3 * capacity /\ capacity >= t.capacity
  BY <1>1 DEF NewCapacity
<1>3. shift \in Nat /\ capacity = 2 ^ shift
  BY <1>1, <1>2, PowerDoubles
<1> HIDE DEF shift, capacity
<1>4. c = [A |-> [s \in 0 .. capacity - 1 |-> NULL], capacity |-> capacity, shift |-> shift,
           size |-> t.size, used |-> t.used,
           hash_func |-> t.hash_func, comp |-> t.comp, update |-> t.update]
  BY <1>1, ClearedIs
<1> HIDE DEF c
<1>5. /\ c.capacity = capacity /\ c.shift = shift /\ c.A = [s \in 0 .. capacity - 1 |-> NULL]
      /\ c.hash_func = t.hash_func /\ c.comp = t.comp /\ c.update = t.update /\ c.size = t.size
  BY <1>4
<1>6. TableFields(c)
  BY <1>4, <1>5 DEF TableFields
<1>7. Slots(c) = 0 .. capacity - 1
  BY <1>5 DEF Slots
<1>8. c.capacity >= MinCapacity
  <2>1. MinCapacity \in Int
    BY CapacityAssumption, PowerIsNumber
  <2> QED
    BY <1>1, <1>2, <1>5, <2>1
<1>9. Fresh(c)
  BY <1>3, <1>5, <1>6, <1>7, <1>8 DEF Fresh, Sized
<1>10. t.size < c.capacity
  BY <1>1, <1>2, <1>5
<1> DEFINE v == PlaceAll(c, t.A)
<1>11. v = [c EXCEPT !.A = v.A] /\ SoundTable(Refilled(c, t.A, t.size), N)
  BY <1>9, <1>10, RefilledSound
<1>12. Rebuilt(t) = [v EXCEPT !.used = t.size]
  BY DEF Rebuilt, c, shift, capacity
<1>13. Refilled(c, t.A, t.size) =
         [A |-> v.A, capacity |-> c.capacity, shift |-> c.shift, size |-> t.size, used |-> t.size,
          hash_func |-> c.hash_func, comp |-> c.comp, update |-> c.update]
  BY DEF Refilled
<1> HIDE DEF v
<1>14. Rebuilt(t) = Refilled(c, t.A, t.size)
  BY <1>4, <1>5, <1>11, <1>12, <1>13
<1> QED
  BY <1>2, <1>5, <1>9, <1>10, <1>14

LEMMA RefilledFields ==
  ASSUME NEW t, NEW A, NEW n, NEW u, u = Refilled(t, A, n)
  PROVE  /\ u.A = PlaceAll(t, A).A /\ u.size = n /\ u.used = n
         /\ u.capacity = t.capacity /\ u.shift = t.shift
         /\ u.hash_func = t.hash_func /\ u.comp = t.comp /\ u.update = t.update
BY DEF Refilled

LEMMA RebuiltSound ==
  ASSUME NEW t, NEW N, AreNodes(N), SoundTable(t, N)
  PROVE  /\ SoundTable(Rebuilt(t), N)
         /\ 4 * Rebuilt(t).used <= 3 * Rebuilt(t).capacity
         /\ Rebuilt(t).hash_func = t.hash_func
         /\ Rebuilt(t).comp = t.comp /\ Rebuilt(t).update = t.update
<1>1. PICK c : /\ Fresh(c) /\ t.size < c.capacity /\ 4 * t.size <= 3 * c.capacity
               /\ c.hash_func = t.hash_func /\ c.comp = t.comp /\ c.update = t.update
               /\ Rebuilt(t) = Refilled(c, t.A, t.size)
  BY RebuiltRefills
<1>2. SoundTable(Refilled(c, t.A, t.size), N)
  BY <1>1, RefilledSound
<1> QED
  BY <1>1, <1>2, RefilledFields

(* The functions of a table have no part in this. *)
LEMMA FunctionsSound ==
  ASSUME NEW t, NEW N, SoundTable(t, N), NEW u, TableFields(u),
         u.A = t.A, u.capacity = t.capacity, u.shift = t.shift, u.size = t.size, u.used = t.used
  PROVE  SoundTable(u, N)
<1>1. Slots(u) = Slots(t)
  BY DEF Slots
<1>2. Live(u) = Live(t) /\ Deleted(u) = Deleted(t)
  BY <1>1 DEF Live, Deleted
<1> QED
  BY <1>1, <1>2 DEF SoundTable, WellFormed

(* Other nodes in the same slots *)
LEMMA MappedSound ==
  ASSUME NEW t, NEW N, SoundTable(t, N), AreNodes(N), NEW u, TableFields(u),
         u.capacity = t.capacity, u.shift = t.shift, u.size = t.size, u.used = t.used,
         DOMAIN u.A = Slots(t),
         \A s \in Slots(t) : IF IsNode(t.A[s]) THEN u.A[s] \in N ELSE u.A[s] = t.A[s]
  PROVE  SoundTable(u, N)
<1>1. Slots(u) = Slots(t)
  BY DEF Slots
<1>2. Live(u) = Live(t) /\ Deleted(u) = Deleted(t)
  BY <1>1 DEF Live, Deleted, IsNode, AreNodes
<1>3. \A s \in Live(u) : u.A[s] \in N
  BY <1>2 DEF Live
<1> QED
  BY <1>1, <1>2, <1>3 DEF SoundTable, WellFormed

-----------------------------------------------------------------------------
(* New tables *)

LEMMA MinCapacityFits == MinCapacity \in Nat /\ MinCapacity >= 4 /\ \E n \in Nat : MinCapacity = 2 ^ n
<1>1. PICK n \in 3 .. 62 : MinCapacity = 2 ^ n
  BY CapacityAssumption
<1> QED
  BY <1>1, PowerGrows, PowerIsNumber

LEMMA RoundedUp ==
  ASSUME NEW x \in Nat
  PROVE  \E n \in Nat : RoundUpPow2(x) = 2 ^ n /\ 2 ^ n >= x
<1> DEFINE S == {n \in Nat : 2 ^ n >= x}
           Least(n) == 2 ^ n >= x /\ \A m \in 0 .. n - 1 : 2 ^ m < x
           n0 == CHOOSE n \in 0 .. x : Least(n)
<1>1. x \in S
  BY PowerGrows, PowerIsNumber
<1>2. PICK n \in S : \A m \in 0 .. n - 1 : m \notin S
  BY <1>1, Smallest
<1>3. n \in 0 .. x
  BY <1>1, <1>2
<1>4. Least(n)
  BY <1>2, PowerIsNumber
<1>5. n0 \in 0 .. x /\ Least(n0)
  BY <1>3, <1>4
<1>6. RoundUpPow2(x) = 2 ^ n0
  BY DEF RoundUpPow2
<1> HIDE DEF n0
<1> QED
  BY <1>5, <1>6

LEMMA Logarithm ==
  ASSUME NEW n \in Nat, NEW c, c = 2 ^ n
  PROVE  Log2(c) \in Nat /\ 2 ^ Log2(c) = c
<1>1. c \in Nat /\ n \in 0 .. c
  BY PowerGrows, PowerIsNumber
<1>2. Log2(c) \in 0 .. c /\ 2 ^ Log2(c) = c
  BY <1>1 DEF Log2
<1> QED
  BY <1>1, <1>2

LEMMA MultipleOfFour ==
  ASSUME NEW n \in Nat, 2 ^ n >= 4
  PROVE  \E j \in Nat : 2 ^ n = 4 * j
<1>1. n # 0 /\ n # 1
  <2>1. ASSUME n = 0 PROVE FALSE
    <3>1. 2 ^ 0 >= 4
      BY <2>1, Zenon
    <3> QED
      BY <3>1
  <2>2. ASSUME n = 1 PROVE FALSE
    <3>1. 2 ^ 1 >= 4
      BY <2>2, Zenon
    <3> QED
      BY <3>1
  <2> QED
    BY <2>1, <2>2
<1>2. PICK m \in Nat : n = (m + 1) + 1
  <2>1. n - 2 \in Nat /\ n = ((n - 2) + 1) + 1
    BY <1>1
  <2> QED
    BY <2>1
<1>3. 2 ^ (m + 1) = 2 * 2 ^ m /\ 2 ^ ((m + 1) + 1) = 2 * 2 ^ (m + 1) /\ 2 ^ m \in Nat
  BY PowerDoubles, PowerIsNumber
<1> QED
  BY <1>2, <1>3

(* init makes a table that the entries expected fill to three quarters at most. *)
LEMMA InitialCapacityFits ==
  ASSUME NEW expected \in Int
  PROVE  LET c == InitialCapacity(expected)
         IN  c \in Nat /\ c >= MinCapacity /\ 4 * expected <= 3 * c /\ \E n \in Nat : c = 2 ^ n
<1> DEFINE n == IF expected > 0 THEN expected ELSE 0
           slots == (n \div 3) * 4 + ((n % 3) * 4) \div 3
           c == InitialCapacity(expected)
<1>1. n \in Nat /\ expected <= n
  OBVIOUS
<1>2. c = IF slots <= MinCapacity THEN MinCapacity ELSE RoundUpPow2(slots)
  BY DEF InitialCapacity
<1> HIDE DEF n, c
<1>3. PICK q \in Nat, r \in 0 .. 2 : n = 3 * q + r /\ n \div 3 = q /\ n % 3 = r
  BY <1>1, Division
<1>4. slots = 4 * q + r
  <2>1. (r * 4) \div 3 = r
    OBVIOUS
  <2> QED
    BY <1>3, <2>1
<1> HIDE DEF slots
<1>5. slots \in Nat
  BY <1>3, <1>4
<1>6. PICK k \in Nat : c = 2 ^ k /\ c >= slots /\ c >= MinCapacity
  BY <1>2, <1>5, RoundedUp, MinCapacityFits
<1>7. c \in Nat
  BY <1>6, PowerIsNumber
<1>8. PICK j \in Nat : c = 4 * j
  BY <1>6, <1>7, MinCapacityFits, MultipleOfFour
<1>9. 4 * n <= 3 * c
  BY <1>3, <1>4, <1>6, <1>7, <1>8
<1> QED
  BY <1>1, <1>6, <1>7, <1>9 DEF c

LEMMA NewFresh ==
  ASSUME NEW expected \in Int, NEW hash_func, NEW comp, NEW update,
         NEW t, t = New(expected, hash_func, comp, update)
  PROVE  /\ Fresh(t) /\ t.size = 0 /\ t.used = 0
         /\ 4 * expected <= 3 * t.capacity /\ t.capacity \in Nat /\ t.capacity >= 4
         /\ t.hash_func = hash_func /\ t.comp = comp /\ t.update = update
<1> DEFINE c == InitialCapacity(expected)
<1>1. c \in Nat /\ c >= MinCapacity /\ 4 * expected <= 3 * c /\ \E n \in Nat : c = 2 ^ n
  BY InitialCapacityFits
<1>2. Log2(c) \in Nat /\ 2 ^ Log2(c) = c
  BY <1>1, Logarithm
<1>3. t = [A |-> [s \in 0 .. c - 1 |-> NULL], capacity |-> c, shift |-> Log2(c),
           size |-> 0, used |-> 0, hash_func |-> hash_func, comp |-> comp, update |-> update]
  BY DEF New
<1> HIDE DEF c
<1>4. /\ t.A = [s \in 0 .. c - 1 |-> NULL] /\ t.capacity = c /\ t.shift = Log2(c)
      /\ t.size = 0 /\ t.used = 0
      /\ t.hash_func = hash_func /\ t.comp = comp /\ t.update = update
  BY <1>3
<1>5. TableFields(t)
  BY <1>3, <1>4 DEF TableFields
<1>6. Slots(t) = 0 .. c - 1
  BY <1>4 DEF Slots
<1>7. Fresh(t)
  BY <1>1, <1>2, <1>4, <1>5, <1>6 DEF Fresh, Sized
<1> QED
  BY <1>1, <1>4, <1>7, MinCapacityFits

LEMMA FreshSound ==
  ASSUME NEW t, Fresh(t), t.size = 0, t.used = 0, NEW N
  PROVE  SoundTable(t, N)
<1>1. Live(t) = {} /\ Deleted(t) = {}
  BY MarkerAssumption DEF Fresh, Live, Deleted, IsNode
<1>2. Live(t) \cup Deleted(t) = {}
  BY <1>1
<1>3. WellFormed(t)
  BY <1>1, <1>2, FS_EmptySet DEF WellFormed, Fresh, Sized
<1> QED
  BY <1>1, <1>3, SizedSlots DEF SoundTable, Fresh

-----------------------------------------------------------------------------
(* What probing finds *)

(* On the way of its hash, no slot before the slot s of a node is empty or holds its key. *)
OnWay(t, s) ==
  \E i \in Slots(t) :
    /\ Probe(t, t.A[s].hash, i) = s
    /\ \A j \in 0 .. i - 1 : LET r == Probe(t, t.A[s].hash, j)
                             IN  t.A[r] # NULL /\ ~Holds(t, r, t.A[s].hash, t.A[s].key)

InPlace(t) == \A s \in Live(t) : OnWay(t, s)

(* So the probing for the key ends at the node. *)
LEMMA WayFound ==
  ASSUME NEW t, Sized(t), NEW s \in Live(t), OnWay(t, s), NEW h, NEW k, Holds(t, s, h, k)
  PROVE  End(t, h, k) = s
<1> DEFINE Stop(r) == t.A[r] = NULL \/ Holds(t, r, h, k)
           Here(i) == /\ Stop(Probe(t, h, i))
                      /\ \A j \in 0 .. i - 1 : ~Stop(Probe(t, h, j))
           i0 == CHOOSE i \in Slots(t) : Here(i)
<1>1. t.A[s].hash = h /\ Slots(t) \subseteq Nat
  BY SizedSlots DEF Holds
<1>2. \A r : Holds(t, r, h, k) <=> Holds(t, r, h, t.A[s].key)
  BY DEF Holds
<1>3. PICK i \in Slots(t) :
        /\ Probe(t, h, i) = s
        /\ \A j \in 0 .. i - 1 : LET r == Probe(t, h, j)
                                 IN  t.A[r] # NULL /\ ~Holds(t, r, h, t.A[s].key)
  BY <1>1 DEF OnWay
<1>4. Here(i)
  BY <1>2, <1>3
<1>5. i0 \in Slots(t) /\ Here(i0)
  BY <1>4
<1>6. End(t, h, k) = Probe(t, h, i0)
  BY DEF End, First
<1> HIDE DEF i0, Stop
<1>7. i0 = i
  <2>1. i \in Nat /\ i0 \in Nat
    BY <1>1, <1>5
  <2>2. ~(i < i0) /\ ~(i0 < i)
    BY <1>4, <1>5, <2>1
  <2> QED
    BY <2>1, <2>2
<1> QED
  BY <1>3, <1>6, <1>7

(* Two nodes in place have different keys, as the table sees it. *)
LEMMA PlacesDiffer ==
  ASSUME NEW t, Sized(t), InPlace(t), NEW s \in Live(t), NEW r \in Live(t),
         Holds(t, r, t.A[s].hash, t.A[s].key)
  PROVE  r = s
<1>1. Holds(t, s, t.A[s].hash, t.A[s].key)
  BY DEF Holds, Live
<1>2. OnWay(t, s) /\ OnWay(t, r)
  BY DEF InPlace
<1>3. End(t, t.A[s].hash, t.A[s].key) = s
  BY <1>1, <1>2, WayFound
<1>4. End(t, t.A[s].hash, t.A[s].key) = r
  BY <1>2, WayFound
<1> QED
  BY <1>3, <1>4

(* A free slot gets a node whose key the table does not have. *)
LEMMA FilledInPlace ==
  ASSUME NEW t, Sized(t), InPlace(t), \A r \in Live(t) : t.A[r].hash \in Nat,
         NEW s \in Slots(t), ~IsNode(t.A[s]),
         NEW x, IsNode(x), x.hash \in Nat, \A r \in Live(t) : ~Holds(t, r, x.hash, x.key),
         NEW i \in Slots(t), Probe(t, x.hash, i) = s,
         \A j \in 0 .. i - 1 : Probe(t, x.hash, j) # s /\ t.A[Probe(t, x.hash, j)] # NULL,
         NEW u, u.capacity = t.capacity, u.shift = t.shift, u.comp = t.comp,
         \A r \in Slots(t) : u.A[r] = IF r = s THEN x ELSE t.A[r]
  PROVE  InPlace(u)
<1>1. Slots(u) = Slots(t) /\ \A h, m : Probe(u, h, m) = Probe(t, h, m)
  BY DEF Slots, Probe, Base, Step
<1>2. \A r \in Slots(t) \ {s} : u.A[r] = t.A[r] /\ \A h, k : Holds(u, r, h, k) <=> Holds(t, r, h, k)
  BY DEF Holds
<1>3. u.A[s] = x
  OBVIOUS
<1>4. ASSUME NEW h \in Nat, NEW m \in Slots(t), NEW j \in 0 .. m - 1 PROVE Probe(t, h, j) \in Slots(t)
  <2>1. j \in Slots(t)
    BY <1>4, SizedSlots DEF Slots
  <2> QED
    BY <2>1, ProbeMeetsAll
<1>5. OnWay(u, s)
  <2>1. ASSUME NEW j \in 0 .. i - 1
        PROVE  LET r == Probe(u, x.hash, j) IN u.A[r] # NULL /\ ~Holds(u, r, x.hash, x.key)
    <3> DEFINE r == Probe(t, x.hash, j)
    <3>1. r \in Slots(t) /\ r # s /\ t.A[r] # NULL
      BY <1>4
    <3> HIDE DEF r
    <3>2. u.A[r] # NULL /\ ~Holds(u, r, x.hash, x.key)
      BY <1>2, <3>1 DEF Holds, Live
    <3> QED
      BY <1>1, <3>2 DEF r
  <2> QED
    BY <1>1, <1>3, <2>1 DEF OnWay
<1>6. ASSUME NEW r \in Live(u), r # s PROVE OnWay(u, r)
  <2> DEFINE n == t.A[r]
  <2>1. r \in Live(t) /\ u.A[r] = n /\ IsNode(n) /\ n.hash \in Nat /\ r \in Slots(t)
    BY <1>1, <1>2, <1>6 DEF Live
  <2> HIDE DEF n
  <2>2. PICK m \in Slots(t) :
          /\ Probe(t, n.hash, m) = r
          /\ \A j \in 0 .. m - 1 : LET q == Probe(t, n.hash, j)
                                   IN  t.A[q] # NULL /\ ~Holds(t, q, n.hash, n.key)
    BY <2>1 DEF InPlace, OnWay, n
  <2>3. ~Holds(t, r, x.hash, x.key)
    BY <2>1
  <2>4. ~(x.hash = n.hash /\ (t.comp => x.key = n.key))
    BY <2>1, <2>3 DEF Holds, n
  <2>5. ~Holds(u, s, n.hash, n.key)
    BY <1>3, <2>4 DEF Holds
  <2>6. ASSUME NEW j \in 0 .. m - 1
        PROVE  LET q == Probe(u, n.hash, j) IN u.A[q] # NULL /\ ~Holds(u, q, n.hash, n.key)
    <3> DEFINE q == Probe(t, n.hash, j)
    <3>1. q \in Slots(t) /\ t.A[q] # NULL /\ ~Holds(t, q, n.hash, n.key)
      BY <1>4, <2>1, <2>2
    <3> HIDE DEF q
    <3>2. u.A[q] # NULL /\ ~Holds(u, q, n.hash, n.key)
      <4>1. CASE q = s
        BY <1>3, <2>5, <4>1 DEF IsNode
      <4>2. CASE q # s
        BY <1>2, <3>1, <4>2
      <4> QED
        BY <4>1, <4>2
    <3> QED
      BY <1>1, <3>2 DEF q
  <2> QED
    BY <1>1, <2>1, <2>2, <2>6 DEF OnWay
<1> QED
  BY <1>5, <1>6 DEF InPlace

(* Other changes that leave every node in place: an entry becomes a marker, nodes get other
   values, or the compare function changes and no two nodes have one hash. *)
LEMMA StillInPlace ==
  ASSUME NEW t, Sized(t), InPlace(t), \A r \in Live(t) : t.A[r].hash \in Nat,
         NEW u, u.capacity = t.capacity, u.shift = t.shift,
         \A r \in Slots(t) : \/ u.A[r] = t.A[r]
                             \/ u.A[r] = DELETED /\ t.A[r] # NULL
                             \/ /\ IsNode(u.A[r]) /\ IsNode(t.A[r])
                                /\ u.A[r].hash = t.A[r].hash /\ u.A[r].key = t.A[r].key,
         \/ u.comp = t.comp
         \/ \A s, r \in Live(t) : s # r => t.A[s].hash # t.A[r].hash
  PROVE  InPlace(u)
<1>1. Slots(u) = Slots(t) /\ \A h, m : Probe(u, h, m) = Probe(t, h, m)
  BY DEF Slots, Probe, Base, Step
<1>2. ASSUME NEW r \in Live(u)
      PROVE  /\ r \in Live(t) /\ u.A[r].hash = t.A[r].hash /\ u.A[r].key = t.A[r].key
             /\ t.A[r].hash \in Nat
  BY <1>1, <1>2 DEF Live, IsNode
<1> SUFFICES ASSUME NEW s \in Live(u) PROVE OnWay(u, s)
  BY DEF InPlace
<1> DEFINE h == t.A[s].hash
           k == t.A[s].key
<1>3. s \in Live(t) /\ u.A[s].hash = h /\ u.A[s].key = k /\ h \in Nat /\ s \in Slots(t)
  BY <1>2 DEF Live
<1>4. PICK m \in Slots(t) :
        /\ Probe(t, h, m) = s
        /\ \A j \in 0 .. m - 1 : LET q == Probe(t, h, j) IN t.A[q] # NULL /\ ~Holds(t, q, h, k)
  BY <1>3 DEF InPlace, OnWay
<1>5. Holds(t, s, h, k)
  BY <1>3 DEF Holds, Live
<1> HIDE DEF h, k
<1>6. ASSUME NEW j \in 0 .. m - 1
      PROVE  LET q == Probe(u, h, j) IN u.A[q] # NULL /\ ~Holds(u, q, h, k)
  <2> DEFINE q == Probe(t, h, j)
  <2>1. j \in Slots(t)
    BY SizedSlots DEF Slots
  <2>2. q \in Slots(t) /\ t.A[q] # NULL /\ ~Holds(t, q, h, k)
    BY <1>3, <1>4, <2>1, ProbeMeetsAll
  <2> HIDE DEF q
  <2>3. u.A[q] # NULL
    BY <2>2, MarkerAssumption DEF IsNode
  <2>4. ASSUME Holds(u, q, h, k) PROVE FALSE
    <3>1. IsNode(u.A[q]) /\ u.A[q].hash = h /\ (u.comp => u.A[q].key = k)
      BY <2>4 DEF Holds
    <3>2. q \in Live(u)
      BY <1>1, <2>2, <3>1 DEF Live
    <3>3. q \in Live(t) /\ t.A[q].hash = h /\ (u.comp => t.A[q].key = k)
      BY <1>2, <3>1, <3>2
    <3>4. CASE u.comp = t.comp
      BY <2>2, <3>3, <3>4 DEF Holds, Live
    <3>5. CASE q = s
      BY <1>5, <2>2, <3>5
    <3>6. CASE q # s /\ \A a, b \in Live(t) : a # b => t.A[a].hash # t.A[b].hash
      BY <1>3, <3>3, <3>6 DEF h
    <3> QED
      BY <3>4, <3>5, <3>6
  <2> QED
    BY <1>1, <2>3, <2>4 DEF q
<1> QED
  BY <1>1, <1>3, <1>4, <1>6 DEF OnWay

(* Placing: every node of the slots so far is in place. *)
KeptIn(u, A, n) == InPlace(u) /\ \A m \in Nodes(A, n) : \E s \in Live(u) : u.A[s] = A[m]

LEMMA PlacedNodes ==
  ASSUME NEW t, TableFields(t), Sized(t), NEW A, NEW n, NEW u, Placed(u, t, A, n)
  PROVE  \A r \in Live(u) : \E m \in Nodes(A, n) : u.A[r] = A[m]
<1>1. Slots(u) = Slots(t)
  BY PlacedFields
<1>2. \A s \in Slots(t) : u.A[s] = NULL \/ (IsNode(u.A[s]) /\ \E m \in 0 .. n - 1 : u.A[s] = A[m])
  BY DEF Placed
<1> SUFFICES ASSUME NEW r \in Live(u) PROVE \E m \in Nodes(A, n) : u.A[r] = A[m]
  OBVIOUS
<1>3. IsNode(u.A[r]) /\ r \in Slots(t)
  BY <1>1 DEF Live
<1>4. PICK m \in 0 .. n - 1 : u.A[r] = A[m]
  BY <1>2, <1>3 DEF IsNode
<1>5. m \in Nodes(A, n)
  BY <1>3, <1>4 DEF Nodes
<1> QED
  BY <1>4, <1>5

LEMMA PlaceOneInPlace ==
  ASSUME NEW t, TableFields(t), Sized(t),
         NEW A, NEW n \in Nat, NEW u, Placed(u, t, A, n), IsNode(A[n]), A[n].hash \in Nat,
         Cardinality(Nodes(A, n + 1)) <= t.capacity,
         \A m \in Nodes(A, n) : /\ A[m].hash \in Nat
                                /\ ~(A[m].hash = A[n].hash /\ (t.comp => A[m].key = A[n].key)),
         KeptIn(u, A, n), NEW w, w = Place(u, A[n])
  PROVE  KeptIn(w, A, n + 1)
<1>1. Placed(w, t, A, n + 1)
  BY PlaceOne
<1>2. /\ Slots(u) = Slots(t) /\ Sized(u) /\ u.capacity = t.capacity /\ u.shift = t.shift
      /\ u.comp = t.comp
      /\ Slots(w) = Slots(t) /\ w.capacity = t.capacity /\ w.shift = t.shift /\ w.comp = t.comp
  BY <1>1, PlacedFields
<1>3. PICK e \in Slots(t) :
        /\ u.A[e] = NULL
        /\ \A s \in Slots(t) : w.A[s] = IF s = e THEN A[n] ELSE u.A[s]
        /\ \E i \in Slots(t) : /\ Probe(u, A[n].hash, i) = e
                               /\ \A j \in 0 .. i - 1 : u.A[Probe(u, A[n].hash, j)] # NULL
  BY PlaceNode
<1>4. PICK i \in Slots(u) : /\ Probe(u, A[n].hash, i) = e
                            /\ \A j \in 0 .. i - 1 : u.A[Probe(u, A[n].hash, j)] # NULL
  BY <1>2, <1>3
<1>5. \A r \in Live(u) : \E m \in Nodes(A, n) : u.A[r] = A[m]
  BY <1>2, PlacedNodes
<1>6. \A r \in Live(u) : u.A[r].hash \in Nat /\ ~Holds(u, r, A[n].hash, A[n].key)
  BY <1>2, <1>5 DEF Holds
<1>7. InPlace(u) /\ ~IsNode(u.A[e]) /\ e \in Slots(u)
  BY <1>2, <1>3 DEF KeptIn, IsNode
<1>8. \A j \in 0 .. i - 1 : Probe(u, A[n].hash, j) # e /\ u.A[Probe(u, A[n].hash, j)] # NULL
  BY <1>3, <1>4
<1>9. \A r \in Slots(u) : w.A[r] = IF r = e THEN A[n] ELSE u.A[r]
  BY <1>2, <1>3
<1>10. InPlace(w)
  <2>1. PICK x : x = A[n]
    OBVIOUS
  <2> QED
    BY <1>2, <1>4, <1>6, <1>7, <1>8, <1>9, <2>1, FilledInPlace
<1>11. \A r \in Live(u) : r \in Live(w) /\ w.A[r] = u.A[r]
  BY <1>2, <1>3, <1>7 DEF Live
<1>12. e \in Live(w) /\ w.A[e] = A[n]
  BY <1>2, <1>3 DEF Live
<1>13. \A m \in Nodes(A, n + 1) : \E s \in Live(w) : w.A[s] = A[m]
  BY <1>11, <1>12, NodesNext DEF KeptIn
<1> QED
  BY <1>10, <1>13 DEF KeptIn

LEMMA PlaceAllInPlace ==
  ASSUME NEW t, TableFields(t), Sized(t), \A s \in Slots(t) : t.A[s] = NULL,
         NEW o, Sized(o), \A s \in Live(o) : o.A[s].hash \in Nat,
         Cardinality(Live(o)) <= t.capacity, InPlace(o), o.comp = t.comp,
         NEW u, u = PlaceAll(t, o.A)
  PROVE  /\ InPlace(u)
         /\ \A m \in Live(o) : \E s \in Live(u) : u.A[s] = o.A[m]
         /\ \A s \in Live(u) : \E m \in Live(o) : u.A[s] = o.A[m]
<1> DEFINE A == o.A
           N == o.capacity
<1>1. /\ N \in Nat /\ Slots(o) = 0 .. N - 1 /\ Live(o) = Nodes(A, N)
      /\ \A n \in Nat : n <= N => Cardinality(Nodes(A, n)) <= t.capacity
      /\ \E F : /\ F = [n \in 0 .. N |-> IF n = 0 THEN t ELSE Place(F[n - 1], A[n - 1])]
                /\ PlaceAll(t, A) = F[N]
                /\ \A n \in 0 .. N : Placed(F[n], t, A, n)
  BY PlaceAllPlaced
<1>2. \A m, n \in Live(o) : A[m].hash = A[n].hash /\ (t.comp => A[m].key = A[n].key) => m = n
  <2> SUFFICES ASSUME NEW m \in Live(o), NEW n \in Live(o),
                      A[m].hash = A[n].hash, t.comp => A[m].key = A[n].key
               PROVE  m = n
    OBVIOUS
  <2>1. Holds(o, m, o.A[n].hash, o.A[n].key)
    BY DEF Holds, Live
  <2> QED
    BY <2>1, PlacesDiffer
<1>3. \A m \in Live(o) : A[m].hash \in Nat
  OBVIOUS
<1>4. u = PlaceAll(t, A)
  OBVIOUS
<1> HIDE DEF A, N
<1>5. PICK F : /\ F = [n \in 0 .. N |-> IF n = 0 THEN t ELSE Place(F[n - 1], A[n - 1])]
               /\ PlaceAll(t, A) = F[N]
               /\ \A n \in 0 .. N : Placed(F[n], t, A, n)
  BY <1>1
<1> DEFINE S == {n \in Nat : n <= N => KeptIn(F[n], A, n)}
<1>6. 0 \in S
  <2>1. F[0] = t
    BY <1>1, <1>5
  <2>2. Live(t) = {} /\ Nodes(A, 0) = {}
    BY DEF Live, Nodes, IsNode
  <2> QED
    BY <2>1, <2>2 DEF KeptIn, InPlace
<1>7. ASSUME NEW n \in S PROVE n + 1 \in S
  <2> SUFFICES ASSUME n + 1 <= N PROVE KeptIn(F[n + 1], A, n + 1)
    OBVIOUS
  <2>1. n \in Nat /\ n + 1 \in 0 .. N /\ (n + 1) - 1 = n /\ n <= N /\ n + 1 # 0 /\ n \in 0 .. N - 1
        /\ n \in 0 .. N
    BY <1>1
  <2>2. F[n + 1] = Place(F[n], A[n])
    BY <1>5, <2>1
  <2>3. Placed(F[n], t, A, n) /\ KeptIn(F[n], A, n)
    BY <1>5, <2>1
  <2> HIDE DEF S
  <2>4. CASE ~IsNode(A[n])
    <3>1. F[n + 1] = F[n] /\ Nodes(A, n + 1) = Nodes(A, n)
      BY <2>1, <2>2, <2>4, NodesNext DEF Place
    <3> QED
      BY <2>3, <3>1 DEF KeptIn
  <2>5. CASE IsNode(A[n])
    <3>1. n \in Live(o)
      BY <1>1, <2>1, <2>5 DEF Nodes
    <3>2. ASSUME NEW m \in Nodes(A, n)
          PROVE  /\ A[m].hash \in Nat
                 /\ ~(A[m].hash = A[n].hash /\ (t.comp => A[m].key = A[n].key))
      <4>1. m \in Nodes(A, N) /\ m # n
        BY <1>1, <2>1 DEF Nodes
      <4> QED
        BY <1>1, <1>2, <1>3, <3>1, <4>1
    <3>3. A[n].hash \in Nat /\ Cardinality(Nodes(A, n + 1)) <= t.capacity
      BY <1>1, <1>3, <2>1, <3>1
    <3> QED
      BY <2>1, <2>2, <2>3, <2>5, <3>2, <3>3, PlaceOneInPlace
  <2> QED
    BY <2>4, <2>5
<1> HIDE DEF S
<1>8. N \in S
  BY <1>1, <1>6, <1>7, NatInduced DEF S
<1>9. KeptIn(u, A, N) /\ Placed(u, t, A, N)
  BY <1>1, <1>4, <1>5, <1>8 DEF S
<1>10. \A s \in Live(u) : \E m \in Live(o) : u.A[s] = A[m]
  BY <1>1, <1>9, PlacedNodes
<1> QED
  BY <1>1, <1>9, <1>10 DEF KeptIn, A

-----------------------------------------------------------------------------
(* The entries of a table as a map *)

(* Every node is in place, with the hash of its key. *)
Filed(t) == InPlace(t) /\ \A s \in Live(t) : t.A[s].hash = t.hash_func[t.A[s].key]

LEMMA KeysDiffer ==
  ASSUME NEW t, Sized(t), Filed(t), NEW s \in Live(t), NEW r \in Live(t), t.A[s].key = t.A[r].key
  PROVE  s = r
<1>1. t.A[s].hash = t.A[r].hash
  BY DEF Filed
<1>2. Holds(t, r, t.A[s].hash, t.A[s].key)
  BY <1>1 DEF Holds, Live
<1> QED
  BY <1>2, PlacesDiffer DEF Filed

LEMMA ContentsAre ==
  ASSUME NEW t, Sized(t), Filed(t)
  PROVE  /\ Contents(t) = [k \in DOMAIN Contents(t) |-> Contents(t)[k]]
         /\ DOMAIN Contents(t) = {t.A[s].key : s \in Live(t)}
         /\ \A s \in Live(t) : Contents(t)[t.A[s].key] = t.A[s].value
         /\ Cardinality(DOMAIN Contents(t)) = Cardinality(Live(t))
<1> DEFINE keys == {t.A[s].key : s \in Live(t)}
           f == [s \in Live(t) |-> t.A[s].key]
<1>1. Contents(t) = [k \in keys |-> t.A[CHOOSE s \in Live(t) : t.A[s].key = k].value]
  BY DEF Contents
<1>2. ASSUME NEW s \in Live(t)
      PROVE  (CHOOSE r \in Live(t) : t.A[r].key = t.A[s].key) = s
  BY KeysDiffer
<1>3. ASSUME NEW s \in Live(t) PROVE Contents(t)[t.A[s].key] = t.A[s].value
  <2>1. PICK k \in keys : k = t.A[s].key
    OBVIOUS
  <2>2. Contents(t)[k] = t.A[CHOOSE r \in Live(t) : t.A[r].key = k].value
    BY <1>1
  <2>3. (CHOOSE r \in Live(t) : t.A[r].key = k) = s
    BY <1>2, <2>1
  <2> QED
    BY <2>1, <2>2, <2>3
<1>4. f \in Bijection(Live(t), keys)
  <2>1. f \in [Live(t) -> keys]
    OBVIOUS
  <2>2. \A s, r \in Live(t) : f[s] = f[r] => s = r
    BY KeysDiffer
  <2>3. \A k \in keys : \E s \in Live(t) : f[s] = k
    OBVIOUS
  <2> HIDE DEF f, keys
  <2> QED
    BY <2>1, <2>2, <2>3 DEF Bijection, Injection, Surjection, IsInjective
<1>5. Cardinality(keys) = Cardinality(Live(t))
  BY <1>4, LiveFinite, FS_Bijection DEF ExistsBijection
<1> QED
  BY <1>1, <1>3, <1>5

(* A map with these keys and values is the map of the table. *)
LEMMA ContentsEqual ==
  ASSUME NEW t, Sized(t), Filed(t), NEW m, m = [k \in DOMAIN m |-> m[k]],
         DOMAIN m = {t.A[s].key : s \in Live(t)},
         \A s \in Live(t) : m[t.A[s].key] = t.A[s].value
  PROVE  Contents(t) = m
<1>1. PICK c : c = Contents(t)
  OBVIOUS
<1>2. /\ c = [k \in DOMAIN c |-> c[k]]
      /\ DOMAIN c = {t.A[s].key : s \in Live(t)}
      /\ \A s \in Live(t) : c[t.A[s].key] = t.A[s].value
  BY <1>1, ContentsAre
<1>3. DOMAIN c = DOMAIN m /\ \A k \in DOMAIN m : c[k] = m[k]
  BY <1>2
<1> QED
  BY <1>1, <1>2, <1>3

(* Two tables with the same nodes *)
LEMMA SameContents ==
  ASSUME NEW t, Sized(t), Filed(t), NEW u, Sized(u), Filed(u),
         \A s \in Live(t) : \E r \in Live(u) : u.A[r] = t.A[s],
         \A r \in Live(u) : \E s \in Live(t) : u.A[r] = t.A[s]
  PROVE  Contents(u) = Contents(t)
<1>1. PICK c : c = Contents(t)
  OBVIOUS
<1>2. /\ c = [k \in DOMAIN c |-> c[k]]
      /\ DOMAIN c = {t.A[s].key : s \in Live(t)}
      /\ \A s \in Live(t) : c[t.A[s].key] = t.A[s].value
  BY <1>1, ContentsAre
<1>3. DOMAIN c = {u.A[r].key : r \in Live(u)}
  BY <1>2
<1>4. \A r \in Live(u) : c[u.A[r].key] = u.A[r].value
  BY <1>2
<1>5. Contents(u) = c
  BY <1>2, <1>3, <1>4, ContentsEqual
<1> QED
  BY <1>1, <1>5

(* Where the probing for a key ends tells whether it is there. *)
LEMMA EndIsHolder ==
  ASSUME NEW t, Sized(t), InPlace(t), \E e \in Slots(t) : t.A[e] = NULL, NEW h \in Nat, NEW k
  PROVE  LET s == End(t, h, k)
         IN  /\ t.A[s] = NULL => \A r \in Live(t) : ~Holds(t, r, h, k)
             /\ t.A[s] # NULL => /\ s \in Live(t) /\ Holds(t, s, h, k)
                                 /\ \A r \in Live(t) : Holds(t, r, h, k) => r = s
<1> DEFINE s == End(t, h, k)
<1>1. \A r \in Live(t) : Holds(t, r, h, k) => r = s
  BY WayFound DEF InPlace
<1>2. s \in Slots(t) /\ (t.A[s] = NULL \/ Holds(t, s, h, k))
  BY EndStops
<1> HIDE DEF s
<1>3. t.A[s] # NULL => s \in Live(t) /\ Holds(t, s, h, k)
  BY <1>2 DEF Holds, Live
<1> QED
  BY <1>1, <1>3 DEF s, Live, IsNode

(* What the changes of a table do to the map *)

LEMMA InsertedFiled ==
  ASSUME NEW t, NEW N, SoundTable(t, N), AreNodes(N), Filed(t),
         NEW x \in N, x.hash = t.hash_func[x.key],
         NEW s, s = Target(t, x.hash), t.A[End(t, x.hash, x.key)] = NULL,
         NEW m, m = Contents(t), NEW u, u = Inserted(t, s, x)
  PROVE  /\ Sized(u) /\ Filed(u) /\ x.key \notin DOMAIN m
         /\ Contents(u) = [l \in DOMAIN m \cup {x.key} |-> IF l = x.key THEN x.value ELSE m[l]]
<1>1. /\ Sized(t) /\ TableFields(t) /\ IsNode(x) /\ x.hash \in Nat
      /\ \E e \in Slots(t) : t.A[e] = NULL
  BY SoundSized DEF SoundTable, AreNodes
<1>2. \A r \in Live(t) : ~Holds(t, r, x.hash, x.key)
  BY <1>1, EndIsHolder DEF Filed
<1>3. /\ s \in Slots(t) /\ ~IsNode(t.A[s])
      /\ \E i \in Slots(t) : /\ Probe(t, x.hash, i) = s
                             /\ \A j \in 0 .. i - 1 : IsNode(t.A[Probe(t, x.hash, j)])
  BY <1>1, TargetIsFree DEF IsNode
<1>4. PICK i \in Slots(t) : /\ Probe(t, x.hash, i) = s
                            /\ \A j \in 0 .. i - 1 : IsNode(t.A[Probe(t, x.hash, j)])
  BY <1>3
<1>5. PICK size, used : u = WithSlot(t, s, x, size, used)
  <2>1. u = WithSlot(t, s, x, t.size + 1, IF t.A[s] = NULL THEN t.used + 1 ELSE t.used)
    BY <1>1 DEF Inserted, TableFields, WithSlot
  <2> QED
    BY <2>1
<1>6. /\ Sized(u) /\ u.shift = t.shift /\ u.capacity = t.capacity /\ Slots(u) = Slots(t)
      /\ u.hash_func = t.hash_func /\ u.comp = t.comp
      /\ \A r \in Slots(t) : u.A[r] = IF r = s THEN x ELSE t.A[r]
      /\ Live(u) = Live(t) \cup {s}
  BY <1>1, <1>3, <1>5, SlotChanged
<1>7. \A r \in Live(t) : t.A[r].hash \in Nat
  BY DEF SoundTable, AreNodes
<1>8. InPlace(u)
  <2>1. \A j \in 0 .. i - 1 : Probe(t, x.hash, j) # s /\ t.A[Probe(t, x.hash, j)] # NULL
    BY <1>3, <1>4 DEF IsNode
  <2> QED
    <3>1. InPlace(t)
      BY DEF Filed
    <3> QED
      BY ONLY <1>1, <1>2, <1>3, <1>4, <1>6, <1>7, <2>1, <3>1, FilledInPlace
<1>9. \A r \in Live(t) : r \in Slots(t) /\ r # s /\ u.A[r] = t.A[r]
  BY <1>3, <1>6 DEF Live
<1>10. Filed(u)
  <2>1. ASSUME NEW r \in Live(u) PROVE u.A[r].hash = t.hash_func[u.A[r].key]
    <3>1. CASE r = s
      BY <1>3, <1>6, <3>1
    <3>2. CASE r \in Live(t)
      BY <1>9, <3>2 DEF Filed
    <3> QED
      BY <1>6, <3>1, <3>2
  <2> QED
    BY ONLY <1>6, <1>8, <2>1 DEF Filed
<1>11. /\ m = [k \in DOMAIN m |-> m[k]]
       /\ DOMAIN m = {t.A[r].key : r \in Live(t)}
       /\ \A r \in Live(t) : m[t.A[r].key] = t.A[r].value
  BY <1>1, ContentsAre
<1>12. \A r \in Live(t) : t.A[r].key # x.key
  BY <1>2 DEF Filed, Holds, Live
<1> DEFINE n == [l \in DOMAIN m \cup {x.key} |-> IF l = x.key THEN x.value ELSE m[l]]
<1>13. DOMAIN n = {u.A[r].key : r \in Live(u)}
  <2>1. u.A[s] = x /\ s \in Live(u)
    BY <1>3, <1>6
  <2>2. \A r \in Live(t) : r \in Live(u) /\ u.A[r].key = t.A[r].key
    BY <1>6, <1>9
  <2>3. \A r \in Live(u) : r = s \/ r \in Live(t)
    BY <1>6
  <2>4. DOMAIN n = {t.A[r].key : r \in Live(t)} \cup {x.key}
    BY <1>11
  <2> HIDE DEF n
  <2> QED
    BY <2>1, <2>2, <2>3, <2>4
<1>14. ASSUME NEW r \in Live(u) PROVE n[u.A[r].key] = u.A[r].value
  <2>1. CASE r = s
    BY <1>3, <1>6, <2>1
  <2>2. CASE r # s
    <3>1. r \in Live(t)
      BY <1>6, <2>2
    <3>2. t.A[r].key \in DOMAIN m /\ t.A[r].key # x.key /\ u.A[r] = t.A[r]
      BY <1>9, <1>11, <1>12, <3>1
    <3> QED
      BY <1>11, <3>1, <3>2
  <2> QED
    BY <2>1, <2>2
<1>15. n = [l \in DOMAIN n |-> n[l]]
  OBVIOUS
<1> HIDE DEF n
<1>16. Contents(u) = n
  <2>1. PICK c : c = n
    OBVIOUS
  <2>2. c = [l \in DOMAIN c |-> c[l]]
    BY <1>15, <2>1
  <2>3. DOMAIN c = {u.A[r].key : r \in Live(u)} /\ \A r \in Live(u) : c[u.A[r].key] = u.A[r].value
    BY <1>13, <1>14, <2>1
  <2>4. Sized(u) /\ Filed(u)
    BY <1>6, <1>10
  <2>5. Contents(u) = c
    BY ONLY <2>2, <2>3, <2>4, ContentsEqual
  <2> QED
    BY <2>1, <2>5
<1> QED
  BY <1>6, <1>10, <1>11, <1>12, <1>16 DEF n

LEMMA RemovedFiled ==
  ASSUME NEW t, NEW N, SoundTable(t, N), AreNodes(N), Filed(t), NEW s \in Live(t),
         NEW m, m = Contents(t), NEW u, u = Removed(t, s)
  PROVE  /\ Sized(u) /\ Filed(u)
         /\ Contents(u) = [l \in DOMAIN m \ {t.A[s].key} |-> m[l]]
<1>1. Sized(t) /\ TableFields(t) /\ \A r \in Live(t) : t.A[r].hash \in Nat /\ s \in Slots(t)
  BY SoundSized DEF SoundTable, AreNodes, Live
<1>2. u = WithSlot(t, s, DELETED, t.size - 1, t.used)
  BY <1>1 DEF Removed, TableFields, WithSlot
<1>3. /\ Sized(u) /\ u.shift = t.shift /\ u.capacity = t.capacity /\ Slots(u) = Slots(t)
      /\ u.hash_func = t.hash_func /\ u.comp = t.comp
      /\ \A r \in Slots(t) : u.A[r] = IF r = s THEN DELETED ELSE t.A[r]
      /\ Live(u) = Live(t) \ {s}
  BY <1>1, <1>2, SlotChanged
<1>4. InPlace(u)
  <2>1. \A r \in Slots(t) : u.A[r] = t.A[r] \/ (u.A[r] = DELETED /\ t.A[r] # NULL)
    BY <1>3 DEF Live, IsNode
  <2> QED
    BY <1>1, <1>3, <2>1, StillInPlace DEF Filed
<1>5. \A r \in Live(u) : r \in Live(t) /\ r # s /\ u.A[r] = t.A[r]
  BY <1>3 DEF Live
<1>6. Filed(u)
  BY <1>3, <1>4, <1>5 DEF Filed
<1>7. /\ m = [k \in DOMAIN m |-> m[k]]
      /\ DOMAIN m = {t.A[r].key : r \in Live(t)}
      /\ \A r \in Live(t) : m[t.A[r].key] = t.A[r].value
  BY <1>1, ContentsAre
<1>8. \A r \in Live(t) : r # s => t.A[r].key # t.A[s].key
  BY <1>1, KeysDiffer
<1> DEFINE n == [l \in DOMAIN m \ {t.A[s].key} |-> m[l]]
<1>9. DOMAIN n = {u.A[r].key : r \in Live(u)}
  <2>1. {u.A[r].key : r \in Live(u)} = {t.A[r].key : r \in Live(t) \ {s}}
    BY <1>3, <1>5
  <2>2. {t.A[r].key : r \in Live(t) \ {s}} = {t.A[r].key : r \in Live(t)} \ {t.A[s].key}
    BY <1>8
  <2> QED
    BY <1>7, <2>1, <2>2
<1>10. \A r \in Live(u) : n[u.A[r].key] = u.A[r].value
  BY <1>5, <1>7, <1>8
<1>11. n = [l \in DOMAIN n |-> n[l]]
  OBVIOUS
<1> HIDE DEF n
<1>12. Contents(u) = n
  BY <1>3, <1>6, <1>9, <1>10, <1>11, ContentsEqual
<1> QED
  BY <1>3, <1>6, <1>12 DEF n

(* Entries get other values. *)
LEMMA ChangedFiled ==
  ASSUME NEW t, NEW N, SoundTable(t, N), AreNodes(N), Filed(t),
         NEW u, SoundTable(u, N), u.capacity = t.capacity, u.shift = t.shift,
         u.hash_func = t.hash_func, u.comp = t.comp,
         \A s \in Slots(t) : IF IsNode(t.A[s])
                             THEN /\ u.A[s] \in N
                                  /\ u.A[s].hash = t.A[s].hash /\ u.A[s].key = t.A[s].key
                             ELSE u.A[s] = t.A[s],
         NEW m, DOMAIN m = DOMAIN Contents(t), m = [k \in DOMAIN m |-> m[k]],
         \A s \in Live(t) : m[t.A[s].key] = u.A[s].value
  PROVE  Filed(u) /\ Contents(u) = m
<1>1. Sized(t) /\ \A r \in Live(t) : t.A[r].hash \in Nat
  BY SoundSized DEF SoundTable, AreNodes
<1>2. Sized(u) /\ Slots(u) = Slots(t)
  BY SoundSized DEF Slots
<1>3. \A s \in Slots(t) : IsNode(t.A[s]) <=> IsNode(u.A[s])
  BY DEF AreNodes
<1>4. InPlace(u)
  BY <1>1, <1>3, StillInPlace DEF Filed
<1>5. Live(u) = Live(t) /\ \A s \in Live(t) : s \in Slots(t) /\ IsNode(t.A[s])
  BY <1>2, <1>3 DEF Live
<1>6. \A s \in Live(t) : u.A[s].hash = t.A[s].hash /\ u.A[s].key = t.A[s].key
  BY <1>5
<1>7. Filed(u)
  BY <1>4, <1>5, <1>6 DEF Filed
<1>8. DOMAIN m = {t.A[s].key : s \in Live(t)}
  BY <1>1, ContentsAre
<1>9. DOMAIN m = {u.A[s].key : s \in Live(u)} /\ \A s \in Live(u) : m[u.A[s].key] = u.A[s].value
  BY <1>5, <1>6, <1>8
<1> QED
  BY <1>2, <1>7, <1>9, ContentsEqual

(* The functions of a table change: a hash function only without entries, and the
   compare function only if it goes on to tell the entries apart. *)
LEMMA ConfiguredFiled ==
  ASSUME NEW t, NEW N, SoundTable(t, N), AreNodes(N), Filed(t), NEW u,
         u.A = t.A, u.capacity = t.capacity, u.shift = t.shift,
         u.hash_func = t.hash_func \/ Live(t) = {},
         \/ u.comp = t.comp
         \/ u.comp = TRUE
         \/ \A s, r \in Live(t) : s # r => t.A[s].hash # t.A[r].hash,
         t.comp \in BOOLEAN
  PROVE  Filed(u) /\ Contents(u) = Contents(t)
<1>1. Sized(t) /\ \A r \in Live(t) : t.A[r].hash \in Nat
  BY SoundSized DEF SoundTable, AreNodes
<1>2. Slots(u) = Slots(t) /\ Live(u) = Live(t)
  BY DEF Slots, Live
<1>3. Contents(u) = Contents(t)
  BY <1>2 DEF Contents
<1>4. \/ u.comp = t.comp
      \/ \A s, r \in Live(t) : s # r => t.A[s].hash # t.A[r].hash
  <2>1. CASE u.comp = TRUE /\ ~t.comp
    <3>1. \A s, r \in Live(t) : t.A[s].hash = t.A[r].hash => Holds(t, r, t.A[s].hash, t.A[s].key)
      BY <2>1 DEF Holds, Live
    <3> QED
      BY <1>1, <3>1, PlacesDiffer DEF Filed
  <2>2. CASE u.comp = TRUE /\ t.comp
    BY <2>2
  <2> QED
    BY <2>1, <2>2
<1>5. InPlace(u)
  BY <1>1, <1>4, StillInPlace DEF Filed
<1>6. \A s \in Live(t) : u.A[s].hash = u.hash_func[u.A[s].key]
  BY DEF Filed
<1> QED
  BY <1>2, <1>3, <1>5, <1>6 DEF Filed

(* The nodes go to a fresh table. *)
LEMMA RefilledFiled ==
  ASSUME NEW t, Fresh(t), NEW o, NEW N, AreNodes(N), SoundTable(o, N), o.size < t.capacity,
         Filed(o), t.comp = o.comp, t.hash_func = o.hash_func,
         NEW u, u = Refilled(t, o.A, o.size)
  PROVE  Filed(u) /\ Contents(u) = Contents(o)
<1>1. /\ Sized(o) /\ o.size = Cardinality(Live(o)) /\ o.size \in Nat
      /\ \A s \in Live(o) : o.A[s].hash \in Nat
  BY SoundSized DEF SoundTable, WellFormed, AreNodes
<1>2. /\ TableFields(t) /\ Sized(t) /\ t.capacity \in Nat /\ \A s \in Slots(t) : t.A[s] = NULL
      /\ Cardinality(Live(o)) <= t.capacity
  BY <1>1, SizedSlots DEF Fresh
<1>3. PICK v : v = PlaceAll(t, o.A)
  OBVIOUS
<1>4. /\ InPlace(v)
      /\ \A m \in Live(o) : \E s \in Live(v) : v.A[s] = o.A[m]
      /\ \A s \in Live(v) : \E m \in Live(o) : v.A[s] = o.A[m]
  BY <1>1, <1>2, <1>3, PlaceAllInPlace DEF Filed
<1>5. v = [t EXCEPT !.A = v.A]
  BY <1>3, RefilledSound
<1>6. /\ u.A = v.A /\ u.capacity = t.capacity /\ u.shift = t.shift
      /\ u.hash_func = t.hash_func /\ u.comp = t.comp
  BY <1>3, RefilledFields
<1>7. v.capacity = t.capacity /\ v.shift = t.shift /\ v.comp = t.comp
  BY <1>2, <1>5 DEF TableFields
<1>8. Slots(u) = Slots(v) /\ Live(u) = Live(v)
  BY <1>6, <1>7 DEF Slots, Live
<1>9. Sized(u)
  BY RefilledSound, SoundSized
<1>10. Sized(v)
  BY <1>6, <1>7, <1>8, <1>9 DEF Sized
<1>11. \A s \in Live(v) : v.A[s].hash \in Nat
  BY <1>1, <1>4
<1>12. InPlace(u)
  BY <1>4, <1>6, <1>7, <1>10, <1>11, StillInPlace
<1>13. \A s \in Live(u) : u.A[s].hash = u.hash_func[u.A[s].key]
  BY <1>4, <1>6, <1>8 DEF Filed
<1>14. Filed(u)
  BY <1>12, <1>13 DEF Filed
<1>15. Contents(u) = Contents(o)
  BY <1>1, <1>4, <1>6, <1>8, <1>9, <1>14, SameContents
<1> QED
  BY <1>14, <1>15

LEMMA RebuiltFiled ==
  ASSUME NEW t, NEW N, AreNodes(N), SoundTable(t, N), Filed(t), NEW u, u = Rebuilt(t)
  PROVE  Filed(u) /\ Contents(u) = Contents(t)
BY RebuiltRefills, RefilledFiled

=============================================================================
