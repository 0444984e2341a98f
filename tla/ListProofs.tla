----------------------------- MODULE ListProofs -----------------------------
(* The TLAPS proofs about the linked list: that its pointers stay linked whatever is done
   at the iterator, and that it is a sequence with a place in it.  The lemmas about stable
   sorting and about recursion are those of ContainerProofs. *)
EXTENDS ContainerProofs, LinkedList

-----------------------------------------------------------------------------
(* Chains of nodes *)

\* Entry i of c, NULL before the first and after the last
Nth(c, i) == IF i \in DOMAIN c THEN c[i] ELSE NULL

Distinct(c) == c \in Seq(ListNodes) /\ \A i, j \in DOMAIN c : c[i] = c[j] => i = j

(* The pointers to lead from first through the nodes c. *)
ChainOf(to, first, c) ==
  /\ Distinct(c) /\ first = Nth(c, 1)
  /\ \A i \in DOMAIN c : to[c[i]] = Nth(c, i + 1)

LEMMA NthType == ASSUME NEW c, Distinct(c), NEW i PROVE Nth(c, i) \in Pointers
BY DEF Nth, Distinct, Pointers

LEMMA NthIn == ASSUME NEW c, NEW i \in DOMAIN c PROVE Nth(c, i) = c[i]
BY DEF Nth

Walks(f, n, to) == /\ f \in [Nat -> Pointers] /\ f[0] = n
                   /\ \A i \in Nat : f[i + 1] = to[f[i]]

LEMMA StepsWalk ==
  ASSUME NEW n \in Pointers, NEW to \in [Pointers -> Pointers]
  PROVE  Walks(Steps(n, to), n, to)
<1> DEFINE Body(g, i) == IF i = 0 THEN n ELSE to[g[i - 1]]
           m == [i \in Nat |-> i]
           B == [g \in [Nat -> Pointers] |-> [i \in Nat |-> Body(g, i)]]
<1>1. \A i \in Nat : i # 0 => i - 1 \in Nat /\ i - 1 < i
  OBVIOUS
<1>2. m \in [Nat -> Nat] /\ \A i \in Nat : m[i] = i
  OBVIOUS
<1>3. Pointers # {}
  BY DEF Pointers
<1> HIDE DEF m
<1>4. ASSUME NEW g \in [Nat -> Pointers], NEW i \in Nat PROVE Body(g, i) \in Pointers
  BY <1>1
<1>5. ASSUME NEW g \in [Nat -> Pointers], NEW f \in [Nat -> Pointers], NEW i \in Nat,
             \A j \in Nat : m[j] < m[i] => g[j] = f[j]
      PROVE  Body(g, i) = Body(f, i)
  <2>1. i # 0 => g[i - 1] = f[i - 1]
    BY <1>1, <1>2, <1>5
  <2> QED
    BY <2>1
<1> HIDE DEF Body
<1>6. \A g \in [Nat -> Pointers], i \in Nat : B[g][i] = Body(g, i)
  OBVIOUS
<1> HIDE DEF B
<1>7. Founded(Nat, Pointers, m, B)
  BY <1>2, <1>3, <1>4, <1>5, <1>6 DEF Founded
<1>8. \E f \in [Nat -> Pointers] : f = [i \in Nat |-> Body(f, i)]
  <2>1. PICK f \in [Nat -> Pointers] : \A i \in Nat : f[i] = B[f][i]
    BY <1>7, Recursion
  <2>2. f = [i \in Nat |-> Body(f, i)]
    BY <1>6, <2>1
  <2> QED
    BY <2>2
<1> DEFINE F == CHOOSE f : f = [i \in Nat |-> Body(f, i)]
<1>9. F = [i \in Nat |-> Body(F, i)]
  BY <1>8
<1>10. Steps(n, to) = F
  BY DEF Steps, Body
<1> HIDE DEF F
<1>12. F[0] = n /\ \A i \in Nat : F[i + 1] = to[F[i]]
  <2>1. F[0] = Body(F, 0)
    BY <1>9
  <2>2. ASSUME NEW i \in Nat PROVE F[i + 1] = to[F[i]]
    <3>1. i + 1 \in Nat /\ i + 1 # 0 /\ (i + 1) - 1 = i
      OBVIOUS
    <3>2. F[i + 1] = Body(F, i + 1)
      BY <1>9, <3>1
    <3> QED
      BY <3>1, <3>2 DEF Body
  <2> QED
    BY <2>1, <2>2 DEF Body
<1>11. F \in [Nat -> Pointers]
  <2> DEFINE Q == {i \in Nat : F[i] \in Pointers}
  <2>1. 0 \in Q
    BY <1>12
  <2>2. ASSUME NEW i \in Q PROVE i + 1 \in Q
    BY <1>12
  <2>3. Q = Nat
    <3> HIDE DEF Q
    <3> QED
      BY <2>1, <2>2, NatInduced DEF Q
  <2> QED
    BY <1>9, <2>3
<1> QED
  BY <1>10, <1>11, <1>12 DEF Walks

(* A walk from the first node of a chain meets its nodes in turn, and then none. *)
LEMMA ChainWalk ==
  ASSUME NEW n \in Pointers, NEW to \in [Pointers -> Pointers], to[NULL] = NULL,
         NEW c, ChainOf(to, n, c), NEW f, Walks(f, n, to)
  PROVE  \A i \in Nat : f[i] = Nth(c, i + 1)
<1> DEFINE Q == {i \in Nat : f[i] = Nth(c, i + 1)}
<1>1. 0 \in Q
  BY DEF ChainOf, Walks
<1>3. Len(c) \in Nat /\ DOMAIN c = 1 .. Len(c)
  BY DEF ChainOf, Distinct
<1>2. ASSUME NEW i \in Q PROVE i + 1 \in Q
  <2>1. f[i + 1] = to[Nth(c, i + 1)]
    BY DEF Walks
  <2>2. CASE i + 1 \in DOMAIN c
    <3>1. to[c[i + 1]] = Nth(c, (i + 1) + 1)
      BY <2>2 DEF ChainOf
    <3> QED
      BY <2>1, <2>2, <3>1 DEF Nth
  <2>3. CASE i + 1 \notin DOMAIN c
    <3>1. (i + 1) + 1 \notin DOMAIN c
      BY <1>3, <2>3
    <3> QED
      BY <2>1, <2>3, <3>1 DEF Nth
  <2> QED
    BY <2>2, <2>3
<1> HIDE DEF Q
<1> QED
  BY <1>1, <1>2, NatInduced DEF Q

LEMMA DistinctCount ==
  ASSUME NEW c, Distinct(c)
  PROVE  /\ Cardinality(Nodes(c)) = Len(c) /\ Len(c) <= Cardinality(ListNodes)
         /\ Cardinality(ListNodes) \in Nat
<1>1. Len(c) \in Nat /\ DOMAIN c = 1 .. Len(c) /\ c \in [DOMAIN c -> ListNodes]
  BY DEF Distinct
<1>2. c \in Bijection(1 .. Len(c), Nodes(c))
  BY <1>1 DEF Bijection, Injection, Surjection, IsInjective, Nodes, Distinct
<1>3. IsFiniteSet(1 .. Len(c)) /\ Cardinality(1 .. Len(c)) = Len(c)
  <2>1. PICK k : k = Len(c)
    OBVIOUS
  <2>2. 1 \in Int /\ k \in Int /\ (~(1 > k) => k - 1 + 1 = k) /\ (1 > k => k = 0)
    BY <1>1, <2>1
  <2>3. IsFiniteSet(1 .. k) /\ Cardinality(1 .. k) = IF 1 > k THEN 0 ELSE k - 1 + 1
    BY <2>2, FS_Interval
  <2> QED
    BY <2>1, <2>2, <2>3
<1>4. Cardinality(Nodes(c)) = Len(c)
  BY <1>2, <1>3, FS_Bijection DEF ExistsBijection
<1>5. Nodes(c) \in SUBSET ListNodes
  BY <1>1 DEF Nodes
<1>6. Cardinality(Nodes(c)) <= Cardinality(ListNodes) /\ Cardinality(ListNodes) \in Nat
  BY <1>5, FS_Subset, FS_CardinalityType, ListAssumption
<1> QED
  BY <1>4, <1>6

LEMMA ChainIs ==
  ASSUME NEW n \in Pointers, NEW to \in [Pointers -> Pointers], to[NULL] = NULL,
         NEW c, ChainOf(to, n, c)
  PROVE  Chain(n, to) = c
<1> DEFINE at == Steps(n, to)
           K == Cardinality(ListNodes)
           P == {i \in 0 .. K : at[i] # NULL}
<1>1. \A i \in Nat : at[i] = Nth(c, i + 1)
  BY StepsWalk, ChainWalk
<1>2. /\ Len(c) \in Nat /\ DOMAIN c = 1 .. Len(c) /\ c \in [DOMAIN c -> ListNodes]
      /\ K \in Nat /\ Len(c) <= K
  BY DistinctCount DEF ChainOf, Distinct
<1> HIDE DEF at, K
<1>3. P = 0 .. Len(c) - 1
  <2>1. ASSUME NEW i \in 0 .. K PROVE at[i] # NULL <=> i \in 0 .. Len(c) - 1
    <3>1. i \in Nat /\ (i + 1 \in DOMAIN c <=> i \in 0 .. Len(c) - 1)
      BY <1>2
    <3>2. i + 1 \in DOMAIN c => c[i + 1] # NULL
      BY <1>2, ListAssumption
    <3> QED
      BY <1>1, <3>1, <3>2 DEF Nth
  <2>2. 0 .. Len(c) - 1 \subseteq 0 .. K
    BY <1>2
  <2> QED
    BY <2>1, <2>2
<1>4. Cardinality(P) = Len(c)
  <2>1. PICK k : k = Len(c) - 1
    OBVIOUS
  <2>2. k \in Int /\ 0 \in Int /\ (~(0 > k) => k - 0 + 1 = Len(c)) /\ (0 > k => Len(c) = 0)
    BY <1>2, <2>1
  <2>3. Cardinality(0 .. k) = IF 0 > k THEN 0 ELSE k - 0 + 1
    BY <2>2, FS_Interval
  <2> QED
    BY <1>3, <2>1, <2>2, <2>3
<1>5. Chain(n, to) = [i \in 1 .. Len(c) |-> at[i - 1]]
  BY <1>4 DEF Chain, at, K
<1>6. ASSUME NEW i \in 1 .. Len(c) PROVE at[i - 1] = c[i]
  <2>1. i - 1 \in Nat /\ (i - 1) + 1 = i /\ i \in DOMAIN c
    BY <1>2
  <2> QED
    BY <1>1, <2>1 DEF Nth
<1>7. c = [i \in 1 .. Len(c) |-> c[i]]
  BY <1>2
<1> QED
  BY <1>5, <1>6, <1>7

-----------------------------------------------------------------------------
(* Nodes that come and go *)

Put(s, p, x) == SubSeq(s, 1, p - 1) \o <<x>> \o SubSeq(s, p, Len(s))
Without(s, p) == SubSeq(s, 1, p - 1) \o SubSeq(s, p + 1, Len(s))

\* t is s with x as entry p, and s without entry p.
PutIn(S, s, p, x, t) ==
  /\ s \in Seq(S) /\ Len(s) \in Nat /\ p \in 1 .. Len(s) + 1 /\ x \in S
  /\ t \in Seq(S) /\ DOMAIN t = 1 .. Len(s) + 1 /\ DOMAIN s = 1 .. Len(s)
  /\ Len(t) = Len(s) + 1
  /\ \A i \in 1 .. p - 1 : t[i] = s[i]
  /\ t[p] = x
  /\ \A i \in p + 1 .. Len(s) + 1 : t[i] = s[i - 1]

TakenFrom(S, s, p, t) ==
  /\ s \in Seq(S) /\ Len(s) \in Nat /\ p \in 1 .. Len(s)
  /\ t \in Seq(S) /\ DOMAIN t = 1 .. Len(s) - 1 /\ DOMAIN s = 1 .. Len(s)
  /\ Len(t) = Len(s) - 1
  /\ \A i \in 1 .. p - 1 : t[i] = s[i]
  /\ \A i \in p .. Len(s) - 1 : t[i] = s[i + 1]

LEMMA PutIsIn ==
  ASSUME NEW S, NEW s \in Seq(S), NEW x \in S, NEW p \in 1 .. Len(s) + 1
  PROVE  PutIn(S, s, p, x, Put(s, p, x))
<1>1. p \in Nat /\ Len(s) \in Nat /\ 1 <= p /\ p <= Len(s) + 1
  OBVIOUS
<1>2. PICK a : a = SubSeq(s, 1, p - 1)
  OBVIOUS
<1>3. PICK b : b = SubSeq(s, p, Len(s))
  OBVIOUS
<1>4. a \in Seq(S) /\ Len(a) = p - 1 /\ \A i \in 1 .. p - 1 : a[i] = s[i]
  BY <1>1, <1>2
<1>5. b \in Seq(S) /\ Len(b) = Len(s) - p + 1 /\ \A i \in 1 .. Len(s) - p + 1 : b[i] = s[p + i - 1]
  BY <1>1, <1>3
<1>6. PICK q : q = a \o <<x>>
  OBVIOUS
<1>7. q \in Seq(S) /\ Len(q) = p /\ q[p] = x /\ \A i \in 1 .. p - 1 : q[i] = s[i]
  <2>1. q \in Seq(S)
    BY <1>4, <1>6
  <2>2. Len(q) = p
    BY <1>1, <1>4, <1>6
  <2>3. q[p] = x
    BY <1>1, <1>4, <1>6
  <2>4. \A i \in 1 .. p - 1 : q[i] = s[i]
    BY <1>1, <1>4, <1>6
  <2> QED
    BY <2>1, <2>2, <2>3, <2>4
<1>8. PICK r : r = q \o b
  OBVIOUS
<1>15. q \in Seq(S) /\ b \in Seq(S)
  BY <1>5, <1>7
<1>9. r \in Seq(S) /\ Len(r) = Len(s) + 1 /\ DOMAIN r = 1 .. Len(s) + 1
  <2>1. r \in Seq(S)
    BY <1>5, <1>7, <1>8
  <2>2. Len(r) = Len(q) + Len(b)
    BY <1>8, <1>15
  <2>3. Len(r) = Len(s) + 1
    BY <1>1, <1>5, <1>7, <2>2
  <2> QED
    BY <2>1, <2>3
<1>10. \A i \in 1 .. p : r[i] = q[i]
  BY <1>1, <1>5, <1>7, <1>8
<1>11. ASSUME NEW i \in p + 1 .. Len(s) + 1 PROVE r[i] = s[i - 1]
  <2>1. r[i] = b[i - p]
    BY <1>1, <1>5, <1>7, <1>8
  <2>2. i - p \in 1 .. Len(s) - p + 1 /\ p + (i - p) - 1 = i - 1
    BY <1>1
  <2>3. b[i - p] = s[p + (i - p) - 1]
    BY <1>5, <2>2
  <2> QED
    BY <2>1, <2>2, <2>3
<1>12. r[p] = x /\ \A i \in 1 .. p - 1 : r[i] = s[i]
  BY <1>1, <1>7, <1>10
<1>13. Put(s, p, x) = r
  BY <1>2, <1>3, <1>4, <1>5, <1>6, <1>8 DEF Put
<1>14. DOMAIN s = 1 .. Len(s)
  OBVIOUS
<1> QED
  BY <1>1, <1>9, <1>11, <1>12, <1>13, <1>14 DEF PutIn

LEMMA WithoutIsTaken ==
  ASSUME NEW S, NEW s \in Seq(S), NEW p \in 1 .. Len(s)
  PROVE  TakenFrom(S, s, p, Without(s, p))
<1>1. p \in Nat /\ Len(s) \in Nat /\ 1 <= p /\ p <= Len(s)
  OBVIOUS
<1>2. PICK a : a = SubSeq(s, 1, p - 1)
  OBVIOUS
<1>3. PICK b : b = SubSeq(s, p + 1, Len(s))
  OBVIOUS
<1>4. a \in Seq(S) /\ Len(a) = p - 1 /\ \A i \in 1 .. p - 1 : a[i] = s[i]
  BY <1>1, <1>2
<1>5. b \in Seq(S) /\ Len(b) = Len(s) - p /\ \A i \in 1 .. Len(s) - p : b[i] = s[p + i]
  BY <1>1, <1>3
<1>6. PICK r : r = a \o b
  OBVIOUS
<1>15. a \in Seq(S) /\ b \in Seq(S)
  BY <1>4, <1>5
<1>7. r \in Seq(S) /\ Len(r) = Len(s) - 1 /\ DOMAIN r = 1 .. Len(s) - 1
  <2>1. r \in Seq(S)
    BY <1>4, <1>5, <1>6
  <2>2. Len(r) = Len(a) + Len(b)
    BY <1>6, <1>15
  <2>3. Len(r) = Len(s) - 1
    BY <1>1, <1>4, <1>5, <2>2
  <2> QED
    BY <2>1, <2>3
<1>8. \A i \in 1 .. p - 1 : r[i] = s[i]
  BY <1>1, <1>4, <1>5, <1>6
<1>10. ASSUME NEW i \in p .. Len(s) - 1 PROVE r[i] = s[i + 1]
  <2>1. r[i] = b[i - (p - 1)]
    BY <1>1, <1>4, <1>5, <1>6
  <2>2. i - (p - 1) \in 1 .. Len(s) - p /\ p + (i - (p - 1)) = i + 1
    BY <1>1
  <2>3. b[i - (p - 1)] = s[p + (i - (p - 1))]
    BY <1>5, <2>2
  <2> QED
    BY <2>1, <2>2, <2>3
<1>11. Without(s, p) = r
  BY <1>2, <1>3, <1>6 DEF Without
<1>12. DOMAIN s = 1 .. Len(s)
  OBVIOUS
<1> QED
  BY <1>1, <1>7, <1>8, <1>10, <1>11, <1>12 DEF TakenFrom

LEMMA NthPut ==
  ASSUME NEW S, NEW s, NEW p, NEW x, NEW t, PutIn(S, s, p, x, t), NEW i \in Int
  PROVE  Nth(t, i) = IF i < p THEN Nth(s, i) ELSE IF i = p THEN x ELSE Nth(s, i - 1)
<1>1. p \in Nat /\ Len(s) \in Nat /\ 1 <= p /\ p <= Len(s) + 1
  BY DEF PutIn
<1>2. CASE i < p
  <2>1. i \in DOMAIN t <=> i \in DOMAIN s
    BY <1>1, <1>2 DEF PutIn
  <2>2. i \in DOMAIN s => i \in 1 .. p - 1
    BY <1>1, <1>2 DEF PutIn
  <2> QED
    BY <1>2, <2>1, <2>2 DEF PutIn, Nth
<1>3. CASE i = p
  BY <1>1, <1>3 DEF PutIn, Nth
<1>4. CASE i > p
  <2>1. i \in DOMAIN t <=> i - 1 \in DOMAIN s
    BY <1>1, <1>4 DEF PutIn
  <2>2. i \in DOMAIN t => i \in p + 1 .. Len(s) + 1
    BY <1>1, <1>4 DEF PutIn
  <2>3. ~(i < p) /\ i # p
    BY <1>1, <1>4
  <2> QED
    BY <2>1, <2>2, <2>3 DEF PutIn, Nth
<1> QED
  BY <1>1, <1>2, <1>3, <1>4

LEMMA NthWithout ==
  ASSUME NEW S, NEW s, NEW p, NEW t, TakenFrom(S, s, p, t), NEW i \in Int
  PROVE  Nth(t, i) = IF i < p THEN Nth(s, i) ELSE Nth(s, i + 1)
<1>1. p \in Nat /\ Len(s) \in Nat /\ 1 <= p /\ p <= Len(s)
  BY DEF TakenFrom
<1>2. CASE i < p
  <2>1. i \in DOMAIN t <=> i \in DOMAIN s
    BY <1>1, <1>2 DEF TakenFrom
  <2>2. i \in DOMAIN s => i \in 1 .. p - 1
    BY <1>1, <1>2 DEF TakenFrom
  <2> QED
    BY <1>2, <2>1, <2>2 DEF TakenFrom, Nth
<1>4. CASE i >= p
  <2>1. i \in DOMAIN t <=> i + 1 \in DOMAIN s
    BY <1>1, <1>4 DEF TakenFrom
  <2>2. i \in DOMAIN t => i \in p .. Len(s) - 1
    BY <1>1, <1>4 DEF TakenFrom
  <2>3. ~(i < p)
    BY <1>1, <1>4
  <2> QED
    BY <2>1, <2>2, <2>3 DEF TakenFrom, Nth
<1> QED
  BY <1>1, <1>2, <1>4

(* The list l with the nodes c, which hold the values v, and no other nodes in memory *)
Linked(l, nd, c, v, o) ==
  /\ Distinct(c) /\ v \in Seq(ListValues) /\ Len(v) = Len(c) /\ o \in {1, -1, NULL}
  /\ l = [head |-> Nth(c, 1), tail |-> Nth(c, Len(c)), size |-> Len(c), comp |-> o]
  /\ \A i \in DOMAIN c : nd[c[i]] = Node(v[i], Nth(c, i + 1), Nth(c, i - 1))
  /\ \A n \in ListNodes \ Nodes(c) : nd[n] = NULL
  /\ nd = [n \in ListNodes |-> nd[n]]

LEMMA NodeExcept ==
  ASSUME NEW d, NEW next, NEW prev, NEW x
  PROVE  /\ [Node(d, next, prev) EXCEPT !.prev = x] = Node(d, next, x)
         /\ [Node(d, next, prev) EXCEPT !.next = x] = Node(d, x, prev)
         /\ Node(d, next, prev).data = d
         /\ Node(d, next, prev).next = next
         /\ Node(d, next, prev).prev = prev
BY DEF Node

LEMMA NodeNotNull ==
  ASSUME NEW d \in ListValues, NEW next \in Pointers, NEW prev \in Pointers
  PROVE  Node(d, next, prev) # NULL
<1>1. Node(d, next, prev) \in Records
  BY DEF Node, Records
<1> QED
  BY <1>1, ListAssumption

LEMMA LinkedTypes ==
  ASSUME NEW l, NEW nd, NEW c, NEW v, NEW o, Linked(l, nd, c, v, o)
  PROVE  /\ l # NULL /\ v # NULL /\ c \in Seq(ListNodes) /\ v \in Seq(ListValues)
         /\ DOMAIN c = 1 .. Len(c) /\ DOMAIN v = 1 .. Len(c) /\ Len(c) \in Nat /\ Len(v) = Len(c)
         /\ l.head = Nth(c, 1) /\ l.tail = Nth(c, Len(c)) /\ l.size = Len(c) /\ l.comp = o
         /\ o \in {1, -1, NULL}
<1>1. /\ Distinct(c) /\ v \in Seq(ListValues) /\ Len(v) = Len(c) /\ o \in {1, -1, NULL}
      /\ l = [head |-> Nth(c, 1), tail |-> Nth(c, Len(c)), size |-> Len(c), comp |-> o]
  BY DEF Linked
<1>2. c \in Seq(ListNodes)
  BY <1>1 DEF Distinct
<1>3. Nth(c, 1) \in Pointers /\ Nth(c, Len(c)) \in Pointers
  BY <1>1, NthType
<1>4. l \in ListStructs
  BY <1>1, <1>2, <1>3 DEF ListStructs
<1> QED
  BY <1>1, <1>2, <1>4, ListAssumption

(* What the functions that add an entry do to the nodes, and those that remove one *)
NodeInserted(nd, t, c, p, n, d) ==
  /\ t = [m \in ListNodes |-> t[m]]
  /\ t[n] = Node(d, Nth(c, p), Nth(c, p - 1))
  /\ \A m \in ListNodes \ {n} :
       /\ m = Nth(c, p) => t[m] = [nd[m] EXCEPT !.prev = n]
       /\ m = Nth(c, p - 1) => t[m] = [nd[m] EXCEPT !.next = n]
       /\ m # Nth(c, p) /\ m # Nth(c, p - 1) => t[m] = nd[m]

NodeRemoved(nd, t, c, p) ==
  /\ t = [m \in ListNodes |-> t[m]]
  /\ t[c[p]] = NULL
  /\ \A m \in ListNodes \ {c[p]} :
       /\ m = Nth(c, p - 1) => t[m] = [nd[m] EXCEPT !.next = Nth(c, p + 1)]
       /\ m = Nth(c, p + 1) => t[m] = [nd[m] EXCEPT !.prev = Nth(c, p - 1)]
       /\ m # Nth(c, p - 1) /\ m # Nth(c, p + 1) => t[m] = nd[m]

ListWith(c, o) == [head |-> Nth(c, 1), tail |-> Nth(c, Len(c)), size |-> Len(c), comp |-> o]

LEMMA PutDistinct ==
  ASSUME NEW c, Distinct(c), NEW p, NEW n \in ListNodes \ Nodes(c), NEW e, PutIn(ListNodes, c, p, n, e)
  PROVE  Distinct(e) /\ Nodes(e) = Nodes(c) \cup {n}
<1>1. /\ p \in Nat /\ Len(c) \in Nat /\ 1 <= p /\ p <= Len(c) + 1
      /\ e \in Seq(ListNodes) /\ DOMAIN e = 1 .. Len(c) + 1 /\ DOMAIN c = 1 .. Len(c)
      /\ \A i \in 1 .. p - 1 : e[i] = c[i]
      /\ e[p] = n
      /\ \A i \in p + 1 .. Len(c) + 1 : e[i] = c[i - 1]
  BY DEF PutIn
<1>2. \A i \in 1 .. p - 1 : i \in DOMAIN c
  BY <1>1
<1>3. \A i \in p + 1 .. Len(c) + 1 : i - 1 \in DOMAIN c
  BY <1>1
<1>4. \A i \in DOMAIN e : i \in 1 .. p - 1 \/ i = p \/ i \in p + 1 .. Len(c) + 1
  BY <1>1
<1>5. \A i \in DOMAIN c : c[i] # n
  BY DEF Nodes
<1>6. ASSUME NEW i \in DOMAIN e, NEW j \in DOMAIN e, e[i] = e[j], i < j PROVE FALSE
  <2>1. CASE i \in 1 .. p - 1 /\ j \in 1 .. p - 1
    BY <1>1, <1>2, <1>6, <2>1 DEF Distinct
  <2>2. CASE i \in 1 .. p - 1 /\ j \in p + 1 .. Len(c) + 1
    <3>1. c[i] = c[j - 1] /\ i \in DOMAIN c /\ j - 1 \in DOMAIN c
      BY <1>1, <1>2, <1>3, <1>6, <2>2
    <3>2. i = j - 1
      BY <3>1 DEF Distinct
    <3> QED
      BY <1>1, <2>2, <3>2
  <2>3. CASE i \in p + 1 .. Len(c) + 1 /\ j \in p + 1 .. Len(c) + 1
    <3>1. c[i - 1] = c[j - 1] /\ i - 1 \in DOMAIN c /\ j - 1 \in DOMAIN c
      BY <1>1, <1>3, <1>6, <2>3
    <3>2. i - 1 = j - 1
      BY <3>1 DEF Distinct
    <3> QED
      BY <1>1, <1>6, <2>3, <3>2
  <2>4. CASE i = p
    <3>1. j \in p + 1 .. Len(c) + 1
      BY <1>1, <1>6, <2>4
    <3> QED
      BY <1>1, <1>3, <1>5, <1>6, <2>4, <3>1
  <2>5. CASE j = p
    <3>1. i \in 1 .. p - 1
      BY <1>1, <1>6, <2>5
    <3> QED
      BY <1>1, <1>2, <1>5, <1>6, <2>5, <3>1
  <2>6. ~(i \in p + 1 .. Len(c) + 1 /\ j \in 1 .. p - 1)
    BY <1>1, <1>6
  <2> QED
    BY <1>4, <2>1, <2>2, <2>3, <2>4, <2>5, <2>6
<1>7. Distinct(e)
  <2>1. \A i, j \in DOMAIN e : i < j \/ j < i \/ i = j
    BY <1>1
  <2> QED
    BY <1>1, <1>6, <2>1 DEF Distinct
<1>8. ASSUME NEW x \in Nodes(e) PROVE x \in Nodes(c) \cup {n}
  <2>1. PICK i \in DOMAIN e : x = e[i]
    BY DEF Nodes
  <2> QED
    BY <1>1, <1>2, <1>3, <1>4, <2>1 DEF Nodes
<1>9. ASSUME NEW i \in DOMAIN c PROVE c[i] \in Nodes(e)
  <2>1. CASE i < p
    BY <1>1, <2>1 DEF Nodes
  <2>2. CASE i >= p
    <3>1. i + 1 \in p + 1 .. Len(c) + 1 /\ (i + 1) - 1 = i /\ i + 1 \in DOMAIN e
      BY <1>1, <2>2
    <3> QED
      BY <1>1, <3>1 DEF Nodes
  <2> QED
    BY <1>1, <2>1, <2>2
<1>10. n \in Nodes(e)
  BY <1>1 DEF Nodes
<1> QED
  BY <1>7, <1>8, <1>9, <1>10 DEF Nodes

LEMMA WithoutDistinct ==
  ASSUME NEW c, Distinct(c), NEW p, NEW e, TakenFrom(ListNodes, c, p, e)
  PROVE  Distinct(e) /\ Nodes(e) = Nodes(c) \ {c[p]}
<1>1. /\ p \in Nat /\ Len(c) \in Nat /\ 1 <= p /\ p <= Len(c)
      /\ e \in Seq(ListNodes) /\ DOMAIN e = 1 .. Len(c) - 1 /\ DOMAIN c = 1 .. Len(c)
      /\ \A i \in 1 .. p - 1 : e[i] = c[i]
      /\ \A i \in p .. Len(c) - 1 : e[i] = c[i + 1]
  BY DEF TakenFrom
<1>2. \A i \in 1 .. p - 1 : i \in DOMAIN c /\ i # p /\ e[i] = c[i]
  BY <1>1
<1>3. \A i \in p .. Len(c) - 1 : i + 1 \in DOMAIN c /\ i + 1 # p /\ e[i] = c[i + 1]
  BY <1>1
<1>4. \A i \in DOMAIN e : i \in 1 .. p - 1 \/ i \in p .. Len(c) - 1
  BY <1>1
<1>5. ASSUME NEW i \in DOMAIN e, NEW j \in DOMAIN e, e[i] = e[j] PROVE i = j
  <2>1. CASE i \in 1 .. p - 1 /\ j \in 1 .. p - 1
    BY <1>2, <1>5, <2>1 DEF Distinct
  <2>2. CASE i \in 1 .. p - 1 /\ j \in p .. Len(c) - 1
    <3>1. i = j + 1
      BY <1>2, <1>3, <1>5, <2>2 DEF Distinct
    <3> QED
      BY <1>1, <2>2, <3>1
  <2>3. CASE i \in p .. Len(c) - 1 /\ j \in 1 .. p - 1
    <3>1. j = i + 1
      BY <1>2, <1>3, <1>5, <2>3 DEF Distinct
    <3> QED
      BY <1>1, <2>3, <3>1
  <2>4. CASE i \in p .. Len(c) - 1 /\ j \in p .. Len(c) - 1
    <3>1. i + 1 = j + 1
      BY <1>3, <1>5, <2>4 DEF Distinct
    <3> QED
      BY <1>1, <2>4, <3>1
  <2> QED
    BY <1>4, <2>1, <2>2, <2>3, <2>4
<1>6. Distinct(e)
  BY <1>1, <1>5 DEF Distinct
<1>7. ASSUME NEW i \in DOMAIN e PROVE e[i] \in Nodes(c) /\ e[i] # c[p]
  <2>1. p \in DOMAIN c
    BY <1>1
  <2> QED
    BY <1>2, <1>3, <1>4, <2>1 DEF Nodes, Distinct
<1>8. ASSUME NEW i \in DOMAIN c, c[i] # c[p] PROVE c[i] \in Nodes(e)
  <2>1. CASE i < p
    BY <1>1, <2>1 DEF Nodes
  <2>2. CASE i > p
    <3>1. i - 1 \in p .. Len(c) - 1 /\ (i - 1) + 1 = i /\ i - 1 \in DOMAIN e
      BY <1>1, <2>2
    <3> QED
      BY <1>1, <3>1 DEF Nodes
  <2> QED
    BY <1>1, <1>8, <2>1, <2>2
<1> QED
  BY <1>6, <1>7, <1>8 DEF Nodes

LEMMA LinkedInserted ==
  ASSUME NEW l, NEW nd, NEW c, NEW v, NEW o, Linked(l, nd, c, v, o),
         NEW n \in ListNodes \ Nodes(c), NEW d \in ListValues, NEW p,
         NEW e, PutIn(ListNodes, c, p, n, e), NEW u, PutIn(ListValues, v, p, d, u),
         NEW t, NodeInserted(nd, t, c, p, n, d), NEW k, k = ListWith(e, o)
  PROVE  Linked(k, t, e, u, o)
<1>1. /\ Distinct(c) /\ Len(v) = Len(c) /\ o \in {1, -1, NULL}
      /\ \A i \in DOMAIN c : nd[c[i]] = Node(v[i], Nth(c, i + 1), Nth(c, i - 1))
      /\ \A m \in ListNodes \ Nodes(c) : nd[m] = NULL
  BY DEF Linked
<1>2. Distinct(e) /\ Nodes(e) = Nodes(c) \cup {n}
  BY <1>1, PutDistinct
<1>3. /\ p \in Nat /\ Len(c) \in Nat /\ 1 <= p /\ p <= Len(c) + 1
      /\ DOMAIN e = 1 .. Len(c) + 1 /\ DOMAIN c = 1 .. Len(c)
      /\ \A i \in 1 .. p - 1 : e[i] = c[i] /\ u[i] = v[i]
      /\ e[p] = n /\ u[p] = d /\ Len(u) = Len(e) /\ u \in Seq(ListValues)
      /\ \A i \in p + 1 .. Len(c) + 1 : e[i] = c[i - 1] /\ u[i] = v[i - 1]
  BY <1>1 DEF PutIn
<1>4. \A i \in Int : Nth(e, i) = IF i < p THEN Nth(c, i) ELSE IF i = p THEN n ELSE Nth(c, i - 1)
  BY NthPut
<1>5. \A i \in DOMAIN c : c[i] \in ListNodes /\ c[i] # n /\ c[i] # NULL
  BY <1>1, ListAssumption DEF Nodes, Distinct
<1>6. \A i \in DOMAIN c, j \in Int : c[i] = Nth(c, j) => i = j
  BY <1>1, <1>5 DEF Nth, Distinct
<1>7. \A i \in DOMAIN c : Nth(c, i) = c[i]
  BY DEF Nth
<1>8. /\ t[n] = Node(d, Nth(c, p), Nth(c, p - 1))
      /\ \A m \in ListNodes \ {n} :
           /\ m = Nth(c, p) => t[m] = [nd[m] EXCEPT !.prev = n]
           /\ m = Nth(c, p - 1) => t[m] = [nd[m] EXCEPT !.next = n]
           /\ m # Nth(c, p) /\ m # Nth(c, p - 1) => t[m] = nd[m]
  BY DEF NodeInserted
<1>9. ASSUME NEW i \in DOMAIN e PROVE t[e[i]] = Node(u[i], Nth(e, i + 1), Nth(e, i - 1))
  <2>0. i \in Int /\ 1 <= i /\ i <= Len(c) + 1
    BY <1>3
  <2>1. CASE i < p - 1
    <3>1. i \in DOMAIN c /\ e[i] = c[i] /\ u[i] = v[i]
      BY <1>3, <2>0, <2>1
    <3>2. i # p /\ i # p - 1 /\ i + 1 < p /\ i - 1 < p
      BY <1>3, <2>0, <2>1
    <3>3. c[i] # Nth(c, p) /\ c[i] # Nth(c, p - 1)
      BY <1>3, <1>6, <3>1, <3>2
    <3>4. t[c[i]] = nd[c[i]]
      BY <1>5, <1>8, <3>1, <3>3
    <3>5. Nth(e, i + 1) = Nth(c, i + 1) /\ Nth(e, i - 1) = Nth(c, i - 1)
      BY <1>4, <2>0, <3>2
    <3> QED
      BY <1>1, <3>1, <3>4, <3>5
  <2>2. CASE i = p - 1
    <3>1. i \in DOMAIN c /\ e[i] = c[i] /\ u[i] = v[i] /\ Nth(c, p - 1) = c[i]
      BY <1>3, <1>7, <2>0, <2>2
    <3>2. t[c[i]] = [nd[c[i]] EXCEPT !.next = n]
      BY <1>5, <1>8, <3>1
    <3>3. nd[c[i]] = Node(v[i], Nth(c, i + 1), Nth(c, i - 1))
      BY <1>1, <3>1
    <3>4. t[c[i]] = Node(v[i], n, Nth(c, i - 1))
      BY <3>2, <3>3, NodeExcept
    <3>5. i + 1 = p /\ i - 1 < p
      BY <1>3, <2>2
    <3>6. Nth(e, i + 1) = n /\ Nth(e, i - 1) = Nth(c, i - 1)
      BY <1>3, <1>4, <2>0, <3>5
    <3> QED
      BY <3>1, <3>4, <3>6
  <2>3. CASE i = p
    <3>1. /\ p + 1 \in Int /\ p - 1 \in Int /\ ~(p + 1 < p) /\ p + 1 # p /\ (p + 1) - 1 = p
          /\ p - 1 < p
      BY <1>3
    <3>2. Nth(e, p + 1) = Nth(c, p) /\ Nth(e, p - 1) = Nth(c, p - 1)
      BY <1>4, <3>1
    <3> QED
      BY <1>3, <1>8, <2>3, <3>2
  <2>4. CASE i = p + 1
    <3>1. i - 1 = p /\ p \in DOMAIN c /\ e[i] = c[p] /\ u[i] = v[p] /\ Nth(c, p) = c[p]
      BY <1>3, <1>7, <2>0, <2>4
    <3>2. t[c[p]] = [nd[c[p]] EXCEPT !.prev = n]
      BY <1>5, <1>8, <3>1
    <3>3. nd[c[p]] = Node(v[p], Nth(c, p + 1), Nth(c, p - 1))
      BY <1>1, <3>1
    <3>4. t[c[p]] = Node(v[p], Nth(c, p + 1), n)
      BY <3>2, <3>3, NodeExcept
    <3>5. /\ i + 1 \in Int /\ ~(i + 1 < p) /\ i + 1 # p /\ (i + 1) - 1 = p + 1
          /\ ~(p < p)
      BY <1>3, <2>4
    <3>6. Nth(e, i + 1) = Nth(c, p + 1) /\ Nth(e, i - 1) = n
      BY <1>3, <1>4, <3>1, <3>5
    <3> QED
      BY <3>1, <3>4, <3>6
  <2>5. CASE i > p + 1
    <3>0. PICK j : j = i - 1
      OBVIOUS
    <3>1. /\ j \in DOMAIN c /\ i \in p + 1 .. Len(c) + 1 /\ j \in Int /\ i = j + 1
      BY <1>3, <2>0, <2>5, <3>0
    <3>8. e[i] = c[j] /\ u[i] = v[j]
      BY <1>3, <3>0, <3>1
    <3>2. j # p /\ j # p - 1
      BY <1>3, <2>0, <2>5, <3>0
    <3>3. c[j] # Nth(c, p) /\ c[j] # Nth(c, p - 1)
      BY <1>3, <1>6, <3>1, <3>2
    <3>4. t[c[j]] = nd[c[j]]
      BY <1>5, <1>8, <3>1, <3>3
    <3>5. /\ i + 1 \in Int /\ ~(i + 1 < p) /\ i + 1 # p /\ (i + 1) - 1 = j + 1
          /\ i - 1 \in Int /\ ~(i - 1 < p) /\ i - 1 # p /\ (i - 1) - 1 = j - 1
      BY <1>3, <2>0, <2>5, <3>0
    <3>6. Nth(e, i + 1) = Nth(c, j + 1) /\ Nth(e, i - 1) = Nth(c, j - 1)
      BY <1>4, <3>5
    <3> QED
      BY <1>1, <3>1, <3>4, <3>6, <3>8
  <2> QED
    BY <1>3, <2>0, <2>1, <2>2, <2>3, <2>4, <2>5
<1>10. ASSUME NEW m \in ListNodes \ Nodes(e) PROVE t[m] = NULL
  <2>1. m # n /\ m \notin Nodes(c)
    BY <1>2
  <2>2. m # Nth(c, p) /\ m # Nth(c, p - 1)
    BY <2>1, ListAssumption DEF Nth, Nodes
  <2> QED
    BY <1>1, <1>8, <2>1, <2>2
<1>11. t = [m \in ListNodes |-> t[m]]
  BY DEF NodeInserted
<1> QED
  BY <1>1, <1>2, <1>3, <1>9, <1>10, <1>11 DEF Linked, ListWith

LEMMA LinkedRemoved ==
  ASSUME NEW l, NEW nd, NEW c, NEW v, NEW o, Linked(l, nd, c, v, o), NEW p,
         NEW e, TakenFrom(ListNodes, c, p, e), NEW u, TakenFrom(ListValues, v, p, u),
         NEW t, NodeRemoved(nd, t, c, p), NEW k, k = ListWith(e, o)
  PROVE  Linked(k, t, e, u, o)
<1>1. /\ Distinct(c) /\ Len(v) = Len(c) /\ o \in {1, -1, NULL}
      /\ \A i \in DOMAIN c : nd[c[i]] = Node(v[i], Nth(c, i + 1), Nth(c, i - 1))
      /\ \A m \in ListNodes \ Nodes(c) : nd[m] = NULL
  BY DEF Linked
<1>2. Distinct(e) /\ Nodes(e) = Nodes(c) \ {c[p]}
  BY <1>1, WithoutDistinct
<1>3. /\ p \in Nat /\ Len(c) \in Nat /\ 1 <= p /\ p <= Len(c)
      /\ DOMAIN e = 1 .. Len(c) - 1 /\ DOMAIN c = 1 .. Len(c)
      /\ \A i \in 1 .. p - 1 : e[i] = c[i] /\ u[i] = v[i]
      /\ Len(u) = Len(e) /\ u \in Seq(ListValues)
      /\ \A i \in p .. Len(c) - 1 : e[i] = c[i + 1] /\ u[i] = v[i + 1]
  BY <1>1 DEF TakenFrom
<1>4. \A i \in Int : Nth(e, i) = IF i < p THEN Nth(c, i) ELSE Nth(c, i + 1)
  BY NthWithout
<1>5. \A i \in DOMAIN c : c[i] \in ListNodes /\ c[i] # NULL
  BY <1>1, ListAssumption DEF Nodes, Distinct
<1>6. \A i \in DOMAIN c, j \in Int : c[i] = Nth(c, j) => i = j
  BY <1>1, <1>5 DEF Nth, Distinct
<1>7. \A i \in DOMAIN c : Nth(c, i) = c[i]
  BY DEF Nth
<1>8. /\ t[c[p]] = NULL
      /\ \A m \in ListNodes \ {c[p]} :
           /\ m = Nth(c, p - 1) => t[m] = [nd[m] EXCEPT !.next = Nth(c, p + 1)]
           /\ m = Nth(c, p + 1) => t[m] = [nd[m] EXCEPT !.prev = Nth(c, p - 1)]
           /\ m # Nth(c, p - 1) /\ m # Nth(c, p + 1) => t[m] = nd[m]
  BY DEF NodeRemoved
<1>12. \A i \in DOMAIN c : i # p => c[i] \in ListNodes \ {c[p]}
  <2>1. p \in DOMAIN c
    BY <1>3
  <2> QED
    BY <1>1, <1>5, <2>1 DEF Distinct
<1>9. ASSUME NEW i \in DOMAIN e PROVE t[e[i]] = Node(u[i], Nth(e, i + 1), Nth(e, i - 1))
  <2>0. i \in Int /\ 1 <= i /\ i <= Len(c) - 1
    BY <1>3
  <2>1. CASE i < p - 1
    <3>1. i \in DOMAIN c /\ e[i] = c[i] /\ u[i] = v[i]
      BY <1>3, <2>0, <2>1
    <3>2. i # p + 1 /\ i # p - 1 /\ i # p /\ i + 1 < p /\ i - 1 < p
      BY <1>3, <2>0, <2>1
    <3>3. c[i] # Nth(c, p + 1) /\ c[i] # Nth(c, p - 1)
      BY <1>3, <1>6, <3>1, <3>2
    <3>4. t[c[i]] = nd[c[i]]
      BY <1>8, <1>12, <3>1, <3>2, <3>3
    <3>5. Nth(e, i + 1) = Nth(c, i + 1) /\ Nth(e, i - 1) = Nth(c, i - 1)
      BY <1>4, <2>0, <3>2
    <3> QED
      BY <1>1, <3>1, <3>4, <3>5
  <2>2. CASE i = p - 1
    <3>1. i \in DOMAIN c /\ e[i] = c[i] /\ u[i] = v[i] /\ Nth(c, p - 1) = c[i] /\ i # p
      BY <1>3, <1>7, <2>0, <2>2
    <3>2. t[c[i]] = [nd[c[i]] EXCEPT !.next = Nth(c, p + 1)]
      BY <1>8, <1>12, <3>1
    <3>3. nd[c[i]] = Node(v[i], Nth(c, i + 1), Nth(c, i - 1))
      BY <1>1, <3>1
    <3>4. t[c[i]] = Node(v[i], Nth(c, p + 1), Nth(c, i - 1))
      BY <3>2, <3>3, NodeExcept
    <3>5. i + 1 = p /\ i - 1 < p /\ ~(p < p) /\ p \in Int /\ i - 1 \in Int
      BY <1>3, <2>2
    <3>6. Nth(e, i + 1) = Nth(c, p + 1) /\ Nth(e, i - 1) = Nth(c, i - 1)
      BY <1>4, <3>5
    <3> QED
      BY <3>1, <3>4, <3>6
  <2>4. CASE i = p
    <3>1. p + 1 \in DOMAIN c /\ e[i] = c[p + 1] /\ u[i] = v[p + 1] /\ Nth(c, p + 1) = c[p + 1] /\ p + 1 # p
      BY <1>3, <1>7, <2>0, <2>4
    <3>2. t[c[p + 1]] = [nd[c[p + 1]] EXCEPT !.prev = Nth(c, p - 1)]
      BY <1>8, <1>12, <3>1
    <3>3. nd[c[p + 1]] = Node(v[p + 1], Nth(c, (p + 1) + 1), Nth(c, (p + 1) - 1))
      BY <1>1, <3>1
    <3>4. t[c[p + 1]] = Node(v[p + 1], Nth(c, (p + 1) + 1), Nth(c, p - 1))
      BY <3>2, <3>3, NodeExcept
    <3>5. p + 1 \in Int /\ p - 1 \in Int /\ ~(p + 1 < p) /\ p - 1 < p
      BY <1>3
    <3>6. Nth(e, p + 1) = Nth(c, (p + 1) + 1) /\ Nth(e, p - 1) = Nth(c, p - 1)
      BY <1>4, <3>5
    <3> QED
      BY <2>4, <3>1, <3>4, <3>6
  <2>5. CASE i > p
    <3>0. PICK j : j = i + 1
      OBVIOUS
    <3>1. j \in DOMAIN c /\ i \in p .. Len(c) - 1 /\ j \in Int /\ i = j - 1
      BY <1>3, <2>0, <2>5, <3>0
    <3>8. e[i] = c[j] /\ u[i] = v[j]
      BY <1>3, <3>0, <3>1
    <3>2. j # p /\ j # p - 1 /\ j # p + 1
      BY <1>3, <2>0, <2>5, <3>0
    <3>3. c[j] # Nth(c, p + 1) /\ c[j] # Nth(c, p - 1)
      BY <1>3, <1>6, <3>1, <3>2
    <3>4. t[c[j]] = nd[c[j]]
      BY <1>8, <1>12, <3>1, <3>2, <3>3
    <3>5. /\ i + 1 \in Int /\ ~(i + 1 < p) /\ (i + 1) + 1 = j + 1
          /\ i - 1 \in Int /\ ~(i - 1 < p) /\ (i - 1) + 1 = j - 1
      BY <1>3, <2>0, <2>5, <3>0
    <3>6. Nth(e, i + 1) = Nth(c, j + 1) /\ Nth(e, i - 1) = Nth(c, j - 1)
      BY <1>4, <3>5
    <3> QED
      BY <1>1, <3>1, <3>4, <3>6, <3>8
  <2> QED
    BY <1>3, <2>0, <2>1, <2>2, <2>4, <2>5
<1>10. ASSUME NEW m \in ListNodes \ Nodes(e) PROVE t[m] = NULL
  <2>1. CASE m = c[p]
    BY <1>8, <2>1
  <2>2. CASE m # c[p]
    <3>1. m \notin Nodes(c)
      BY <1>2, <2>2
    <3>2. m # Nth(c, p + 1) /\ m # Nth(c, p - 1)
      BY <3>1, ListAssumption DEF Nth, Nodes
    <3> QED
      BY <1>1, <1>8, <2>2, <3>1, <3>2
  <2> QED
    BY <2>1, <2>2
<1>11. t = [m \in ListNodes |-> t[m]]
  BY DEF NodeRemoved
<1> QED
  BY <1>1, <1>2, <1>3, <1>9, <1>10, <1>11 DEF Linked, ListWith

-----------------------------------------------------------------------------
(* How the specification of lists sees a list *)

SuccOf(nd) == [n \in Pointers |-> IF n \in ListNodes /\ nd[n] # NULL THEN nd[n].next ELSE NULL]
PredOf(nd) == [n \in Pointers |-> IF n \in ListNodes /\ nd[n] # NULL THEN nd[n].prev ELSE NULL]

LEMMA SuccNow == Succ = SuccOf(node) /\ Pred = PredOf(node)
BY DEF Succ, Pred, SuccOf, PredOf, Free

LEMMA SuccNext == Succ' = SuccOf(node')
BY DEF Succ, SuccOf, Free

LEMMA LinkedNode ==
  ASSUME NEW l, NEW nd, NEW c, NEW v, NEW o, Linked(l, nd, c, v, o), NEW i \in DOMAIN c
  PROVE  /\ c[i] \in ListNodes /\ c[i] # NULL /\ nd[c[i]] # NULL
         /\ nd[c[i]] = Node(v[i], Nth(c, i + 1), Nth(c, i - 1))
         /\ nd[c[i]].data = v[i]
         /\ nd[c[i]].next = Nth(c, i + 1) /\ nd[c[i]].prev = Nth(c, i - 1)
         /\ v[i] \in ListValues /\ v[i] # NULL
<1>5. Distinct(c) /\ nd[c[i]] = Node(v[i], Nth(c, i + 1), Nth(c, i - 1))
  BY DEF Linked
<1>6. DOMAIN c = 1 .. Len(c) /\ v \in Seq(ListValues) /\ Len(v) = Len(c)
  BY LinkedTypes
<1>1. /\ Distinct(c) /\ DOMAIN c = 1 .. Len(c) /\ v \in Seq(ListValues) /\ Len(v) = Len(c)
      /\ nd[c[i]] = Node(v[i], Nth(c, i + 1), Nth(c, i - 1))
  BY <1>5, <1>6
<1>2. v[i] \in ListValues /\ c[i] \in ListNodes
  BY <1>1 DEF Distinct
<1>3. Nth(c, i + 1) \in Pointers /\ Nth(c, i - 1) \in Pointers
  BY <1>1, NthType
<1>4. nd[c[i]] # NULL
  BY <1>1, <1>2, <1>3, NodeNotNull
<1> QED
  BY <1>1, <1>2, <1>4, NodeExcept, ListAssumption

LEMMA LinkedNodes ==
  ASSUME NEW l, NEW nd, NEW c, NEW v, NEW o, Linked(l, nd, c, v, o)
  PROVE  /\ \A n \in ListNodes : nd[n] = NULL <=> n \notin Nodes(c)
         /\ SuccOf(nd) \in [Pointers -> Pointers] /\ SuccOf(nd)[NULL] = NULL
         /\ PredOf(nd) \in [Pointers -> Pointers] /\ PredOf(nd)[NULL] = NULL
         /\ ChainOf(SuccOf(nd), l.head, c)
<1>1. \A i \in DOMAIN c : /\ c[i] \in ListNodes /\ nd[c[i]] # NULL
                          /\ nd[c[i]].next = Nth(c, i + 1) /\ nd[c[i]].prev = Nth(c, i - 1)
  BY LinkedNode
<1>2. Distinct(c) /\ l.head = Nth(c, 1) /\ \A n \in ListNodes \ Nodes(c) : nd[n] = NULL
  BY LinkedTypes DEF Linked
<1>3. \A n \in ListNodes : nd[n] = NULL <=> n \notin Nodes(c)
  BY <1>1, <1>2 DEF Nodes
<1>4. \A n \in Nodes(c) : nd[n].next \in Pointers /\ nd[n].prev \in Pointers
  BY <1>1, <1>2, NthType DEF Nodes
<1>5. NULL \in Pointers /\ NULL \notin ListNodes
  BY ListAssumption DEF Pointers
<1>6. SuccOf(nd) \in [Pointers -> Pointers] /\ SuccOf(nd)[NULL] = NULL
  BY <1>3, <1>4, <1>5 DEF SuccOf
<1>7. PredOf(nd) \in [Pointers -> Pointers] /\ PredOf(nd)[NULL] = NULL
  BY <1>3, <1>4, <1>5 DEF PredOf
<1>8. \A i \in DOMAIN c : SuccOf(nd)[c[i]] = Nth(c, i + 1)
  BY <1>1 DEF SuccOf, Pointers
<1> QED
  BY <1>2, <1>3, <1>6, <1>7, <1>8 DEF ChainOf

(* The list, with the iterator at entry p *)
ListAt(l, nd, i, c, v, o, p) ==
  Linked(l, nd, c, v, o) /\ p \in 0 .. Len(c) /\ i = Nth(c, p)

EntriesOf(l, nd) == LET chain == Chain(l.head, SuccOf(nd))
                    IN  [i \in DOMAIN chain |-> nd[chain[i]].data]
PlaceOf(l, nd, i) == CHOOSE j \in DOMAIN EntriesOf(l, nd) : Chain(l.head, SuccOf(nd))[j] = i

LEMMA EntriesNow == Entries = EntriesOf(list, node) /\ Place = PlaceOf(list, node, it)
BY SuccNow DEF Entries, Place, EntriesOf, PlaceOf

LEMMA EntriesNext == Entries' = EntriesOf(list', node') /\ Place' = PlaceOf(list', node', it')
BY SuccNext DEF Entries, Place, EntriesOf, PlaceOf, Chain, Steps

LEMMA ListAtSeen ==
  ASSUME NEW l, NEW nd, NEW i, NEW c, NEW v, NEW o, NEW p, ListAt(l, nd, i, c, v, o, p)
  PROVE  /\ l # NULL /\ l.comp = o /\ EntriesOf(l, nd) = v
         /\ (i = NULL <=> p = 0) /\ (p # 0 => PlaceOf(l, nd, i) = p)
<1>7. Linked(l, nd, c, v, o)
  BY DEF ListAt
<1>8. /\ l # NULL /\ v \in Seq(ListValues) /\ DOMAIN c = 1 .. Len(c) /\ DOMAIN v = 1 .. Len(c)
      /\ Len(c) \in Nat /\ l.head = Nth(c, 1) /\ l.comp = o
  BY <1>7, LinkedTypes
<1>1. /\ l # NULL /\ v \in Seq(ListValues) /\ DOMAIN c = 1 .. Len(c) /\ DOMAIN v = 1 .. Len(c)
      /\ Len(c) \in Nat /\ l.head = Nth(c, 1) /\ l.comp = o /\ Distinct(c)
      /\ Linked(l, nd, c, v, o) /\ p \in 0 .. Len(c) /\ i = Nth(c, p)
  BY <1>7, <1>8 DEF ListAt, Linked
<1>2. Chain(l.head, SuccOf(nd)) = c
  <2>1. l.head \in Pointers
    BY <1>1, NthType
  <2> QED
    BY <1>1, <2>1, LinkedNodes, ChainIs
<1>3. \A j \in DOMAIN c : nd[c[j]].data = v[j] /\ c[j] # NULL
  BY <1>7, LinkedNode
<1>4. EntriesOf(l, nd) = v
  <2>1. EntriesOf(l, nd) = [j \in DOMAIN c |-> nd[c[j]].data]
    BY <1>2 DEF EntriesOf
  <2>2. v = [j \in DOMAIN c |-> v[j]]
    BY <1>1
  <2> QED
    BY <1>3, <2>1, <2>2
<1>5. i = NULL <=> p = 0
  BY <1>1, <1>3 DEF Nth
<1>6. p # 0 => PlaceOf(l, nd, i) = p
  <2>1. PlaceOf(l, nd, i) = CHOOSE j \in DOMAIN v : c[j] = i
    BY <1>2, <1>4 DEF PlaceOf
  <2>2. p # 0 => p \in DOMAIN v /\ c[p] = i
    BY <1>1 DEF Nth
  <2>3. \A j, k \in DOMAIN v : c[j] = c[k] => j = k
    BY <1>1 DEF Distinct
  <2> QED
    BY <2>1, <2>2, <2>3
<1> QED
  BY <1>1, <1>4, <1>5, <1>6

ListSeen(v, p, o) ==
  /\ (IF list = NULL THEN NULL ELSE Entries) = v
  /\ (IF it = NULL THEN 0 ELSE Place) = p
  /\ (IF list = NULL THEN NULL ELSE list.comp) = o

LEMMA SeenNow ==
  ASSUME NEW c, NEW v, NEW o, NEW p, ListAt(list, node, it, c, v, o, p)
  PROVE  ListSeen(v, p, o)
BY ListAtSeen, EntriesNow DEF ListSeen

LEMMA SeenNext ==
  ASSUME NEW c, NEW v, NEW o, NEW p, ListAt(list', node', it', c, v, o, p)
  PROVE  ListSeen(v, p, o)'
BY ListAtSeen, EntriesNext DEF ListSeen

ListOk(l, nd, i) ==
  IF l = NULL THEN i = NULL /\ nd = [n \in ListNodes |-> NULL]
  ELSE \E c, v, o, p : ListAt(l, nd, i, c, v, o, p)

LEMMA ListOkNext ==
  ASSUME NEW c, NEW v, NEW o, NEW p, ListAt(list', node', it', c, v, o, p)
  PROVE  ListOk(list', node', it')
<1>1. list' # NULL
  BY ListAtSeen
<1> QED
  BY <1>1 DEF ListOk

ListDone == AbstractList!Step /\ (IF list = NULL THEN NULL ELSE list.comp)' = (IF list = NULL THEN NULL ELSE list.comp)
            /\ ListOk(list', node', it')

LEMMA ListReplies ==
  ASSUME NEW call, NEW result, listReply' = ListReply(call, result)
  PROVE  listReply' = AbstractList!Reply(call, result)
BY DEF AbstractList!Reply, ListReply

LEMMA AtIs ==
  ASSUME NEW v, NEW p, NEW o, ListSeen(v, p, o), NEW i
  PROVE  AbstractList!At(i) = Nth(v, i)
BY DEF AbstractList!At, ListSeen, Nth

\* What a call that adds an entry comes to
ListInserts(call, q, d, moves) ==
  /\ AbstractList!Insert(call, q, d, moves)
  /\ (IF list = NULL THEN NULL ELSE list.comp)' = (IF list = NULL THEN NULL ELSE list.comp)
  /\ ListOk(list', node', it')

LEMMA InsertDone ==
  ASSUME NEW c, NEW v, NEW o, NEW p, ListAt(list, node, it, c, v, o, p),
         NEW n \in ListNodes \ Nodes(c), NEW d \in ListValues, NEW q \in 1 .. Len(c) + 1,
         NodeInserted(node, node', c, q, n, d),
         NEW e, e = Put(c, q, n), list' = ListWith(e, o),
         NEW moves \in BOOLEAN, it' = IF moves THEN n ELSE it,
         NEW call, listReply' = ListReply(<<call, d>>, 0)
  PROVE  ListInserts(call, q, d, moves)
<1> DEFINE u == Put(v, q, d)
           r == IF moves THEN q ELSE IF p >= q THEN p + 1 ELSE p
<1>1. /\ Linked(list, node, c, v, o) /\ p \in 0 .. Len(c) /\ it = Nth(c, p)
      /\ c \in Seq(ListNodes) /\ v \in Seq(ListValues) /\ Len(v) = Len(c) /\ Len(c) \in Nat
      /\ DOMAIN c = 1 .. Len(c)
  BY LinkedTypes DEF ListAt
<1>2. PutIn(ListNodes, c, q, n, e) /\ PutIn(ListValues, v, q, d, u)
  BY <1>1, PutIsIn
<1> HIDE DEF u
<1>3. Linked(list', node', e, u, o)
  BY <1>1, <1>2, LinkedInserted
<1>4. r \in 0 .. Len(e)
  <2>1. Len(e) = Len(c) + 1
    BY <1>2 DEF PutIn
  <2> QED
    BY <1>1, <2>1
<1>5. it' = Nth(e, r)
  <2>1. \A j \in Int : Nth(e, j) = IF j < q THEN Nth(c, j) ELSE IF j = q THEN n ELSE Nth(c, j - 1)
    BY <1>2, NthPut
  <2>2. CASE moves
    <3>1. q \in Int /\ ~(q < q) /\ r = q
      BY <2>2
    <3> QED
      BY <2>1, <2>2, <3>1
  <2>3. CASE ~moves /\ p >= q
    <3>1. p + 1 \in Int /\ ~(p + 1 < q) /\ p + 1 # q /\ (p + 1) - 1 = p /\ r = p + 1
      BY <1>1, <2>3
    <3> QED
      BY <1>1, <2>1, <2>3, <3>1
  <2>4. CASE ~moves /\ ~(p >= q)
    <3>1. p \in Int /\ p < q /\ r = p
      BY <1>1, <2>4
    <3> QED
      BY <1>1, <2>1, <2>4, <3>1
  <2> QED
    BY <2>2, <2>3, <2>4
<1>6. ListAt(list', node', it', e, u, o, r)
  BY <1>3, <1>4, <1>5 DEF ListAt
<1>7. ListSeen(v, p, o) /\ ListSeen(u, r, o)' /\ ListOk(list', node', it')
  BY <1>6, SeenNow, SeenNext, ListOkNext
<1>8. listReply' = AbstractList!Reply(<<call, d>>, 0)
  BY ListReplies
<1>9. u = SubSeq(v, 1, q - 1) \o <<d>> \o SubSeq(v, q, Len(v))
  BY DEF u, Put
<1> QED
  BY <1>7, <1>8, <1>9 DEF ListInserts, AbstractList!Insert, ListSeen

ListRemoves(call, q, next) ==
  /\ AbstractList!Remove(call, q, next)
  /\ (IF list = NULL THEN NULL ELSE list.comp)' = (IF list = NULL THEN NULL ELSE list.comp)
  /\ ListOk(list', node', it')

LEMMA RemoveDone ==
  ASSUME NEW c, NEW v, NEW o, NEW p, ListAt(list, node, it, c, v, o, p),
         NEW q \in 1 .. Len(c), NodeRemoved(node, node', c, q),
         NEW e, e = Without(c, q), list' = ListWith(e, o),
         NEW next \in 0 .. Len(c) - 1, it' = IF p = q THEN Nth(e, next) ELSE it,
         NEW call, listReply' = ListReply(<<call>>, v[q])
  PROVE  ListRemoves(call, q, next)
<1> DEFINE u == Without(v, q)
           r == IF p = q THEN next ELSE IF p > q THEN p - 1 ELSE p
<1>1. /\ Linked(list, node, c, v, o) /\ p \in 0 .. Len(c) /\ it = Nth(c, p)
      /\ c \in Seq(ListNodes) /\ v \in Seq(ListValues) /\ Len(v) = Len(c) /\ Len(c) \in Nat
      /\ DOMAIN c = 1 .. Len(c) /\ DOMAIN v = 1 .. Len(c)
  BY LinkedTypes DEF ListAt
<1>2. TakenFrom(ListNodes, c, q, e) /\ TakenFrom(ListValues, v, q, u)
  BY <1>1, WithoutIsTaken
<1> HIDE DEF u
<1>3. Linked(list', node', e, u, o)
  BY <1>1, <1>2, LinkedRemoved
<1>4. r \in 0 .. Len(e)
  <2>1. Len(e) = Len(c) - 1
    BY <1>2 DEF TakenFrom
  <2> QED
    BY <1>1, <2>1
<1>5. it' = Nth(e, r)
  <2>1. \A j \in Int : Nth(e, j) = IF j < q THEN Nth(c, j) ELSE Nth(c, j + 1)
    BY <1>2, NthWithout
  <2>2. CASE p = q
    BY <2>2
  <2>3. CASE p > q
    <3>1. p - 1 \in Int /\ ~(p - 1 < q) /\ (p - 1) + 1 = p /\ r = p - 1 /\ p # q
      BY <1>1, <2>3
    <3> QED
      BY <1>1, <2>1, <2>3, <3>1
  <2>4. CASE p < q
    <3>1. p \in Int /\ p < q /\ r = p /\ p # q
      BY <1>1, <2>4
    <3> QED
      BY <1>1, <2>1, <2>4, <3>1
  <2> QED
    BY <1>1, <2>2, <2>3, <2>4
<1>6. ListAt(list', node', it', e, u, o, r)
  BY <1>3, <1>4, <1>5 DEF ListAt
<1>7. ListSeen(v, p, o) /\ ListSeen(u, r, o)' /\ ListOk(list', node', it')
  BY <1>6, SeenNow, SeenNext, ListOkNext
<1>8. listReply' = AbstractList!Reply(<<call>>, v[q])
  BY ListReplies
<1>9. u = SubSeq(v, 1, q - 1) \o SubSeq(v, q + 1, Len(v))
  BY DEF u, Without
<1>10. AbstractList!At(q) = v[q] /\ v[q] # NULL
  <2>1. AbstractList!At(q) = Nth(v, q)
    BY <1>7, AtIs
  <2>2. q \in DOMAIN v /\ q \in DOMAIN c
    BY <1>1
  <2>3. v[q] # NULL
    BY <1>1, <2>2, LinkedNode
  <2> QED
    BY <2>1, <2>2, <2>3, NthIn
<1> QED
  BY <1>7, <1>8, <1>9, <1>10 DEF ListRemoves, AbstractList!Remove, ListSeen

-----------------------------------------------------------------------------
(* The calls that add an entry *)

PutEnds(c, q, n, e) ==
  /\ Len(e) = Len(c) + 1
  /\ Nth(e, 1) = IF q = 1 THEN n ELSE Nth(c, 1)
  /\ Nth(e, Len(e)) = IF q = Len(c) + 1 THEN n ELSE Nth(c, Len(c))

LEMMA EndsPut ==
  ASSUME NEW c \in Seq(ListNodes), NEW q \in 1 .. Len(c) + 1, NEW n \in ListNodes
  PROVE  PutEnds(c, q, n, Put(c, q, n))
<1>1. PICK e : e = Put(c, q, n)
  OBVIOUS
<1>2. PutIn(ListNodes, c, q, n, e)
  BY <1>1, PutIsIn
<1>3. Len(c) \in Nat /\ Len(e) = Len(c) + 1 /\ q \in Nat /\ 1 <= q /\ q <= Len(c) + 1
  BY <1>2 DEF PutIn
<1>4. \A i \in Int : Nth(e, i) = IF i < q THEN Nth(c, i) ELSE IF i = q THEN n ELSE Nth(c, i - 1)
  BY <1>2, NthPut
<1>5. Nth(e, 1) = IF q = 1 THEN n ELSE Nth(c, 1)
  BY <1>3, <1>4
<1>6. Nth(e, Len(c) + 1) = IF q = Len(c) + 1 THEN n ELSE Nth(c, Len(c))
  <2>1. Len(c) + 1 \in Int /\ ~(Len(c) + 1 < q) /\ (Len(c) + 1) - 1 = Len(c)
    BY <1>3
  <2> QED
    BY <1>4, <2>1
<1> QED
  BY <1>1, <1>3, <1>5, <1>6 DEF PutEnds

WithoutEnds(c, q, e) ==
  /\ Len(e) = Len(c) - 1
  /\ Nth(e, 1) = IF q = 1 THEN Nth(c, 2) ELSE Nth(c, 1)
  /\ Nth(e, Len(e)) = IF q = Len(c) THEN Nth(c, Len(c) - 1) ELSE Nth(c, Len(c))

LEMMA EndsWithout ==
  ASSUME NEW c \in Seq(ListNodes), NEW q \in 1 .. Len(c)
  PROVE  WithoutEnds(c, q, Without(c, q))
<1>1. PICK e : e = Without(c, q)
  OBVIOUS
<1>2. TakenFrom(ListNodes, c, q, e)
  BY <1>1, WithoutIsTaken
<1>3. Len(c) \in Nat /\ Len(e) = Len(c) - 1 /\ q \in Nat /\ 1 <= q /\ q <= Len(c)
  BY <1>2 DEF TakenFrom
<1>4. \A i \in Int : Nth(e, i) = IF i < q THEN Nth(c, i) ELSE Nth(c, i + 1)
  BY <1>2, NthWithout
<1>5. Nth(e, 1) = IF q = 1 THEN Nth(c, 2) ELSE Nth(c, 1)
  BY <1>3, <1>4
<1>6. Nth(e, Len(c) - 1) = IF q = Len(c) THEN Nth(c, Len(c) - 1) ELSE Nth(c, Len(c))
  <2>1. Len(c) - 1 \in Int /\ (Len(c) - 1 < q <=> q = Len(c)) /\ (Len(c) - 1) + 1 = Len(c)
    BY <1>3
  <2> QED
    BY <1>4, <2>1
<1> QED
  BY <1>1, <1>3, <1>5, <1>6 DEF WithoutEnds

\* What the lemmas about one call know of the state it is made in
Situation(c, v, o, p) ==
  /\ Linked(list, node, c, v, o) /\ p \in 0 .. Len(c) /\ it = Nth(c, p)
  /\ c \in Seq(ListNodes) /\ v \in Seq(ListValues) /\ Len(v) = Len(c) /\ Len(c) \in Nat
  /\ DOMAIN c = 1 .. Len(c) /\ DOMAIN v = 1 .. Len(c)
  /\ list = [head |-> Nth(c, 1), tail |-> Nth(c, Len(c)), size |-> Len(c), comp |-> o]
  /\ node = [m \in ListNodes |-> node[m]]
  /\ \A i \in DOMAIN c : /\ c[i] \in ListNodes /\ c[i] # NULL /\ node[c[i]].data = v[i]
                         /\ node[c[i]].next = Nth(c, i + 1) /\ node[c[i]].prev = Nth(c, i - 1)
  /\ \A i, j \in DOMAIN c : c[i] = c[j] => i = j
  /\ NULL \notin ListNodes

LEMMA Situated ==
  ASSUME NEW c, NEW v, NEW o, NEW p, ListAt(list, node, it, c, v, o, p)
  PROVE  Situation(c, v, o, p)
<1>1. Linked(list, node, c, v, o) /\ p \in 0 .. Len(c) /\ it = Nth(c, p)
  BY DEF ListAt
<1>2. /\ c \in Seq(ListNodes) /\ v \in Seq(ListValues) /\ Len(v) = Len(c) /\ Len(c) \in Nat
      /\ DOMAIN c = 1 .. Len(c) /\ DOMAIN v = 1 .. Len(c)
  BY <1>1, LinkedTypes
<1>3. /\ list = [head |-> Nth(c, 1), tail |-> Nth(c, Len(c)), size |-> Len(c), comp |-> o]
      /\ node = [m \in ListNodes |-> node[m]] /\ Distinct(c)
  BY <1>1 DEF Linked
<1>4. \A i \in DOMAIN c : /\ c[i] \in ListNodes /\ c[i] # NULL /\ node[c[i]].data = v[i]
                          /\ node[c[i]].next = Nth(c, i + 1) /\ node[c[i]].prev = Nth(c, i - 1)
  BY <1>1, LinkedNode
<1> QED
  BY <1>1, <1>2, <1>3, <1>4, ListAssumption DEF Situation, Distinct

LEMMA FreeNodes ==
  ASSUME NEW c, NEW v, NEW o, Linked(list, node, c, v, o), NEW n \in Free
  PROVE  n \in ListNodes \ Nodes(c)
BY LinkedNodes DEF Free

LEMMA AddStartStep ==
  ASSUME NEW c, NEW v, NEW o, NEW p, ListAt(list, node, it, c, v, o, p),
         NEW n \in Free, NEW d \in ListValues, AddStart(d, n)
  PROVE  ListInserts("add_start", 1, d, FALSE)
<1>1. Situation(c, v, o, p) /\ n \in ListNodes \ Nodes(c)
  BY Situated, FreeNodes DEF ListAt
<1>2. /\ c \in Seq(ListNodes) /\ Len(c) \in Nat /\ DOMAIN c = 1 .. Len(c)
      /\ list = ListWith(c, o) /\ n \in ListNodes /\ NULL \notin ListNodes
      /\ node = [m \in ListNodes |-> node[m]]
      /\ \A i \in DOMAIN c : c[i] \in ListNodes /\ c[i] # NULL
  BY <1>1 DEF Situation, ListWith
<1>3. 1 \in 1 .. Len(c) + 1 /\ (1 = Len(c) + 1 <=> Len(c) = 0)
  BY <1>2
<1>4. PICK e : e = Put(c, 1, n)
  OBVIOUS
<1>5. PutEnds(c, 1, n, e)
  BY <1>2, <1>3, <1>4, EndsPut
<1>6. /\ Len(e) = Len(c) + 1 /\ Nth(e, 1) = n
      /\ Nth(e, Len(e)) = IF Len(c) = 0 THEN n ELSE Nth(c, Len(c))
  BY <1>3, <1>5 DEF PutEnds
<1>7. /\ list.head = Nth(c, 1) /\ (list.head = NULL <=> Len(c) = 0)
      /\ Nth(c, 1 - 1) = NULL /\ \A i \in DOMAIN c : c[i] # n
  BY <1>1, <1>2 DEF ListWith, Nth, Nodes
<1>8. ASSUME Len(c) = 0 PROVE list' = ListWith(e, o) /\ NodeInserted(node, node', c, 1, n, d)
  <2>1. /\ node' = [node EXCEPT ![n] = Node(d, list.head, NULL)]
        /\ list' = [list EXCEPT !.head = n, !.tail = n, !.size = 1]
    BY <1>7, <1>8 DEF AddStart
  <2>2. list' = [head |-> n, tail |-> n, size |-> 1, comp |-> o]
    BY <1>2, <2>1 DEF ListWith
  <2>3. list' = ListWith(e, o)
    BY <1>6, <1>8, <2>2 DEF ListWith
  <2>4. Nth(c, 1) = NULL
    BY <1>2, <1>8 DEF Nth
  <2>5. node'[n] = Node(d, Nth(c, 1), Nth(c, 1 - 1))
    BY <1>2, <1>7, <2>1
  <2>6. \A m \in ListNodes \ {n} : node'[m] = node[m]
    BY <1>2, <2>1
  <2>7. node' = [m \in ListNodes |-> node'[m]]
    BY <1>2, <2>1
  <2> QED
    BY <1>2, <1>7, <2>3, <2>4, <2>5, <2>6, <2>7 DEF NodeInserted
<1>9. ASSUME Len(c) # 0 PROVE list' = ListWith(e, o) /\ NodeInserted(node, node', c, 1, n, d)
  <2>1. /\ node' = [node EXCEPT ![n] = Node(d, list.head, NULL), ![list.head].prev = n]
        /\ list' = [list EXCEPT !.head = n, !.size = @ + 1]
    BY <1>7, <1>9 DEF AddStart
  <2>2. list' = [head |-> n, tail |-> Nth(c, Len(c)), size |-> Len(c) + 1, comp |-> o]
    BY <1>2, <2>1 DEF ListWith
  <2>3. list' = ListWith(e, o)
    BY <1>6, <1>9, <2>2 DEF ListWith
  <2>4. 1 \in DOMAIN c /\ list.head = c[1] /\ Nth(c, 1) = c[1] /\ c[1] \in ListNodes /\ c[1] # n
    BY <1>2, <1>7, <1>9 DEF Nth
  <2>5. node'[n] = Node(d, Nth(c, 1), Nth(c, 1 - 1))
    BY <1>2, <1>7, <2>1, <2>4
  <2>6. \A m \in ListNodes \ {n} : m # c[1] => node'[m] = node[m]
    BY <1>2, <2>1, <2>4
  <2>7. node'[c[1]] = [node[c[1]] EXCEPT !.prev = n]
    BY <1>2, <2>1, <2>4
  <2>8. node' = [m \in ListNodes |-> node'[m]]
    BY <1>2, <2>1
  <2> QED
    BY <1>2, <1>7, <2>3, <2>4, <2>5, <2>6, <2>7, <2>8 DEF NodeInserted
<1>10. it' = it /\ listReply' = ListReply(<<"add_start", d>>, 0)
  BY DEF AddStart
<1> QED
  BY <1>1, <1>3, <1>4, <1>8, <1>9, <1>10, InsertDone

(* add_end and add_node do the same, for head and tail are NULL together. *)
EndAdded(call, d, n) ==
  /\ IF list.tail = NULL
     THEN /\ node' = [node EXCEPT ![n] = Node(d, NULL, list.tail)]
          /\ list' = [list EXCEPT !.head = n, !.tail = n, !.size = 1]
     ELSE /\ node' = [node EXCEPT ![n] = Node(d, NULL, list.tail), ![list.tail].next = n]
          /\ list' = [list EXCEPT !.tail = n, !.size = @ + 1]
  /\ listReply' = ListReply(<<call, d>>, 0)
  /\ UNCHANGED it

LEMMA EndAddedStep ==
  ASSUME NEW c, NEW v, NEW o, NEW p, ListAt(list, node, it, c, v, o, p),
         NEW n \in Free, NEW d \in ListValues, NEW call, EndAdded(call, d, n),
         NEW q, q = Len(c) + 1
  PROVE  ListInserts(call, q, d, FALSE)
<1>1. Situation(c, v, o, p) /\ n \in ListNodes \ Nodes(c)
  BY Situated, FreeNodes DEF ListAt
<1>2. /\ c \in Seq(ListNodes) /\ Len(c) \in Nat /\ DOMAIN c = 1 .. Len(c)
      /\ list = ListWith(c, o) /\ n \in ListNodes /\ NULL \notin ListNodes
      /\ node = [m \in ListNodes |-> node[m]]
      /\ \A i \in DOMAIN c : c[i] \in ListNodes /\ c[i] # NULL
  BY <1>1 DEF Situation, ListWith
<1>3. q \in 1 .. Len(c) + 1 /\ (q = 1 <=> Len(c) = 0) /\ q - 1 = Len(c) /\ q \notin DOMAIN c
  BY <1>2
<1>4. PICK e : e = Put(c, q, n)
  OBVIOUS
<1>5. PutEnds(c, q, n, e)
  BY <1>2, <1>3, <1>4, EndsPut
<1>6. /\ Len(e) = Len(c) + 1 /\ Nth(e, Len(e)) = n
      /\ Nth(e, 1) = IF Len(c) = 0 THEN n ELSE Nth(c, 1)
  BY <1>3, <1>5 DEF PutEnds
<1>7. /\ list.tail = Nth(c, Len(c)) /\ (list.tail = NULL <=> Len(c) = 0)
      /\ Nth(c, q) = NULL /\ Nth(c, q - 1) = list.tail /\ \A i \in DOMAIN c : c[i] # n
  BY <1>1, <1>2, <1>3 DEF ListWith, Nth, Nodes
<1>8. ASSUME Len(c) = 0 PROVE list' = ListWith(e, o) /\ NodeInserted(node, node', c, q, n, d)
  <2>1. /\ node' = [node EXCEPT ![n] = Node(d, NULL, list.tail)]
        /\ list' = [list EXCEPT !.head = n, !.tail = n, !.size = 1]
    BY <1>7, <1>8 DEF EndAdded
  <2>2. list' = [head |-> n, tail |-> n, size |-> 1, comp |-> o]
    BY <1>2, <2>1 DEF ListWith
  <2>3. list' = ListWith(e, o)
    BY <1>6, <1>8, <2>2 DEF ListWith
  <2>4. Nth(c, q - 1) = NULL
    BY <1>7, <1>8
  <2>5. node'[n] = Node(d, Nth(c, q), Nth(c, q - 1))
    BY <1>2, <1>7, <2>1
  <2>6. \A m \in ListNodes \ {n} : node'[m] = node[m]
    BY <1>2, <2>1
  <2>7. node' = [m \in ListNodes |-> node'[m]]
    BY <1>2, <2>1
  <2> QED
    BY <1>2, <1>7, <2>3, <2>4, <2>5, <2>6, <2>7 DEF NodeInserted
<1>9. ASSUME Len(c) # 0 PROVE list' = ListWith(e, o) /\ NodeInserted(node, node', c, q, n, d)
  <2>1. /\ node' = [node EXCEPT ![n] = Node(d, NULL, list.tail), ![list.tail].next = n]
        /\ list' = [list EXCEPT !.tail = n, !.size = @ + 1]
    BY <1>7, <1>9 DEF EndAdded
  <2>2. list' = [head |-> Nth(c, 1), tail |-> n, size |-> Len(c) + 1, comp |-> o]
    BY <1>2, <2>1 DEF ListWith
  <2>3. list' = ListWith(e, o)
    BY <1>6, <1>9, <2>2 DEF ListWith
  <2>4. PICK z : z = list.tail
    OBVIOUS
  <2>5. Nth(c, q - 1) = z /\ z \in ListNodes /\ z # n
    <3>1. Len(c) \in DOMAIN c
      BY <1>2, <1>9
    <3> QED
      BY <1>2, <1>7, <2>4, <3>1 DEF Nth
  <2>6. node'[n] = Node(d, Nth(c, q), Nth(c, q - 1))
    BY <1>2, <1>7, <2>1, <2>4, <2>5
  <2>7. \A m \in ListNodes \ {n} : m # z => node'[m] = node[m]
    BY <1>2, <2>1, <2>4
  <2>8. node'[z] = [node[z] EXCEPT !.next = n]
    BY <1>2, <2>1, <2>4, <2>5
  <2>9. node' = [m \in ListNodes |-> node'[m]]
    BY <1>2, <2>1
  <2> QED
    BY <1>2, <1>7, <2>3, <2>5, <2>6, <2>7, <2>8, <2>9 DEF NodeInserted
<1>10. it' = it /\ listReply' = ListReply(<<call, d>>, 0)
  BY DEF EndAdded
<1> QED
  BY <1>1, <1>3, <1>4, <1>8, <1>9, <1>10, InsertDone

LEMMA AddNodeStep ==
  ASSUME NEW c, NEW v, NEW o, NEW p, ListAt(list, node, it, c, v, o, p),
         NEW n \in Free, NEW d \in ListValues, AddNode(d, n), NEW q, q = Len(c) + 1
  PROVE  ListInserts("add_node", q, d, FALSE)
<1>1. Situation(c, v, o, p)
  BY Situated DEF ListAt
<1>2. /\ c \in Seq(ListNodes) /\ Len(c) \in Nat /\ DOMAIN c = 1 .. Len(c)
      /\ list = ListWith(c, o) /\ \A i \in DOMAIN c : c[i] # NULL
  BY <1>1 DEF Situation, ListWith
<1>3. list.head = NULL <=> list.tail = NULL
  <2>1. list.head = Nth(c, 1) /\ list.tail = Nth(c, Len(c))
    BY <1>2 DEF ListWith
  <2>2. (Nth(c, 1) = NULL <=> Len(c) = 0) /\ (Nth(c, Len(c)) = NULL <=> Len(c) = 0)
    BY <1>2 DEF Nth
  <2> QED
    BY <2>1, <2>2
<1>4. EndAdded("add_node", d, n)
  <2>1. list.tail = NULL => list.head = NULL /\ Node(d, NULL, NULL) = Node(d, NULL, list.tail)
    BY <1>3
  <2> QED
    BY <1>3, <2>1 DEF AddNode, EndAdded
<1> QED
  BY <1>4, EndAddedStep

LEMMA InsertBeforeStep ==
  ASSUME NEW c, NEW v, NEW o, NEW p, ListAt(list, node, it, c, v, o, p),
         NEW n \in Free, NEW d \in ListValues, InsertBefore(d, n)
  PROVE  p # 0 /\ ListInserts("insert_before", p, d, TRUE)
<1>1. Situation(c, v, o, p) /\ n \in ListNodes \ Nodes(c)
  BY Situated, FreeNodes DEF ListAt
<1>2. /\ c \in Seq(ListNodes) /\ Len(c) \in Nat /\ DOMAIN c = 1 .. Len(c)
      /\ list = ListWith(c, o) /\ n \in ListNodes /\ NULL \notin ListNodes
      /\ node = [m \in ListNodes |-> node[m]] /\ it = Nth(c, p)
      /\ \A i \in DOMAIN c : c[i] \in ListNodes /\ c[i] # NULL /\ node[c[i]].prev = Nth(c, i - 1)
      /\ \A i, j \in DOMAIN c : c[i] = c[j] => i = j
  BY <1>1 DEF Situation, ListWith
<1>3. p \in DOMAIN c /\ it = c[p]
  BY <1>2 DEF InsertBefore, Nth
<1>4. PICK e : e = Put(c, p, n)
  OBVIOUS
<1>5. p \in Nat /\ p \in 1 .. Len(c) + 1 /\ p # Len(c) + 1 /\ p # 0
  BY <1>2, <1>3
<1>6. PutEnds(c, p, n, e)
  BY <1>2, <1>4, <1>5, EndsPut
<1>7. PICK z : z = Nth(c, p - 1)
  OBVIOUS
<1>8. z = node[it].prev /\ (z = NULL <=> p = 1) /\ it # z /\ it \in ListNodes /\ n # z /\ n # it
  <2>1. z = NULL <=> p - 1 \notin DOMAIN c
    BY <1>2, <1>7 DEF Nth
  <2>2. p - 1 \notin DOMAIN c <=> p = 1
    BY <1>2, <1>3, <1>5
  <2>3. p - 1 # p
    BY <1>5
  <2>4. it # z
    BY <1>2, <1>3, <1>7, <2>3 DEF Nth
  <2>5. n # z /\ n # it
    BY <1>1, <1>2, <1>3, <1>7 DEF Nth, Nodes
  <2> QED
    BY <1>2, <1>3, <1>7, <2>1, <2>2, <2>4, <2>5
<1>9. /\ node' = [m \in ListNodes |-> IF m = n THEN Node(d, it, z)
                                      ELSE IF m = it THEN [node[m] EXCEPT !.prev = n]
                                      ELSE IF m = z THEN [node[m] EXCEPT !.next = n]
                                      ELSE node[m]]
      /\ list' = [list EXCEPT !.head = IF z = NULL THEN n ELSE @, !.size = @ + 1]
      /\ it' = n /\ listReply' = ListReply(<<"insert_before", d>>, 0)
  BY <1>8 DEF InsertBefore
<1>10. list' = ListWith(e, o)
  <2>1. list' = [head |-> IF z = NULL THEN n ELSE Nth(c, 1), tail |-> Nth(c, Len(c)),
                 size |-> Len(c) + 1, comp |-> o]
    BY <1>2, <1>9 DEF ListWith
  <2>2. /\ Len(e) = Len(c) + 1 /\ Nth(e, 1) = IF z = NULL THEN n ELSE Nth(c, 1)
        /\ Nth(e, Len(e)) = Nth(c, Len(c))
    BY <1>5, <1>6, <1>8 DEF PutEnds
  <2> QED
    BY <2>1, <2>2 DEF ListWith
<1>11. NodeInserted(node, node', c, p, n, d)
  <2>1. Nth(c, p) = it /\ Nth(c, p - 1) = z
    BY <1>2, <1>7
  <2>2. node' = [m \in ListNodes |-> node'[m]]
    BY <1>9
  <2>3. node'[n] = Node(d, it, z)
    BY <1>2, <1>9
  <2>4. node'[it] = [node[it] EXCEPT !.prev = n]
    BY <1>8, <1>9
  <2>5. z \in ListNodes => node'[z] = [node[z] EXCEPT !.next = n]
    BY <1>8, <1>9
  <2>6. \A m \in ListNodes \ {n} : m # it /\ m # z => node'[m] = node[m]
    BY <1>9
  <2> QED
    BY <2>1, <2>2, <2>3, <2>4, <2>5, <2>6 DEF NodeInserted
<1> QED
  BY <1>1, <1>4, <1>5, <1>9, <1>10, <1>11, InsertDone

LEMMA InsertAfterStep ==
  ASSUME NEW c, NEW v, NEW o, NEW p, ListAt(list, node, it, c, v, o, p),
         NEW n \in Free, NEW d \in ListValues, InsertAfter(d, n)
  PROVE  p # 0 /\ ListInserts("insert_after", p + 1, d, TRUE)
<1>1. Situation(c, v, o, p) /\ n \in ListNodes \ Nodes(c)
  BY Situated, FreeNodes DEF ListAt
<1>2. /\ c \in Seq(ListNodes) /\ Len(c) \in Nat /\ DOMAIN c = 1 .. Len(c)
      /\ list = ListWith(c, o) /\ n \in ListNodes /\ NULL \notin ListNodes
      /\ node = [m \in ListNodes |-> node[m]] /\ it = Nth(c, p)
      /\ \A i \in DOMAIN c : c[i] \in ListNodes /\ c[i] # NULL /\ node[c[i]].next = Nth(c, i + 1)
      /\ \A i, j \in DOMAIN c : c[i] = c[j] => i = j
  BY <1>1 DEF Situation, ListWith
<1>3. p \in DOMAIN c /\ it = c[p]
  BY <1>2 DEF InsertAfter, Nth
<1>12. PICK q : q = p + 1
  OBVIOUS
<1>4. PICK e : e = Put(c, q, n)
  OBVIOUS
<1>5. p \in Nat /\ q \in 1 .. Len(c) + 1 /\ q # 1 /\ (q = Len(c) + 1 <=> p = Len(c)) /\ p # 0 /\ q - 1 = p
  BY <1>2, <1>3, <1>12
<1>6. PutEnds(c, q, n, e)
  BY <1>2, <1>4, <1>5, EndsPut
<1>7. PICK z : z = Nth(c, q)
  OBVIOUS
<1>8. z = node[it].next /\ (z = NULL <=> q = Len(c) + 1) /\ it # z /\ it \in ListNodes /\ n # z /\ n # it
  <2>1. z = NULL <=> q \notin DOMAIN c
    BY <1>2, <1>7 DEF Nth
  <2>2. q \notin DOMAIN c <=> q = Len(c) + 1
    BY <1>2, <1>3, <1>5
  <2>3. q # p
    BY <1>5, <1>12
  <2>4. it # z
    BY <1>2, <1>3, <1>7, <2>3 DEF Nth
  <2>5. n # z /\ n # it
    BY <1>1, <1>2, <1>3, <1>7 DEF Nth, Nodes
  <2>6. z = node[it].next
    BY <1>2, <1>3, <1>7, <1>12
  <2> QED
    BY <1>2, <1>3, <2>1, <2>2, <2>4, <2>5, <2>6
<1>9. /\ node' = [m \in ListNodes |-> IF m = n THEN Node(d, z, it)
                                      ELSE IF m = it THEN [node[m] EXCEPT !.next = n]
                                      ELSE IF m = z THEN [node[m] EXCEPT !.prev = n]
                                      ELSE node[m]]
      /\ list' = [list EXCEPT !.tail = IF z = NULL THEN n ELSE @, !.size = @ + 1]
      /\ it' = n /\ listReply' = ListReply(<<"insert_after", d>>, 0)
  BY <1>8 DEF InsertAfter
<1>10. list' = ListWith(e, o)
  <2>1. list' = [head |-> Nth(c, 1), tail |-> IF z = NULL THEN n ELSE Nth(c, Len(c)),
                 size |-> Len(c) + 1, comp |-> o]
    BY <1>2, <1>9 DEF ListWith
  <2>2. /\ Len(e) = Len(c) + 1 /\ Nth(e, 1) = Nth(c, 1)
        /\ Nth(e, Len(e)) = IF z = NULL THEN n ELSE Nth(c, Len(c))
    BY <1>5, <1>6, <1>8 DEF PutEnds
  <2> QED
    BY <2>1, <2>2 DEF ListWith
<1>11. NodeInserted(node, node', c, q, n, d)
  <2>1. Nth(c, q - 1) = it /\ Nth(c, q) = z
    BY <1>2, <1>5, <1>7
  <2>2. node' = [m \in ListNodes |-> node'[m]]
    BY <1>9
  <2>3. node'[n] = Node(d, z, it)
    BY <1>2, <1>9
  <2>4. node'[it] = [node[it] EXCEPT !.next = n]
    BY <1>8, <1>9
  <2>5. z \in ListNodes => node'[z] = [node[z] EXCEPT !.prev = n]
    BY <1>8, <1>9
  <2>6. \A m \in ListNodes \ {n} : m # it /\ m # z => node'[m] = node[m]
    BY <1>9
  <2> QED
    BY <2>1, <2>2, <2>3, <2>4, <2>5, <2>6 DEF NodeInserted
<1> QED
  BY <1>1, <1>4, <1>5, <1>9, <1>10, <1>11, <1>12, InsertDone

-----------------------------------------------------------------------------
(* The calls that remove an entry *)

\* What the fields of list and nodes are when entry q is taken out of c
Unlinked(c, q, o) ==
  /\ list' = [head |-> IF q = 1 THEN Nth(c, 2) ELSE Nth(c, 1),
              tail |-> IF q = Len(c) THEN Nth(c, Len(c) - 1) ELSE Nth(c, Len(c)),
              size |-> Len(c) - 1, comp |-> o]
  /\ NodeRemoved(node, node', c, q)

LEMMA UnlinkedList ==
  ASSUME NEW c \in Seq(ListNodes), NEW q \in 1 .. Len(c), NEW o, Unlinked(c, q, o)
  PROVE  list' = ListWith(Without(c, q), o)
<1>1. PICK e : e = Without(c, q)
  OBVIOUS
<1>2. WithoutEnds(c, q, e)
  BY <1>1, EndsWithout
<1> QED
  BY <1>1, <1>2 DEF WithoutEnds, Unlinked, ListWith

LEMMA RemoveStartStep ==
  ASSUME NEW c, NEW v, NEW o, NEW p, ListAt(list, node, it, c, v, o, p), Len(c) # 0, RemoveStart
  PROVE  ListRemoves("remove_start", 1, 0)
<1>1. Situation(c, v, o, p)
  BY Situated
<1>2. /\ c \in Seq(ListNodes) /\ Len(c) \in Nat /\ DOMAIN c = 1 .. Len(c)
      /\ list = ListWith(c, o) /\ NULL \notin ListNodes /\ it = Nth(c, p) /\ p \in 0 .. Len(c)
      /\ node = [m \in ListNodes |-> node[m]]
      /\ \A i \in DOMAIN c : /\ c[i] \in ListNodes /\ c[i] # NULL /\ node[c[i]].next = Nth(c, i + 1)
                             /\ node[c[i]].data = v[i]
      /\ \A i, j \in DOMAIN c : c[i] = c[j] => i = j
  BY <1>1 DEF Situation, ListWith
<1>3. 1 \in DOMAIN c /\ 1 \in 1 .. Len(c) /\ 1 + 1 = 2 /\ 1 - 1 = 0 /\ Nth(c, 1) = c[1] /\ Nth(c, 0) = NULL
  BY <1>2 DEF Nth
<1>4. PICK n : n = c[1]
  OBVIOUS
<1>5. PICK z : z = Nth(c, 2)
  OBVIOUS
<1>6. /\ n \in ListNodes /\ n # NULL /\ list.head = n /\ z = node[n].next /\ node[n].data = v[1]
      /\ n # z /\ (z = NULL <=> Len(c) = 1)
  <2>1. z = NULL <=> 2 \notin DOMAIN c
    BY <1>2, <1>5 DEF Nth
  <2>2. 2 \notin DOMAIN c <=> Len(c) = 1
    BY <1>2, <1>3
  <2>3. n # z
    BY <1>2, <1>3, <1>4, <1>5 DEF Nth
  <2>4. z = node[n].next /\ node[n].data = v[1]
    BY <1>2, <1>3, <1>4, <1>5
  <2>5. list.head = n
    BY <1>2, <1>3, <1>4 DEF ListWith
  <2> QED
    BY <1>2, <1>3, <1>4, <2>1, <2>2, <2>3, <2>4, <2>5
<1>7. /\ list' = [list EXCEPT !.head = z, !.tail = IF z = NULL THEN NULL ELSE @, !.size = @ - 1]
      /\ node' = [m \in ListNodes |-> IF m = n THEN NULL
                                      ELSE IF m = z THEN [node[m] EXCEPT !.prev = NULL]
                                      ELSE node[m]]
      /\ it' = IF it = n THEN NULL ELSE it
      /\ listReply' = ListReply(<<"remove_start">>, v[1])
  BY <1>6 DEF RemoveStart, Forget
<1>8. Unlinked(c, 1, o)
  <2>1. list' = [head |-> z, tail |-> IF Len(c) = 1 THEN NULL ELSE Nth(c, Len(c)),
                 size |-> Len(c) - 1, comp |-> o]
    BY <1>2, <1>6, <1>7 DEF ListWith
  <2>2. Len(c) = 1 => Nth(c, Len(c) - 1) = NULL
    BY <1>3
  <2>3. list' = [head |-> IF 1 = 1 THEN Nth(c, 2) ELSE Nth(c, 1),
              tail |-> IF 1 = Len(c) THEN Nth(c, Len(c) - 1) ELSE Nth(c, Len(c)),
              size |-> Len(c) - 1, comp |-> o]
    BY <1>5, <2>1, <2>2
  <2>4. node' = [m \in ListNodes |-> node'[m]] /\ node'[n] = NULL
    BY <1>6, <1>7
  <2>5. z \in ListNodes => node'[z] = [node[z] EXCEPT !.prev = NULL]
    BY <1>6, <1>7
  <2>6. \A m \in ListNodes \ {n} : m # z => node'[m] = node[m]
    BY <1>7
  <2>7. NodeRemoved(node, node', c, 1)
    BY <1>2, <1>3, <1>4, <1>5, <2>4, <2>5, <2>6 DEF NodeRemoved
  <2> QED
    BY <2>3, <2>7 DEF Unlinked
<1>9. PICK e : e = Without(c, 1)
  OBVIOUS
<1>10. list' = ListWith(e, o)
  BY <1>2, <1>3, <1>8, <1>9, UnlinkedList
<1>11. it = n <=> p = 1
  BY <1>2, <1>3, <1>4, <1>6 DEF Nth
<1>12. it' = IF p = 1 THEN Nth(e, 0) ELSE it
  <2>1. TakenFrom(ListNodes, c, 1, e)
    BY <1>2, <1>3, <1>9, WithoutIsTaken
  <2>2. Nth(e, 0) = NULL
    BY <2>1 DEF TakenFrom, Nth
  <2> QED
    BY <1>7, <1>11, <2>2
<1>13. 0 \in 0 .. Len(c) - 1
  BY <1>2
<1>14. NodeRemoved(node, node', c, 1)
  BY <1>8 DEF Unlinked
<1>15. PICK q : q = 1
  OBVIOUS
<1>16. PICK next : next = 0
  OBVIOUS
<1>17. ListRemoves("remove_start", q, next)
  <2>1. q \in 1 .. Len(c) /\ NodeRemoved(node, node', c, q) /\ e = Without(c, q)
    BY <1>3, <1>9, <1>14, <1>15
  <2>2. next \in 0 .. Len(c) - 1 /\ it' = (IF p = q THEN Nth(e, next) ELSE it)
    BY <1>12, <1>13, <1>15, <1>16
  <2>3. listReply' = ListReply(<<"remove_start">>, v[q])
    BY <1>7, <1>15
  <2> QED
    BY <1>10, <2>1, <2>2, <2>3, RemoveDone
<1> QED
  BY <1>15, <1>16, <1>17

LEMMA RemoveEndStep ==
  ASSUME NEW c, NEW v, NEW o, NEW p, ListAt(list, node, it, c, v, o, p), Len(c) # 0, RemoveEnd,
         NEW q, q = Len(c)
  PROVE  ListRemoves("remove_end", q, 0)
<1>1. Situation(c, v, o, p)
  BY Situated
<1>2. /\ c \in Seq(ListNodes) /\ Len(c) \in Nat /\ DOMAIN c = 1 .. Len(c)
      /\ list = ListWith(c, o) /\ NULL \notin ListNodes /\ it = Nth(c, p) /\ p \in 0 .. Len(c)
      /\ node = [m \in ListNodes |-> node[m]]
      /\ \A i \in DOMAIN c : /\ c[i] \in ListNodes /\ c[i] # NULL /\ node[c[i]].prev = Nth(c, i - 1)
                             /\ node[c[i]].data = v[i]
      /\ \A i, j \in DOMAIN c : c[i] = c[j] => i = j
  BY <1>1 DEF Situation, ListWith
<1>3. q \in DOMAIN c /\ q \in 1 .. Len(c) /\ Nth(c, q) = c[q] /\ Nth(c, q + 1) = NULL /\ q - 1 # q
  BY <1>2 DEF Nth
<1>4. PICK n : n = c[q]
  OBVIOUS
<1>5. PICK z : z = Nth(c, q - 1)
  OBVIOUS
<1>6. /\ n \in ListNodes /\ n # NULL /\ list.tail = n /\ z = node[n].prev /\ node[n].data = v[q]
      /\ n # z /\ (z = NULL <=> q = 1) /\ list.head # NULL
  <2>1. z = NULL <=> q - 1 \notin DOMAIN c
    BY <1>2, <1>5 DEF Nth
  <2>2. q - 1 \notin DOMAIN c <=> q = 1
    BY <1>2, <1>3
  <2>3. n # z
    BY <1>2, <1>3, <1>4, <1>5 DEF Nth
  <2>4. z = node[n].prev /\ node[n].data = v[q]
    BY <1>2, <1>3, <1>4, <1>5
  <2>5. list.tail = n
    BY <1>2, <1>3, <1>4 DEF ListWith
  <2>6. 1 \in DOMAIN c
    BY <1>2
  <2>7. list.head # NULL
    BY <1>2, <2>6 DEF ListWith, Nth
  <2> QED
    BY <1>2, <1>3, <1>4, <2>1, <2>2, <2>3, <2>4, <2>5, <2>7
<1>7. /\ list' = [list EXCEPT !.tail = z, !.head = IF z = NULL THEN NULL ELSE @, !.size = @ - 1]
      /\ node' = [m \in ListNodes |-> IF m = n THEN NULL
                                      ELSE IF m = z THEN [node[m] EXCEPT !.next = NULL]
                                      ELSE node[m]]
      /\ it' = IF it = n THEN NULL ELSE it
      /\ listReply' = ListReply(<<"remove_end">>, v[q])
  BY <1>6 DEF RemoveEnd, Forget
<1>8. Unlinked(c, q, o)
  <2>1. list' = [head |-> IF q = 1 THEN NULL ELSE Nth(c, 1), tail |-> z,
                 size |-> Len(c) - 1, comp |-> o]
    BY <1>2, <1>6, <1>7 DEF ListWith
  <2>2. q = 1 => Nth(c, 2) = NULL
    BY <1>3
  <2>3. list' = [head |-> IF q = 1 THEN Nth(c, 2) ELSE Nth(c, 1),
              tail |-> IF q = Len(c) THEN Nth(c, Len(c) - 1) ELSE Nth(c, Len(c)),
              size |-> Len(c) - 1, comp |-> o]
    BY <1>5, <2>1, <2>2
  <2>4. node' = [m \in ListNodes |-> node'[m]] /\ node'[n] = NULL
    BY <1>6, <1>7
  <2>5. z \in ListNodes => node'[z] = [node[z] EXCEPT !.next = NULL]
    BY <1>6, <1>7
  <2>6. \A m \in ListNodes \ {n} : m # z => node'[m] = node[m]
    BY <1>7
  <2>7. NodeRemoved(node, node', c, q)
    BY <1>2, <1>3, <1>4, <1>5, <2>4, <2>5, <2>6 DEF NodeRemoved
  <2> QED
    BY <2>3, <2>7 DEF Unlinked
<1>9. PICK e : e = Without(c, q)
  OBVIOUS
<1>10. list' = ListWith(e, o)
  BY <1>2, <1>3, <1>8, <1>9, UnlinkedList
<1>11. it = n <=> p = q
  BY <1>2, <1>3, <1>4, <1>6 DEF Nth
<1>12. it' = IF p = q THEN Nth(e, 0) ELSE it
  <2>1. TakenFrom(ListNodes, c, q, e)
    BY <1>2, <1>3, <1>9, WithoutIsTaken
  <2>2. Nth(e, 0) = NULL
    BY <2>1 DEF TakenFrom, Nth
  <2> QED
    BY <1>7, <1>11, <2>2
<1>13. 0 \in 0 .. Len(c) - 1
  BY <1>2
<1>14. NodeRemoved(node, node', c, q)
  BY <1>8 DEF Unlinked
<1>16. PICK next : next = 0
  OBVIOUS
<1>17. ListRemoves("remove_end", q, next)
  <2>2. next \in 0 .. Len(c) - 1 /\ it' = (IF p = q THEN Nth(e, next) ELSE it)
    BY <1>12, <1>13, <1>16
  <2> QED
    BY <1>3, <1>7, <1>9, <1>10, <1>14, <2>2, RemoveDone
<1> QED
  BY <1>16, <1>17

(* remove_forward and remove_backwards; j is where the neighbour is that the iterator goes to. *)
LEMMA RemoveHereStep ==
  ASSUME NEW c, NEW v, NEW o, NEW p, ListAt(list, node, it, c, v, o, p), it # NULL,
         NEW call, NEW to, RemoveHere(call, to),
         NEW next \in 0 .. Len(c) - 1, to[it] = Nth(Without(c, p), next)
  PROVE  ListRemoves(call, p, next)
<1>1. Situation(c, v, o, p)
  BY Situated
<1>2. /\ c \in Seq(ListNodes) /\ Len(c) \in Nat /\ DOMAIN c = 1 .. Len(c)
      /\ list = ListWith(c, o) /\ NULL \notin ListNodes /\ it = Nth(c, p) /\ p \in 0 .. Len(c)
      /\ node = [m \in ListNodes |-> node[m]]
      /\ \A i \in DOMAIN c : /\ c[i] \in ListNodes /\ c[i] # NULL
                             /\ node[c[i]].prev = Nth(c, i - 1) /\ node[c[i]].next = Nth(c, i + 1)
                             /\ node[c[i]].data = v[i]
      /\ \A i, j \in DOMAIN c : c[i] = c[j] => i = j
  BY <1>1 DEF Situation, ListWith
<1>3. p \in DOMAIN c /\ p \in 1 .. Len(c) /\ it = c[p] /\ p \in Int /\ p - 1 # p /\ p + 1 # p /\ p - 1 # p + 1
  BY <1>2 DEF Nth
<1>4. PICK y : y = Nth(c, p - 1)
  OBVIOUS
<1>5. PICK z : z = Nth(c, p + 1)
  OBVIOUS
<1>6. /\ it \in ListNodes /\ y = node[it].prev /\ z = node[it].next /\ node[it].data = v[p]
      /\ it # z /\ it # y /\ (y = NULL <=> p = 1) /\ (z = NULL <=> p = Len(c))
      /\ (y \in ListNodes => y # z)
  <2>1. (y = NULL <=> p - 1 \notin DOMAIN c) /\ (z = NULL <=> p + 1 \notin DOMAIN c)
    BY <1>2, <1>4, <1>5 DEF Nth
  <2>2. (p - 1 \notin DOMAIN c <=> p = 1) /\ (p + 1 \notin DOMAIN c <=> p = Len(c))
    BY <1>2, <1>3
  <2>3. it # z /\ it # y
    BY <1>2, <1>3, <1>4, <1>5 DEF Nth
  <2>4. z = node[it].next /\ y = node[it].prev /\ node[it].data = v[p]
    BY <1>2, <1>3, <1>4, <1>5
  <2>5. y \in ListNodes => y # z
    BY <1>2, <1>3, <1>4, <1>5 DEF Nth
  <2> QED
    BY <1>2, <1>3, <2>1, <2>2, <2>3, <2>4, <2>5
<1>7. /\ list' = [list EXCEPT !.head = IF y = NULL THEN z ELSE @,
                              !.tail = IF z = NULL THEN y ELSE @,
                              !.size = @ - 1]
      /\ node' = [m \in ListNodes |-> IF m = it THEN NULL
                                      ELSE IF m = y THEN [node[m] EXCEPT !.next = z]
                                      ELSE IF m = z THEN [node[m] EXCEPT !.prev = y]
                                      ELSE node[m]]
      /\ it' = to[it]
      /\ listReply' = ListReply(<<call>>, v[p])
  BY <1>6 DEF RemoveHere, Unlink
<1>8. Unlinked(c, p, o)
  <2>1. list' = [head |-> IF p = 1 THEN z ELSE Nth(c, 1), tail |-> IF p = Len(c) THEN y ELSE Nth(c, Len(c)),
                 size |-> Len(c) - 1, comp |-> o]
    BY <1>2, <1>6, <1>7 DEF ListWith
  <2>2. p = 1 => z = Nth(c, 2)
    BY <1>5
  <2>3. p = Len(c) => y = Nth(c, Len(c) - 1)
    BY <1>4
  <2>4. list' = [head |-> IF p = 1 THEN Nth(c, 2) ELSE Nth(c, 1),
              tail |-> IF p = Len(c) THEN Nth(c, Len(c) - 1) ELSE Nth(c, Len(c)),
              size |-> Len(c) - 1, comp |-> o]
    BY <2>1, <2>2, <2>3
  <2>5. node' = [m \in ListNodes |-> node'[m]] /\ node'[it] = NULL
    BY <1>6, <1>7
  <2>6. y \in ListNodes => node'[y] = [node[y] EXCEPT !.next = z]
    BY <1>6, <1>7
  <2>7. z \in ListNodes => node'[z] = [node[z] EXCEPT !.prev = y]
    BY <1>6, <1>7
  <2>8. \A m \in ListNodes \ {it} : m # y /\ m # z => node'[m] = node[m]
    BY <1>7
  <2>9. NodeRemoved(node, node', c, p)
    BY <1>2, <1>3, <1>4, <1>5, <2>5, <2>6, <2>7, <2>8 DEF NodeRemoved
  <2> QED
    BY <2>4, <2>9 DEF Unlinked
<1>9. PICK e : e = Without(c, p)
  OBVIOUS
<1>10. list' = ListWith(e, o)
  BY <1>2, <1>3, <1>8, <1>9, UnlinkedList
<1>11. it' = IF p = p THEN Nth(e, next) ELSE it
  BY <1>7, <1>9
<1> QED
  BY <1>3, <1>7, <1>8, <1>9, <1>10, <1>11, RemoveDone DEF Unlinked

LEMMA RemoveForwardStep ==
  ASSUME NEW c, NEW v, NEW o, NEW p, ListAt(list, node, it, c, v, o, p), it # NULL,
         RemoveHere("remove_forward", Succ), NEW next, next = IF p < Len(c) THEN p ELSE 0
  PROVE  ListRemoves("remove_forward", p, next)
<1>1. Situation(c, v, o, p)
  BY Situated
<1>2. /\ c \in Seq(ListNodes) /\ Len(c) \in Nat /\ it = Nth(c, p) /\ DOMAIN c = 1 .. Len(c)
      /\ Linked(list, node, c, v, o)
  BY <1>1 DEF Situation
<1>3. p \in DOMAIN c /\ it = c[p]
  BY <1>2 DEF Nth
<1>4. p \in 1 .. Len(c) /\ next \in 0 .. Len(c) - 1 /\ next \in Int
  BY <1>2, <1>3
<1>5. Succ[it] = Nth(c, p + 1)
  BY <1>2, <1>3, LinkedNodes, SuccNow DEF ChainOf
<1>6. PICK e : e = Without(c, p)
  OBVIOUS
<1>7. TakenFrom(ListNodes, c, p, e)
  BY <1>2, <1>4, <1>6, WithoutIsTaken
<1>8. Nth(e, next) = IF next < p THEN Nth(c, next) ELSE Nth(c, next + 1)
  BY <1>4, <1>7, NthWithout
<1>9. Nth(e, next) = Nth(c, p + 1)
  <2>1. CASE p < Len(c)
    BY <1>4, <1>8, <2>1
  <2>2. CASE ~(p < Len(c))
    <3>1. next = 0 /\ next < p /\ 0 \notin DOMAIN c /\ p + 1 \notin DOMAIN c
      <4>1. p \in Nat /\ 1 <= p /\ p <= Len(c) /\ Len(c) \in Nat
        BY <1>2, <1>4
      <4>2. next = 0
        BY <2>2
      <4> QED
        BY <1>2, <2>2, <4>1, <4>2
    <3> QED
      BY <1>8, <3>1 DEF Nth
  <2> QED
    BY <2>1, <2>2
<1> QED
  BY <1>4, <1>5, <1>6, <1>9, RemoveHereStep

LEMMA RemoveBackwardsStep ==
  ASSUME NEW c, NEW v, NEW o, NEW p, ListAt(list, node, it, c, v, o, p), it # NULL,
         RemoveHere("remove_backwards", Pred), NEW next, next = p - 1
  PROVE  ListRemoves("remove_backwards", p, next)
<1>1. Situation(c, v, o, p)
  BY Situated
<1>2. /\ c \in Seq(ListNodes) /\ Len(c) \in Nat /\ it = Nth(c, p) /\ DOMAIN c = 1 .. Len(c)
      /\ \A i \in DOMAIN c : c[i] \in ListNodes /\ node[c[i]].prev = Nth(c, i - 1)
      /\ Linked(list, node, c, v, o)
  BY <1>1 DEF Situation
<1>3. p \in DOMAIN c /\ it = c[p]
  BY <1>2 DEF Nth
<1>4. p \in 1 .. Len(c) /\ next \in 0 .. Len(c) - 1 /\ next \in Int /\ next < p
  BY <1>2, <1>3
<1>5. Pred[it] = Nth(c, p - 1)
  <2>1. it \in Nodes(c) /\ it \in ListNodes
    BY <1>2, <1>3 DEF Nodes
  <2>2. node[it] # NULL
    BY <1>2, <2>1, LinkedNodes
  <2> QED
    BY <1>2, <1>3, <2>1, <2>2, SuccNow DEF PredOf, Pointers
<1>6. PICK e : e = Without(c, p)
  OBVIOUS
<1>7. TakenFrom(ListNodes, c, p, e)
  BY <1>2, <1>4, <1>6, WithoutIsTaken
<1>8. Nth(e, next) = IF next < p THEN Nth(c, next) ELSE Nth(c, next + 1)
  BY <1>4, <1>7, NthWithout
<1> QED
  BY <1>4, <1>5, <1>6, <1>8, RemoveHereStep

-----------------------------------------------------------------------------
(* The calls that leave the entries as they are *)

ListSame(v, p, q, o) ==
  ListSeen(v, p, o) /\ ListSeen(v, q, o)' /\ ListOk(list', node', it')

LEMMA StandingStep ==
  ASSUME NEW c, NEW v, NEW o, NEW p, ListAt(list, node, it, c, v, o, p), UNCHANGED <<list, node, it>>
  PROVE  ListSame(v, p, p, o)
<1>1. ListAt(list', node', it', c, v, o, p)
  OBVIOUS
<1> QED
  BY <1>1, SeenNow, SeenNext, ListOkNext DEF ListSame

LEMMA NthBoth ==
  ASSUME NEW c, NEW v, NEW o, NEW p, Situation(c, v, o, p), NEW q \in Int
  PROVE  /\ Nth(c, q) = NULL <=> q \notin DOMAIN c
         /\ Nth(v, q) = NULL <=> q \notin DOMAIN c
         /\ Nth(c, q) # NULL => node[Nth(c, q)].data = Nth(v, q)
<1>1. \A i \in DOMAIN c : c[i] # NULL /\ node[c[i]].data = v[i] /\ v[i] # NULL
  BY ListAssumption DEF Situation
<1>2. DOMAIN c = DOMAIN v
  BY DEF Situation
<1> QED
  BY <1>1, <1>2 DEF Nth

ListMoves(call, q) ==
  /\ AbstractList!Move(call, q)
  /\ (IF list = NULL THEN NULL ELSE list.comp)' = (IF list = NULL THEN NULL ELSE list.comp)
  /\ ListOk(list', node', it')

LEMMA MoveStep ==
  ASSUME NEW c, NEW v, NEW o, NEW p, ListAt(list, node, it, c, v, o, p),
         NEW call, NEW q \in Int, NEW n, n = Nth(c, q), MoveTo(call, n)
  PROVE  ListMoves(call, q)
<1>1. Situation(c, v, o, p) /\ Linked(list, node, c, v, o)
  BY Situated DEF ListAt
<1>2. /\ n = NULL <=> q \notin DOMAIN c
      /\ Nth(v, q) = NULL <=> q \notin DOMAIN c
      /\ n # NULL => node[n].data = Nth(v, q)
  BY <1>1, NthBoth
<1>3. PICK r : r = IF n = NULL THEN 0 ELSE q
  OBVIOUS
<1>4. r \in 0 .. Len(c) /\ n = Nth(c, r)
  <2>1. Len(c) \in Nat /\ DOMAIN c = 1 .. Len(c)
    BY <1>1 DEF Situation
  <2>2. Nth(c, 0) = NULL
    BY <2>1 DEF Nth
  <2> QED
    BY <1>2, <1>3, <2>1, <2>2
<1>5. it' = n /\ list' = list /\ node' = node
  BY DEF MoveTo
<1>6. ListAt(list', node', it', c, v, o, r)
  BY <1>1, <1>4, <1>5 DEF ListAt
<1>7. ListSeen(v, p, o) /\ ListSeen(v, r, o)' /\ ListOk(list', node', it')
  BY <1>6, SeenNow, SeenNext, ListOkNext
<1>8. AbstractList!At(q) = Nth(v, q)
  BY <1>7, AtIs
<1>9. listReply' = ListReply(<<call>>, Nth(v, q))
  BY <1>2 DEF MoveTo
<1>10. listReply' = AbstractList!Reply(<<call>>, AbstractList!At(q))
  BY <1>8, <1>9, ListReplies
<1>11. r = IF AbstractList!At(q) = NULL THEN 0 ELSE q
  BY <1>2, <1>3, <1>8
<1> QED
  BY <1>7, <1>10, <1>11 DEF ListMoves, AbstractList!Move, ListSeen

(* A removal where there is no entry *)
LEMMA NothingRemoved ==
  ASSUME NEW c, NEW v, NEW o, NEW p, ListAt(list, node, it, c, v, o, p),
         NEW q \in Int, q \notin DOMAIN c, NEW next,
         NEW call, listReply' = ListReply(<<call>>, NULL), UNCHANGED <<list, node, it>>
  PROVE  ListRemoves(call, q, next)
<1>1. Situation(c, v, o, p)
  BY Situated
<1>2. ListSame(v, p, p, o)
  BY StandingStep
<1>3. AbstractList!At(q) = NULL
  <2>1. AbstractList!At(q) = Nth(v, q)
    BY <1>2, AtIs DEF ListSame
  <2> QED
    BY <1>1, <2>1, NthBoth
<1>4. listReply' = AbstractList!Reply(<<call>>, AbstractList!At(q))
  BY <1>3, ListReplies
<1> QED
  BY <1>2, <1>3, <1>4 DEF ListRemoves, AbstractList!Remove, ListSeen, ListSame

LEMMA NoMemoryStep ==
  ASSUME NEW c, NEW v, NEW o, NEW p, ListAt(list, node, it, c, v, o, p), NEW call, NoMemory(call)
  PROVE  ListSame(v, p, p, o) /\ AbstractList!NoMemory(call)
<1>1. ListSame(v, p, p, o)
  BY StandingStep DEF NoMemory
<1>2. listReply' = AbstractList!Reply(<<call>>, -1)
  BY ListReplies DEF NoMemory
<1> QED
  BY <1>1, <1>2 DEF AbstractList!NoMemory, ListSeen, ListSame

LEMMA ListSizeStep ==
  ASSUME NEW c, NEW v, NEW o, NEW p, ListAt(list, node, it, c, v, o, p), ListSize,
         NEW result, result = Len(v)
  PROVE  ListSame(v, p, p, o) /\ listReply' = AbstractList!Reply(<<"size">>, result)
<1>1. Linked(list, node, c, v, o)
  BY DEF ListAt
<1>2. list.size = result
  BY <1>1, LinkedTypes
<1>3. ListSame(v, p, p, o)
  BY StandingStep DEF ListSize
<1>4. listReply' = ListReply(<<"size">>, result)
  BY <1>2 DEF ListSize
<1> QED
  BY <1>3, <1>4, ListReplies

-----------------------------------------------------------------------------
(* The calls that make a list, end it and give it an order *)

LEMMA NoEntries ==
  ASSUME NEW o \in {1, -1, NULL}, NEW nd, nd = [n \in ListNodes |-> NULL], NEW k, k = ListWith(<<>>, o)
  PROVE  ListAt(k, nd, NULL, <<>>, <<>>, o, 0)
<1>1. Distinct(<<>>) /\ <<>> \in Seq(ListValues) /\ Len(<<>>) = 0 /\ DOMAIN <<>> = {}
  BY DEF Distinct
<1>2. Nth(<<>>, 0) = NULL
  BY <1>1 DEF Nth
<1>3. Linked(k, nd, <<>>, <<>>, o)
  BY <1>1 DEF Linked, ListWith
<1> QED
  BY <1>1, <1>2, <1>3 DEF ListAt

LEMMA NoListNow ==
  ASSUME ListOk(list, node, it), list = NULL
  PROVE  /\ node = [n \in ListNodes |-> NULL] /\ it = NULL
         /\ ListSeen(NULL, 0, NULL)
BY DEF ListOk, ListSeen

LEMMA CreateListStep ==
  ASSUME ListOk(list, node, it), CreateList
  PROVE  AbstractList!Create /\ ListOk(list', node', it')
<1>1. /\ list = NULL /\ node' = [n \in ListNodes |-> NULL] /\ it' = NULL /\ ListSeen(NULL, 0, NULL)
      /\ listReply' = ListReply(<<"init">>, list' # NULL)
  BY NoListNow DEF CreateList
<1>2. CASE list' = NULL
  <2>1. ListOk(list', node', it') /\ ListSeen(NULL, 0, NULL)'
    BY <1>1, <1>2 DEF ListOk, ListSeen
  <2>2. listReply' = AbstractList!Reply(<<"init">>, (IF list = NULL THEN NULL ELSE Entries)' # NULL)
    <3>1. (IF list = NULL THEN NULL ELSE Entries)' = NULL
      BY <2>1 DEF ListSeen
    <3>2. (list' # NULL) = ((IF list = NULL THEN NULL ELSE Entries)' # NULL)
      BY <1>2, <3>1
    <3> QED
      BY <1>1, <3>2, ListReplies
  <2> QED
    BY <1>1, <2>1, <2>2 DEF AbstractList!Create, ListSeen
<1>3. CASE list' # NULL
  <2>1. list' = ListWith(<<>>, ListOrder)
    <3>1. list' = [head |-> NULL, tail |-> NULL, size |-> 0, comp |-> ListOrder]
      BY <1>3 DEF CreateList
    <3>2. Nth(<<>>, 1) = NULL /\ Nth(<<>>, Len(<<>>)) = NULL /\ Len(<<>>) = 0
      BY DEF Nth
    <3> QED
      BY <3>1, <3>2 DEF ListWith
  <2>2. ListAt(list', node', it', <<>>, <<>>, ListOrder, 0)
    BY <1>1, <2>1, NoEntries, ListAssumption
  <2>3. ListOk(list', node', it') /\ ListSeen(<<>>, 0, ListOrder)'
    BY <2>2, SeenNext, ListOkNext
  <2>4. <<>> # NULL
    <3>1. <<>> \in Seq(ListValues)
      OBVIOUS
    <3> QED
      BY <3>1, ListAssumption
  <2>5. listReply' = AbstractList!Reply(<<"init">>, (IF list = NULL THEN NULL ELSE Entries)' # NULL)
    <3>1. (IF list = NULL THEN NULL ELSE Entries)' = <<>>
      BY <2>3 DEF ListSeen
    <3>2. (list' # NULL) = ((IF list = NULL THEN NULL ELSE Entries)' # NULL)
      BY <1>3, <2>4, <3>1
    <3> QED
      BY <1>1, <3>2, ListReplies
  <2> QED
    BY <1>1, <2>3, <2>5, ListAssumption DEF AbstractList!Create, ListSeen
<1> QED
  BY <1>2, <1>3

LEMMA SetListCompStep ==
  ASSUME NEW c, NEW v, NEW o, NEW p, ListAt(list, node, it, c, v, o, p),
         NEW b \in {1, -1, NULL}, SetListComp(b)
  PROVE  AbstractList!SetComp(b) /\ ListOk(list', node', it')
<1>1. Linked(list, node, c, v, o) /\ p \in 0 .. Len(c) /\ it = Nth(c, p)
  BY DEF ListAt
<1>2. list' = [list EXCEPT !.comp = b] /\ node' = node /\ it' = it
  BY DEF SetListComp
<1>3. list' = [head |-> Nth(c, 1), tail |-> Nth(c, Len(c)), size |-> Len(c), comp |-> b]
  BY <1>1, <1>2 DEF Linked
<1>4. Linked(list', node', c, v, b)
  BY <1>1, <1>2, <1>3 DEF Linked
<1>5. ListAt(list', node', it', c, v, b, p)
  BY <1>1, <1>2, <1>4 DEF ListAt
<1>6. ListSeen(v, p, o) /\ ListSeen(v, p, b)' /\ ListOk(list', node', it')
  BY <1>5, SeenNow, SeenNext, ListOkNext
<1>7. listReply' = AbstractList!Reply(<<"set_comp", b>>, 0)
  BY ListReplies DEF SetListComp
<1> QED
  BY <1>6, <1>7 DEF AbstractList!SetComp, ListSeen

LEMMA DestroyListStep ==
  ASSUME NEW c, NEW v, NEW o, NEW p, ListAt(list, node, it, c, v, o, p), DestroyList
  PROVE  AbstractList!Destroy /\ ListOk(list', node', it')
<1>1. Linked(list, node, c, v, o) /\ Distinct(c) /\ list.head = Nth(c, 1)
  BY LinkedTypes DEF ListAt, Linked
<1>2. Chain(list.head, Succ) = c
  <2>1. list.head \in Pointers
    BY <1>1, NthType
  <2> QED
    BY <1>1, <2>1, LinkedNodes, SuccNow, ChainIs
<1>3. \A n \in ListNodes : node[n] = NULL <=> n \notin Nodes(c)
  BY <1>1, LinkedNodes
<1>4. list' = NULL /\ it' = NULL /\ node' = [n \in ListNodes |-> NULL]
  BY <1>2, <1>3 DEF DestroyList
<1>5. ListSeen(NULL, 0, NULL)' /\ ListOk(list', node', it')
  BY <1>4 DEF ListSeen, ListOk
<1>6. listReply' = AbstractList!Reply(<<"destroy">>, 0)
  BY ListReplies DEF DestroyList
<1> QED
  BY <1>5, <1>6 DEF AbstractList!Destroy, ListSeen

-----------------------------------------------------------------------------
(* The calls together, but for msort *)

ListKeeps == (IF list = NULL THEN NULL ELSE list.comp)' = (IF list = NULL THEN NULL ELSE list.comp)
             /\ ListOk(list', node', it')

LEMMA SmallestNode ==
  ASSUME Free # {}
  PROVE  (CHOOSE n \in Free : \A m \in Free : n <= m) \in Free
<1>1. Free \in SUBSET Nat
  BY ListAssumption DEF Free
<1>2. ASSUME \A n \in Free : \E m \in Free : ~(n <= m) PROVE FALSE
  <2> DEFINE S == {n \in Nat : \A m \in Free : n <= m}
  <2>1. 0 \in S
    BY <1>1
  <2>2. ASSUME NEW n \in S PROVE n + 1 \in S
    <3>1. n \notin Free
      BY <1>2
    <3> QED
      BY <1>1, <3>1
  <2>3. S = Nat
    <3> HIDE DEF S
    <3>1. S \subseteq Nat
      BY DEF S
    <3> QED
      BY <2>1, <2>2, <3>1, NatInduced
  <2>4. PICK m \in Free : TRUE
    OBVIOUS
  <2>5. m \in Nat /\ m + 1 \in Nat
    BY <1>1
  <2>6. m + 1 \in S
    <3> HIDE DEF S
    <3> QED
      BY <2>3, <2>5
  <2> QED
    BY <2>5, <2>6
<1> QED
  BY <1>2

LEMMA GrowStep ==
  ASSUME NEW c, NEW v, NEW o, NEW p, ListAt(list, node, it, c, v, o, p), NEW d \in ListValues, ListGrows(d)
  PROVE  AbstractList!Grow(d) /\ ListKeeps
<1>1. ListSeen(v, p, o)
  BY SeenNow
<1>2. PICK n : n = CHOOSE k \in Free : \A m \in Free : k <= m
  OBVIOUS
<1>3. n \in Free
  BY <1>2, SmallestNode DEF ListGrows
<1>4. \/ AddStart(d, n) \/ AddEnd(d, n) \/ AddNode(d, n)
      \/ InsertBefore(d, n) \/ InsertAfter(d, n)
  BY <1>2 DEF ListGrows
<1>5. PICK q : q = Len(c) + 1
  OBVIOUS
<1>6. /\ (IF list = NULL THEN NULL ELSE Entries) = v /\ (IF it = NULL THEN 0 ELSE Place) = p
      /\ q = Len(v) + 1
  <2>1. Len(v) = Len(c)
    BY LinkedTypes DEF ListAt
  <2> QED
    BY <1>1, <1>5, <2>1 DEF ListSeen
<1>7. CASE AddStart(d, n)
  <2>1. ListInserts("add_start", 1, d, FALSE)
    BY <1>3, <1>7, AddStartStep
  <2> QED
    BY <2>1 DEF ListInserts, ListKeeps, AbstractList!Grow
<1>8. CASE AddEnd(d, n)
  <2>1. EndAdded("add_end", d, n)
    BY <1>8 DEF AddEnd, EndAdded
  <2>2. ListInserts("add_end", q, d, FALSE)
    BY <1>3, <1>5, <2>1, EndAddedStep
  <2> QED
    BY <1>6, <2>2 DEF ListInserts, ListKeeps, AbstractList!Grow
<1>9. CASE AddNode(d, n)
  <2>1. ListInserts("add_node", q, d, FALSE)
    BY <1>3, <1>5, <1>9, AddNodeStep
  <2> QED
    BY <1>6, <2>1 DEF ListInserts, ListKeeps, AbstractList!Grow
<1>10. CASE InsertBefore(d, n)
  <2>1. p # 0 /\ ListInserts("insert_before", p, d, TRUE)
    BY <1>3, <1>10, InsertBeforeStep
  <2> QED
    BY <1>6, <2>1 DEF ListInserts, ListKeeps, AbstractList!Grow
<1>11. CASE InsertAfter(d, n)
  <2>1. p # 0 /\ ListInserts("insert_after", p + 1, d, TRUE)
    BY <1>3, <1>11, InsertAfterStep
  <2> QED
    BY <1>6, <2>1 DEF ListInserts, ListKeeps, AbstractList!Grow
<1> QED
  BY <1>4, <1>7, <1>8, <1>9, <1>10, <1>11

LEMMA ShrinkStep ==
  ASSUME NEW c, NEW v, NEW o, NEW p, ListAt(list, node, it, c, v, o, p),
         \/ RemoveStart \/ RemoveEnd
         \/ RemoveHere("remove_forward", Succ) \/ RemoveHere("remove_backwards", Pred)
  PROVE  AbstractList!Step /\ ListKeeps
<1>1. ListSeen(v, p, o) /\ Situation(c, v, o, p)
  BY SeenNow, Situated
<1>2. PICK q : q = Len(c)
  OBVIOUS
<1>3. /\ (IF list = NULL THEN NULL ELSE Entries) = v /\ (IF it = NULL THEN 0 ELSE Place) = p
      /\ q = Len(v) /\ q \in Nat /\ DOMAIN c = 1 .. q /\ p \in 0 .. q /\ it = Nth(c, p)
      /\ list.head = Nth(c, 1)
  BY <1>1, <1>2 DEF ListSeen, Situation
<1>4. it = NULL <=> p = 0
  BY ListAtSeen
<1>5. list.head = NULL <=> q = 0
  <2>1. list.head = NULL <=> 1 \notin DOMAIN c
    BY <1>1, <1>3, NthBoth
  <2> QED
    BY <1>3, <2>1
<1>6. CASE RemoveStart
  <2>1. ListRemoves("remove_start", 1, 0)
    <3>1. CASE q = 0
      <4>1. 1 \in Int /\ 1 \notin DOMAIN c
        BY <1>3, <3>1
      <4>2. listReply' = ListReply(<<"remove_start">>, NULL) /\ UNCHANGED <<list, node, it>>
        BY <1>5, <1>6, <3>1 DEF RemoveStart
      <4> QED
        BY <4>1, <4>2, NothingRemoved
    <3>2. CASE q # 0
      BY <1>2, <1>6, <3>2, RemoveStartStep
    <3> QED
      BY <3>1, <3>2
  <2> QED
    BY <2>1 DEF ListRemoves, ListKeeps, AbstractList!Step
<1>7. CASE RemoveEnd
  <2>1. ListRemoves("remove_end", q, 0)
    <3>1. CASE q = 0
      <4>1. q \in Int /\ q \notin DOMAIN c
        BY <1>3, <3>1
      <4>2. listReply' = ListReply(<<"remove_end">>, NULL) /\ UNCHANGED <<list, node, it>>
        BY <1>5, <1>7, <3>1 DEF RemoveEnd
      <4> QED
        BY <4>1, <4>2, NothingRemoved
    <3>2. CASE q # 0
      BY <1>2, <1>7, <3>2, RemoveEndStep
    <3> QED
      BY <3>1, <3>2
  <2> QED
    BY <1>3, <2>1 DEF ListRemoves, ListKeeps, AbstractList!Step
<1>8. CASE RemoveHere("remove_forward", Succ)
  <2>1. PICK next : next = IF p < q THEN p ELSE 0
    OBVIOUS
  <2>2. ListRemoves("remove_forward", p, next)
    <3>1. CASE it = NULL
      <4>1. p \in Int /\ p \notin DOMAIN c
        BY <1>3, <1>4, <3>1
      <4>2. listReply' = ListReply(<<"remove_forward">>, NULL) /\ UNCHANGED <<list, node, it>>
        BY <1>8, <3>1 DEF RemoveHere
      <4> QED
        BY <4>1, <4>2, NothingRemoved
    <3>2. CASE it # NULL
      BY <1>2, <1>8, <2>1, <3>2, RemoveForwardStep
    <3> QED
      BY <3>1, <3>2
  <2> QED
    BY <1>3, <2>1, <2>2 DEF ListRemoves, ListKeeps, AbstractList!Step
<1>9. CASE RemoveHere("remove_backwards", Pred)
  <2>1. PICK next : next = p - 1
    OBVIOUS
  <2>2. ListRemoves("remove_backwards", p, next)
    <3>1. CASE it = NULL
      <4>1. p \in Int /\ p \notin DOMAIN c
        BY <1>3, <1>4, <3>1
      <4>2. listReply' = ListReply(<<"remove_backwards">>, NULL) /\ UNCHANGED <<list, node, it>>
        BY <1>9, <3>1 DEF RemoveHere
      <4> QED
        BY <4>1, <4>2, NothingRemoved
    <3>2. CASE it # NULL
      BY <1>9, <2>1, <3>2, RemoveBackwardsStep
    <3> QED
      BY <3>1, <3>2
  <2> QED
    BY <1>3, <2>1, <2>2 DEF ListRemoves, ListKeeps, AbstractList!Step
<1> QED
  BY <1>6, <1>7, <1>8, <1>9

LEMMA LookStep ==
  ASSUME NEW c, NEW v, NEW o, NEW p, ListAt(list, node, it, c, v, o, p),
         First \/ LastEntry \/ NextEntry \/ PrevEntry \/ ListSize
         \/ \E call \in {"add_start", "add_end", "insert_before", "insert_after"} : NoMemory(call)
  PROVE  AbstractList!Step /\ ListKeeps
<1>1. ListSeen(v, p, o) /\ Situation(c, v, o, p)
  BY SeenNow, Situated
<1>2. PICK q : q = Len(v)
  OBVIOUS
<1>3. /\ (IF list = NULL THEN NULL ELSE Entries) = v /\ (IF it = NULL THEN 0 ELSE Place) = p
      /\ q = Len(c) /\ q \in Int /\ DOMAIN c = 1 .. q /\ p \in 0 .. q /\ it = Nth(c, p)
      /\ list.head = Nth(c, 1) /\ list.tail = Nth(c, q)
      /\ \A i \in DOMAIN c : node[c[i]].prev = Nth(c, i - 1) /\ node[c[i]].next = Nth(c, i + 1)
      /\ (IF list = NULL THEN NULL ELSE list.comp) = o
  BY <1>1, <1>2 DEF ListSeen, Situation
<1>4. it = NULL <=> p = 0
  BY ListAtSeen
<1>5. CASE First
  <2>1. 1 \in Int
    OBVIOUS
  <2>2. ListMoves("first", 1)
    BY <1>3, <1>5, <2>1, MoveStep DEF First
  <2> QED
    BY <2>2 DEF ListMoves, ListKeeps, AbstractList!Step
<1>6. CASE LastEntry
  <2>1. ListMoves("last", q)
    BY <1>3, <1>6, MoveStep DEF LastEntry
  <2> QED
    BY <1>2, <1>3, <2>1 DEF ListMoves, ListKeeps, AbstractList!Step
<1>7. CASE NextEntry
  <2>1. PICK r : r = IF p = 0 THEN 0 ELSE p + 1
    OBVIOUS
  <2>2. PICK n : n = IF it = NULL THEN NULL ELSE node[it].next
    OBVIOUS
  <2>3. r \in Int /\ n = Nth(c, r)
    <3>1. CASE p = 0
      BY <1>3, <1>4, <2>1, <2>2, <3>1 DEF Nth
    <3>2. CASE p # 0
      <4>1. p \in DOMAIN c /\ it = c[p] /\ r = p + 1
        BY <1>3, <2>1, <3>2 DEF Nth
      <4> QED
        BY <1>3, <1>4, <2>2, <3>2, <4>1
    <3> QED
      BY <3>1, <3>2
  <2>4. ListMoves("next", r)
    <3>1. MoveTo("next", n)
      BY <1>7, <2>2 DEF NextEntry
    <3> QED
      BY <2>3, <3>1, MoveStep
  <2> QED
    BY <1>3, <2>1, <2>4 DEF ListMoves, ListKeeps, AbstractList!Step
<1>8. CASE PrevEntry
  <2>1. PICK r : r = IF p = 0 THEN 0 ELSE p - 1
    OBVIOUS
  <2>2. PICK n : n = IF it = NULL THEN NULL ELSE node[it].prev
    OBVIOUS
  <2>3. r \in Int /\ n = Nth(c, r)
    <3>1. CASE p = 0
      BY <1>3, <1>4, <2>1, <2>2, <3>1 DEF Nth
    <3>2. CASE p # 0
      <4>1. p \in DOMAIN c /\ it = c[p] /\ r = p - 1
        BY <1>3, <2>1, <3>2 DEF Nth
      <4> QED
        BY <1>3, <1>4, <2>2, <3>2, <4>1
    <3> QED
      BY <3>1, <3>2
  <2>4. ListMoves("prev", r)
    <3>1. MoveTo("prev", n)
      BY <1>8, <2>2 DEF PrevEntry
    <3> QED
      BY <2>3, <3>1, MoveStep
  <2> QED
    BY <1>3, <2>1, <2>4 DEF ListMoves, ListKeeps, AbstractList!Step
<1>9. CASE ListSize
  <2>1. ListSame(v, p, p, o) /\ listReply' = AbstractList!Reply(<<"size">>, q)
    BY <1>2, <1>9, ListSizeStep
  <2> QED
    BY <1>2, <1>3, <2>1 DEF ListSame, ListSeen, ListKeeps, AbstractList!Step
<1>10. CASE \E call \in {"add_start", "add_end", "insert_before", "insert_after"} : NoMemory(call)
  <2>1. PICK call \in {"add_start", "add_end", "insert_before", "insert_after"} : NoMemory(call)
    BY <1>10
  <2>2. ListSame(v, p, p, o) /\ AbstractList!NoMemory(call)
    BY <2>1, NoMemoryStep
  <2>3. AbstractList!Step
    BY <2>2 DEF AbstractList!Step
  <2> QED
    BY <1>3, <2>2, <2>3 DEF ListSame, ListSeen, ListKeeps
<1> QED
  BY <1>5, <1>6, <1>7, <1>8, <1>9, <1>10

-----------------------------------------------------------------------------
(* The loop of merge_nodes *)

TurnStates == [succ : [Pointers -> Pointers], x : Pointers, y : Pointers, tail : Pointers]

NodeTurn(order, m) ==
  IF m.x = NULL \/ m.y = NULL THEN m
  ELSE IF Compare(order, node[m.y].data, node[m.x].data) < 0
  THEN [m EXCEPT !.succ[m.tail] = m.y, !.y = m.succ[m.y], !.tail = m.y]
  ELSE [m EXCEPT !.succ[m.tail] = m.x, !.x = m.succ[m.x], !.tail = m.x]

NodeMerges(order, succ, left, right, K, M) ==
  M = [k \in 0 .. K |-> IF k = 0 THEN [succ |-> succ, x |-> left, y |-> right, tail |-> NULL]
                        ELSE NodeTurn(order, M[k - 1])]

Joined(end) == [end.succ EXCEPT ![end.tail] = IF end.x # NULL THEN end.x ELSE end.y]
MergeResult(end) == [succ |-> Joined(end), first |-> Joined(end)[NULL]]

LEMMA NodeTurnType ==
  ASSUME NEW order, NEW m \in TurnStates
  PROVE  NodeTurn(order, m) \in TurnStates
<1>1. m.succ \in [Pointers -> Pointers] /\ m.x \in Pointers /\ m.y \in Pointers /\ m.tail \in Pointers
      /\ m = [succ |-> m.succ, x |-> m.x, y |-> m.y, tail |-> m.tail]
  BY DEF TurnStates
<1>2. ASSUME NEW p \in Pointers PROVE [m.succ EXCEPT ![m.tail] = p] \in [Pointers -> Pointers] /\ m.succ[p] \in Pointers
  BY <1>1
<1>3. CASE m.x = NULL \/ m.y = NULL
  BY <1>3 DEF NodeTurn
<1>4. CASE ~(m.x = NULL \/ m.y = NULL) /\ Compare(order, node[m.y].data, node[m.x].data) < 0
  <2>1. NodeTurn(order, m) = [succ |-> [m.succ EXCEPT ![m.tail] = m.y], x |-> m.x, y |-> m.succ[m.y], tail |-> m.y]
    <3>1. NodeTurn(order, m) = [m EXCEPT !.succ[m.tail] = m.y, !.y = m.succ[m.y], !.tail = m.y]
      BY <1>4 DEF NodeTurn
    <3> QED
      BY <1>1, <3>1
  <2> QED
    BY <1>1, <1>2, <2>1 DEF TurnStates
<1>5. CASE ~(m.x = NULL \/ m.y = NULL) /\ ~(Compare(order, node[m.y].data, node[m.x].data) < 0)
  <2>1. NodeTurn(order, m) = [succ |-> [m.succ EXCEPT ![m.tail] = m.x], x |-> m.succ[m.x], y |-> m.y, tail |-> m.x]
    <3>1. NodeTurn(order, m) = [m EXCEPT !.succ[m.tail] = m.x, !.x = m.succ[m.x], !.tail = m.x]
      BY <1>5 DEF NodeTurn
    <3> QED
      BY <1>1, <3>1
  <2> QED
    BY <1>1, <1>2, <2>1 DEF TurnStates
<1> QED
  BY <1>3, <1>4, <1>5

LEMMA NodesMerged ==
  ASSUME NEW succ \in [Pointers -> Pointers], NEW left \in Pointers, NEW right \in Pointers,
         NEW K, K = Cardinality(ListNodes)
  PROVE  \E M : /\ MergeNodes(succ, left, right) = MergeResult(M[K])
                /\ NodeMerges(list.comp, succ, left, right, K, M)
                /\ M \in [0 .. K -> TurnStates]
<1> DEFINE D == 0 .. K
           R == TurnStates
           z == [succ |-> succ, x |-> left, y |-> right, tail |-> NULL]
           Body(g, k) == IF k = 0 THEN z ELSE NodeTurn(list.comp, g[k - 1])
           m == [k \in D |-> k]
           B == [g \in [D -> R] |-> [k \in D |-> Body(g, k)]]
<1>0. K \in Nat
  BY FS_CardinalityType, ListAssumption
<1>1. z \in R
  BY DEF TurnStates, Pointers
<1>2. \A g \in R : NodeTurn(list.comp, g) \in R
  BY NodeTurnType
<1>3. \A k \in D : k # 0 => k - 1 \in D /\ k - 1 < k
  BY <1>0
<1>5. m \in [D -> Nat] /\ \A k \in D : m[k] = k
  BY <1>0
<1> HIDE DEF z, R, m
<1>6. ASSUME NEW g \in [D -> R], NEW k \in D PROVE Body(g, k) \in R
  <2>1. CASE k = 0
    BY <1>1, <2>1
  <2>2. CASE k # 0
    <3>1. g[k - 1] \in R
      BY <1>3, <2>2
    <3> QED
      BY <1>2, <2>2, <3>1
  <2> QED
    BY <2>1, <2>2
<1>4. ASSUME NEW g \in [D -> R], NEW f \in [D -> R], NEW k \in D,
             \A j \in D : m[j] < m[k] => g[j] = f[j]
      PROVE  Body(g, k) = Body(f, k)
  <2>1. CASE k = 0
    BY <2>1
  <2>2. CASE k # 0
    <3>1. k - 1 \in D /\ m[k - 1] < m[k]
      BY <1>3, <1>5, <2>2
    <3>2. g[k - 1] = f[k - 1]
      BY <1>4, <3>1
    <3> QED
      BY <2>2, <3>2
  <2> QED
    BY <2>1, <2>2
<1> HIDE DEF D, Body
<1>7. R # {}
  BY <1>1
<1>8. \A g \in [D -> R], k \in D : B[g][k] = Body(g, k)
  OBVIOUS
<1> HIDE DEF B
<1>9. Founded(D, R, m, B)
  <2>1. \A g \in [D -> R], k \in D : B[g][k] \in R
    BY <1>6, <1>8
  <2>2. \A g, f \in [D -> R], k \in D :
          (\A j \in D : m[j] < m[k] => g[j] = f[j]) => B[g][k] = B[f][k]
    BY <1>4, <1>8
  <2> QED
    BY <1>5, <1>7, <2>1, <2>2 DEF Founded
<1>10. \E f : f = [k \in D |-> Body(f, k)]
  <2>1. PICK f \in [D -> R] : \A k \in D : f[k] = B[f][k]
    BY <1>9, Recursion
  <2>2. f = [k \in D |-> Body(f, k)]
    BY <1>8, <2>1
  <2> QED
    BY <2>2
<1> DEFINE F == CHOOSE f : f = [k \in D |-> Body(f, k)]
<1>11. F = [k \in D |-> Body(F, k)]
  BY <1>10
<1>12. MergeNodes(succ, left, right) = MergeResult(F[K])
  BY DEF MergeNodes, D, Body, z, NodeTurn, MergeResult, Joined
<1> HIDE DEF F
<1>14. NodeMerges(list.comp, succ, left, right, K, F)
  BY <1>11 DEF D, Body, z, NodeMerges
<1>13. F \in [D -> R]
  <2> DEFINE Q == {k \in Nat : k \in D => F[k] \in R}
  <2>1. 0 \in Q
    BY <1>1, <1>11 DEF Body
  <2>2. ASSUME NEW k \in Q PROVE k + 1 \in Q
    <3> SUFFICES ASSUME k + 1 \in D PROVE F[k + 1] \in R
      OBVIOUS
    <3>1. k + 1 # 0 /\ (k + 1) - 1 = k /\ k \in D
      BY <1>0 DEF D
    <3>2. F[k + 1] = NodeTurn(list.comp, F[k])
      BY <1>11, <3>1 DEF Body
    <3> QED
      BY <1>2, <3>1, <3>2
  <2>3. Q = Nat
    <3> HIDE DEF Q
    <3>1. Q \subseteq Nat
      BY DEF Q
    <3> QED
      BY <2>1, <2>2, <3>1, NatInduced
  <2>4. \A k \in D : F[k] \in R
    BY <1>0, <2>3 DEF D
  <2> QED
    BY <1>11, <2>4
<1> QED
  BY <1>12, <1>13, <1>14 DEF D, R

-----------------------------------------------------------------------------
(* One half is taken *)

LEMMA LeftTaken ==
  ASSUME NEW S, NEW w, NEW n, NEW u, NEW half, Halved(w, n, half, u),
         NEW h, NEW i, NEW j, NEW f, MergeAt(S, w, n, half, u, h, i, j, f), i = half + 1
  PROVE  Sorts(S, w, n, u, f)
<1>1. /\ w \in [S -> Int] /\ n \in Nat /\ u \in [1 .. n -> S] /\ half \in Nat /\ half <= n
      /\ j \in half + 1 .. n + 1 /\ \A y \in j .. n : f[y] = u[y]
      /\ j <= n => \A x \in 1 .. i - 1 : w[u[x]] <= w[u[j]]
  BY DEF MergeAt
<1>2. PICK q : q = j - 1
  OBVIOUS
<1>3. q \in 0 .. n /\ half <= q /\ q + 1 = j
  BY <1>1, <1>2
<1>4. PICK C : C = 1 .. q
  OBVIOUS
<1>5. Taken(half, i, j) = C
  BY <1>1, <1>3, <1>4 DEF Taken
<1>6. Placed(S, w, n, u, C, q, f)
  <2>1. PICK p : p = i + j - half - 2 /\ Placed(S, w, n, u, Taken(half, i, j), p, f)
    BY DEF MergeAt
  <2>2. p = q
    BY <1>1, <1>2, <2>1
  <2> QED
    BY <1>5, <2>1, <2>2
<1>7. \A y \in q + 1 .. n : f[y] = u[y]
  BY <1>1, <1>3
<1>8. \A x \in 1 .. n : w[u[x]] \in Int
  BY <1>1
<1>9. ASSUME NEW x \in 1 .. n, NEW y \in q + 1 .. n, x < y PROVE w[u[x]] <= w[u[y]]
  <2>1. y \in 1 .. n /\ j \in 1 .. n /\ j <= y /\ half < j /\ j \in Int /\ y \in Int /\ x \in Int
    BY <1>1, <1>3
  <2>2. CASE half < x
    BY <1>9, <2>1, <2>2 DEF Halved
  <2>3. CASE ~(half < x)
    <3>1. x \in 1 .. i - 1
      BY <1>1, <2>3
    <3>2. w[u[x]] <= w[u[j]]
      BY <1>1, <2>1, <3>1
    <3>3. w[u[j]] <= w[u[y]]
      BY <1>8, <2>1 DEF Halved
    <3> QED
      BY <1>8, <2>1, <3>2, <3>3
  <2> QED
    BY <2>2, <2>3
<1> QED
  BY <1>4, <1>6, <1>7, <1>9, PlacedAll

\* f, and behind place h the entries of u that are d places further back
Completed(n, u, h, f, d) == [r \in 1 .. n |-> IF r <= h THEN f[r] ELSE u[r - d]]

LEMMA RightTaken ==
  ASSUME NEW S, NEW w, NEW n, NEW u, NEW half, Halved(w, n, half, u),
         NEW h, NEW i, NEW j, NEW f, MergeAt(S, w, n, half, u, h, i, j, f), i <= half, j = n + 1,
         NEW d, d = n - half, NEW g, g = Completed(n, u, h, f, d)
  PROVE  Sorts(S, w, n, u, g)
<1>1. /\ w \in [S -> Int] /\ n \in Nat /\ u \in [1 .. n -> S] /\ half \in Nat /\ half <= n
      /\ half >= 1 /\ i \in Nat /\ 1 <= i /\ f \in [1 .. n -> S] /\ h \in Nat /\ d \in Nat
      /\ \A y \in half + 1 .. j - 1 : w[u[y]] < w[u[i]]
  BY DEF MergeAt
<1>14. PICK C : C = Taken(half, i, j)
  OBVIOUS
<1>16. PICK q : /\ q = i + j - half - 2 /\ (i <= half => q = h) /\ Placed(S, w, n, u, C, q, f)
  BY <1>14 DEF MergeAt
<1>17. q = h
  BY <1>16
<1>2. h = i - 1 + d /\ Placed(S, w, n, u, C, h, f) /\ h <= n
  <2>1. h = i + j - half - 2
    BY <1>16, <1>17
  <2>2. h = i - 1 + d
    BY <1>1, <2>1
  <2>3. Placed(S, w, n, u, C, h, f)
    BY <1>16, <1>17
  <2>4. h <= n
    BY <1>1, <2>2
  <2> QED
    BY <2>2, <2>3, <2>4
<1>15. g = [r \in 1 .. n |-> IF r <= h THEN f[r] ELSE u[r - d]]
  BY DEF Completed
<1>3. PICK pos : PlacedAt(S, w, n, u, C, h, f, pos)
  BY <1>2 DEF Placed
<1>4. /\ pos \in [1 .. n -> Int] /\ \A x \in C : pos[x] \in 1 .. h /\ f[pos[x]] = u[x]
      /\ \A x, y \in C : Before(w, u, x, y) => pos[x] < pos[y]
  BY <1>3 DEF PlacedAt
<1>5. \A x \in 1 .. n : x \in C <=> x < i \/ half < x
  BY <1>1, <1>14 DEF Taken
<1>6. PICK p : p = [x \in 1 .. n |-> IF x \in C THEN pos[x] ELSE x + d]
  OBVIOUS
<1>7. ASSUME NEW x \in 1 .. n, x \in C PROVE p[x] = pos[x] /\ p[x] \in 1 .. h /\ p[x] \in 1 .. n /\ g[p[x]] = u[x]
  <2>1. p[x] = pos[x] /\ pos[x] \in 1 .. h /\ f[pos[x]] = u[x]
    BY <1>4, <1>6, <1>7
  <2>2. pos[x] \in 1 .. n /\ pos[x] <= h
    BY <1>1, <1>2, <2>1
  <2> QED
    BY <1>15, <2>1, <2>2
<1>8. ASSUME NEW x \in 1 .. n, x \notin C PROVE p[x] = x + d /\ p[x] > h /\ p[x] \in 1 .. n /\ g[p[x]] = u[x] /\ i <= x /\ x <= half
  <2>1. i <= x /\ x <= half /\ p[x] = x + d /\ x \in Nat
    BY <1>1, <1>5, <1>6, <1>8
  <2>2. PICK r : r = x + d
    OBVIOUS
  <2>3. r \in 1 .. n /\ r > h /\ ~(r <= h) /\ r - d = x
    BY <1>1, <1>2, <2>1, <2>2
  <2> QED
    BY <1>15, <2>1, <2>2, <2>3
<1>9. \A x \in 1 .. n : w[u[x]] \in Int
  BY <1>1
<1>10. ASSUME NEW x \in 1 .. n, NEW y \in 1 .. n, Before(w, u, x, y) PROVE p[x] < p[y]
  <2>1. CASE x \in C /\ y \in C
    BY <1>4, <1>7, <1>10, <2>1
  <2>2. CASE x \in C /\ y \notin C
    <3>1. p[x] \in 1 .. h
      BY <1>7, <2>2
    <3>2. p[y] > h /\ p[y] \in 1 .. n
      BY <1>8, <2>2
    <3>3. h \in Nat /\ n \in Nat
      BY <1>1
    <3> QED
      BY <3>1, <3>2, <3>3
  <2>3. CASE x \notin C /\ y \in C
    <3>1. i <= x /\ x <= half
      BY <1>8, <2>3
    <3>2. w[u[i]] <= w[u[x]]
      <4>1. i = x \/ i < x
        BY <1>1, <3>1
      <4>2. i \in 1 .. n
        BY <1>1
      <4>3. w[u[i]] \in Int /\ w[u[x]] \in Int
        BY <1>9, <4>2
      <4> QED
        BY <3>1, <4>1, <4>2, <4>3 DEF Halved
    <3>6. i \in 1 .. n
      BY <1>1
    <3>3. i \in 1 .. n /\ x \in Int /\ y \in Int /\ i <= half /\ w[u[i]] \in Int /\ w[u[x]] \in Int /\ w[u[y]] \in Int
      BY <1>9, <3>6
    <3>4. CASE half < y
      <4>1. w[u[y]] < w[u[i]]
        <5>1. y \in half + 1 .. j - 1
          BY <1>1, <3>4
        <5> QED
          BY <1>1, <5>1
      <4> QED
        BY <1>10, <3>2, <3>3, <4>1 DEF Before
    <3>5. CASE ~(half < y)
      <4>1. y < i
        BY <1>5, <2>3, <3>5
      <4>2. y < x
        BY <1>1, <3>1, <4>1
      <4>3. w[u[y]] <= w[u[x]]
        BY <1>1, <3>1, <4>2 DEF Halved
      <4> QED
        BY <1>10, <3>3, <4>2, <4>3 DEF Before
    <3> QED
      BY <3>4, <3>5
  <2>4. CASE x \notin C /\ y \notin C
    <3>1. p[x] = x + d /\ p[y] = y + d /\ x <= half /\ y <= half
      BY <1>8, <2>4
    <3>2. y < x => w[u[y]] <= w[u[x]]
      BY <3>1 DEF Halved
    <3>3. x < y
      BY <1>9, <1>10, <3>2 DEF Before
    <3> QED
      BY <1>1, <3>1, <3>3
  <2> QED
    BY <2>1, <2>2, <2>3, <2>4
<1>11. p \in [1 .. n -> 1 .. n] /\ \A x \in 1 .. n : g[p[x]] = u[x]
  BY <1>6, <1>7, <1>8
<1>12. g \in [1 .. n -> S]
  <2>1. ASSUME NEW r \in 1 .. n, ~(r <= h) PROVE r - d \in 1 .. n
    BY <1>1, <1>2, <2>1
  <2> QED
    BY <1>1, <1>15, <2>1
<1>13. SortsTo(S, w, n, u, g, p)
  BY <1>1, <1>10, <1>11 DEF SortsTo
<1> QED
  BY <1>12, <1>13 DEF Sorts

-----------------------------------------------------------------------------
(* The pointers while two chains become one *)

\* The node behind u[x] in its half
After(u, half, x) == IF x = half THEN NULL ELSE Nth(u, x + 1)

(* The nodes of u in the places C are chained as f[1], .., f[k] behind NULL, the others
   as they are in their halves; all other nodes are as in s. *)
Links(n, half, u, s, k, C, f, succ, tail) ==
  /\ n \in Nat /\ half \in 1 .. n /\ u \in [1 .. n -> ListNodes] /\ f \in [1 .. n -> ListNodes]
  /\ s \in [Pointers -> Pointers] /\ succ \in [Pointers -> Pointers]
  /\ C \subseteq 1 .. n /\ k \in 0 .. n /\ tail = Nth(f, k)
  /\ \A x, y \in 1 .. n : u[x] = u[y] => x = y
  /\ \A r \in 0 .. k - 1 : succ[Nth(f, r)] = f[r + 1]
  /\ \A r \in 1 .. k : \E x \in C : f[r] = u[x]
  /\ \A r, q \in 1 .. k : f[r] = f[q] => r = q
  /\ \A x \in (1 .. n) \ C : succ[u[x]] = After(u, half, x)
  /\ \A p \in ListNodes : (\A x \in 1 .. n : u[x] # p) => succ[p] = s[p]

And(C, z) == C \cup {z}

LEMMA LinksNext ==
  ASSUME NEW n, NEW half, NEW u, NEW s, NEW k, NEW C, NEW f, NEW succ, NEW tail,
         Links(n, half, u, s, k, C, f, succ, tail), NEW z \in (1 .. n) \ C, NEW l, l = k + 1, l <= n,
         NEW E, E = And(C, z), NEW g, g = [f EXCEPT ![l] = u[z]], NEW t, t = [succ EXCEPT ![tail] = u[z]]
  PROVE  Links(n, half, u, s, l, E, g, t, u[z])
<1>1. /\ n \in Nat /\ half \in 1 .. n /\ u \in [1 .. n -> ListNodes] /\ f \in [1 .. n -> ListNodes]
      /\ s \in [Pointers -> Pointers] /\ succ \in [Pointers -> Pointers]
      /\ C \subseteq 1 .. n /\ k \in Nat /\ k <= n /\ tail = Nth(f, k)
      /\ \A x, y \in 1 .. n : u[x] = u[y] => x = y
      /\ \A r \in 0 .. k - 1 : succ[Nth(f, r)] = f[r + 1]
      /\ \A r \in 1 .. k : \E x \in C : f[r] = u[x]
      /\ \A r, q \in 1 .. k : f[r] = f[q] => r = q
      /\ \A x \in (1 .. n) \ C : succ[u[x]] = After(u, half, x)
      /\ \A p \in ListNodes : (\A x \in 1 .. n : u[x] # p) => succ[p] = s[p]
  BY DEF Links
<1>2. /\ z \in 1 .. n /\ u[z] \in ListNodes /\ NULL \notin ListNodes /\ u[z] # NULL /\ u[z] \in Pointers
  BY <1>1, ListAssumption DEF Pointers
<1>16. E = C \cup {z}
  BY DEF And
<1>3. k = 0 \/ k \in 1 .. k
  BY <1>1
<1>4. tail \in Pointers /\ (k = 0 => tail = NULL) /\ (k # 0 => tail = f[k] /\ \E x \in C : tail = u[x])
  <2>1. CASE k = 0
    BY <1>1, <2>1 DEF Nth, Pointers
  <2>2. CASE k # 0
    <3>1. k \in 1 .. n /\ k \in 1 .. k
      BY <1>1, <2>2
    <3> QED
      BY <1>1, <2>2, <3>1 DEF Nth, Pointers
  <2> QED
    BY <2>1, <2>2
<1>5. l \in 1 .. n /\ l \in 0 .. n /\ l \in Nat /\ l # k
  BY <1>1
<1>6. g \in [1 .. n -> ListNodes] /\ t \in [Pointers -> Pointers] /\ E \subseteq 1 .. n /\ g[l] = u[z]
      /\ \A r \in 1 .. k : r \in 1 .. n /\ g[r] = f[r]
  BY <1>1, <1>2, <1>4, <1>5, <1>16
<1>7. \A p \in Pointers : t[p] = IF p = tail THEN u[z] ELSE succ[p]
  BY <1>1, <1>4
<1>8. u[z] = Nth(g, l)
  BY <1>5, <1>6 DEF Nth
<1>9. \A r \in 1 .. k : f[r] # u[z] /\ f[r] # NULL /\ f[r] \in Pointers
  <2> SUFFICES ASSUME NEW r \in 1 .. k PROVE f[r] # u[z] /\ f[r] # NULL /\ f[r] \in Pointers
    OBVIOUS
  <2>1. PICK x \in C : f[r] = u[x]
    BY <1>1
  <2>2. x \in 1 .. n /\ x # z /\ u[x] \in ListNodes
    BY <1>1
  <2> QED
    BY <1>1, <1>2, <2>1, <2>2 DEF Pointers
<1>10. ASSUME NEW r \in 0 .. l - 1 PROVE t[Nth(g, r)] = g[r + 1]
  <2>1. CASE r = k
    <3>1. Nth(g, r) = tail
      <4>1. CASE k = 0
        BY <1>4, <1>6, <2>1, <4>1 DEF Nth
      <4>2. CASE k # 0
        <5>1. k \in 1 .. k /\ k \in 1 .. n
          BY <1>1, <4>2
        <5> QED
          BY <1>4, <1>6, <2>1, <4>2, <5>1 DEF Nth
      <4> QED
        BY <4>1, <4>2
    <3> QED
      BY <1>4, <1>6, <1>7, <2>1, <3>1
  <2>2. CASE r # k
    <3>1. r \in 0 .. k - 1 /\ r + 1 \in 1 .. k /\ (r = 0 \/ r \in 1 .. k) /\ k # 0 /\ k \in 1 .. k
      BY <1>1, <2>2
    <3>2. Nth(g, r) = Nth(f, r)
      <4>1. CASE r = 0
        BY <1>1, <1>6, <4>1 DEF Nth
      <4>2. CASE r \in 1 .. k
        BY <1>1, <1>6, <4>2 DEF Nth
      <4> QED
        BY <3>1, <4>1, <4>2
    <3>3. Nth(f, r) # tail /\ Nth(f, r) \in Pointers
      <4>1. CASE r = 0
        BY <1>1, <1>4, <1>9, <3>1, <4>1 DEF Nth, Pointers
      <4>2. CASE r \in 1 .. k
        <5>1. Nth(f, r) = f[r]
          BY <1>1, <1>6, <4>2 DEF Nth
        <5>2. f[r] # f[k]
          BY <1>1, <2>2, <3>1, <4>2
        <5> QED
          BY <1>4, <1>9, <3>1, <4>2, <5>1, <5>2
      <4> QED
        BY <3>1, <4>1, <4>2
    <3>4. succ[Nth(f, r)] = f[r + 1] /\ g[r + 1] = f[r + 1]
      BY <1>1, <1>6, <3>1
    <3> QED
      BY <1>7, <3>2, <3>3, <3>4
  <2> QED
    BY <2>1, <2>2
<1>11. \A r \in 1 .. l : r \in 1 .. k \/ r = l
  BY <1>1
<1>12. \A r \in 1 .. l : \E x \in E : g[r] = u[x]
  BY <1>1, <1>6, <1>11, <1>16
<1>13. ASSUME NEW r \in 1 .. l, NEW q \in 1 .. l, g[r] = g[q] PROVE r = q
  BY <1>1, <1>6, <1>9, <1>11, <1>13
<1>14. ASSUME NEW x \in (1 .. n) \ E PROVE t[u[x]] = After(u, half, x)
  <2>1. u[x] # tail /\ u[x] \in Pointers
    BY <1>1, <1>2, <1>3, <1>4, <1>14, <1>16 DEF Pointers
  <2> QED
    BY <1>1, <1>7, <1>16, <2>1
<1>15. ASSUME NEW p \in ListNodes, \A x \in 1 .. n : u[x] # p PROVE t[p] = s[p]
  <2>1. p # tail /\ p \in Pointers
    BY <1>1, <1>2, <1>3, <1>4, <1>15 DEF Pointers
  <2> QED
    BY <1>1, <1>7, <1>15, <2>1
<1> QED
  BY <1>1, <1>5, <1>6, <1>8, <1>10, <1>12, <1>13, <1>14, <1>15 DEF Links

Apart(n, u) == /\ n \in Nat /\ u \in [1 .. n -> ListNodes]
               /\ \A x, y \in 1 .. n : u[x] = u[y] => x = y

LEMMA SortedNodes ==
  ASSUME NEW n, NEW u, Apart(n, u),
         NEW w, NEW g, Sorts(ListNodes, w, n, u, g)
  PROVE  g \in Seq(ListNodes) /\ Len(g) = n /\ DOMAIN g = 1 .. n /\ Distinct(g) /\ Nodes(g) = Nodes(u)
<1>1. g \in [1 .. n -> ListNodes]
  BY DEF Sorts
<1>2. PICK pos : SortsTo(ListNodes, w, n, u, g, pos)
  BY DEF Sorts
<1>3. pos \in [1 .. n -> 1 .. n] /\ \A x \in 1 .. n : g[pos[x]] = u[x]
  BY <1>2 DEF SortsTo
<1>4. ASSUME NEW r \in 1 .. n PROVE \E x \in 1 .. n : pos[x] = r
  BY <1>2, SortsOnto
<1>10. n \in Nat /\ u \in [1 .. n -> ListNodes] /\ \A x, y \in 1 .. n : u[x] = u[y] => x = y
  BY DEF Apart
<1>5. ASSUME NEW r \in 1 .. n, NEW q \in 1 .. n, g[r] = g[q] PROVE r = q
  <2>1. PICK x \in 1 .. n : pos[x] = r
    BY <1>4
  <2>2. PICK y \in 1 .. n : pos[y] = q
    BY <1>4
  <2>3. u[x] = g[r] /\ u[y] = g[q]
    BY <1>3, <2>1, <2>2
  <2>4. x = y
    BY <1>5, <1>10, <2>3
  <2> QED
    BY <2>1, <2>2, <2>4
<1>6. g \in Seq(ListNodes) /\ Len(g) = n /\ DOMAIN g = 1 .. n /\ DOMAIN u = 1 .. n
  BY <1>1, <1>10
<1>7. ASSUME NEW r \in 1 .. n PROVE g[r] \in Nodes(u)
  <2>1. PICK x \in 1 .. n : pos[x] = r
    BY <1>4
  <2> QED
    BY <1>3, <1>6, <2>1 DEF Nodes
<1>8. ASSUME NEW x \in 1 .. n PROVE u[x] \in Nodes(g)
  BY <1>3, <1>6 DEF Nodes
<1>9. Nodes(g) = Nodes(u)
  BY <1>6, <1>7, <1>8 DEF Nodes
<1> QED
  BY <1>5, <1>6, <1>9 DEF Distinct

(* The nodes of u are sorted into the chain g, and no other node is touched. *)
MergedChain(w, n, u, s, g, to, first) ==
  /\ Sorts(ListNodes, w, n, u, g) /\ g \in Seq(ListNodes) /\ Len(g) = n /\ Nodes(g) = Nodes(u)
  /\ to \in [Pointers -> Pointers] /\ ChainOf(to, first, g)
  /\ \A p \in ListNodes \ Nodes(u) : to[p] = s[p]

\* g begins as f, and behind place k are the rest of u, d places further back.
Follows(n, half, u, k, C, f, g, d) ==
  /\ d \in Int /\ \A r \in 1 .. k : g[r] = f[r]
  /\ \A r \in k + 1 .. n : /\ r - d \in (1 .. n) \ C /\ g[r] = u[r - d]
                           /\ After(u, half, r - d) = Nth(g, r + 1)

LEMMA LinksJoined ==
  ASSUME NEW n, NEW half, NEW u, NEW s, NEW k, NEW C, NEW f, NEW succ, NEW tail,
         Links(n, half, u, s, k, C, f, succ, tail), NEW w, NEW g, Sorts(ListNodes, w, n, u, g),
         NEW d, Follows(n, half, u, k, C, f, g, d), NEW rest, rest = Nth(g, k + 1),
         NEW to, to = [succ EXCEPT ![tail] = rest], NEW first, first = to[NULL]
  PROVE  MergedChain(w, n, u, s, g, to, first)
<1>1. /\ n \in Nat /\ u \in [1 .. n -> ListNodes] /\ f \in [1 .. n -> ListNodes]
      /\ succ \in [Pointers -> Pointers] /\ DOMAIN f = 1 .. n /\ DOMAIN u = 1 .. n
      /\ C \subseteq 1 .. n /\ k \in Nat /\ k <= n /\ tail = Nth(f, k)
      /\ \A x, y \in 1 .. n : u[x] = u[y] => x = y
      /\ \A r \in 0 .. k - 1 : succ[Nth(f, r)] = f[r + 1]
      /\ \A r \in 1 .. k : \E x \in C : f[r] = u[x]
      /\ \A x \in (1 .. n) \ C : succ[u[x]] = After(u, half, x)
      /\ \A p \in ListNodes : (\A x \in 1 .. n : u[x] # p) => succ[p] = s[p]
      /\ \A r \in 1 .. k : g[r] = f[r]
  BY DEF Links, Follows
<1>2. /\ g \in Seq(ListNodes) /\ Len(g) = n /\ DOMAIN g = 1 .. n /\ Distinct(g) /\ Nodes(g) = Nodes(u)
      /\ \A r, q \in 1 .. n : g[r] = g[q] => r = q
  <2>1. g \in Seq(ListNodes) /\ Len(g) = n /\ DOMAIN g = 1 .. n /\ Distinct(g) /\ Nodes(g) = Nodes(u)
    <3>1. Apart(n, u)
      BY <1>1 DEF Apart
    <3> QED
      BY <3>1, SortedNodes
  <2> QED
    BY <2>1 DEF Distinct
<1>3. \A r \in 1 .. n : g[r] \in ListNodes /\ g[r] # NULL /\ g[r] \in Pointers
  BY <1>2, ListAssumption DEF Pointers
<1>13. tail = Nth(g, k) /\ tail \in Pointers
  <2>1. CASE k = 0
    BY <1>1, <1>2, <2>1 DEF Nth, Pointers
  <2>2. CASE k # 0
    <3>1. k \in 1 .. k /\ k \in 1 .. n
      BY <1>1, <2>2
    <3> QED
      BY <1>1, <1>2, <1>3, <3>1 DEF Nth
  <2> QED
    BY <2>1, <2>2
<1>4. Nth(g, k + 1) \in Pointers /\ NULL \in Pointers
  BY <1>2, NthType DEF Pointers
<1>5. to \in [Pointers -> Pointers] /\ \A p \in Pointers : to[p] = IF p = tail THEN Nth(g, k + 1) ELSE succ[p]
  BY <1>1, <1>4, <1>13
<1>6. \A r \in 0 .. n : Nth(g, r) \in Pointers
  BY <1>2, NthType
<1>7. ASSUME NEW r \in 0 .. n PROVE to[Nth(g, r)] = Nth(g, r + 1)
  <2>1. CASE r = k
    BY <1>4, <1>5, <1>6, <1>13, <2>1
  <2>2. CASE r # k
    <3>1. Nth(g, r) # tail
      <4>1. Nth(g, r) = IF r = 0 THEN NULL ELSE g[r]
        BY <1>2 DEF Nth
      <4>2. tail = IF k = 0 THEN NULL ELSE g[k]
        BY <1>1, <1>2, <1>13 DEF Nth
      <4>3. r # 0 => r \in 1 .. n
        OBVIOUS
      <4>4. k # 0 => k \in 1 .. n
        BY <1>1
      <4> QED
        BY <1>2, <1>3, <2>2, <4>1, <4>2, <4>3, <4>4
    <3>2. to[Nth(g, r)] = succ[Nth(g, r)]
      BY <1>5, <1>6, <3>1
    <3>3. CASE r < k
      <4>1. r \in 0 .. k - 1 /\ r + 1 \in 1 .. k /\ r + 1 \in 1 .. n /\ (r = 0 \/ (r \in 1 .. k /\ r \in 1 .. n))
        BY <1>1, <3>3
      <4>2. Nth(g, r) = Nth(f, r)
        <5>1. CASE r = 0
          BY <1>1, <1>2, <5>1 DEF Nth
        <5>2. CASE r \in 1 .. k /\ r \in 1 .. n
          BY <1>1, <1>2, <5>2 DEF Nth
        <5> QED
          BY <4>1, <5>1, <5>2
      <4>4. g[r + 1] = f[r + 1]
        BY <1>1, <4>1
      <4>3. Nth(g, r + 1) = f[r + 1]
        BY <1>2, <4>1, <4>4 DEF Nth
      <4> QED
        BY <1>1, <3>2, <4>1, <4>2, <4>3
    <3>4. CASE r > k
      <4>1. r \in k + 1 .. n /\ r \in 1 .. n
        BY <1>1, <3>4
      <4>2. r - d \in (1 .. n) \ C /\ g[r] = u[r - d] /\ After(u, half, r - d) = Nth(g, r + 1)
        BY <4>1 DEF Follows
      <4>3. Nth(g, r) = u[r - d]
        BY <1>2, <4>1, <4>2 DEF Nth
      <4> QED
        BY <1>1, <3>2, <4>2, <4>3
    <3> QED
      BY <1>1, <2>2, <3>3, <3>4
  <2> QED
    BY <2>1, <2>2
<1>8. first = Nth(g, 1)
  <2>1. 0 \in 0 .. n /\ 0 + 1 = 1
    BY <1>1
  <2>2. Nth(g, 0) = NULL
    BY <1>2 DEF Nth
  <2>3. to[Nth(g, 0)] = Nth(g, 0 + 1)
    BY <1>7, <2>1
  <2> QED
    BY <2>1, <2>2, <2>3
<1>9. \A r \in DOMAIN g : to[g[r]] = Nth(g, r + 1)
  <2> SUFFICES ASSUME NEW r \in 1 .. n PROVE to[g[r]] = Nth(g, r + 1)
    BY <1>2
  <2>1. r \in 0 .. n /\ Nth(g, r) = g[r]
    BY <1>2 DEF Nth
  <2> QED
    BY <1>7, <2>1
<1>10. ASSUME NEW p \in ListNodes \ Nodes(u) PROVE to[p] = s[p]
  <2>1. \A x \in 1 .. n : u[x] # p
    BY <1>1 DEF Nodes
  <2>2. p # tail
    <3>1. p # NULL
      BY ListAssumption
    <3>2. \A r \in 1 .. n : g[r] # p
      BY <1>2, <1>10 DEF Nodes
    <3> QED
      BY <1>2, <1>13, <3>1, <3>2 DEF Nth
  <2>3. p \in Pointers
    BY DEF Pointers
  <2> QED
    BY <1>1, <1>5, <2>1, <2>2, <2>3
<1> QED
  BY <1>2, <1>5, <1>8, <1>9, <1>10 DEF MergedChain, ChainOf

(* The state m of the loop, when k nodes are in the chain and i and j are the next ones *)
TurnIs(w, n, half, u, s, m, k, i, j, f) ==
  /\ MergeAt(ListNodes, w, n, half, u, k, i, j, f) /\ k = i + j - half - 2
  /\ Links(n, half, u, s, k, Taken(half, i, j), f, m.succ, m.tail)
  /\ m.x = (IF i <= half THEN u[i] ELSE NULL) /\ m.y = Nth(u, j)

TurnAt(w, n, half, u, s, t, m) ==
  \E k, i, j, f : TurnIs(w, n, half, u, s, m, k, i, j, f) /\ (i <= half /\ j <= n => k = t)

\* The compare function orders the nodes of u as their weights do.
NodesWeigh(order, w, n, u) ==
  \A x, y \in 1 .. n : Compare(order, node[u[x]].data, node[u[y]].data) < 0 <=> w[u[x]] < w[u[y]]

LEMMA NodeTurnSound ==
  ASSUME NEW order, NEW w, NEW n, NEW half, NEW u, Halved(w, n, half, u), NodesWeigh(order, w, n, u), NEW s, half < n,
         NEW m \in TurnStates, NEW k, NEW i, NEW j, NEW f, TurnIs(w, n, half, u, s, m, k, i, j, f),
         NEW t, i <= half /\ j <= n => k = t, NEW l, l = t + 1, NEW c, c = NodeTurn(order, m)
  PROVE  TurnAt(w, n, half, u, s, l, c)
<1>1. /\ n \in Nat /\ half \in Nat /\ half >= 1 /\ half <= n /\ i \in 1 .. half + 1 /\ j \in half + 1 .. n + 1
      /\ u \in [1 .. n -> ListNodes] /\ w \in [ListNodes -> Int]
      /\ MergeAt(ListNodes, w, n, half, u, k, i, j, f)
  BY DEF TurnIs, MergeAt
<1>2. /\ k = i + j - half - 2 /\ m.x = (IF i <= half THEN u[i] ELSE NULL) /\ m.y = Nth(u, j)
      /\ Links(n, half, u, s, k, Taken(half, i, j), f, m.succ, m.tail)
  BY DEF TurnIs
<1>11. \A x \in (1 .. n) \ Taken(half, i, j) : m.succ[u[x]] = After(u, half, x)
  BY <1>2 DEF Links
<1>3. /\ \A x \in (1 .. n) \ Taken(half, i, j) : m.succ[u[x]] = After(u, half, x)
      /\ \A x \in 1 .. n : u[x] # NULL
  BY <1>1, <1>11, ListAssumption
<1>4. m.x = NULL <=> ~(i <= half)
  BY <1>1, <1>2, <1>3
<1>5. m.y = NULL <=> ~(j <= n)
  BY <1>1, <1>2, <1>3 DEF Nth
<1>6. CASE ~(i <= half /\ j <= n)
  <2>1. c = m
    BY <1>4, <1>5, <1>6 DEF NodeTurn
  <2> QED
    BY <1>6, <2>1 DEF TurnAt
<1>7. ASSUME i <= half, j <= n PROVE /\ i \in 1 .. n /\ j \in 1 .. n /\ l \in Int /\ l = k + 1 /\ l <= n
                                     /\ m.x = u[i] /\ m.y = u[j]
                                     /\ i \notin Taken(half, i, j) /\ j \notin Taken(half, i, j)
                                     /\ (Compare(order, node[m.y].data, node[m.x].data) < 0 <=> w[u[j]] < w[u[i]])
                                     /\ w[u[i]] \in Int /\ w[u[j]] \in Int
  <2>1. i \in 1 .. n /\ j \in 1 .. n /\ l \in Int /\ l = k + 1 /\ l <= n
    BY <1>1, <1>2, <1>7
  <2>2. m.x = u[i] /\ m.y = u[j]
    BY <1>1, <1>2, <1>7, <2>1 DEF Nth
  <2>3. i \notin Taken(half, i, j) /\ j \notin Taken(half, i, j)
    BY <1>1, <1>7 DEF Taken
  <2>4. Compare(order, node[m.y].data, node[m.x].data) < 0 <=> w[u[j]] < w[u[i]]
    BY <2>1, <2>2 DEF NodesWeigh
  <2> QED
    BY <1>1, <2>1, <2>2, <2>3, <2>4
<1>8. m = [succ |-> m.succ, x |-> m.x, y |-> m.y, tail |-> m.tail]
  BY DEF TurnStates
<1>9. CASE i <= half /\ j <= n /\ w[u[j]] < w[u[i]]
  <2>1. /\ i \in 1 .. n /\ j \in 1 .. n /\ l = k + 1 /\ l <= n /\ m.x = u[i] /\ m.y = u[j]
        /\ j \notin Taken(half, i, j) /\ Compare(order, node[m.y].data, node[m.x].data) < 0
    BY <1>7, <1>9
  <2>2. PICK to : to = [m.succ EXCEPT ![m.tail] = u[j]]
    OBVIOUS
  <2>3. PICK g : g = [f EXCEPT ![l] = u[j]]
    OBVIOUS
  <2>4. PICK q : q = j + 1
    OBVIOUS
  <2>5. c = [succ |-> to, x |-> u[i], y |-> m.succ[u[j]], tail |-> u[j]]
    <3>1. c = [m EXCEPT !.succ[m.tail] = m.y, !.y = m.succ[m.y], !.tail = m.y]
      BY <1>4, <1>5, <1>9, <2>1 DEF NodeTurn
    <3> QED
      BY <1>8, <2>1, <2>2, <3>1
  <2>6. m.succ[u[j]] = Nth(u, q)
    <3>1. m.succ[u[j]] = After(u, half, j) /\ j # half
      BY <1>1, <1>3, <2>1
    <3> QED
      BY <2>4, <3>1 DEF After
  <2>7. MergeAt(ListNodes, w, n, half, u, l, i, q, g)
    BY <1>1, <1>9, <2>1, <2>3, <2>4, MergeRight
  <2>8. Taken(half, i, q) = And(Taken(half, i, j), j)
    <3>1. \A x \in Nat : x < q <=> (x < j \/ x = j)
      BY <1>1, <2>4
    <3>2. j \in Nat /\ half < j
      BY <1>1
    <3> QED
      BY <3>1, <3>2 DEF Taken, And
  <2>9. Links(n, half, u, s, l, Taken(half, i, q), g, to, u[j])
    <3>1. PICK C : C = Taken(half, i, j)
      OBVIOUS
    <3>2. PICK E : E = Taken(half, i, q)
      OBVIOUS
    <3>3. PICK succ, tail : succ = m.succ /\ tail = m.tail
      OBVIOUS
    <3>4. j \in (1 .. n) \ C /\ l = k + 1 /\ l <= n
      BY <2>1, <3>1
    <3>5. Links(n, half, u, s, k, C, f, succ, tail)
      BY <1>2, <3>1, <3>3
    <3>6. E = And(C, j)
      BY <2>8, <3>1, <3>2
    <3>7. to = [succ EXCEPT ![tail] = u[j]]
      BY <2>2, <3>3
    <3>8. Links(n, half, u, s, l, E, g, to, u[j])
      BY <2>3, <3>4, <3>5, <3>6, <3>7, LinksNext
    <3> QED
      BY <3>2, <3>8
  <2>10. l = i + q - half - 2
    <3>1. k = i + j - half - 2
      BY <1>2
    <3>2. i \in Int /\ j \in Int /\ half \in Int /\ l = k + 1
      BY <1>1, <2>1
    <3> QED
      BY <2>4, <3>1, <3>2
  <2>11. TurnIs(w, n, half, u, s, c, l, i, q, g)
    BY <1>9, <2>5, <2>6, <2>7, <2>9, <2>10 DEF TurnIs
  <2> QED
    BY <2>11 DEF TurnAt
<1>10. CASE i <= half /\ j <= n /\ ~(w[u[j]] < w[u[i]])
  <2>1. /\ i \in 1 .. n /\ j \in 1 .. n /\ l = k + 1 /\ l <= n /\ m.x = u[i] /\ m.y = u[j]
        /\ i \notin Taken(half, i, j) /\ ~(Compare(order, node[m.y].data, node[m.x].data) < 0)
        /\ w[u[i]] <= w[u[j]]
    BY <1>7, <1>10
  <2>2. PICK to : to = [m.succ EXCEPT ![m.tail] = u[i]]
    OBVIOUS
  <2>3. PICK g : g = [f EXCEPT ![l] = u[i]]
    OBVIOUS
  <2>4. PICK q : q = i + 1
    OBVIOUS
  <2>5. c = [succ |-> to, x |-> m.succ[u[i]], y |-> m.y, tail |-> u[i]]
    <3>1. c = [m EXCEPT !.succ[m.tail] = m.x, !.x = m.succ[m.x], !.tail = m.x]
      BY <1>4, <1>5, <1>10, <2>1 DEF NodeTurn
    <3> QED
      BY <1>8, <2>1, <2>2, <3>1
  <2>6. m.succ[u[i]] = IF q <= half THEN u[q] ELSE NULL
    <3>1. m.succ[u[i]] = After(u, half, i) /\ (i = half <=> ~(q <= half))
      BY <1>1, <1>3, <1>10, <2>1, <2>4
    <3>2. q \in 1 .. n
      BY <1>1, <1>10, <2>4
    <3> QED
      BY <1>1, <2>4, <3>1, <3>2 DEF After, Nth
  <2>7. MergeAt(ListNodes, w, n, half, u, l, q, j, g)
    BY <1>1, <1>10, <2>1, <2>3, <2>4, MergeLeft
  <2>8. Taken(half, q, j) = And(Taken(half, i, j), i)
    <3>1. \A x \in Nat : x < q <=> (x < i \/ x = i)
      BY <1>1, <2>4
    <3>2. i \in Nat /\ 1 <= i
      BY <1>1
    <3> QED
      BY <3>1, <3>2 DEF Taken, And
  <2>9. Links(n, half, u, s, l, Taken(half, q, j), g, to, u[i])
    <3>1. PICK C : C = Taken(half, i, j)
      OBVIOUS
    <3>2. PICK E : E = Taken(half, q, j)
      OBVIOUS
    <3>3. PICK succ, tail : succ = m.succ /\ tail = m.tail
      OBVIOUS
    <3>4. i \in (1 .. n) \ C /\ l = k + 1 /\ l <= n
      BY <2>1, <3>1
    <3>5. Links(n, half, u, s, k, C, f, succ, tail)
      BY <1>2, <3>1, <3>3
    <3>6. E = And(C, i)
      BY <2>8, <3>1, <3>2
    <3>7. to = [succ EXCEPT ![tail] = u[i]]
      BY <2>2, <3>3
    <3>8. Links(n, half, u, s, l, E, g, to, u[i])
      BY <2>3, <3>4, <3>5, <3>6, <3>7, LinksNext
    <3> QED
      BY <3>2, <3>8
  <2>10. l = q + j - half - 2
    <3>1. k = i + j - half - 2
      BY <1>2
    <3>2. i \in Int /\ j \in Int /\ half \in Int /\ l = k + 1
      BY <1>1, <2>1
    <3> QED
      BY <2>4, <3>1, <3>2
  <2>11. TurnIs(w, n, half, u, s, c, l, q, j, g)
    BY <1>2, <2>5, <2>6, <2>7, <2>9, <2>10 DEF TurnIs
  <2> QED
    BY <2>11 DEF TurnAt
<1> QED
  BY <1>6, <1>9, <1>10

LEMMA TurnEnds ==
  ASSUME NEW w, NEW n, NEW half, NEW u, Halved(w, n, half, u), NEW s, half < n,
         NEW m \in TurnStates, NEW t, NEW K \in Nat, t = K, n <= K, TurnAt(w, n, half, u, s, t, m)
  PROVE  \E g : MergedChain(w, n, u, s, g, Joined(m), Joined(m)[NULL])
<1>1. PICK k, i, j, f : TurnIs(w, n, half, u, s, m, k, i, j, f) /\ (i <= half /\ j <= n => k = t)
  BY DEF TurnAt
<1>2. /\ n \in Nat /\ half \in Nat /\ half >= 1 /\ half <= n /\ i \in 1 .. half + 1 /\ j \in half + 1 .. n + 1
      /\ u \in [1 .. n -> ListNodes] /\ f \in [1 .. n -> ListNodes] /\ k \in 0 .. n
      /\ MergeAt(ListNodes, w, n, half, u, k, i, j, f)
      /\ \A y \in j .. n : f[y] = u[y]
  BY <1>1 DEF TurnIs, MergeAt
<1>3. /\ k = i + j - half - 2 /\ m.x = (IF i <= half THEN u[i] ELSE NULL) /\ m.y = Nth(u, j)
      /\ Links(n, half, u, s, k, Taken(half, i, j), f, m.succ, m.tail)
  BY <1>1 DEF TurnIs
<1>4. \A x \in 1 .. n : u[x] # NULL
  BY <1>2, ListAssumption
<1>5. i = half + 1 \/ (i <= half /\ j = n + 1)
  BY <1>1, <1>2, <1>3
<1>6. PICK rest : rest = IF m.x # NULL THEN m.x ELSE m.y
  OBVIOUS
<1>7. Joined(m) = [m.succ EXCEPT ![m.tail] = rest]
  BY <1>6 DEF Joined
<1>8. CASE i = half + 1
  <2>1. Sorts(ListNodes, w, n, u, f)
    BY <1>2, <1>8, LeftTaken
  <2>2. k = j - 1 /\ k + 1 = j
    BY <1>2, <1>3, <1>8
  <2>3. rest = Nth(f, k + 1)
    <3>1. m.x = NULL
      BY <1>2, <1>3, <1>8
    <3>2. Nth(u, j) = Nth(f, j)
      BY <1>2 DEF Nth
    <3> QED
      BY <1>3, <1>6, <2>2, <3>1, <3>2
  <2>4. Follows(n, half, u, k, Taken(half, i, j), f, f, 0)
    <3> SUFFICES ASSUME NEW r \in k + 1 .. n
                 PROVE  /\ r - 0 \in (1 .. n) \ Taken(half, i, j) /\ f[r] = u[r - 0]
                        /\ After(u, half, r - 0) = Nth(f, r + 1)
      BY DEF Follows
    <3>1. r \in j .. n /\ r \in 1 .. n /\ r - 0 = r /\ r # half /\ r \notin Taken(half, i, j) /\ f[r] = u[r]
      BY <1>2, <1>8, <2>2 DEF Taken
    <3>2. r + 1 \in DOMAIN u <=> r + 1 \in j .. n
      BY <1>2, <3>1
    <3>3. DOMAIN u = DOMAIN f
      BY <1>2
    <3>4. Nth(u, r + 1) = Nth(f, r + 1)
      BY <1>2, <3>2, <3>3 DEF Nth
    <3> QED
      BY <3>1, <3>4 DEF After
  <2>5. PICK to : to = Joined(m)
    OBVIOUS
  <2>6. PICK first : first = to[NULL]
    OBVIOUS
  <2>8. MergedChain(w, n, u, s, f, to, first)
    <3>1. PICK C : C = Taken(half, i, j)
      OBVIOUS
    <3>3. PICK succ, tail : succ = m.succ /\ tail = m.tail
      OBVIOUS
    <3>4. Links(n, half, u, s, k, C, f, succ, tail)
      BY <1>3, <3>1, <3>3
    <3>5. Follows(n, half, u, k, C, f, f, 0)
      BY <2>4, <3>1
    <3>6. to = [succ EXCEPT ![tail] = rest]
      BY <1>7, <2>5, <3>3
    <3> QED
      BY <2>1, <2>3, <2>6, <3>4, <3>5, <3>6, LinksJoined
  <2> QED
    BY <2>5, <2>6, <2>8
<1>9. CASE i <= half /\ j = n + 1
  <2>1. PICK d : d = n - half
    OBVIOUS
  <2>2. PICK g : g = Completed(n, u, k, f, d)
    OBVIOUS
  <2>3. Sorts(ListNodes, w, n, u, g)
    BY <1>2, <1>9, <2>1, <2>2, RightTaken
  <2>4. k = i - 1 + d /\ d \in Nat /\ k \in Nat /\ k <= n
    BY <1>2, <1>3, <1>9, <2>1
  <2>5. \A r \in k + 1 .. n : r \in 1 .. n /\ r - d \in 1 .. n /\ g[r] = u[r - d]
    BY <1>2, <1>9, <2>1, <2>2, <2>4 DEF Completed
  <2>6. \A r \in 1 .. k : g[r] = f[r]
    BY <1>2, <2>2, <2>4 DEF Completed
  <2>12. DOMAIN g = 1 .. n
    BY <2>2 DEF Completed
  <2>7. rest = Nth(g, k + 1)
    <3>1. k + 1 \in k + 1 .. n /\ (k + 1) - d = i /\ k + 1 \in 1 .. n
      BY <1>2, <1>9, <2>1, <2>4
    <3>2. g[k + 1] = u[i]
      BY <2>5, <3>1
    <3>3. Nth(g, k + 1) = g[k + 1]
      BY <2>12, <3>1 DEF Nth
    <3>4. m.x = u[i] /\ i \in 1 .. n
      BY <1>2, <1>3, <1>9
    <3> QED
      BY <1>4, <1>6, <3>2, <3>3, <3>4
  <2>8. Follows(n, half, u, k, Taken(half, i, j), f, g, d)
    <3> SUFFICES ASSUME NEW r \in k + 1 .. n
                 PROVE  /\ r - d \in (1 .. n) \ Taken(half, i, j) /\ g[r] = u[r - d]
                        /\ After(u, half, r - d) = Nth(g, r + 1)
      BY <2>4, <2>6 DEF Follows
    <3>1. r - d \in 1 .. n /\ g[r] = u[r - d] /\ i <= r - d /\ r - d <= half
      BY <1>2, <2>1, <2>4, <2>5
    <3>2. r - d \notin Taken(half, i, j)
      BY <1>2, <3>1 DEF Taken
    <3>3. CASE r = n
      <4>1. r - d = half /\ n + 1 \notin DOMAIN g
        BY <1>2, <2>1, <2>12, <3>3
      <4> QED
        BY <3>1, <3>2, <3>3, <4>1 DEF After, Nth
    <3>4. CASE r # n
      <4>1. r - d # half /\ r + 1 \in k + 1 .. n /\ (r + 1) - d = (r - d) + 1 /\ r + 1 \in 1 .. n /\ (r - d) + 1 \in 1 .. n
        BY <1>2, <2>1, <2>4, <3>1, <3>4
      <4>2. g[r + 1] = u[(r - d) + 1]
        BY <2>5, <4>1
      <4>3. Nth(g, r + 1) = g[r + 1] /\ Nth(u, (r - d) + 1) = u[(r - d) + 1]
        BY <1>2, <2>12, <4>1 DEF Nth
      <4> QED
        BY <3>1, <3>2, <4>1, <4>2, <4>3 DEF After
    <3> QED
      BY <3>3, <3>4
  <2>9. PICK to : to = Joined(m)
    OBVIOUS
  <2>10. PICK first : first = to[NULL]
    OBVIOUS
  <2>11. MergedChain(w, n, u, s, g, to, first)
    <3>1. PICK C : C = Taken(half, i, j)
      OBVIOUS
    <3>3. PICK succ, tail : succ = m.succ /\ tail = m.tail
      OBVIOUS
    <3>4. Links(n, half, u, s, k, C, f, succ, tail)
      BY <1>3, <3>1, <3>3
    <3>5. Follows(n, half, u, k, C, f, g, d)
      BY <2>8, <3>1
    <3>6. to = [succ EXCEPT ![tail] = rest]
      BY <1>7, <2>9, <3>3
    <3> QED
      BY <2>3, <2>7, <2>10, <3>4, <3>5, <3>6, LinksJoined
  <2> QED
    BY <2>9, <2>10, <2>11
<1> QED
  BY <1>5, <1>8, <1>9

LEMMA HalvedWhenSorted ==
  ASSUME NEW w, NEW n, NEW half, NEW m, NEW l, NEW r, NEW u, InHalves(u, n, half, l, m, r),
         SortedBy(w, half, l), SortedBy(w, m, r)
  PROVE  Halved(w, n, half, u)
<1>1. n \in Nat /\ half \in Nat /\ half <= n /\ m \in Nat /\ n = half + m
  BY DEF InHalves
<1>2. (\A x \in 1 .. half : l[x] = u[x]) /\ \A x \in 1 .. m : r[x] = u[half + x]
  BY DEF InHalves
<1>3. ASSUME NEW x \in 1 .. n, NEW y \in 1 .. n, x < y, y <= half PROVE w[u[x]] <= w[u[y]]
  <2>1. x \in 1 .. half /\ y \in 1 .. half
    BY <1>1, <1>3
  <2>2. w[l[x]] <= w[l[y]]
    BY <1>3, <2>1 DEF SortedBy
  <2> QED
    BY <1>2, <2>1, <2>2
<1>4. ASSUME NEW x \in 1 .. n, NEW y \in 1 .. n, half < x, x < y PROVE w[u[x]] <= w[u[y]]
  <2>1. PICK i, j : i = x - half /\ j = y - half
    OBVIOUS
  <2>2. i \in 1 .. m /\ j \in 1 .. m /\ i < j /\ x = half + i /\ y = half + j
    BY <1>1, <1>4, <2>1
  <2>3. w[r[i]] <= w[r[j]]
    BY <2>2 DEF SortedBy
  <2>4. r[i] = u[x] /\ r[j] = u[y]
    BY <1>2, <2>2
  <2> QED
    BY <2>3, <2>4
<1> QED
  BY <1>3, <1>4 DEF Halved

LEMMA MergeStart ==
  ASSUME NEW S, NEW w \in [S -> Int], NEW n \in Nat, NEW u \in [1 .. n -> S], NEW half \in 1 .. n,
         NEW j, j = half + 1
  PROVE  MergeAt(S, w, n, half, u, 0, 1, j, u)
<1>1. half \in Nat /\ half <= n /\ 1 \in 1 .. half + 1 /\ j \in half + 1 .. n + 1 /\ 0 \in 0 .. n
  OBVIOUS
<1>2. PlacedAt(S, w, n, u, {}, 0, u, [x \in 1 .. n |-> 0])
  BY DEF PlacedAt
<1>3. Placed(S, w, n, u, {}, 0, u)
  BY <1>2 DEF Placed
<1>4. Taken(half, 1, j) = {}
  BY <1>1 DEF Taken
<1>5. 0 = 1 + j - half - 2
  BY <1>1
<1>6. \E q : /\ q = 1 + j - half - 2 /\ q <= 0 /\ (1 <= half => q = 0)
             /\ Placed(S, w, n, u, Taken(half, 1, j), q, u)
  <2>1. Placed(S, w, n, u, Taken(half, 1, j), 0, u)
    BY <1>3, <1>4
  <2> QED
    BY <1>5, <2>1
<1>7. (half + 1 .. j - 1) = {} /\ (1 .. 1 - 1) = {}
  BY <1>1
<1> QED
  BY <1>1, <1>6, <1>7 DEF MergeAt

(* Two chains of their own *)
TwoChains(s, l, left, r, right) ==
  /\ s \in [Pointers -> Pointers] /\ ChainOf(s, left, l) /\ ChainOf(s, right, r)
  /\ Nodes(l) \cap Nodes(r) = {}

\* Their nodes in a row, u
ChainsMeet(s, n, half, u, left, right, both) ==
  /\ Apart(n, u) /\ n <= Cardinality(ListNodes) /\ Links(n, half, u, s, 0, {}, u, s, NULL)
  /\ left = u[1] /\ right = u[half + 1] /\ Nodes(u) = both

Parted(n, half, l, m, r) == Parts(ListNodes, n, half, l, m, r) /\ half >= 1 /\ m >= 1

LEMMA ChainsJoined ==
  ASSUME NEW s, NEW l, NEW left, NEW r, NEW right, TwoChains(s, l, left, r, right),
         NEW n, NEW half, NEW m, Parted(n, half, l, m, r), NEW u, u = l \o r
  PROVE  ChainsMeet(s, n, half, u, left, right, Nodes(l) \cup Nodes(r))
<1>1. /\ n \in Nat /\ half \in Nat /\ half <= n /\ m \in Nat /\ n = half + m
      /\ Len(l) = half /\ Len(r) = m /\ DOMAIN l = 1 .. half /\ DOMAIN r = 1 .. m
      /\ s \in [Pointers -> Pointers] /\ half \in 1 .. n /\ half >= 1 /\ m >= 1
      /\ l \in Seq(ListNodes) /\ r \in Seq(ListNodes)
  BY DEF Parts, Parted, TwoChains
<1>2. u \in [1 .. n -> ListNodes] /\ InHalves(u, n, half, l, m, r)
  BY JoinedHalves DEF Parted
<1>3. (\A x \in 1 .. half : l[x] = u[x]) /\ \A x \in 1 .. m : r[x] = u[half + x]
  BY <1>2 DEF InHalves
<1>14. DOMAIN u = 1 .. n
  BY <1>2
<1>4. /\ left = Nth(l, 1) /\ right = Nth(r, 1)
      /\ \A x \in 1 .. half : s[l[x]] = Nth(l, x + 1)
      /\ \A x \in 1 .. m : s[r[x]] = Nth(r, x + 1)
      /\ \A x, y \in 1 .. half : l[x] = l[y] => x = y
      /\ \A x, y \in 1 .. m : r[x] = r[y] => x = y
  BY <1>1 DEF TwoChains, ChainOf, Distinct
<1>5. ASSUME NEW x \in 1 .. n PROVE (x \in 1 .. half /\ u[x] = l[x])
                                    \/ \E i \in 1 .. m : x = half + i /\ u[x] = r[i]
  <2>1. CASE x <= half
    BY <1>1, <1>3, <2>1
  <2>2. CASE x > half
    <3>1. x - half \in 1 .. m /\ x = half + (x - half)
      BY <1>1, <2>2
    <3> QED
      BY <1>3, <3>1
  <2> QED
    BY <1>1, <2>1, <2>2
<1>6. \A x \in 1 .. half, i \in 1 .. m : l[x] # r[i]
  BY <1>1 DEF TwoChains, Nodes
<1>7. ASSUME NEW x \in 1 .. n, NEW y \in 1 .. n, u[x] = u[y] PROVE x = y
  <2>1. CASE x \in 1 .. half /\ u[x] = l[x]
    <3>1. CASE y \in 1 .. half /\ u[y] = l[y]
      BY <1>4, <1>7, <2>1, <3>1
    <3>2. CASE \E j \in 1 .. m : y = half + j /\ u[y] = r[j]
      BY <1>6, <1>7, <2>1, <3>2
    <3> QED
      BY <1>5, <3>1, <3>2
  <2>2. CASE \E i \in 1 .. m : x = half + i /\ u[x] = r[i]
    <3>1. CASE y \in 1 .. half /\ u[y] = l[y]
      BY <1>6, <1>7, <2>2, <3>1
    <3>2. CASE \E j \in 1 .. m : y = half + j /\ u[y] = r[j]
      <4>1. PICK i \in 1 .. m : x = half + i /\ u[x] = r[i]
        BY <2>2
      <4>2. PICK j \in 1 .. m : y = half + j /\ u[y] = r[j]
        BY <3>2
      <4>3. i = j
        BY <1>4, <1>7, <4>1, <4>2
      <4> QED
        BY <4>1, <4>2, <4>3
    <3> QED
      BY <1>5, <3>1, <3>2
  <2> QED
    BY <1>5, <2>1, <2>2
<1>8. Apart(n, u)
  BY <1>1, <1>2, <1>7 DEF Apart
<1>9. ASSUME NEW x \in 1 .. n PROVE s[u[x]] = After(u, half, x)
  <2>1. CASE x \in 1 .. half /\ u[x] = l[x]
    <3>1. s[u[x]] = Nth(l, x + 1)
      BY <1>4, <2>1
    <3>2. CASE x = half
      <4>1. x + 1 \notin DOMAIN l
        BY <1>1, <3>2
      <4> QED
        BY <3>1, <3>2, <4>1 DEF Nth, After
    <3>3. CASE x # half
      <4>1. x + 1 \in 1 .. half /\ x + 1 \in 1 .. n
        BY <1>1, <2>1, <3>3
      <4>2. l[x + 1] = u[x + 1]
        BY <1>3, <4>1
      <4> QED
        BY <1>1, <1>14, <3>1, <3>3, <4>1, <4>2 DEF Nth, After
    <3> QED
      BY <3>2, <3>3
  <2>2. ASSUME NEW i \in 1 .. m, x = half + i, u[x] = r[i] PROVE s[u[x]] = After(u, half, x)
    <3>1. s[u[x]] = Nth(r, i + 1)
      BY <1>4, <2>2
    <3>2. x # half /\ (i + 1 \in 1 .. m <=> x + 1 \in 1 .. n) /\ half + (i + 1) = x + 1
      <4>1. i \in Nat /\ i >= 1 /\ m \in Nat /\ half \in Nat /\ n = half + m /\ x = half + i
        BY <1>1, <2>2
      <4> QED
        BY <4>1
    <3>3. i + 1 \in 1 .. m => r[i + 1] = u[x + 1]
      BY <1>3, <3>2
    <3> QED
      BY <1>1, <1>14, <3>1, <3>2, <3>3 DEF Nth, After
  <2> QED
    BY <1>5, <2>1, <2>2
<1>10. Links(n, half, u, s, 0, {}, u, s, NULL)
  <2>1. NULL = Nth(u, 0) /\ 0 \in 0 .. n /\ (0 .. 0 - 1) = {} /\ (1 .. 0) = {}
    BY <1>1, <1>14 DEF Nth
  <2> QED
    BY <1>1, <1>2, <1>7, <1>9, <2>1 DEF Links
<1>11. left = u[1] /\ right = u[half + 1]
  <2>1. 1 \in 1 .. half /\ 1 \in 1 .. m
    BY <1>1
  <2> QED
    BY <1>1, <1>3, <1>4, <2>1 DEF Nth
<1>12. n <= Cardinality(ListNodes)
  <2>1. u \in Seq(ListNodes) /\ Len(u) = n
    <3>1. l \in Seq(ListNodes) /\ r \in Seq(ListNodes)
      BY <1>1
    <3>2. u \in Seq(ListNodes) /\ Len(u) = Len(l) + Len(r)
      BY <3>1
    <3> QED
      BY <1>1, <3>2
  <2>2. Distinct(u)
    BY <1>7, <1>14, <2>1 DEF Distinct
  <2> QED
    BY <2>1, <2>2, DistinctCount
<1>13. Nodes(u) = Nodes(l) \cup Nodes(r)
  <2>1. ASSUME NEW x \in 1 .. n PROVE u[x] \in Nodes(l) \cup Nodes(r)
    BY <1>1, <1>5 DEF Nodes
  <2>2. ASSUME NEW x \in 1 .. half PROVE l[x] \in Nodes(u)
    <3>1. x \in 1 .. n
      BY <1>1
    <3> QED
      BY <1>3, <1>14, <3>1 DEF Nodes
  <2>3. ASSUME NEW x \in 1 .. m PROVE r[x] \in Nodes(u)
    <3>1. half + x \in 1 .. n
      BY <1>1
    <3> QED
      BY <1>3, <1>14, <3>1 DEF Nodes
  <2>4. \A p : p \in Nodes(u) <=> \E x \in 1 .. n : p = u[x]
    BY <1>14 DEF Nodes
  <2>5. \A p : p \in Nodes(l) \cup Nodes(r) <=> (\E x \in 1 .. half : p = l[x]) \/ \E x \in 1 .. m : p = r[x]
    BY <1>1 DEF Nodes
  <2> QED
    BY <2>1, <2>2, <2>3, <2>4, <2>5
<1> QED
  BY <1>8, <1>10, <1>11, <1>12, <1>13 DEF ChainsMeet

LEMMA NodesMergedSound ==
  ASSUME NEW w \in [ListNodes -> Int],
         NEW s, NEW l, NEW left, NEW r, NEW right, TwoChains(s, l, left, r, right),
         NEW n, NEW half, NEW m, Parted(n, half, l, m, r), NEW u, u = l \o r,
         SortedBy(w, half, l), SortedBy(w, m, r), NodesWeigh(list.comp, w, n, u),
         NEW res, res = MergeNodes(s, left, right)
  PROVE  \E g : MergedChain(w, n, u, s, g, res.succ, res.first)
<1>1. /\ n \in Nat /\ half \in Nat /\ half < n /\ m \in Nat /\ n = half + m /\ half \in 1 .. n
      /\ s \in [Pointers -> Pointers]
  BY DEF Parts, Parted, TwoChains
<1>2. u \in [1 .. n -> ListNodes] /\ InHalves(u, n, half, l, m, r)
  BY JoinedHalves DEF Parted
<1>3. Halved(w, n, half, u)
  BY <1>2, HalvedWhenSorted
<1>4. /\ Apart(n, u) /\ n <= Cardinality(ListNodes) /\ Links(n, half, u, s, 0, {}, u, s, NULL)
      /\ left = u[1] /\ right = u[half + 1]
  <2>1. ChainsMeet(s, n, half, u, left, right, Nodes(l) \cup Nodes(r))
    BY ChainsJoined
  <2> QED
    BY <2>1 DEF ChainsMeet
<1>5. left \in Pointers /\ right \in Pointers
  <2>1. Distinct(l) /\ Distinct(r) /\ left = Nth(l, 1) /\ right = Nth(r, 1)
    BY DEF TwoChains, ChainOf
  <2> QED
    BY <2>1, NthType
<1>6. PICK K : K = Cardinality(ListNodes)
  OBVIOUS
<1>7. K \in Nat /\ n <= K
  BY <1>4, <1>6, FS_CardinalityType, ListAssumption
<1>8. PICK M : /\ MergeNodes(s, left, right) = MergeResult(M[K])
               /\ NodeMerges(list.comp, s, left, right, K, M)
               /\ M \in [0 .. K -> TurnStates]
  BY <1>1, <1>5, <1>6, NodesMerged
<1>9. PICK order : order = list.comp
  OBVIOUS
<1>10. M = [k \in 0 .. K |-> IF k = 0 THEN [succ |-> s, x |-> left, y |-> right, tail |-> NULL]
                             ELSE NodeTurn(order, M[k - 1])]
  BY <1>8, <1>9 DEF NodeMerges
<1> DEFINE T == {t \in Nat : t <= K => TurnAt(w, n, half, u, s, t, M[t])}
<1>11. 0 \in T
  <2>1. PICK c : c = M[0]
    OBVIOUS
  <2>2. c = [succ |-> s, x |-> left, y |-> right, tail |-> NULL]
    BY <1>7, <1>10, <2>1
  <2>3. c.succ = s /\ c.x = left /\ c.y = right /\ c.tail = NULL
    BY <2>2
  <2>4. PICK j : j = half + 1
    OBVIOUS
  <2>5. MergeAt(ListNodes, w, n, half, u, 0, 1, j, u)
    BY <1>1, <1>2, <2>4, MergeStart
  <2>6. Taken(half, 1, j) = {} /\ 0 = 1 + j - half - 2 /\ j \in 1 .. n /\ 1 <= half
    BY <1>1, <2>4 DEF Taken
  <2>7. Links(n, half, u, s, 0, Taken(half, 1, j), u, c.succ, c.tail)
    BY <1>4, <2>3, <2>6
  <2>8. Nth(u, j) = u[half + 1]
    BY <1>2, <2>4, <2>6 DEF Nth
  <2>9. TurnIs(w, n, half, u, s, c, 0, 1, j, u)
    BY <1>4, <2>3, <2>5, <2>6, <2>7, <2>8 DEF TurnIs
  <2>10. TurnAt(w, n, half, u, s, 0, c)
    BY <2>9 DEF TurnAt
  <2> QED
    BY <2>1, <2>10
<1>12. ASSUME NEW t \in T PROVE t + 1 \in T
  <2> SUFFICES ASSUME t + 1 <= K PROVE TurnAt(w, n, half, u, s, t + 1, M[t + 1])
    OBVIOUS
  <2>1. PICK q : q = t + 1
    OBVIOUS
  <2>2. t \in Nat /\ t <= K /\ q \in 0 .. K /\ q # 0 /\ q - 1 = t /\ t \in 0 .. K
    BY <1>7, <2>1
  <2>3. TurnAt(w, n, half, u, s, t, M[t])
    BY <2>2
  <2> HIDE DEF T
  <2>4. PICK a : a = M[t]
    OBVIOUS
  <2>5. PICK c : c = M[q]
    OBVIOUS
  <2>6. a \in TurnStates
    BY <1>8, <2>2, <2>4
  <2>7. c = NodeTurn(order, a)
    BY <1>10, <2>2, <2>4, <2>5
  <2>8. PICK k, i, j, f : TurnIs(w, n, half, u, s, a, k, i, j, f) /\ (i <= half /\ j <= n => k = t)
    BY <2>3, <2>4 DEF TurnAt
  <2>9. NodesWeigh(order, w, n, u)
    BY <1>9
  <2>10. TurnAt(w, n, half, u, s, q, c)
    BY <1>1, <1>3, <2>1, <2>6, <2>7, <2>8, <2>9, NodeTurnSound
  <2> QED
    BY <2>1, <2>5, <2>10
<1> HIDE DEF T
<1>13. T = Nat
  <2>1. T \subseteq Nat
    BY DEF T
  <2> QED
    BY <1>11, <1>12, <2>1, NatInduced
<1>14. PICK end : end = M[K]
  OBVIOUS
<1>15. TurnAt(w, n, half, u, s, K, end) /\ end \in TurnStates
  <2>1. K \in T /\ K <= K /\ K \in 0 .. K
    BY <1>7, <1>13
  <2> QED
    BY <1>8, <1>14, <2>1 DEF T
<1>16. \E g : MergedChain(w, n, u, s, g, Joined(end), Joined(end)[NULL])
  BY <1>1, <1>3, <1>7, <1>15, TurnEnds
<1>17. res = [succ |-> Joined(end), first |-> Joined(end)[NULL]]
  BY <1>8, <1>14 DEF MergeResult
<1>18. res.succ = Joined(end) /\ res.first = Joined(end)[NULL]
  BY <1>17
<1> QED
  BY <1>16, <1>18

-----------------------------------------------------------------------------
(* The recursion of msort_nodes *)

SortCalls == [Pointers -> Pointers] \X Pointers \X Nat
SortAnswers == [succ : [Pointers -> Pointers], first : Pointers]

\* The last node of the first half, and the calls for the halves
Mid(a) == Steps(a[2], a[1])[a[3] \div 2 - 1]
LeftCall(a) == <<[a[1] EXCEPT ![Mid(a)] = NULL], a[2], a[3] \div 2>>
RightCall(a, left) == <<left.succ, a[1][Mid(a)], a[3] - a[3] \div 2>>

NodeSort(g, a) ==
  IF a[3] < 2 THEN [succ |-> a[1], first |-> a[2]]
  ELSE MergeNodes(g[RightCall(a, g[LeftCall(a)])].succ, g[LeftCall(a)].first,
                  g[RightCall(a, g[LeftCall(a)])].first)

LEMMA MergeNodesType ==
  ASSUME NEW s \in [Pointers -> Pointers], NEW left \in Pointers, NEW right \in Pointers
  PROVE  MergeNodes(s, left, right) \in SortAnswers
<1>1. PICK K : K = Cardinality(ListNodes)
  OBVIOUS
<1>2. PICK M : MergeNodes(s, left, right) = MergeResult(M[K]) /\ M \in [0 .. K -> TurnStates]
  BY <1>1, NodesMerged
<1>3. K \in 0 .. K
  BY <1>1, FS_CardinalityType, ListAssumption
<1>4. PICK m : m = M[K]
  OBVIOUS
<1>5. /\ m \in TurnStates /\ m.succ \in [Pointers -> Pointers] /\ m.x \in Pointers /\ m.y \in Pointers
      /\ m.tail \in Pointers /\ NULL \in Pointers
  BY <1>2, <1>3, <1>4 DEF TurnStates, Pointers
<1>6. Joined(m) \in [Pointers -> Pointers]
  BY <1>5 DEF Joined
<1>7. Joined(m)[NULL] \in Pointers
  BY <1>5, <1>6
<1> QED
  BY <1>2, <1>4, <1>6, <1>7 DEF MergeResult, SortAnswers

LEMMA SortCallsTyped ==
  ASSUME NEW a \in SortCalls, ~(a[3] < 2)
  PROVE  /\ Mid(a) \in Pointers /\ LeftCall(a) \in SortCalls /\ LeftCall(a)[3] < a[3]
         /\ \A left \in SortAnswers : RightCall(a, left) \in SortCalls /\ RightCall(a, left)[3] < a[3]
<1>1. a[1] \in [Pointers -> Pointers] /\ a[2] \in Pointers /\ a[3] \in Nat
  BY DEF SortCalls
<1>2. PICK half : half = a[3] \div 2
  OBVIOUS
<1>3. half \in Nat /\ half >= 1 /\ half < a[3] /\ half - 1 \in Nat /\ a[3] - half \in Nat /\ a[3] - half < a[3]
  BY <1>1, <1>2
<1>4. Steps(a[2], a[1]) \in [Nat -> Pointers]
  BY <1>1, StepsWalk DEF Walks
<1>5. Mid(a) \in Pointers
  BY <1>2, <1>3, <1>4 DEF Mid
<1>6. NULL \in Pointers
  BY DEF Pointers
<1>7. LeftCall(a) \in SortCalls /\ LeftCall(a)[3] < a[3]
  <2>1. LeftCall(a) = <<[a[1] EXCEPT ![Mid(a)] = NULL], a[2], half>>
    BY <1>2 DEF LeftCall
  <2>2. [a[1] EXCEPT ![Mid(a)] = NULL] \in [Pointers -> Pointers]
    BY <1>1, <1>6
  <2> QED
    BY <1>1, <1>3, <2>1, <2>2 DEF SortCalls
<1>8. ASSUME NEW left \in SortAnswers PROVE RightCall(a, left) \in SortCalls /\ RightCall(a, left)[3] < a[3]
  <2>1. RightCall(a, left) = <<left.succ, a[1][Mid(a)], a[3] - half>>
    BY <1>2 DEF RightCall
  <2>2. left.succ \in [Pointers -> Pointers] /\ a[1][Mid(a)] \in Pointers
    BY <1>1, <1>5 DEF SortAnswers
  <2> QED
    BY <1>3, <2>1, <2>2 DEF SortCalls
<1> QED
  BY <1>5, <1>7, <1>8

LEMMA NodeSortType ==
  ASSUME NEW a \in SortCalls, NEW g, NEW left, left = g[LeftCall(a)],
         ~(a[3] < 2) => left \in SortAnswers /\ g[RightCall(a, left)] \in SortAnswers
  PROVE  NodeSort(g, a) \in SortAnswers
<1>1. CASE a[3] < 2
  BY <1>1 DEF NodeSort, SortCalls, SortAnswers
<1>2. CASE ~(a[3] < 2)
  <2>1. PICK right : right = g[RightCall(a, left)]
    OBVIOUS
  <2>2. NodeSort(g, a) = MergeNodes(right.succ, left.first, right.first)
    BY <1>2, <2>1 DEF NodeSort
  <2>3. right.succ \in [Pointers -> Pointers] /\ left.first \in Pointers /\ right.first \in Pointers
    BY <1>2, <2>1 DEF SortAnswers
  <2> QED
    BY <2>2, <2>3, MergeNodesType
<1> QED
  BY <1>1, <1>2

(* The function that MSortNodes applies *)
NodeSorter(F) == /\ F \in [SortCalls -> SortAnswers]
                 /\ \A a \in SortCalls : F[a] = NodeSort(F, a)

LEMMA MSortSteps ==
  ASSUME NEW first, NEW len
  PROVE  \E F : NodeSorter(F) /\ MSortNodes(first, len) = F[<<Succ, first, len>>]
<1> DEFINE D == SortCalls
           R == SortAnswers
           m == [a \in D |-> a[3]]
           B == [g \in [D -> R] |-> [a \in D |-> NodeSort(g, a)]]
<1>1. m \in [D -> Nat] /\ \A a \in D : m[a] = a[3]
  BY DEF SortCalls
<1>2. \E x : x \in R
  <2>1. NULL \in Pointers
    BY DEF Pointers
  <2>2. [succ |-> [p \in Pointers |-> NULL], first |-> NULL] \in R
    BY <2>1 DEF SortAnswers
  <2> QED
    BY <2>2
<1> HIDE DEF m
<1>3. ASSUME NEW a \in D, ~(a[3] < 2) PROVE /\ LeftCall(a) \in D /\ m[LeftCall(a)] < m[a]
                                           /\ \A left \in R : RightCall(a, left) \in D /\ m[RightCall(a, left)] < m[a]
  BY <1>1, <1>3, SortCallsTyped
<1>4. ASSUME NEW g \in [D -> R], NEW a \in D PROVE NodeSort(g, a) \in R
  <2>1. PICK left : left = g[LeftCall(a)]
    OBVIOUS
  <2>2. ~(a[3] < 2) => left \in R /\ g[RightCall(a, left)] \in R
    BY <1>3, <2>1
  <2> QED
    BY <2>1, <2>2, NodeSortType
<1>5. ASSUME NEW g \in [D -> R], NEW f \in [D -> R], NEW a \in D,
             \A b \in D : m[b] < m[a] => g[b] = f[b]
      PROVE  NodeSort(g, a) = NodeSort(f, a)
  <2>1. CASE a[3] < 2
    BY <2>1 DEF NodeSort
  <2>2. CASE ~(a[3] < 2)
    <3>1. g[LeftCall(a)] = f[LeftCall(a)] /\ g[LeftCall(a)] \in R
      BY <1>3, <1>5, <2>2
    <3>2. PICK b : b = RightCall(a, g[LeftCall(a)])
      OBVIOUS
    <3>3. g[b] = f[b]
      BY <1>3, <1>5, <2>2, <3>1, <3>2
    <3> QED
      BY <2>2, <3>1, <3>2, <3>3 DEF NodeSort
  <2> QED
    BY <2>1, <2>2
<1> HIDE DEF D, R
<1>6. \A g \in [D -> R], a \in D : B[g][a] = NodeSort(g, a)
  OBVIOUS
<1> HIDE DEF B
<1>7. Founded(D, R, m, B)
  <2>1. \A g \in [D -> R], a \in D : B[g][a] \in R
    BY <1>4, <1>6
  <2>2. \A g, f \in [D -> R], a \in D :
          (\A b \in D : m[b] < m[a] => g[b] = f[b]) => B[g][a] = B[f][a]
    BY <1>5, <1>6
  <2> QED
    BY <1>1, <1>2, <2>1, <2>2 DEF Founded
<1>8. \E f : f = [a \in D |-> NodeSort(f, a)]
  <2>1. PICK f \in [D -> R] : \A a \in D : f[a] = B[f][a]
    BY <1>7, Recursion
  <2>2. f = [a \in D |-> NodeSort(f, a)]
    BY <1>6, <2>1
  <2> QED
    BY <2>2
<1> DEFINE F == CHOOSE f : f = [a \in D |-> NodeSort(f, a)]
<1>9. F = [a \in D |-> NodeSort(F, a)]
  BY <1>8
<1>10. MSortNodes(first, len) = F[<<Succ, first, len>>]
  BY DEF MSortNodes, D, SortCalls, NodeSort, LeftCall, RightCall, Mid
<1> HIDE DEF F
<1>11. F \in [D -> R]
  <2> DEFINE S == {a \in D : F[a] \in R}
  <2>1. ASSUME NEW a \in D, \A b \in D : m[b] < m[a] => b \in S PROVE a \in S
    <3>1. PICK left : left = F[LeftCall(a)]
      OBVIOUS
    <3>2. ~(a[3] < 2) => left \in R
      BY <1>3, <2>1, <3>1
    <3>3. ~(a[3] < 2) => F[RightCall(a, left)] \in R
      BY <1>3, <2>1, <3>2
    <3>4. NodeSort(F, a) \in R
      BY <3>1, <3>2, <3>3, NodeSortType DEF D, R
    <3> QED
      BY <1>9, <3>4
  <2> HIDE DEF S
  <2>2. D \subseteq S
    BY <1>1, <2>1, MeasureInduced
  <2> QED
    BY <1>9, <2>2 DEF S
<1>12. NodeSorter(F)
  BY <1>9, <1>11 DEF NodeSorter, D, R
<1> QED
  BY <1>10, <1>12

-----------------------------------------------------------------------------
(* Sorting a chain *)

LEMMA ChainKept ==
  ASSUME NEW s, NEW first, NEW c, ChainOf(s, first, c), NEW t, \A p \in Nodes(c) : t[p] = s[p]
  PROVE  ChainOf(t, first, c)
BY DEF ChainOf, Nodes

(* A walk that starts at the first node meets the nodes of the chain in turn. *)
LEMMA ChainWalked ==
  ASSUME NEW n, NEW to, NEW c, ChainOf(to, n, c), NEW f, Walks(f, n, to)
  PROVE  \A i \in Nat : i + 1 \in DOMAIN c => f[i] = c[i + 1]
<1> DEFINE Q == {i \in Nat : i + 1 \in DOMAIN c => f[i] = c[i + 1]}
<1>3. Len(c) \in Nat /\ DOMAIN c = 1 .. Len(c)
  BY DEF ChainOf, Distinct
<1>1. 0 \in Q
  BY DEF ChainOf, Walks, Nth
<1>2. ASSUME NEW i \in Q PROVE i + 1 \in Q
  <2> SUFFICES ASSUME (i + 1) + 1 \in DOMAIN c PROVE f[i + 1] = c[(i + 1) + 1]
    OBVIOUS
  <2>1. i + 1 \in DOMAIN c
    BY <1>3
  <2>2. f[i + 1] = to[f[i]] /\ f[i] = c[i + 1]
    BY <2>1 DEF Walks
  <2>3. to[c[i + 1]] = Nth(c, (i + 1) + 1)
    BY <2>1 DEF ChainOf
  <2> QED
    BY <2>2, <2>3 DEF Nth
<1> HIDE DEF Q
<1> QED
  BY <1>1, <1>2, NatInduced DEF Q

(* What is left of a chain that is cut behind its first half *)
CutAt(s, first, c, l, r, mid, t) ==
  /\ c \in Seq(ListNodes) /\ Len(c) = Len(l) + Len(r)
  /\ mid \in Nodes(l) /\ mid \in ListNodes /\ t \in [Pointers -> Pointers]
  /\ ChainOf(t, first, l) /\ ChainOf(s, s[mid], r) /\ ChainOf(t, s[mid], r)
  /\ Nodes(l) \cap Nodes(r) = {} /\ Nodes(c) = Nodes(l) \cup Nodes(r)
  /\ \A p \in ListNodes \ Nodes(l) : t[p] = s[p]

LEMMA ChainCut ==
  ASSUME NEW s \in [Pointers -> Pointers], NEW first, NEW c, ChainOf(s, first, c),
         NEW n, NEW half, NEW m, NEW l, NEW r, Parted(n, half, l, m, r), InHalves(c, n, half, l, m, r),
         Len(c) = n, NEW mid, mid = c[half], NEW t, t = [s EXCEPT ![mid] = NULL]
  PROVE  CutAt(s, first, c, l, r, mid, t)
<1>1. /\ n \in Nat /\ half \in Nat /\ half <= n /\ m \in Nat /\ n = half + m
      /\ Len(l) = half /\ Len(r) = m /\ DOMAIN l = 1 .. half /\ DOMAIN r = 1 .. m
      /\ half \in 1 .. n /\ half >= 1 /\ m >= 1
      /\ l \in Seq(ListNodes) /\ r \in Seq(ListNodes)
  BY DEF Parts, Parted
<1>2. (\A x \in 1 .. half : l[x] = c[x]) /\ \A x \in 1 .. m : r[x] = c[half + x]
  BY DEF InHalves
<1>3. /\ c \in Seq(ListNodes) /\ DOMAIN c = 1 .. n /\ first = Nth(c, 1)
      /\ \A x \in 1 .. n : c[x] \in ListNodes
      /\ \A x \in 1 .. n : s[c[x]] = Nth(c, x + 1)
      /\ \A x, y \in 1 .. n : c[x] = c[y] => x = y
  <2>1. c \in Seq(ListNodes) /\ DOMAIN c = 1 .. n
    BY DEF ChainOf, Distinct
  <2>2. \A x \in 1 .. n : c[x] \in ListNodes
    BY <2>1
  <2> QED
    BY <2>1, <2>2 DEF ChainOf, Distinct
<1>4. mid \in ListNodes /\ mid \in Pointers /\ NULL \in Pointers
  BY <1>1, <1>3 DEF Pointers
<1>5. t \in [Pointers -> Pointers] /\ t[mid] = NULL /\ \A p \in ListNodes : p # mid => t[p] = s[p]
  BY <1>4 DEF Pointers
<1>6. \A x \in 1 .. half : x \in 1 .. n
  BY <1>1
<1>7. \A x \in 1 .. m : half + x \in 1 .. n /\ half + x # half
  BY <1>1
<1>8. Distinct(l)
  BY <1>1, <1>2, <1>3, <1>6 DEF Distinct
<1>9. Distinct(r)
  <2>1. ASSUME NEW x \in 1 .. m, NEW y \in 1 .. m, r[x] = r[y] PROVE x = y
    <3>1. half + x = half + y
      BY <1>2, <1>3, <1>7, <2>1
    <3> QED
      BY <1>1, <3>1
  <2> QED
    BY <1>1, <2>1 DEF Distinct
<1>10. mid = l[half] /\ half \in 1 .. half
  BY <1>1, <1>2
<1>11. ASSUME NEW x \in 1 .. half PROVE t[l[x]] = Nth(l, x + 1)
  <2>1. l[x] = c[x] /\ x \in 1 .. n /\ c[x] \in ListNodes
    BY <1>2, <1>3, <1>6
  <2>2. CASE x = half
    <3>1. x + 1 \notin DOMAIN l
      BY <1>1, <2>2
    <3> QED
      BY <1>5, <1>10, <2>2, <3>1 DEF Nth
  <2>3. CASE x # half
    <3>1. x + 1 \in 1 .. half /\ x + 1 \in 1 .. n
      BY <1>1, <2>3
    <3>2. c[x] # mid
      BY <1>1, <1>3, <2>1, <2>3
    <3>3. s[c[x]] = c[x + 1]
      BY <1>3, <2>1, <3>1 DEF Nth
    <3>4. Nth(l, x + 1) = l[x + 1]
      BY <1>1, <3>1 DEF Nth
    <3> QED
      BY <1>2, <1>5, <2>1, <3>1, <3>2, <3>3, <3>4
  <2> QED
    BY <2>2, <2>3
<1>12. first = Nth(l, 1)
  <2>1. 1 \in 1 .. half /\ 1 \in 1 .. n
    BY <1>1
  <2> QED
    BY <1>1, <1>2, <1>3, <2>1 DEF Nth
<1>13. ChainOf(t, first, l)
  BY <1>1, <1>8, <1>11, <1>12 DEF ChainOf
<1>14. s[mid] = Nth(r, 1)
  <2>1. 1 \in 1 .. m /\ half + 1 \in 1 .. n
    BY <1>1
  <2>2. s[mid] = c[half + 1]
    BY <1>1, <1>3, <2>1 DEF Nth
  <2> QED
    BY <1>1, <1>2, <2>1, <2>2 DEF Nth
<1>15. ASSUME NEW x \in 1 .. m PROVE s[r[x]] = Nth(r, x + 1)
  <2>1. r[x] = c[half + x] /\ half + x \in 1 .. n
    BY <1>2, <1>7
  <2>2. s[c[half + x]] = Nth(c, (half + x) + 1)
    BY <1>3, <2>1
  <2>3. (half + x) + 1 \in 1 .. n <=> x + 1 \in 1 .. m
    BY <1>1
  <2>4. x + 1 \in 1 .. m => r[x + 1] = c[(half + x) + 1]
    <3> SUFFICES ASSUME x + 1 \in 1 .. m PROVE r[x + 1] = c[(half + x) + 1]
      OBVIOUS
    <3>1. half + (x + 1) = (half + x) + 1
      BY <1>1
    <3>2. r[x + 1] = c[half + (x + 1)]
      BY <1>2
    <3> QED
      BY <3>1, <3>2
  <2> QED
    BY <1>1, <1>3, <2>1, <2>2, <2>3, <2>4 DEF Nth
<1>16. ChainOf(s, s[mid], r)
  BY <1>1, <1>9, <1>14, <1>15 DEF ChainOf
<1>17. \A x \in 1 .. half, y \in 1 .. m : l[x] # r[y]
  <2> SUFFICES ASSUME NEW x \in 1 .. half, NEW y \in 1 .. m PROVE l[x] # r[y]
    OBVIOUS
  <2>1. l[x] = c[x] /\ r[y] = c[half + y] /\ x \in 1 .. n /\ half + y \in 1 .. n
    BY <1>2, <1>6, <1>7
  <2>2. x # half + y
    BY <1>1
  <2> QED
    BY <1>3, <2>1, <2>2
<1>18. Nodes(l) \cap Nodes(r) = {}
  BY <1>1, <1>17 DEF Nodes
<1>19. mid \in Nodes(l)
  BY <1>1, <1>10 DEF Nodes
<1>20. Nodes(c) = Nodes(l) \cup Nodes(r)
  <2>1. ASSUME NEW x \in 1 .. n PROVE c[x] \in Nodes(l) \cup Nodes(r)
    <3>1. CASE x <= half
      <4>1. x \in 1 .. half
        BY <1>1, <3>1
      <4> QED
        BY <1>1, <1>2, <4>1 DEF Nodes
    <3>2. CASE x > half
      <4>1. x - half \in 1 .. m /\ half + (x - half) = x
        BY <1>1, <3>2
      <4>2. r[x - half] = c[x]
        BY <1>2, <4>1
      <4> QED
        BY <1>1, <4>1, <4>2 DEF Nodes
    <3> QED
      BY <1>1, <3>1, <3>2
  <2>2. ASSUME NEW x \in 1 .. half PROVE l[x] \in Nodes(c)
    BY <1>2, <1>3, <1>6 DEF Nodes
  <2>3. ASSUME NEW x \in 1 .. m PROVE r[x] \in Nodes(c)
    BY <1>2, <1>3, <1>7 DEF Nodes
  <2>4. \A p : p \in Nodes(c) <=> \E x \in 1 .. n : p = c[x]
    BY <1>3 DEF Nodes
  <2>5. \A p : p \in Nodes(l) \cup Nodes(r) <=> (\E x \in 1 .. half : p = l[x]) \/ \E x \in 1 .. m : p = r[x]
    BY <1>1 DEF Nodes
  <2> QED
    BY <2>1, <2>2, <2>3, <2>4, <2>5
<1>21. \A p \in ListNodes \ Nodes(l) : t[p] = s[p]
  BY <1>5, <1>19
<1>22. ChainOf(t, s[mid], r)
  <2>1. \A p \in Nodes(r) : t[p] = s[p]
    <3>1. \A p \in Nodes(r) : p \in ListNodes
      BY <1>1 DEF Nodes
    <3> QED
      BY <1>18, <1>21, <3>1
  <2>2. PICK z : z = s[mid]
    OBVIOUS
  <2>4. \A i \in DOMAIN r : t[r[i]] = s[r[i]]
    BY <2>1 DEF Nodes
  <2>5. ChainOf(s, z, r)
    BY <1>16, <2>2
  <2>3. ChainOf(t, z, r)
    BY <2>4, <2>5 DEF ChainOf
  <2> QED
    BY <2>2, <2>3
<1>23. c \in Seq(ListNodes) /\ Len(c) = Len(l) + Len(r)
  BY <1>1, <1>3
<1> QED
  BY <1>4, <1>5, <1>13, <1>16, <1>18, <1>19, <1>20, <1>21, <1>22, <1>23 DEF CutAt

(* The chain c becomes the sorted chain t, and no other node is touched. *)
SortedInto(w, s, c, t, to, first) ==
  /\ SortedAs(ListNodes, w, c, t) /\ Nodes(t) = Nodes(c)
  /\ to \in [Pointers -> Pointers] /\ ChainOf(to, first, t)
  /\ \A p \in ListNodes \ Nodes(c) : to[p] = s[p]

\* The compare function orders the nodes N as their weights do.
Ranks(order, w, N) ==
  /\ w \in [ListNodes -> Int]
  /\ \A p, q \in N : Compare(order, node[p].data, node[q].data) < 0 <=> w[p] < w[q]

LEMMA SortedIntoItself ==
  ASSUME NEW w \in [ListNodes -> Int], NEW s \in [Pointers -> Pointers], NEW c, NEW first, ChainOf(s, first, c), Len(c) < 2
  PROVE  SortedInto(w, s, c, c, s, first)
<1>1. PICK n : n = Len(c)
  OBVIOUS
<1>2. c \in Seq(ListNodes) /\ n \in Nat /\ n < 2 /\ c \in [1 .. n -> ListNodes]
  BY <1>1 DEF ChainOf, Distinct
<1>3. SortedBy(w, n, c)
  BY <1>2 DEF SortedBy
<1>4. SortsTo(ListNodes, w, n, c, c, [x \in 1 .. n |-> x])
  BY <1>2, <1>3, SortsItself
<1>5. Sorts(ListNodes, w, n, c, c)
  BY <1>2, <1>4 DEF Sorts
<1> QED
  BY <1>1, <1>2, <1>5 DEF SortedInto, SortedAs

(* What is done with the sorted halves l and r of the chain c *)
LEMMA HalvesMerged ==
  ASSUME NEW w, NEW s, NEW first, NEW c, Ranks(list.comp, w, Nodes(c)),
         NEW n, NEW half, NEW m, NEW a, NEW b, Parted(n, half, a, m, b), InHalves(c, n, half, a, m, b),
         NEW mid, NEW t, CutAt(s, first, c, a, b, mid, t),
         NEW l, NEW p, NEW x, SortedInto(w, t, a, l, p, x),
         NEW r, NEW q, NEW y, SortedInto(w, p, b, r, q, y),
         NEW res, res = MergeNodes(q, x, y)
  PROVE  \E g : SortedInto(w, s, c, g, res.succ, res.first)
<1>1. /\ n \in Nat /\ half \in Nat /\ half <= n /\ half \in 0 .. n /\ m \in Nat /\ n = half + m /\ half >= 1 /\ m >= 1
      /\ Len(a) = half /\ Len(b) = m
  BY DEF Parts, Parted
<1>20. c \in Seq(ListNodes) /\ Len(c) = n
  BY <1>1 DEF CutAt
<1>2. /\ Sorts(ListNodes, w, half, a, l) /\ Sorts(ListNodes, w, m, b, r)
      /\ l \in Seq(ListNodes) /\ Len(l) = half /\ r \in Seq(ListNodes) /\ Len(r) = m
      /\ Nodes(l) = Nodes(a) /\ Nodes(r) = Nodes(b)
      /\ ChainOf(p, x, l) /\ ChainOf(q, y, r)
      /\ q \in [Pointers -> Pointers]
  BY <1>1 DEF SortedInto, SortedAs
<1>3. Nodes(a) \cap Nodes(b) = {} /\ Nodes(c) = Nodes(a) \cup Nodes(b)
  BY DEF CutAt
<1>4. ChainOf(q, x, l)
  <2>1. \A z \in Nodes(l) : z \in ListNodes \ Nodes(b)
    <3>1. \A i \in DOMAIN l : l[i] \in ListNodes
      BY <1>2
    <3>2. \A z \in Nodes(l) : z \in ListNodes
      BY <3>1 DEF Nodes
    <3>3. \A z \in Nodes(l) : z \notin Nodes(b)
      BY <1>2, <1>3
    <3> QED
      BY <3>2, <3>3
  <2>2. \A z \in ListNodes \ Nodes(b) : q[z] = p[z]
    BY DEF SortedInto
  <2> QED
    BY <1>2, <2>1, <2>2, ChainKept
<1>6. TwoChains(q, l, x, r, y)
  BY <1>2, <1>3, <1>4 DEF TwoChains
<1>7. Parts(ListNodes, n, half, l, m, r) /\ Parted(n, half, l, m, r)
  BY <1>1, <1>2 DEF Parted, Parts
<1>8. PICK u : u = l \o r
  OBVIOUS
<1>9. u \in [1 .. n -> ListNodes] /\ InHalves(u, n, half, l, m, r)
  BY <1>7, <1>8, JoinedHalves
<1>10. SortedBy(w, half, l) /\ SortedBy(w, m, r)
  BY <1>2, SortsSorted DEF Sorts
<1>11. Nodes(u) = Nodes(c)
  <2>2. ChainsMeet(q, n, half, u, x, y, Nodes(l) \cup Nodes(r))
    BY <1>6, <1>7, <1>8, ChainsJoined
  <2>3. Nodes(u) = Nodes(l) \cup Nodes(r)
    BY <2>2 DEF ChainsMeet
  <2> QED
    BY <1>2, <1>3, <2>3
<1>12. NodesWeigh(list.comp, w, n, u)
  <2>1. \A i \in 1 .. n : u[i] \in Nodes(c)
    BY <1>9, <1>11 DEF Nodes
  <2> QED
    BY <2>1 DEF NodesWeigh, Ranks
<1>13. w \in [ListNodes -> Int]
  BY DEF Ranks
<1>15. PICK g : MergedChain(w, n, u, q, g, res.succ, res.first)
  BY <1>6, <1>7, <1>8, <1>10, <1>12, <1>13, NodesMergedSound
<1>16. /\ Sorts(ListNodes, w, n, u, g) /\ g \in Seq(ListNodes) /\ Len(g) = n /\ Nodes(g) = Nodes(c)
       /\ res.succ \in [Pointers -> Pointers] /\ ChainOf(res.succ, res.first, g)
       /\ \A z \in ListNodes \ Nodes(c) : res.succ[z] = q[z]
  BY <1>11, <1>15 DEF MergedChain
<1>17. c \in [1 .. n -> ListNodes]
  BY <1>20, EntriesAsFunction
<1>18. Sorts(ListNodes, w, n, c, g)
  BY <1>2, <1>9, <1>16, <1>17, SortsHalves
<1>19. ASSUME NEW z \in ListNodes \ Nodes(c) PROVE res.succ[z] = s[z]
  <2>1. z \in ListNodes \ Nodes(a) /\ z \in ListNodes \ Nodes(b)
    BY <1>3
  <2>2. q[z] = p[z] /\ p[z] = t[z]
    BY <2>1 DEF SortedInto
  <2>3. t[z] = s[z]
    BY <2>1 DEF CutAt
  <2> QED
    BY <1>16, <2>2, <2>3
<1> QED
  BY <1>16, <1>18, <1>19, <1>20 DEF SortedInto, SortedAs

LEMMA NodeSorterSound ==
  ASSUME NEW w, NEW N, Ranks(list.comp, w, N), NEW F, NodeSorter(F),
         NEW s \in [Pointers -> Pointers], NEW first \in Pointers, NEW c, ChainOf(s, first, c), Nodes(c) \subseteq N,
         NEW n, n = Len(c)
  PROVE  \E t : SortedInto(w, s, c, t, F[<<s, first, n>>].succ, F[<<s, first, n>>].first)
<1> DEFINE D == SortCalls
           m == [a \in D |-> a[3]]
           Sound(a) == \A v : ChainOf(a[1], a[2], v) /\ Len(v) = a[3] /\ Nodes(v) \subseteq N
                              => \E t : SortedInto(w, a[1], v, t, F[a].succ, F[a].first)
           T == {a \in D : Sound(a)}
<1>1. m \in [D -> Nat] /\ \A a \in D : m[a] = a[3]
  BY DEF SortCalls
<1>2. F \in [D -> SortAnswers] /\ \A a \in D : F[a] = NodeSort(F, a)
  BY DEF NodeSorter
<1>3. ASSUME NEW a \in D, \A b \in D : m[b] < m[a] => b \in T PROVE a \in T
  <2> SUFFICES ASSUME NEW v, ChainOf(a[1], a[2], v), Len(v) = a[3], Nodes(v) \subseteq N
               PROVE  \E t : SortedInto(w, a[1], v, t, F[a].succ, F[a].first)
    OBVIOUS
  <2> HIDE DEF T, m
  <2>1. PICK q, x, k : q = a[1] /\ x = a[2] /\ k = a[3]
    OBVIOUS
  <2>2. /\ q \in [Pointers -> Pointers] /\ x \in Pointers /\ k \in Nat /\ ChainOf(q, x, v) /\ Len(v) = k
        /\ w \in [ListNodes -> Int]
    BY <2>1 DEF SortCalls, Ranks
  <2>3. PICK res : res = F[a]
    OBVIOUS
  <2>4. CASE a[3] < 2
    <3>1. res = [succ |-> q, first |-> x]
      BY <1>2, <2>1, <2>3, <2>4 DEF NodeSort
    <3>2. res.succ = q /\ res.first = x
      BY <3>1
    <3>3. Len(v) < 2
      BY <2>4
    <3>4. SortedInto(w, q, v, v, q, x)
      BY <2>2, <3>3, SortedIntoItself
    <3> QED
      BY <2>1, <2>3, <3>2, <3>4
  <2>5. CASE ~(a[3] < 2)
    <3>1. PICK half : half = a[3] \div 2
      OBVIOUS
    <3>2. PICK d : d = k - half
      OBVIOUS
    <3>3. /\ half \in Nat /\ half >= 1 /\ d \in Nat /\ d >= 1 /\ k = half + d /\ half < k
          /\ half - 1 \in Nat /\ (half - 1) + 1 = half /\ half \in 1 .. k
      <4>1. k \in Nat /\ ~(k < 2) /\ half = k \div 2
        BY <2>1, <2>2, <2>5, <3>1
      <4> QED
        BY <3>2, <4>1
    <3>4. PICK l, r : l = SubSeq(v, 1, half) /\ r = SubSeq(v, half + 1, k)
      OBVIOUS
    <3>5. v \in Seq(ListNodes) /\ DOMAIN v = 1 .. k
      BY <2>2 DEF ChainOf, Distinct
    <3>6. Parts(ListNodes, k, half, l, d, r) /\ InHalves(v, k, half, l, d, r)
      BY <2>2, <3>3, <3>4, <3>5, SplitHalves
    <3>7. Parted(k, half, l, d, r)
      BY <3>3, <3>6 DEF Parted
    <3>8. PICK mid : mid = v[half]
      OBVIOUS
    <3>9. PICK z : z = [q EXCEPT ![mid] = NULL]
      OBVIOUS
    <3>10. CutAt(q, x, v, l, r, mid, z)
      BY <2>2, <3>6, <3>7, <3>8, <3>9, ChainCut
    <3>11. Mid(a) = mid
      <4>1. PICK at : at = Steps(x, q)
        OBVIOUS
      <4>2. Walks(at, x, q)
        BY <2>2, <4>1, StepsWalk
      <4>3. \A i \in Nat : i + 1 \in DOMAIN v => at[i] = v[i + 1]
        BY <2>2, <4>2, ChainWalked
      <4>4. half - 1 \in Nat /\ (half - 1) + 1 = half /\ half \in DOMAIN v
        BY <3>3, <3>5
      <4>5. at[half - 1] = v[half]
        BY <4>3, <4>4
      <4> QED
        BY <2>1, <3>1, <3>8, <4>1, <4>5 DEF Mid
    <3>12. PICK b : b = LeftCall(a)
      OBVIOUS
    <3>13. b = <<z, x, half>>
      BY <2>1, <3>1, <3>9, <3>11, <3>12 DEF LeftCall
    <3>14. b \in D /\ m[b] < m[a]
      BY <1>1, <2>5, <3>12, SortCallsTyped
    <3>15. PICK left : left = F[b]
      OBVIOUS
    <3>16. left \in SortAnswers
      BY <1>2, <3>14, <3>15
    <3>30. /\ z \in [Pointers -> Pointers] /\ ChainOf(z, x, l) /\ ChainOf(z, q[mid], r)
           /\ Nodes(l) \cap Nodes(r) = {} /\ Nodes(v) = Nodes(l) \cup Nodes(r)
      BY <3>10 DEF CutAt
    <3>31. Len(l) = half /\ Len(r) = d
      BY <3>6 DEF Parts
    <3>17. \E g : SortedInto(w, z, l, g, left.succ, left.first)
      <4>1. b \in T
        BY <1>3, <3>14
      <4>2. b[1] = z /\ b[2] = x /\ b[3] = half
        BY <3>13
      <4>3. Nodes(l) \subseteq N
        BY <3>30
      <4> QED
        BY <3>15, <3>30, <3>31, <4>1, <4>2, <4>3 DEF T
    <3>18. PICK g : SortedInto(w, z, l, g, left.succ, left.first)
      BY <3>17
    <3>19. PICK e : e = RightCall(a, left)
      OBVIOUS
    <3>20. e = <<left.succ, q[mid], d>>
      BY <2>1, <3>1, <3>2, <3>11, <3>19 DEF RightCall
    <3>21. e \in D /\ m[e] < m[a]
      BY <1>1, <2>5, <3>16, <3>19, SortCallsTyped
    <3>22. PICK right : right = F[e]
      OBVIOUS
    <3>23. PICK y, f : y = q[mid] /\ f = left.succ
      OBVIOUS
    <3>24. ChainOf(f, y, r)
      <4>1. \A p \in Nodes(r) : p \in ListNodes \ Nodes(l)
        <5>1. r \in Seq(ListNodes)
          BY <3>6 DEF Parts
        <5>2. \A i \in DOMAIN r : r[i] \in ListNodes
          BY <5>1
        <5>3. \A p \in Nodes(r) : p \in ListNodes
          BY <5>2 DEF Nodes
        <5> QED
          BY <3>30, <5>3
      <4>2. \A p \in ListNodes \ Nodes(l) : f[p] = z[p]
        BY <3>18, <3>23 DEF SortedInto
      <4>3. \A p \in Nodes(r) : f[p] = z[p]
        BY <4>1, <4>2
      <4>4. ChainOf(z, y, r)
        BY <3>23, <3>30
      <4> QED
        BY <4>3, <4>4, ChainKept
    <3>25. \E h : SortedInto(w, f, r, h, right.succ, right.first)
      <4>1. e \in T
        BY <1>3, <3>21
      <4>2. e[1] = f /\ e[2] = y /\ e[3] = d
        BY <3>20, <3>23
      <4>3. Nodes(r) \subseteq N
        BY <3>30
      <4> QED
        BY <3>22, <3>24, <3>31, <4>1, <4>2, <4>3 DEF T
    <3>26. PICK h : SortedInto(w, f, r, h, right.succ, right.first)
      BY <3>25
    <3>27. res = MergeNodes(right.succ, left.first, right.first)
      BY <1>2, <2>3, <2>5, <3>12, <3>15, <3>19, <3>22 DEF NodeSort
    <3>32. Ranks(list.comp, w, Nodes(v))
      BY DEF Ranks
    <3>33. PICK lf, rs, rf : lf = left.first /\ rs = right.succ /\ rf = right.first
      OBVIOUS
    <3>34. SortedInto(w, z, l, g, f, lf) /\ SortedInto(w, f, r, h, rs, rf) /\ res = MergeNodes(rs, lf, rf)
      BY <3>18, <3>23, <3>26, <3>27, <3>33
    <3>29. \E t : SortedInto(w, q, v, t, res.succ, res.first)
      BY <3>6, <3>7, <3>10, <3>32, <3>34, HalvesMerged
    <3> QED
      BY <2>1, <2>3, <3>29
  <2> QED
    BY <2>4, <2>5
<1> HIDE DEF T
<1>4. D \subseteq T
  <2> HIDE DEF m, D
  <2> QED
    BY <1>1, <1>3, MeasureInduced
<1>5. PICK a : a = <<s, first, n>>
  OBVIOUS
<1>6. a \in D /\ a[1] = s /\ a[2] = first /\ a[3] = n
  <2>1. n \in Nat
    BY DEF ChainOf, Distinct
  <2> QED
    BY <1>5, <2>1 DEF SortCalls
<1>7. Sound(a)
  BY <1>4, <1>6 DEF T
<1> QED
  BY <1>5, <1>6, <1>7

(* msort_nodes sorts a chain of nodes. *)
LEMMA MSortNodesSound ==
  ASSUME NEW w, NEW N, Ranks(list.comp, w, N), NEW first \in Pointers, NEW c,
         Succ \in [Pointers -> Pointers], ChainOf(Succ, first, c), Nodes(c) \subseteq N, NEW n, n = Len(c),
         NEW res, res = MSortNodes(first, n)
  PROVE  \E t : SortedInto(w, Succ, c, t, res.succ, res.first)
<1>1. PICK F : NodeSorter(F) /\ MSortNodes(first, n) = F[<<Succ, first, n>>]
  BY MSortSteps
<1>2. PICK s : s = Succ
  OBVIOUS
<1>3. s \in [Pointers -> Pointers] /\ ChainOf(s, first, c)
  BY <1>2
<1>4. \E t : SortedInto(w, s, c, t, F[<<s, first, n>>].succ, F[<<s, first, n>>].first)
  BY <1>1, <1>3, NodeSorterSound
<1> QED
  BY <1>1, <1>2, <1>4

-----------------------------------------------------------------------------
(* msort *)

LEMMA ListWeighs ==
  ASSUME NEW o \in {1, -1}
  PROVE  Weighs(o, ListValues, Weights(o, ListValues))
<1>1. Keyed(ListValues)
  BY ListAssumption DEF Keyed
<1> QED
  BY <1>1, CompareWeights DEF Weighs

LEMMA SameSorted ==
  ASSUME NEW o, NEW s
  PROVE  AbstractList!StablySorted(o, s) = StablySorted(o, s)
BY DEF AbstractList!StablySorted, StablySorted, AbstractList!Rank, Rank, AbstractList!Compare, Compare,
       AbstractList!Cardinality, Cardinality

LEMMA SameRank ==
  ASSUME NEW o, NEW s, NEW i
  PROVE  AbstractList!Rank(o, s, i) = Rank(o, s, i)
BY DEF AbstractList!Rank, Rank, AbstractList!Compare, Compare, AbstractList!Cardinality, Cardinality

LEMMA EntryOf == ASSUME NEW S, NEW s \in Seq(S), NEW i \in DOMAIN s PROVE s[i] \in S
  OBVIOUS

PrevIn(succ, n) == LET before == {m \in ListNodes \ Free : succ[m] = n}
                   IN  IF before = {} THEN NULL ELSE CHOOSE m \in before : TRUE

\* What msort does with the chain that msort_nodes made
Relinks(succ, first) ==
  /\ node' = [n \in ListNodes |->
                IF n \in Free THEN NULL
                ELSE [node[n] EXCEPT !.next = succ[n], !.prev = PrevIn(succ, n)]]
  /\ list' = [list EXCEPT !.head = first,
                          !.tail = CHOOSE n \in ListNodes \ Free : succ[n] = NULL]

LEMMA MSortRelinks ==
  ASSUME NEW c, NEW v, NEW o, Linked(list, node, c, v, o), NEW t, Len(t) = Len(c), Len(c) >= 1,
         NEW succ, NEW first, ChainOf(succ, first, t), Nodes(t) = Nodes(c), Relinks(succ, first),
         NEW u, u = [i \in 1 .. Len(c) |-> node[t[i]].data]
  PROVE  Linked(list', node', t, u, o)
<1>1. PICK n : n = Len(c)
  OBVIOUS
<1>2. /\ DOMAIN c = 1 .. n /\ n \in Nat /\ n >= 1 /\ v \in Seq(ListValues) /\ DOMAIN v = 1 .. n
      /\ \A i \in 1 .. n : node[c[i]] = Node(v[i], Nth(c, i + 1), Nth(c, i - 1))
      /\ list = [head |-> Nth(c, 1), tail |-> Nth(c, n), size |-> n, comp |-> o]
      /\ o \in {1, -1, NULL}
  <2>1. DOMAIN c = 1 .. Len(c) /\ Len(c) \in Nat /\ v \in Seq(ListValues) /\ DOMAIN v = 1 .. Len(c)
    BY LinkedTypes
  <2>2. /\ \A i \in DOMAIN c : node[c[i]] = Node(v[i], Nth(c, i + 1), Nth(c, i - 1))
        /\ list = [head |-> Nth(c, 1), tail |-> Nth(c, Len(c)), size |-> Len(c), comp |-> o]
        /\ o \in {1, -1, NULL}
    BY DEF Linked
  <2> QED
    BY <1>1, <2>1, <2>2
<1>16. n \in Nat /\ n >= 1
  BY <1>2
<1>3. \A p \in ListNodes : node[p] = NULL <=> p \notin Nodes(c)
  BY LinkedNodes
<1>4. /\ t \in Seq(ListNodes) /\ DOMAIN t = 1 .. n /\ first = Nth(t, 1)
      /\ \A i \in 1 .. n : t[i] \in ListNodes
      /\ \A i \in 1 .. n : succ[t[i]] = Nth(t, i + 1)
      /\ \A i, j \in 1 .. n : t[i] = t[j] => i = j
      /\ Distinct(t)
  <2>1. t \in Seq(ListNodes) /\ DOMAIN t = 1 .. n
    BY <1>1 DEF ChainOf, Distinct
  <2>2. \A i \in 1 .. n : t[i] \in ListNodes
    BY <2>1, EntryOf
  <2> QED
    BY <2>1, <2>2 DEF ChainOf, Distinct
<1>5. \A p : p \in ListNodes \ Free <=> \E i \in 1 .. n : p = t[i]
  <2>1. \A p : p \in Nodes(c) <=> \E i \in 1 .. n : p = t[i]
    BY <1>4 DEF Nodes
  <2>2. \A p : p \in Nodes(c) => p \in ListNodes
    BY <1>4, <2>1
  <2> QED
    BY <1>3, <2>1, <2>2 DEF Free
<1>6. \A i \in 1 .. n : t[i] # NULL
  BY <1>4, ListAssumption
<1>7. ASSUME NEW i \in 1 .. n PROVE succ[t[i]] = NULL <=> i = n
  <2>1. i + 1 \in 1 .. n <=> i # n
    BY <1>2
  <2> QED
    BY <1>4, <1>6, <2>1 DEF Nth
<1>8. (CHOOSE m \in ListNodes \ Free : succ[m] = NULL) = Nth(t, n)
  <2>1. n \in 1 .. n
    BY <1>2
  <2>2. \A m \in ListNodes \ Free : succ[m] = NULL <=> m = t[n]
    BY <1>5, <1>7, <2>1
  <2>3. t[n] \in ListNodes \ Free
    BY <1>5, <2>1
  <2> QED
    BY <1>4, <2>1, <2>2, <2>3 DEF Nth
<1>9. ASSUME NEW i \in 1 .. n PROVE PrevIn(succ, t[i]) = Nth(t, i - 1)
  <2>1. ASSUME NEW j \in 1 .. n PROVE succ[t[j]] = t[i] <=> j = i - 1
    <3>1. succ[t[j]] = Nth(t, j + 1)
      BY <1>4
    <3>2. Nth(t, j + 1) = IF j + 1 \in 1 .. n THEN t[j + 1] ELSE NULL
      BY <1>4 DEF Nth
    <3>3. j = i - 1 <=> j + 1 = i
      OBVIOUS
    <3> QED
      BY <1>4, <1>6, <3>1, <3>2, <3>3
  <2>2. CASE i = 1
    <3>1. i - 1 = 0 /\ i - 1 \notin 1 .. n
      BY <2>2
    <3>2. {m \in ListNodes \ Free : succ[m] = t[i]} = {}
      BY <1>5, <2>1, <3>1
    <3>3. Nth(t, i - 1) = NULL
      BY <1>4, <3>1 DEF Nth
    <3> QED
      BY <3>2, <3>3 DEF PrevIn
  <2>3. CASE i # 1
    <3>1. i - 1 \in 1 .. n
      BY <1>16, <2>3
    <3>2. PICK q : q = i - 1
      OBVIOUS
    <3>3. {m \in ListNodes \ Free : succ[m] = t[i]} = {t[q]}
      BY <1>5, <2>1, <3>1, <3>2
    <3>4. Nth(t, i - 1) = t[q]
      BY <1>4, <3>1, <3>2 DEF Nth
    <3> QED
      BY <3>3, <3>4 DEF PrevIn
  <2> QED
    BY <2>2, <2>3
<1>10. ASSUME NEW i \in 1 .. n
       PROVE  u[i] \in ListValues /\ node'[t[i]] = Node(u[i], Nth(t, i + 1), Nth(t, i - 1))
  <2>1. t[i] \in ListNodes /\ t[i] \in ListNodes \ Free /\ t[i] \in Nodes(c)
    BY <1>4, <1>5 DEF Nodes
  <2>2. PICK j \in 1 .. n : t[i] = c[j]
    BY <1>2, <2>1 DEF Nodes
  <2>3. PICK d, a, b : d = v[j] /\ a = Nth(c, j + 1) /\ b = Nth(c, j - 1)
    OBVIOUS
  <2>4. node[t[i]] = Node(d, a, b)
    BY <1>2, <2>2, <2>3
  <2>5. node[t[i]].data = d
    BY <2>4 DEF Node
  <2>6. d \in ListValues
    BY <1>2, <2>3
  <2>7. u[i] = d
    BY <1>1, <2>5
  <2>8. PICK x, y : x = Nth(t, i + 1) /\ y = Nth(t, i - 1)
    OBVIOUS
  <2>9. succ[t[i]] = x /\ PrevIn(succ, t[i]) = y
    BY <1>4, <1>9, <2>8
  <2>10. node'[t[i]] = [node[t[i]] EXCEPT !.next = x, !.prev = y]
    BY <2>1, <2>9 DEF Relinks
  <2>11. node'[t[i]] = Node(d, x, y)
    <3>1. PICK e : e = node[t[i]]
      OBVIOUS
    <3>2. node'[t[i]] = [e EXCEPT !.next = x, !.prev = y]
      BY <2>10, <3>1
    <3>3. e = Node(d, a, b)
      BY <2>4, <3>1
    <3>5. PICK m : m = [e EXCEPT !.next = x]
      OBVIOUS
    <3>6. m = Node(d, x, b)
      BY <3>3, <3>5, NodeExcept
    <3>7. [m EXCEPT !.prev = y] = Node(d, x, y)
      BY <3>6, NodeExcept
    <3>8. [e EXCEPT !.next = x, !.prev = y] = [m EXCEPT !.prev = y]
      BY <3>5
    <3>4. node'[t[i]] = [m EXCEPT !.prev = y]
      BY <3>2, <3>8
    <3> QED
      BY <3>4, <3>7
  <2> QED
    BY <2>6, <2>7, <2>8, <2>11
<1>11. list' = [head |-> Nth(t, 1), tail |-> Nth(t, n), size |-> n, comp |-> o]
  <2>1. PICK x, y : x = Nth(t, 1) /\ y = Nth(t, n)
    OBVIOUS
  <2>2. list' = [list EXCEPT !.head = x, !.tail = y]
    BY <1>4, <1>8, <2>1 DEF Relinks
  <2> QED
    BY <1>2, <2>1, <2>2
<1>12. \A p \in ListNodes \ Nodes(t) : node'[p] = NULL
  BY <1>3 DEF Relinks, Free
<1>13. node' = [p \in ListNodes |-> node'[p]]
  BY DEF Relinks
<1>14. u \in Seq(ListValues) /\ Len(u) = n
  <2>1. u \in [1 .. n -> ListValues]
    BY <1>1, <1>10
  <2> QED
    BY <1>2, <2>1
<1>15. Len(t) = n
  BY <1>1
<1> QED
  BY <1>2, <1>4, <1>10, <1>11, <1>12, <1>13, <1>14, <1>15 DEF Linked

\* The weight of a node: what the order compares of its entry
NodeWeights(o) == [n \in ListNodes |-> IF node[n] = NULL THEN 0 ELSE o * node[n].data.key]

LEMMA NodesRank ==
  ASSUME NEW c, NEW v, NEW o \in {1, -1}, Linked(list, node, c, v, o), NEW w, w = NodeWeights(o),
         NEW x, x = Weights(o, ListValues)
  PROVE  /\ Ranks(list.comp, w, Nodes(c)) /\ Weighs(o, ListValues, x)
         /\ \A i \in DOMAIN c : w[c[i]] = x[v[i]]
<1>1. /\ \A i \in DOMAIN c : /\ c[i] \in ListNodes /\ node[c[i]] # NULL /\ node[c[i]].data = v[i]
                             /\ v[i] \in ListValues
  BY LinkedNode
<1>2. list.comp = o /\ \A n \in ListNodes : node[n] = NULL <=> n \notin Nodes(c)
  BY LinkedNodes, LinkedTypes
<1>3. Weighs(o, ListValues, x)
  BY ListWeighs
<1>4. ASSUME NEW i \in DOMAIN c PROVE w[c[i]] = x[v[i]]
  BY <1>1 DEF NodeWeights, Weights
<1>5. \A p \in Nodes(c) : \E i \in DOMAIN c : p = c[i]
  BY DEF Nodes
<1>6. w \in [ListNodes -> Int]
  <2>1. ASSUME NEW n \in ListNodes PROVE w[n] \in Int
    <3>1. CASE node[n] = NULL
      BY <3>1 DEF NodeWeights
    <3>2. CASE node[n] # NULL
      <4>1. PICK i \in DOMAIN c : n = c[i]
        BY <1>2, <1>5, <3>2
      <4>2. w[n] = x[v[i]] /\ v[i] \in ListValues
        BY <1>1, <1>4, <4>1
      <4> QED
        BY <1>3, <4>2 DEF Weighs
    <3> QED
      BY <3>1, <3>2
  <2> QED
    BY <2>1 DEF NodeWeights
<1>7. ASSUME NEW p \in Nodes(c), NEW q \in Nodes(c)
      PROVE  Compare(list.comp, node[p].data, node[q].data) < 0 <=> w[p] < w[q]
  <2>1. PICK i \in DOMAIN c : p = c[i]
    BY <1>5
  <2>2. PICK j \in DOMAIN c : q = c[j]
    BY <1>5
  <2>3. w[p] = x[v[i]] /\ w[q] = x[v[j]] /\ v[i] \in ListValues /\ v[j] \in ListValues
    BY <1>1, <1>4, <2>1, <2>2
  <2>4. node[p].data = v[i] /\ node[q].data = v[j]
    BY <1>1, <2>1, <2>2
  <2>5. Compare(o, v[i], v[j]) < 0 <=> x[v[i]] < x[v[j]]
    BY <1>3, <2>3 DEF Weighs
  <2> QED
    BY <1>2, <2>3, <2>4, <2>5
<1> QED
  BY <1>3, <1>4, <1>6, <1>7 DEF Ranks

Carries(n, c, w, v, x) ==
  /\ v \in [1 .. n -> ListValues] /\ x \in [ListValues -> Int]
  /\ \A i \in 1 .. n : w[c[i]] = x[v[i]] /\ node[c[i]].data = v[i]

DataOf(n, t) == [i \in 1 .. n |-> node[t[i]].data]

(* The nodes c sorted into t, and with them the entries v into u *)
LEMMA ValuesSorted ==
  ASSUME NEW w, NEW n, NEW c, NEW t, NEW pos, SortsTo(ListNodes, w, n, c, t, pos),
         NEW x, NEW v, Carries(n, c, w, v, x), NEW u, u = DataOf(n, t)
  PROVE  SortsTo(ListValues, x, n, v, u, pos)
<1>1. /\ n \in Nat /\ pos \in [1 .. n -> 1 .. n]
      /\ \A i \in 1 .. n : t[pos[i]] = c[i]
      /\ \A i, j \in 1 .. n : Before(w, c, i, j) => pos[i] < pos[j]
  BY DEF SortsTo
<1>4. /\ v \in [1 .. n -> ListValues] /\ x \in [ListValues -> Int]
      /\ \A i \in 1 .. n : w[c[i]] = x[v[i]] /\ node[c[i]].data = v[i]
  BY DEF Carries
<1>2. ASSUME NEW i \in 1 .. n PROVE u[pos[i]] = v[i]
  <2>1. pos[i] \in 1 .. n
    BY <1>1
  <2>2. u[pos[i]] = node[t[pos[i]]].data
    BY <2>1 DEF DataOf
  <2>3. t[pos[i]] = c[i] /\ node[c[i]].data = v[i]
    BY <1>1, <1>4
  <2> QED
    BY <2>2, <2>3
<1>3. ASSUME NEW i \in 1 .. n, NEW j \in 1 .. n, Before(x, v, i, j) PROVE pos[i] < pos[j]
  <2>1. Before(w, c, i, j)
    BY <1>3, <1>4 DEF Before
  <2> QED
    BY <1>1, <2>1
<1> QED
  BY <1>1, <1>2, <1>3, <1>4 DEF SortsTo

\* msort as the abstract list has it
ListSorts == AbstractList!Sort /\ ListKeeps

LEMMA MSortShort ==
  ASSUME NEW c, NEW v, NEW o, NEW p, ListAt(list, node, it, c, v, o, p),
         UNCHANGED <<list, node, it>>, o = NULL \/ Len(c) < 2,
         listReply' = ListReply(<<"msort">>, IF o = NULL THEN -1 ELSE 0)
  PROVE  ListSorts
<1>1. ListSame(v, p, p, o) /\ Situation(c, v, o, p)
  BY StandingStep, Situated
<1>2. /\ (IF list = NULL THEN NULL ELSE Entries) = v /\ (IF it = NULL THEN 0 ELSE Place) = p
      /\ (IF list = NULL THEN NULL ELSE list.comp) = o
      /\ (IF list = NULL THEN NULL ELSE Entries)' = v /\ (IF it = NULL THEN 0 ELSE Place)' = p
      /\ (IF list = NULL THEN NULL ELSE list.comp)' = o
      /\ ListOk(list', node', it')
  BY <1>1 DEF ListSame, ListSeen
<1>3. listReply' = AbstractList!Reply(<<"msort">>, IF o = NULL THEN -1 ELSE 0)
  BY ListReplies
<1>4. ListKeeps
  BY <1>2 DEF ListKeeps
<1>5. CASE o = NULL
  BY <1>2, <1>3, <1>4, <1>5 DEF ListSorts, AbstractList!Sort
<1>6. CASE o # NULL
  <2>1. PICK n : n = Len(c)
    OBVIOUS
  <2>2. /\ v \in Seq(ListValues) /\ n = Len(v) /\ n \in Nat /\ n < 2 /\ o \in {1, -1} /\ p \in 0 .. n
        /\ DOMAIN v = 1 .. n
    <3>1. Linked(list, node, c, v, o) /\ p \in 0 .. Len(c)
      BY DEF ListAt
    <3>2. o \in {1, -1, NULL}
      BY <3>1, LinkedTypes
    <3> QED
      BY <1>1, <1>6, <2>1, <3>1, <3>2 DEF Situation
  <2>3. PICK w : w = Weights(o, ListValues)
    OBVIOUS
  <2>4. Weighs(o, ListValues, w) /\ w \in [ListValues -> Int]
    BY <2>2, <2>3, ListWeighs DEF Weighs
  <2>5. v \in [1 .. n -> ListValues]
    BY <2>2, EntriesAsFunction
  <2>6. SortedBy(w, n, v)
    BY <2>2 DEF SortedBy
  <2>7. PICK pos : pos = [x \in 1 .. n |-> x]
    OBVIOUS
  <2>8. SortsTo(ListValues, w, n, v, v, pos)
    BY <2>2, <2>4, <2>5, <2>6, <2>7, SortsItself
  <2>9. v = StablySorted(o, v)
    BY <2>4, <2>5, <2>8, SortsStably
  <2>10. p # 0 => Rank(o, v, p) = p
    <3>1. p # 0 => p \in 1 .. n /\ pos[p] = p
      BY <2>2, <2>7
    <3>2. \A x \in 1 .. n : Rank(o, v, x) = pos[x]
      BY <2>4, <2>8, SortsByRank
    <3> QED
      BY <3>1, <3>2
  <2>11. v = AbstractList!StablySorted(o, v)
    BY <2>9, SameSorted
  <2>12. p = IF p = 0 THEN 0 ELSE AbstractList!Rank(o, v, p)
    BY <2>10, SameRank
  <2> QED
    BY <1>2, <1>3, <1>4, <1>6, <2>11, <2>12 DEF ListSorts, AbstractList!Sort
<1> QED
  BY <1>5, <1>6

LEMMA MSortStep ==
  ASSUME NEW c, NEW v, NEW o, NEW p, ListAt(list, node, it, c, v, o, p), MSort
  PROVE  ListSorts
<1>1. Situation(c, v, o, p) /\ Linked(list, node, c, v, o) /\ p \in 0 .. Len(c) /\ it = Nth(c, p)
  BY Situated DEF ListAt
<1>2. list.comp = o /\ list.size = Len(c) /\ list.head = Nth(c, 1) /\ o \in {1, -1, NULL} /\ Distinct(c)
      /\ v \in Seq(ListValues) /\ Len(v) = Len(c) /\ Len(c) \in Nat /\ DOMAIN c = 1 .. Len(c)
  BY <1>1, LinkedTypes DEF Linked
<1>3. listReply' = ListReply(<<"msort">>, IF o = NULL THEN -1 ELSE 0) /\ it' = it
  BY <1>2 DEF MSort
<1>4. CASE o = NULL \/ Len(c) < 2
  <2>1. UNCHANGED <<list, node, it>>
    BY <1>2, <1>4 DEF MSort
  <2> QED
    BY <1>3, <1>4, <2>1, MSortShort
<1>5. CASE ~(o = NULL \/ Len(c) < 2)
  <2>1. PICK n : n = Len(c)
    OBVIOUS
  <2>2. n \in Nat /\ n >= 1 /\ o \in {1, -1} /\ Len(v) = n /\ DOMAIN c = 1 .. n
    BY <1>2, <1>5, <2>1
  <2>3. PICK first : first = Nth(c, 1)
    OBVIOUS
  <2>4. PICK res : res = MSortNodes(first, n)
    OBVIOUS
  <2>5. Relinks(res.succ, res.first)
    <3>1. MSortNodes(list.head, list.size) = res
      BY <1>2, <2>1, <2>3, <2>4
    <3>2. ~(list.comp = NULL \/ list.size < 2)
      BY <1>2, <1>5
    <3>3. Relinks(MSortNodes(list.head, list.size).succ, MSortNodes(list.head, list.size).first)
      BY <3>2 DEF MSort, Relinks, PrevIn
    <3> QED
      BY <3>1, <3>3
  <2>6. PICK w : w = NodeWeights(o)
    OBVIOUS
  <2>7. PICK x : x = Weights(o, ListValues)
    OBVIOUS
  <2>8. /\ Ranks(list.comp, w, Nodes(c)) /\ Weighs(o, ListValues, x)
        /\ \A i \in DOMAIN c : w[c[i]] = x[v[i]]
    BY <1>1, <2>2, <2>6, <2>7, NodesRank
  <2>9. Succ \in [Pointers -> Pointers] /\ ChainOf(Succ, first, c) /\ first \in Pointers
    <3>1. SuccOf(node) \in [Pointers -> Pointers] /\ ChainOf(SuccOf(node), list.head, c)
      BY <1>1, LinkedNodes
    <3>2. first \in Pointers
      BY <1>2, <2>3, NthType
    <3> QED
      BY <1>2, <2>3, <3>1, <3>2, SuccNow
  <2>10. PICK t : SortedInto(w, Succ, c, t, res.succ, res.first)
    BY <2>1, <2>4, <2>8, <2>9, MSortNodesSound
  <2>11. PICK succ, head : succ = res.succ /\ head = res.first
    OBVIOUS
  <2>12. /\ SortedAs(ListNodes, w, c, t) /\ Nodes(t) = Nodes(c) /\ ChainOf(succ, head, t)
         /\ t \in Seq(ListNodes) /\ Len(t) = Len(c) /\ Sorts(ListNodes, w, n, c, t)
    BY <2>1, <2>10, <2>11 DEF SortedInto, SortedAs
  <2>13. PICK u : u = [i \in 1 .. Len(c) |-> node[t[i]].data]
    OBVIOUS
  <2>14. Linked(list', node', t, u, o)
    <3>1. Relinks(succ, head)
      BY <2>5, <2>11
    <3>2. Len(c) >= 1
      BY <2>1, <2>2
    <3> QED
      BY <1>1, <2>12, <2>13, <3>1, <3>2, MSortRelinks
  <2>15. PICK pos : SortsTo(ListNodes, w, n, c, t, pos)
    BY <2>12 DEF Sorts
  <2>16. SortsTo(ListValues, x, n, v, u, pos)
    <3>1. v \in [1 .. n -> ListValues]
      BY <1>2, <2>2, EntriesAsFunction
    <3>2. x \in [ListValues -> Int]
      BY <2>8 DEF Weighs
    <3>3. \A i \in 1 .. n : w[c[i]] = x[v[i]] /\ node[c[i]].data = v[i]
      <4>1. \A i \in DOMAIN c : node[c[i]].data = v[i]
        BY <1>1 DEF Situation
      <4> QED
        BY <2>2, <2>8, <4>1
    <3>4. u = DataOf(n, t)
      BY <2>1, <2>13 DEF DataOf
    <3>5. Carries(n, c, w, v, x)
      BY <3>1, <3>2, <3>3 DEF Carries
    <3> QED
      BY <2>15, <3>4, <3>5, ValuesSorted
  <2>17. u = StablySorted(o, v)
    <3>1. u \in [1 .. n -> ListValues]
      <4>1. u \in Seq(ListValues) /\ Len(u) = Len(t)
        BY <2>14, LinkedTypes
      <4>2. Len(u) = n
        BY <2>1, <2>12, <4>1
      <4> QED
        BY <4>1, <4>2, EntriesAsFunction
    <3> QED
      BY <2>8, <2>16, <3>1, SortsStably
  <2>18. \A i \in 1 .. n : Rank(o, v, i) = pos[i]
    BY <2>8, <2>16, SortsByRank
  <2>19. PICK r : r = IF p = 0 THEN 0 ELSE Rank(o, v, p)
    OBVIOUS
  <2>20. pos \in [1 .. n -> 1 .. n] /\ \A i \in 1 .. n : t[pos[i]] = c[i]
    BY <2>15 DEF SortsTo
  <2>21. r \in 0 .. Len(t) /\ it' = Nth(t, r)
    <3>1. DOMAIN t = 1 .. n
      BY <2>1, <2>12
    <3>2. CASE p = 0
      <4>1. it = NULL /\ r = 0 /\ Nth(t, 0) = NULL
        BY <1>1, <2>2, <2>19, <3>1, <3>2 DEF Nth
      <4> QED
        BY <1>3, <2>1, <2>2, <2>12, <4>1
    <3>3. CASE p # 0
      <4>1. p \in 1 .. n
        BY <1>1, <2>1, <2>2, <3>3
      <4>2. r = pos[p]
        BY <2>18, <2>19, <3>3, <4>1
      <4>3. r \in 1 .. n /\ t[r] = c[p]
        BY <2>20, <4>1, <4>2
      <4>4. it = c[p] /\ Nth(t, r) = t[r]
        BY <1>1, <2>2, <3>1, <4>1, <4>3 DEF Nth
      <4>5. r \in 0 .. n
        BY <4>3
      <4> QED
        BY <1>3, <2>1, <2>12, <4>3, <4>4, <4>5
    <3> QED
      BY <3>2, <3>3
  <2>22. ListAt(list', node', it', t, u, o, r)
    BY <2>14, <2>21 DEF ListAt
  <2>23. ListSeen(v, p, o) /\ ListSeen(u, r, o)' /\ ListOk(list', node', it')
    BY <2>22, SeenNow, SeenNext, ListOkNext
  <2>24. listReply' = AbstractList!Reply(<<"msort">>, IF o = NULL THEN -1 ELSE 0)
    BY <1>3, ListReplies
  <2>25. u = AbstractList!StablySorted(o, v) /\ r = IF p = 0 THEN 0 ELSE AbstractList!Rank(o, v, p)
    BY <2>17, <2>19, SameSorted, SameRank
  <2> QED
    BY <1>5, <2>23, <2>24, <2>25 DEF ListSorts, ListKeeps, AbstractList!Sort, ListSeen
<1> QED
  BY <1>4, <1>5

-----------------------------------------------------------------------------
(* The list *)

ListInv == ListOk(list, node, it)

LEMMA ListValuesSeen ==
  ASSUME NEW c, NEW v, NEW o, NEW p, ListAt(list, node, it, c, v, o, p)
  PROVE  (IF list = NULL THEN NULL ELSE Entries) # NULL
<1>1. ListSeen(v, p, o)
  BY SeenNow
<1>2. v # NULL
  BY LinkedTypes DEF ListAt
<1> QED
  BY <1>1, <1>2 DEF ListSeen

LEMMA ListCallStep ==
  ASSUME NEW c, NEW v, NEW o, NEW p, ListAt(list, node, it, c, v, o, p), ListNext, ~CreateList
  PROVE  ListInv' /\ AbstractList!Next
<1>1. (IF list = NULL THEN NULL ELSE Entries) # NULL
  BY ListValuesSeen
<1>2. ASSUME AbstractList!Step, ListKeeps
      PROVE  ListInv' /\ AbstractList!Next
  BY <1>1, <1>2 DEF ListKeeps, ListInv, AbstractList!Next
<1>3. ASSUME NEW b \in {1, -1, NULL}, SetListComp(b) PROVE ListInv' /\ AbstractList!Next
  <2>1. AbstractList!SetComp(b) /\ ListOk(list', node', it')
    BY <1>3, SetListCompStep
  <2> QED
    BY <1>1, <2>1 DEF ListInv, AbstractList!Next
<1>4. CASE DestroyList
  <2>1. AbstractList!Destroy /\ ListOk(list', node', it')
    BY <1>4, DestroyListStep
  <2> QED
    BY <1>1, <2>1 DEF ListInv, AbstractList!Next
<1>5. ASSUME NEW d \in ListValues, ListGrows(d) PROVE ListInv' /\ AbstractList!Next
  <2>1. AbstractList!Grow(d) /\ ListKeeps
    BY <1>5, GrowStep
  <2>2. AbstractList!Step
    BY <2>1 DEF AbstractList!Step
  <2> QED
    BY <1>2, <2>1, <2>2
<1>6. CASE \/ RemoveStart \/ RemoveEnd
           \/ RemoveHere("remove_forward", Succ) \/ RemoveHere("remove_backwards", Pred)
  <2>1. AbstractList!Step /\ ListKeeps
    BY <1>6, ShrinkStep
  <2> QED
    BY <1>2, <2>1
<1>7. CASE \/ First \/ LastEntry \/ NextEntry \/ PrevEntry \/ ListSize
           \/ \E call \in {"add_start", "add_end", "insert_before", "insert_after"} : NoMemory(call)
  <2>1. AbstractList!Step /\ ListKeeps
    BY <1>7, LookStep
  <2> QED
    BY <1>2, <2>1
<1>8. CASE MSort
  <2>1. AbstractList!Sort /\ ListKeeps
    BY <1>8, MSortStep DEF ListSorts
  <2>2. AbstractList!Step
    BY <2>1 DEF AbstractList!Step
  <2> QED
    BY <1>2, <2>1, <2>2
<1> QED
  BY <1>3, <1>4, <1>5, <1>6, <1>7, <1>8 DEF ListNext

LEMMA ListNextStep ==
  ASSUME ListInv, [ListNext]_listVars
  PROVE  ListInv' /\ [AbstractList!Next]_AbstractList!vars
<1>1. CASE CreateList
  <2>1. AbstractList!Create /\ ListOk(list', node', it')
    BY <1>1, CreateListStep DEF ListInv, ListOk, CreateList
  <2> QED
    BY <2>1 DEF ListInv, AbstractList!Next
<1>2. CASE ListNext /\ ~CreateList
  <2>1. list # NULL
    BY <1>2 DEF ListNext
  <2>2. PICK c, v, o, p : ListAt(list, node, it, c, v, o, p)
    BY <2>1 DEF ListInv, ListOk
  <2> QED
    BY <1>2, <2>2, ListCallStep
<1>3. CASE UNCHANGED listVars
  <2>1. UNCHANGED <<list, node, it, listReply>>
    BY <1>3 DEF listVars
  <2>2. ListInv'
    BY <2>1 DEF ListInv
  <2>3. UNCHANGED AbstractList!vars
    BY <2>1, EntriesNow, EntriesNext DEF AbstractList!vars
  <2> QED
    BY <2>2, <2>3
<1> QED
  BY <1>1, <1>2, <1>3

LEMMA ListStart == ListInit => ListInv /\ AbstractList!Init
<1> SUFFICES ASSUME ListInit PROVE ListInv /\ AbstractList!Init
  OBVIOUS
<1>1. list = NULL /\ it = NULL /\ node = [n \in ListNodes |-> NULL]
      /\ listReply = ListReply(<<"none">>, 0)
  BY DEF ListInit
<1> QED
  BY <1>1 DEF ListInv, ListOk, AbstractList!Init, AbstractList!Reply, ListReply

LEMMA Backwards ==
  ASSUME NEW c, NEW v, NEW o, Linked(list, node, c, v, o)
  PROVE  Chain(list.tail, Pred) = [i \in DOMAIN c |-> c[Len(c) + 1 - i]]
<1>1. PICK n : n = Len(c)
  OBVIOUS
<1>2. /\ n \in Nat /\ DOMAIN c = 1 .. n /\ c \in Seq(ListNodes) /\ Distinct(c)
      /\ list.tail = Nth(c, n)
  <2>1. /\ DOMAIN c = 1 .. Len(c) /\ Len(c) \in Nat /\ c \in Seq(ListNodes)
        /\ list.tail = Nth(c, Len(c))
    BY LinkedTypes
  <2> QED
    BY <1>1, <2>1 DEF Linked
<1>3. PICK r : r = [i \in 1 .. n |-> c[n + 1 - i]]
  OBVIOUS
<1>4. \A i \in 1 .. n : n + 1 - i \in 1 .. n /\ c[i] \in ListNodes
  BY <1>2
<1>5. r \in [1 .. n -> ListNodes] /\ DOMAIN r = 1 .. n
  BY <1>3, <1>4
<1>6. r \in Seq(ListNodes) /\ Len(r) = n
  BY <1>2, <1>5
<1>7. Distinct(r)
  <2>1. ASSUME NEW i \in 1 .. n, NEW j \in 1 .. n, r[i] = r[j] PROVE i = j
    <3>1. c[n + 1 - i] = c[n + 1 - j]
      BY <1>3, <2>1
    <3>2. n + 1 - i = n + 1 - j
      BY <1>2, <1>4, <3>1 DEF Distinct
    <3> QED
      BY <1>2, <3>2
  <2> QED
    BY <1>5, <1>6, <2>1 DEF Distinct
<1>8. \A i \in Int : Nth(r, i) = Nth(c, n + 1 - i)
  <2>1. \A i \in Int : i \in 1 .. n <=> n + 1 - i \in 1 .. n
    BY <1>2
  <2> QED
    BY <1>2, <1>3, <1>5, <2>1 DEF Nth
<1>9. list.tail = Nth(r, 1)
  <2>1. 1 \in Int /\ n + 1 - 1 = n
    BY <1>2
  <2> QED
    BY <1>2, <1>8, <2>1
<1>10. ASSUME NEW i \in DOMAIN r PROVE Pred[r[i]] = Nth(r, i + 1)
  <2>1. PICK j : j = n + 1 - i
    OBVIOUS
  <2>2. j \in DOMAIN c /\ r[i] = c[j]
    BY <1>2, <1>3, <1>4, <1>5, <2>1
  <2>3. Pred[c[j]] = node[c[j]].prev
    BY <2>2, LinkedNode DEF Pred, Free, Pointers
  <2>4. node[c[j]].prev = Nth(c, j - 1)
    BY <2>2, LinkedNode
  <2>5. i + 1 \in Int /\ n + 1 - (i + 1) = j - 1
    BY <1>2, <1>5, <2>1
  <2>6. Nth(r, i + 1) = Nth(c, j - 1)
    BY <1>8, <2>5
  <2> QED
    BY <2>2, <2>3, <2>4, <2>6
<1>11. ChainOf(Pred, list.tail, r)
  BY <1>7, <1>9, <1>10 DEF ChainOf
<1>12. list.tail \in Pointers
  BY <1>2, NthType
<1>13. Pred \in [Pointers -> Pointers] /\ Pred[NULL] = NULL
  BY LinkedNodes, SuccNow
<1>14. Chain(list.tail, Pred) = r
  BY <1>11, <1>12, <1>13, ChainIs
<1> QED
  BY <1>1, <1>2, <1>3, <1>14

LEMMA ListInvLinks == ListInv => ListLinked
<1> SUFFICES ASSUME ListInv PROVE ListLinked
  OBVIOUS
<1>1. CASE list = NULL
  <2>1. it = NULL /\ Free = ListNodes
    BY <1>1 DEF ListInv, ListOk, Free
  <2>2. Nodes(<<>>) = {} /\ Len(<<>>) = 0
    BY DEF Nodes
  <2>3. Cardinality({}) = 0
    BY FS_EmptySet
  <2> QED
    BY <1>1, <2>1, <2>2, <2>3 DEF ListLinked
<1>2. CASE list # NULL
  <2>1. PICK c, v, o, p : ListAt(list, node, it, c, v, o, p)
    BY <1>2 DEF ListInv, ListOk
  <2>2. Linked(list, node, c, v, o) /\ p \in 0 .. Len(c) /\ it = Nth(c, p)
    BY <2>1 DEF ListAt
  <2>3. /\ Distinct(c) /\ list.head = Nth(c, 1) /\ list.size = Len(c)
    BY <2>2, LinkedTypes DEF Linked
  <2>4. Chain(list.head, Succ) = c
    <3>1. list.head \in Pointers
      BY <2>3, NthType
    <3>2. ChainOf(Succ, list.head, c) /\ Succ \in [Pointers -> Pointers] /\ Succ[NULL] = NULL
      BY <2>2, LinkedNodes, SuccNow
    <3> QED
      BY <3>1, <3>2, ChainIs
  <2>5. Chain(list.tail, Pred) = [i \in DOMAIN c |-> c[Len(c) + 1 - i]]
    BY <2>2, Backwards
  <2>6. Cardinality(Nodes(c)) = Len(c)
    BY <2>3, DistinctCount
  <2>7. Nodes(c) = ListNodes \ Free
    <3>1. \A n \in ListNodes : node[n] = NULL <=> n \notin Nodes(c)
      BY <2>2, LinkedNodes
    <3>2. Nodes(c) \subseteq ListNodes
      BY <2>3 DEF Nodes, Distinct
    <3> QED
      BY <3>1, <3>2 DEF Free
  <2>8. it \in Nodes(c) \cup {NULL}
    BY <2>2 DEF Nth, Nodes
  <2> QED
    BY <1>2, <2>3, <2>4, <2>5, <2>6, <2>7, <2>8 DEF ListLinked
<1> QED
  BY <1>1, <1>2

(* Whatever was added, inserted, removed, sorted and destroyed before, the pointers next and
   prev lead through the same nodes in opposite orders, these are all the nodes in
   memory, size counts them, and the iterator is at one of them or at none (the functions
   of linked_list.h that edit pointers). *)
THEOREM ListStaysLinked == ListSpec => []ListLinked
<1>1. ListInit => ListInv
  BY ListStart
<1>2. ListInv /\ [ListNext]_listVars => ListInv'
  BY ListNextStep
<1>3. ListInv => ListLinked
  BY ListInvLinks
<1> QED
  BY <1>1, <1>2, <1>3, PTL DEF ListSpec

(* Every call of linked_list.h does to the sequence of entries and the iterator's place what
   its name says and gives its answer: msort is stable and leaves the iterator at its
   entry, removal moves it to the neighbour that the call names. *)
THEOREM ListIsSequence == ListSpec => ImplementsValueList
<1>1. ListInit => ListInv /\ AbstractList!Init
  BY ListStart
<1>2. ListInv /\ [ListNext]_listVars => ListInv' /\ [AbstractList!Next]_AbstractList!vars
  BY ListNextStep
<1> QED
  BY <1>1, <1>2, PTL DEF ListSpec, ImplementsValueList, AbstractList!Spec
=============================================================================
