--------------------------- MODULE ContainerProofs ---------------------------
(* The TLAPS proofs about array, priority queue and files: heaps, sorting and searching,
   the priority queue as a bag of entries, the array as a sequence of them, and sizes,
   strings and data as they are written and read. *)
EXTENDS Array, PQueue, Serialization, FiniteSetTheorems, SequenceTheorems, WellFoundedInduction,
        TLAPS

-----------------------------------------------------------------------------
(* Induction and recursion *)

LEMMA NatInduced ==
  ASSUME NEW S, S \subseteq Nat, 0 \in S, \A n \in S : n + 1 \in S
  PROVE  S = Nat
<1> SUFFICES ASSUME NEW x \in Nat \ S PROVE FALSE
  OBVIOUS
<1>1. PICK z \in Nat \ S : \A y \in Nat \ S : ~(<<y, z>> \in OpToRel(<, Nat))
  BY NatLessThanWellFounded, WFMin
<1>2. z - 1 \in Nat /\ z - 1 \notin S
  OBVIOUS
<1>3. <<z - 1, z>> \in OpToRel(<, Nat)
  BY <1>2 DEF OpToRel
<1> QED
  BY <1>1, <1>2, <1>3

(* What holds of an element when it holds of all of smaller measure holds of all. *)
LEMMA MeasureInduced ==
  ASSUME NEW D, NEW m \in [D -> Nat], NEW S,
         \A i \in D : (\A j \in D : m[j] < m[i] => j \in S) => i \in S
  PROVE  D \subseteq S
<1> DEFINE T == {n \in Nat : \A i \in D : m[i] < n => i \in S}
<1>1. 0 \in T
  OBVIOUS
<1>2. ASSUME NEW n \in T PROVE n + 1 \in T
  <2>1. ASSUME NEW i \in D, m[i] < n + 1 PROVE i \in S
    <3>1. \A j \in D : m[j] < m[i] => j \in S
      BY <2>1
    <3> QED
      BY <3>1
  <2> QED
    BY <2>1
<1> HIDE DEF T
<1>3. T = Nat
  BY <1>1, <1>2, NatInduced DEF T
<1>4. ASSUME NEW i \in D PROVE i \in S
  <2>1. m[i] + 1 \in T /\ m[i] < m[i] + 1
    BY <1>3
  <2> QED
    BY <2>1 DEF T
<1> QED
  BY <1>4

(* B says what a function from D to R is at an element when it is known where the measure
   m is smaller. *)
Founded(D, R, m, B) ==
  /\ R # {} /\ m \in [D -> Nat]
  /\ \A g \in [D -> R], i \in D : B[g][i] \in R
  /\ \A g, h \in [D -> R], i \in D :
       (\A j \in D : m[j] < m[i] => g[j] = h[j]) => B[g][i] = B[h][i]

(* Such a recursion defines a function. *)
LEMMA Recursion ==
  ASSUME NEW D, NEW R, NEW m, NEW B, Founded(D, R, m, B)
  PROVE  \E f \in [D -> R] : \A i \in D : f[i] = B[f][i]
<1> USE DEF Founded
<1> DEFINE Good(g, n) == \A i \in D : m[i] < n => g[i] = B[g][i]
           T == {n \in Nat : \E g \in [D -> R] : Good(g, n)}
           U == {n \in Nat : \A g, h \in [D -> R] :
                               Good(g, n) /\ Good(h, n) => \A i \in D : m[i] < n => g[i] = h[i]}
<1>1. T = Nat
  <2>1. 0 \in T
    <3>1. PICK r \in R : TRUE
      OBVIOUS
    <3>2. [i \in D |-> r] \in [D -> R] /\ Good([i \in D |-> r], 0)
      OBVIOUS
    <3> QED
      BY <3>2
  <2>2. ASSUME NEW n \in T PROVE n + 1 \in T
    <3>1. PICK g \in [D -> R] : Good(g, n)
      OBVIOUS
    <3> DEFINE h == [i \in D |-> IF m[i] < n THEN g[i] ELSE B[g][i]]
    <3>2. h \in [D -> R]
      OBVIOUS
    <3>3. ASSUME NEW i \in D, m[i] < n + 1 PROVE h[i] = B[h][i]
      <4>1. \A j \in D : m[j] < m[i] => g[j] = h[j]
        BY <3>3
      <4>2. B[g][i] = B[h][i]
        BY <3>2, <4>1
      <4>3. h[i] = B[g][i]
        BY <3>1
      <4> QED
        BY <4>2, <4>3
    <3> HIDE DEF h
    <3>4. Good(h, n + 1)
      BY <3>3
    <3> QED
      BY <3>2, <3>4
  <2> HIDE DEF T
  <2> QED
    BY <2>1, <2>2, NatInduced DEF T
<1>2. U = Nat
  <2>1. 0 \in U
    OBVIOUS
  <2>2. ASSUME NEW n \in U PROVE n + 1 \in U
    <3> SUFFICES ASSUME NEW g \in [D -> R], NEW h \in [D -> R], Good(g, n + 1), Good(h, n + 1),
                        NEW i \in D, m[i] < n + 1
                 PROVE  g[i] = h[i]
      OBVIOUS
    <3>1. \A j \in D : m[j] < n => g[j] = h[j]
      OBVIOUS
    <3>2. B[g][i] = B[h][i]
      BY <3>1
    <3> QED
      BY <3>2
  <2> HIDE DEF U
  <2> QED
    BY <2>1, <2>2, NatInduced DEF U
<1> DEFINE G(n) == CHOOSE g : g \in [D -> R] /\ Good(g, n)
           f == [i \in D |-> G(m[i] + 1)[i]]
<1>3. ASSUME NEW n \in Nat PROVE G(n) \in [D -> R] /\ Good(G(n), n)
  <2> HIDE DEF Good
  <2>1. \E g : g \in [D -> R] /\ Good(g, n)
    BY <1>1
  <2> QED
    BY <2>1
<1> HIDE DEF G
<1>4. f \in [D -> R]
  BY <1>3
<1>5. ASSUME NEW i \in D PROVE f[i] = B[f][i]
  <2> DEFINE g == G(m[i] + 1)
  <2>1. g \in [D -> R] /\ Good(g, m[i] + 1)
    BY <1>3
  <2>2. ASSUME NEW j \in D, m[j] < m[i] PROVE g[j] = f[j]
    <3>1. G(m[j] + 1) \in [D -> R] /\ Good(G(m[j] + 1), m[j] + 1)
      BY <1>3
    <3>2. Good(g, m[j] + 1)
      BY <2>1, <2>2
    <3>3. m[j] + 1 \in U
      BY <1>2
    <3> HIDE DEF Good
    <3>4. g[j] = G(m[j] + 1)[j]
      BY <2>1, <3>1, <3>2, <3>3
    <3> QED
      BY <3>4
  <2>3. B[g][i] = B[f][i]
    BY <1>4, <2>1, <2>2
  <2> HIDE DEF g
  <2>4. g[i] = B[g][i]
    BY <2>1
  <2> QED
    BY <2>3, <2>4 DEF g
<1> QED
  BY <1>4, <1>5

-----------------------------------------------------------------------------
(* The order of entries *)

Keyed(S) == \A x \in S : x.key \in Int

Weights(order, S) == [x \in S |-> order * x.key]

(* Compare compares integers. *)
LEMMA CompareWeights ==
  ASSUME NEW order \in {1, -1}, NEW S, Keyed(S), NEW w, w = Weights(order, S)
  PROVE  /\ w \in [S -> Int]
         /\ \A x, y \in S : /\ Compare(order, x, y) <= 0 <=> w[x] <= w[y]
                            /\ Compare(order, x, y) < 0 <=> w[x] < w[y]
                            /\ Compare(order, x, y) = 0 <=> w[x] = w[y]
                            /\ Compare(order, x, y) > 0 <=> w[x] > w[y]
                            /\ Compare(order, x, y) >= 0 <=> w[x] >= w[y]
<1>1. CASE order = 1
  BY <1>1 DEF Keyed, Weights, Compare
<1>2. CASE order = -1
  BY <1>2 DEF Keyed, Weights, Compare
<1> QED
  BY <1>1, <1>2

LEMMA Halves ==
  ASSUME NEW i \in Nat, i >= 2
  PROVE  /\ Parent(i) \in Nat /\ Parent(i) >= 1 /\ Parent(i) < i
         /\ i \in {2 * Parent(i), 2 * Parent(i) + 1}
BY DEF Parent

LEMMA Children ==
  ASSUME NEW i \in Nat, NEW j \in Nat, j >= 2
  PROVE  Parent(j) = i <=> j \in {2 * i, 2 * i + 1}
BY DEF Parent

-----------------------------------------------------------------------------
(* How often a sequence has an entry *)

Count(s, v) == Cardinality({i \in DOMAIN s : s[i] = v})

Is(x, v) == IF x = v THEN 1 ELSE 0

(* t has y once more, and x once less, than s. *)
Added(t, s, y) == \A v : Count(t, v) = Count(s, v) + Is(y, v)
Exchanged(t, s, x, y) == \A v : Count(t, v) = Count(s, v) + Is(y, v) - Is(x, v)
SameCounts(t, s) == \A v : Count(t, v) = Count(s, v)

LEMMA CountType ==
  ASSUME NEW S, NEW n \in Nat, NEW s \in [1 .. n -> S], NEW v
  PROVE  /\ IsFiniteSet({i \in DOMAIN s : s[i] = v})
         /\ Count(s, v) \in Nat
<1>1. DOMAIN s = 1 .. n /\ IsFiniteSet(1 .. n)
  BY FS_Interval
<1>2. IsFiniteSet({i \in DOMAIN s : s[i] = v})
  BY <1>1, FS_Subset
<1> QED
  BY <1>2, FS_CardinalityType DEF Count

LEMMA CountPositive ==
  ASSUME NEW S, NEW n \in Nat, NEW s \in [1 .. n -> S], NEW v
  PROVE  Count(s, v) > 0 <=> \E i \in DOMAIN s : s[i] = v
<1> DEFINE A == {i \in DOMAIN s : s[i] = v}
<1>1. IsFiniteSet(A) /\ Cardinality(A) \in Nat /\ Count(s, v) = Cardinality(A)
  BY CountType DEF Count
<1>2. Cardinality(A) = 0 <=> A = {}
  <2> HIDE DEF A
  <2> QED
    BY <1>1, FS_EmptySet
<1> QED
  BY <1>1, <1>2

LEMMA CountExcept ==
  ASSUME NEW S, NEW n \in Nat, NEW s \in [1 .. n -> S], NEW i \in 1 .. n, NEW y \in S,
         NEW t, t = [s EXCEPT ![i] = y]
  PROVE  Exchanged(t, s, s[i], y)
<1> SUFFICES ASSUME NEW v PROVE Count(t, v) = Count(s, v) + Is(y, v) - Is(s[i], v)
  BY DEF Exchanged
<1> DEFINE A == {j \in DOMAIN s : s[j] = v}
           B == {j \in DOMAIN t : t[j] = v}
<1>1. IsFiniteSet(A) /\ Cardinality(A) \in Nat /\ Count(s, v) = Cardinality(A)
  BY CountType DEF Count
<1>2. IsFiniteSet(A \cup {i}) /\ IsFiniteSet(A \ {i})
  BY <1>1, FS_AddElement, FS_RemoveElement
<1>3. /\ Cardinality(A \cup {i}) = IF i \in A THEN Cardinality(A) ELSE Cardinality(A) + 1
      /\ Cardinality(A \ {i}) = IF i \in A THEN Cardinality(A) - 1 ELSE Cardinality(A)
  BY <1>1, FS_AddElement, FS_RemoveElement
<1>4. B = IF y = v THEN A \cup {i} ELSE A \ {i}
  OBVIOUS
<1>5. i \in A <=> s[i] = v
  OBVIOUS
<1>6. Count(t, v) = Cardinality(B)
  BY DEF Count
<1> HIDE DEF A, B
<1> QED
  BY <1>1, <1>3, <1>4, <1>5, <1>6 DEF Is

(* One place more *)
LEMMA CountMore ==
  ASSUME NEW S, NEW n \in Nat, NEW s \in [1 .. n -> S], NEW y \in S,
         NEW t \in [1 .. n + 1 -> S], \A j \in 1 .. n : t[j] = s[j], t[n + 1] = y
  PROVE  Added(t, s, y)
<1> SUFFICES ASSUME NEW v PROVE Count(t, v) = Count(s, v) + Is(y, v)
  BY DEF Added
<1> DEFINE A == {j \in DOMAIN s : s[j] = v}
           B == {j \in DOMAIN t : t[j] = v}
<1>1. IsFiniteSet(A) /\ Cardinality(A) \in Nat /\ Count(s, v) = Cardinality(A)
  BY CountType DEF Count
<1>2. n + 1 \notin A /\ B = IF y = v THEN A \cup {n + 1} ELSE A
  OBVIOUS
<1>3. Count(t, v) = Cardinality(B)
  BY DEF Count
<1> HIDE DEF A, B
<1>4. Cardinality(A \cup {n + 1}) = Cardinality(A) + 1
  BY <1>1, <1>2, FS_AddElement
<1> QED
  BY <1>1, <1>2, <1>3, <1>4 DEF Is

LEMMA CountAppend ==
  ASSUME NEW S, NEW s \in Seq(S), NEW y \in S
  PROVE  Added(Append(s, y), s, y)
<1> DEFINE t == Append(s, y)
           n == Len(s)
<1>1. /\ n \in Nat /\ s \in [1 .. n -> S] /\ t \in Seq(S) /\ Len(t) = n + 1
      /\ (\A j \in 1 .. n : t[j] = s[j]) /\ t[n + 1] = y
  OBVIOUS
<1> HIDE DEF t
<1>2. t \in [1 .. n + 1 -> S]
  BY <1>1
<1> HIDE DEF n
<1> QED
  BY <1>1, <1>2, CountMore DEF t

LEMMA CountFront ==
  ASSUME NEW S, NEW s \in Seq(S), NEW n \in Nat, Len(s) = n + 1
  PROVE  /\ SubSeq(s, 1, n) \in Seq(S) /\ Len(SubSeq(s, 1, n)) = n
         /\ \A j \in 1 .. n : SubSeq(s, 1, n)[j] = s[j]
         /\ Added(s, SubSeq(s, 1, n), s[n + 1])
<1> DEFINE t == SubSeq(s, 1, n)
<1>1. t \in Seq(S) /\ Len(t) = n /\ \A j \in 1 .. n : t[j] = s[j]
  OBVIOUS
<1>2. s[n + 1] \in S /\ s \in [1 .. n + 1 -> S]
  OBVIOUS
<1> HIDE DEF t
<1>3. t \in [1 .. n -> S]
  BY <1>1
<1>4. Added(s, t, s[n + 1])
  BY <1>1, <1>2, <1>3, CountMore
<1> QED
  BY <1>1, <1>4 DEF t

-----------------------------------------------------------------------------
(* Sifting up *)

(* What the recursion of SiftUp says of its function *)
SiftsUp(order, h, e, n, Up) ==
  Up = [i \in 1 .. n |->
          IF i = 1 THEN [Append(h, e) EXCEPT ![i] = e]
          ELSE IF Compare(order, e, h[Parent(i)]) <= 0 THEN [Append(h, e) EXCEPT ![i] = e]
          ELSE [Up[Parent(i)] EXCEPT ![i] = h[Parent(i)]]]

LEMMA SiftUpSteps ==
  ASSUME NEW order, NEW S, NEW h \in Seq(S), NEW e \in S, NEW n, n = Len(h) + 1
  PROVE  \E Up : SiftUp(order, h, e) = Up[n] /\ SiftsUp(order, h, e, n, Up)
<1> DEFINE D == 1 .. n
           R == [D -> S]
           a == Append(h, e)
           Body(g, i) == IF i = 1 THEN [a EXCEPT ![i] = e]
                         ELSE IF Compare(order, e, h[Parent(i)]) <= 0 THEN [a EXCEPT ![i] = e]
                         ELSE [g[Parent(i)] EXCEPT ![i] = h[Parent(i)]]
           m == [i \in D |-> i]
           B == [g \in [D -> R] |-> [i \in D |-> Body(g, i)]]
<1>1. a \in R /\ n \in Nat
  <2>1. a \in Seq(S) /\ Len(a) = n /\ n \in Nat
    OBVIOUS
  <2> HIDE DEF a
  <2> QED
    BY <2>1
<1>2. ASSUME NEW i \in D, i # 1 PROVE Parent(i) \in D /\ Parent(i) < i /\ h[Parent(i)] \in S
  BY <1>2, Halves
<1> HIDE DEF a
<1>3. ASSUME NEW g \in [D -> R], NEW i \in D PROVE Body(g, i) \in R
  BY <1>1, <1>2, <1>3
<1>4. ASSUME NEW g \in [D -> R], NEW f \in [D -> R], NEW i \in D,
             \A j \in D : m[j] < m[i] => g[j] = f[j]
      PROVE  Body(g, i) = Body(f, i)
  BY <1>2, <1>4
<1>5. R # {} /\ m \in [D -> Nat] /\ \A i \in D : m[i] = i
  BY <1>1
<1> HIDE DEF m, R, D, Body
<1>6. Founded(D, R, m, B)
  BY <1>3, <1>4, <1>5, ZenonT(30) DEF Founded
<1>7. \A g \in [D -> R], i \in D : B[g][i] = Body(g, i)
  OBVIOUS
<1> HIDE DEF B
<1>8. \E f : f = [i \in D |-> Body(f, i)]
  <2>1. PICK f \in [D -> R] : \A i \in D : f[i] = B[f][i]
    BY <1>6, Recursion
  <2>2. f = [i \in D |-> Body(f, i)]
    BY <1>7, <2>1
  <2> QED
    BY <2>2
<1> DEFINE F == CHOOSE f : f = [i \in D |-> Body(f, i)]
<1>9. F = [i \in D |-> Body(F, i)]
  BY <1>8
<1>10. SiftUp(order, h, e) = F[n]
  BY DEF SiftUp, D, Body, a
<1> HIDE DEF F
<1> QED
  BY <1>9, <1>10 DEF D, Body, a, SiftsUp

(* The heap condition on the first k places, by the weights of the entries *)
HeapBy(w, k, h) == \A i \in 2 .. k : w[h[i]] <= w[h[Parent(i)]]

LEMMA HeapWeights ==
  ASSUME NEW order \in {1, -1}, NEW S, Keyed(S), NEW h \in Seq(S), NEW w, w = Weights(order, S)
  PROVE  IsHeap(order, h) <=> HeapBy(w, Len(h), h)
<1>1. ASSUME NEW i \in 2 .. Len(h) PROVE Compare(order, h[i], h[Parent(i)]) <= 0
                                           <=> w[h[i]] <= w[h[Parent(i)]]
  <2>1. Parent(i) \in 1 .. Len(h)
    BY Halves
  <2>2. h[i] \in S /\ h[Parent(i)] \in S
    BY <2>1
  <2> QED
    BY <2>2, CompareWeights, SMTT(30)
<1> QED
  BY <1>1 DEF IsHeap, HeapBy

(* What SiftUp has made of a, h and e behind it, above slot i, when a hole is there. *)
Risen(w, S, n, h, e, a, g, i) ==
  /\ g \in [1 .. n -> S]
  /\ \A j \in 1 .. n : j > i => g[j] = a[j]
  /\ SameCounts(g, [a EXCEPT ![i] = e])
  /\ HeapBy(w, n - 1, h) /\ (i = n \/ w[e] > w[h[i]]) =>
       /\ \A j \in 2 .. n : j < n \/ i = n => w[g[j]] <= w[g[Parent(j)]]
       /\ i < n => w[g[i]] >= w[h[i]]

(* The hole takes e, where no larger parent is. *)
LEMMA RisenPut ==
  ASSUME NEW S, NEW w \in [S -> Int], NEW n \in Nat, n >= 1, NEW h \in [1 .. n - 1 -> S], NEW e \in S,
         NEW a \in [1 .. n -> S], a[n] = e, \A j \in 1 .. n - 1 : a[j] = h[j],
         NEW i \in 1 .. n, i = 1 \/ w[e] <= w[h[Parent(i)]]
  PROVE  Risen(w, S, n, h, e, a, [a EXCEPT ![i] = e], i)
<1> DEFINE g == [a EXCEPT ![i] = e]
<1>1. g \in [1 .. n -> S] /\ \A j \in 1 .. n : g[j] = IF j \in {i, n} THEN e ELSE h[j]
  OBVIOUS
<1> HIDE DEF g
<1>2. ASSUME HeapBy(w, n - 1, h), i = n \/ w[e] > w[h[i]], NEW j \in 2 .. n, j < n \/ i = n
      PROVE  w[g[j]] <= w[g[Parent(j)]]
  <2> DEFINE p == Parent(j)
  <2>1. p \in 1 .. n - 1 /\ p < j /\ h[p] \in S
    BY Halves
  <2> HIDE DEF p
  <2>2. CASE j = i
    <3>1. g[j] = e /\ g[p] = h[p] /\ w[e] <= w[h[p]]
      BY <1>1, <2>1, <2>2 DEF p
    <3> QED
      BY <2>1, <3>1 DEF p
  <2>3. CASE j # i
    <3>1. j \in 2 .. n - 1
      BY <1>2, <2>3
    <3>2. h[j] \in S /\ g[j] = h[j] /\ w[h[j]] <= w[h[p]]
      BY <1>1, <1>2, <2>3, <3>1 DEF p, HeapBy
    <3>3. g[p] = h[p] \/ (p = i /\ g[p] = e)
      <4>1. p \in 1 .. n /\ p # n
        BY <2>1
      <4> QED
        BY <1>1, <4>1
    <3>4. p = i => w[h[p]] < w[e]
      BY <1>2, <2>1
    <3> QED
      BY <2>1, <3>2, <3>3, <3>4 DEF p
  <2> QED
    BY <2>2, <2>3
<1>3. ASSUME HeapBy(w, n - 1, h), i = n \/ w[e] > w[h[i]], i < n
      PROVE  w[g[i]] >= w[h[i]]
  <2>1. g[i] = e /\ h[i] \in S
    BY <1>1, <1>3
  <2> QED
    BY <1>3, <2>1
<1>4. ASSUME NEW j \in 1 .. n, j > i PROVE g[j] = a[j]
  BY <1>4 DEF g
<1>5. SameCounts(g, [a EXCEPT ![i] = e])
  BY DEF SameCounts, g
<1> QED
  BY <1>1, <1>2, <1>3, <1>4, <1>5 DEF Risen, g

(* The smaller parent comes down into the hole. *)
LEMMA RisenUp ==
  ASSUME NEW S, NEW w \in [S -> Int], NEW n \in Nat, n >= 1, NEW h \in [1 .. n - 1 -> S], NEW e \in S,
         NEW a \in [1 .. n -> S], a[n] = e, \A j \in 1 .. n - 1 : a[j] = h[j],
         NEW i \in 2 .. n, NEW p, p = Parent(i), w[e] > w[h[p]],
         NEW f, Risen(w, S, n, h, e, a, f, p)
  PROVE  Risen(w, S, n, h, e, a, [f EXCEPT ![i] = h[p]], i)
<1> DEFINE g == [f EXCEPT ![i] = h[p]]
<1>1. p \in 1 .. n - 1 /\ p < i /\ i \in {2 * p, 2 * p + 1} /\ h[p] \in S /\ p \in 1 .. n
  BY Halves
<1>2. /\ f \in [1 .. n -> S]
      /\ \A j \in 1 .. n : j > p => f[j] = a[j]
  BY DEF Risen
<1>3. g \in [1 .. n -> S] /\ \A j \in 1 .. n : g[j] = IF j = i THEN h[p] ELSE f[j]
  BY <1>1, <1>2
<1>4. \A j \in 1 .. n : j > i => g[j] = a[j]
  BY <1>1, <1>2, <1>3, SMTT(30)
<1>5. SameCounts(g, [a EXCEPT ![i] = e])
  <2> DEFINE b == [a EXCEPT ![p] = e]
             c == [a EXCEPT ![i] = e]
  <2>1. f[i] = a[i] /\ a[p] = h[p] /\ i \in 1 .. n
    BY <1>1, <1>2
  <2>2. g = [f EXCEPT ![i] = h[p]] /\ b = [a EXCEPT ![p] = e] /\ c = [a EXCEPT ![i] = e]
    OBVIOUS
  <2> HIDE DEF g, b, c
  <2>3. Exchanged(g, f, f[i], h[p])
    BY <1>1, <1>2, <2>1, <2>2, CountExcept
  <2>4. Exchanged(b, a, a[p], e)
    BY <1>1, <2>2, CountExcept
  <2>5. Exchanged(c, a, a[i], e)
    BY <2>1, <2>2, CountExcept
  <2>6. SameCounts(f, b)
    BY DEF Risen, b
  <2>7. ASSUME NEW v PROVE Count(g, v) = Count(c, v)
    <3>1. Count(a, v) \in Nat /\ Is(a[i], v) \in Nat /\ Is(a[p], v) \in Nat /\ Is(e, v) \in Nat
      BY CountType DEF Is
    <3>2. Count(g, v) = Count(f, v) + Is(a[p], v) - Is(a[i], v)
      BY <2>1, <2>3 DEF Exchanged
    <3>3. Count(f, v) = Count(a, v) + Is(e, v) - Is(a[p], v)
      BY <2>4, <2>6 DEF Exchanged, SameCounts
    <3>4. Count(c, v) = Count(a, v) + Is(e, v) - Is(a[i], v)
      BY <2>5 DEF Exchanged
    <3> QED
      BY <3>1, <3>2, <3>3, <3>4
  <2> QED
    BY <2>7 DEF c, SameCounts
<1> HIDE DEF g
<1>6. ASSUME HeapBy(w, n - 1, h), i = n \/ w[e] > w[h[i]]
      PROVE  /\ \A j \in 2 .. n : j < n \/ i = n => w[g[j]] <= w[g[Parent(j)]]
             /\ i < n => w[g[i]] >= w[h[i]]
  <2>1. \A j \in 2 .. n - 1 : w[f[j]] <= w[f[Parent(j)]]
    BY <1>1, <1>6 DEF Risen
  <2>2. w[f[p]] >= w[h[p]]
    BY <1>1, <1>6 DEF Risen
  <2>3. \A j \in 2 .. n - 1 : w[h[j]] <= w[h[Parent(j)]]
    BY <1>6 DEF HeapBy
  <2>4. ASSUME NEW j \in 2 .. n, j < n \/ i = n PROVE w[g[j]] <= w[g[Parent(j)]]
    <3> DEFINE q == Parent(j)
    <3>1. q \in 1 .. n /\ q < j /\ j \in {2 * q, 2 * q + 1}
      BY Halves
    <3>2. f[j] \in S /\ f[q] \in S /\ f[p] \in S
      BY <1>1, <1>2, <3>1
    <3> HIDE DEF q
    <3>3. CASE j = i
      <4>1. q = p
        BY <3>3 DEF q
      <4>2. g[j] = h[p] /\ g[q] = f[p]
        BY <1>1, <1>3, <3>1, <3>3, <4>1
      <4> QED
        BY <2>2, <4>2 DEF q
    <3>4. CASE q = i
      <4>1. j > i /\ j < n /\ j > p /\ i < n
        BY <1>1, <2>4, <3>1, <3>4
      <4>2. g[q] = h[p] /\ g[j] = h[j]
        BY <1>2, <1>3, <3>1, <3>4, <4>1
      <4>3. w[h[j]] <= w[h[i]] /\ w[h[i]] <= w[h[p]]
        <5>1. j \in 2 .. n - 1 /\ i \in 2 .. n - 1
          BY <4>1
        <5> QED
          BY <2>3, <3>4, <5>1 DEF q
      <4>4. h[j] \in S /\ h[i] \in S
        BY <4>1
      <4> QED
        BY <1>1, <4>2, <4>3, <4>4 DEF q
    <3>5. CASE j # i /\ q # i
      <4>1. g[j] = f[j] /\ g[q] = f[q]
        BY <1>3, <3>1, <3>5
      <4>2. j < n
        BY <2>4, <3>5
      <4> QED
        BY <2>1, <4>1, <4>2 DEF q
    <3> QED
      BY <3>3, <3>4, <3>5
  <2>5. ASSUME i < n PROVE w[g[i]] >= w[h[i]]
    <3>1. g[i] = h[p]
      BY <1>3
    <3>2. w[h[i]] <= w[h[p]] /\ h[i] \in S
      BY <2>3, <2>5
    <3> QED
      BY <1>1, <3>1, <3>2
  <2> QED
    BY <2>4, <2>5
<1> QED
  BY <1>3, <1>4, <1>5, <1>6 DEF Risen, g

(* A new entry is added to a heap, and nothing else changes. *)
LEMMA SiftUpSound ==
  ASSUME NEW order \in {1, -1}, NEW S, Keyed(S), NEW h \in Seq(S), NEW e \in S
  PROVE  /\ SiftUp(order, h, e) \in Seq(S)
         /\ Len(SiftUp(order, h, e)) = Len(Append(h, e))
         /\ Added(SiftUp(order, h, e), h, e)
         /\ IsHeap(order, h) => IsHeap(order, SiftUp(order, h, e))
<1> DEFINE n == Len(h) + 1
           a == Append(h, e)
           D == 1 .. n
           m == [i \in D |-> i]
<1>1. PICK Up : SiftUp(order, h, e) = Up[n] /\ SiftsUp(order, h, e, n, Up)
  <2>1. n = Len(h) + 1
    OBVIOUS
  <2> HIDE DEF n
  <2> QED
    BY <2>1, SiftUpSteps
<1>2. /\ n \in Nat /\ n >= 1 /\ Len(h) = n - 1 /\ h \in [1 .. n - 1 -> S]
      /\ a \in Seq(S) /\ Len(a) = n
      /\ a[n] = e /\ \A j \in 1 .. n - 1 : a[j] = h[j]
  OBVIOUS
<1>3. Added(a, h, e)
  BY CountAppend
<1>14. Len(Append(h, e)) = n
  OBVIOUS
<1> HIDE DEF a
<1>4. a \in [1 .. n -> S]
  BY <1>2
<1> HIDE DEF n
<1>5. PICK w : w = Weights(order, S)
  OBVIOUS
<1>6. /\ w \in [S -> Int]
      /\ \A x, y \in S : Compare(order, x, y) <= 0 <=> w[x] <= w[y]
  BY <1>5, CompareWeights
<1> DEFINE T == {i \in D : Risen(w, S, n, h, e, a, Up[i], i)}
<1>7. ASSUME NEW i \in D, \A j \in D : m[j] < m[i] => j \in T PROVE i \in T
  <2> DEFINE p == Parent(i)
  <2>1. i # 1 => i \in 2 .. n /\ p \in D /\ p < i /\ p \in 1 .. n - 1 /\ h[p] \in S
    BY <1>2, Halves
  <2> HIDE DEF p
  <2>2. CASE i = 1 \/ (i # 1 /\ w[e] <= w[h[p]])
    <3>1. i = 1 \/ Compare(order, e, h[p]) <= 0
      BY <1>6, <2>1, <2>2
    <3>2. Up[i] = [a EXCEPT ![i] = e]
      BY <1>1, <3>1 DEF p, SiftsUp, a
    <3>3. Risen(w, S, n, h, e, a, Up[i], i)
      <4> HIDE DEF T, m
      <4>1. i \in 1 .. n /\ (i = 1 \/ w[e] <= w[h[Parent(i)]])
        BY <2>2 DEF p
      <4>2. Risen(w, S, n, h, e, a, [a EXCEPT ![i] = e], i)
        BY <1>2, <1>4, <1>6, <4>1, RisenPut
      <4> QED
        BY <3>2, <4>2
    <3> QED
      BY <3>3
  <2>3. CASE i # 1 /\ ~(w[e] <= w[h[p]])
    <3>1. ~(Compare(order, e, h[p]) <= 0)
      BY <1>6, <2>1, <2>3
    <3>2. Up[i] = [Up[p] EXCEPT ![i] = h[p]]
      BY <1>1, <2>3, <3>1 DEF p, SiftsUp
    <3>3. Risen(w, S, n, h, e, a, Up[p], p)
      BY <1>7, <2>1, <2>3
    <3>4. i \in 2 .. n /\ p = Parent(i) /\ w[e] > w[h[p]]
      BY <1>6, <2>1, <2>3 DEF p
    <3>5. Risen(w, S, n, h, e, a, [Up[p] EXCEPT ![i] = h[p]], i)
      <4> HIDE DEF T, m
      <4> QED
        BY <1>2, <1>4, <1>6, <3>3, <3>4, RisenUp
    <3> QED
      BY <3>2, <3>5
  <2> QED
    BY <2>2, <2>3
<1>8. D \subseteq T
  <2>1. m \in [D -> Nat]
    BY <1>2
  <2> HIDE DEF m, T, D
  <2> QED
    BY <1>7, <2>1, MeasureInduced
<1>9. Risen(w, S, n, h, e, a, Up[n], n)
  BY <1>2, <1>8
<1> HIDE DEF m, T
<1> DEFINE g == Up[n]
<1>10. g \in [1 .. n -> S]
  BY <1>9 DEF Risen
<1>11. g \in Seq(S) /\ Len(g) = n
  <2> HIDE DEF g
  <2> QED
    BY <1>2, <1>10
<1>12. Added(g, h, e)
  <2>1. [a EXCEPT ![n] = e] = a
    BY <1>2, <1>4
  <2>2. SameCounts(g, a)
    BY <1>9, <2>1 DEF Risen
  <2> HIDE DEF g
  <2> QED
    BY <1>3, <2>2 DEF Added, SameCounts
<1>13. IsHeap(order, h) => IsHeap(order, g)
  <2>1. HeapBy(w, n - 1, h) => \A j \in 2 .. n : w[g[j]] <= w[g[Parent(j)]]
    BY <1>9 DEF Risen
  <2>2. HeapBy(w, Len(h), h) => HeapBy(w, Len(g), g)
    BY <1>2, <1>11, <2>1 DEF HeapBy
  <2> HIDE DEF g
  <2> QED
    BY <1>5, <1>11, <2>2, HeapWeights
<1> QED
  BY <1>1, <1>11, <1>12, <1>13, <1>14

-----------------------------------------------------------------------------
(* Sifting down *)

(* What the recursion of SiftDown says of its function *)
SiftsDown(order, h, e, n, Down) ==
  Down = [i \in 1 .. n |->
            IF LeftChild(i) > n THEN [h EXCEPT ![i] = e]
            ELSE IF Compare(order, h[LargerChild(order, h, i)], e) <= 0 THEN [h EXCEPT ![i] = e]
            ELSE [Down[LargerChild(order, h, i)] EXCEPT ![i] = h[LargerChild(order, h, i)]]]

LEMMA LargerIsChild ==
  ASSUME NEW order, NEW S, NEW h \in Seq(S), NEW i \in 1 .. Len(h), ~(LeftChild(i) > Len(h)),
         NEW c, c = LargerChild(order, h, i)
  PROVE  c \in 1 .. Len(h) /\ i < c /\ c \in {2 * i, 2 * i + 1} /\ h[c] \in S
<1>1. c \in {2 * i, 2 * i + 1} /\ (c = 2 * i + 1 => 2 * i < Len(h))
  BY DEF LargerChild, LeftChild
<1>2. 2 * i <= Len(h)
  BY DEF LeftChild
<1>3. c \in 1 .. Len(h) /\ i < c
  BY <1>1, <1>2
<1> QED
  BY <1>1, <1>3

LEMMA SiftDownSteps ==
  ASSUME NEW order, NEW S, NEW h \in Seq(S), NEW e \in S, NEW pos \in 1 .. Len(h)
  PROVE  \E Down : /\ SiftDown(order, h, e, pos) = Down[pos]
                   /\ SiftsDown(order, h, e, Len(h), Down)
<1> DEFINE D == 1 .. Len(h)
           R == [D -> S]
           c(i) == LargerChild(order, h, i)
           Body(g, i) == IF LeftChild(i) > Len(h) THEN [h EXCEPT ![i] = e]
                         ELSE IF Compare(order, h[c(i)], e) <= 0 THEN [h EXCEPT ![i] = e]
                         ELSE [g[c(i)] EXCEPT ![i] = h[c(i)]]
           m == [i \in D |-> Len(h) - i]
           B == [g \in [D -> R] |-> [i \in D |-> Body(g, i)]]
<1>1. h \in R
  OBVIOUS
<1>2. ASSUME NEW i \in D, ~(LeftChild(i) > Len(h)) PROVE c(i) \in D /\ i < c(i) /\ h[c(i)] \in S
  BY <1>2, LargerIsChild
<1> HIDE DEF c
<1>3. ASSUME NEW g \in [D -> R], NEW i \in D PROVE Body(g, i) \in R
  BY <1>1, <1>2
<1>4. m \in [D -> Nat] /\ \A i, j \in D : m[j] < m[i] <=> i < j
  OBVIOUS
<1> HIDE DEF m
<1>5. ASSUME NEW g \in [D -> R], NEW f \in [D -> R], NEW i \in D,
             \A j \in D : m[j] < m[i] => g[j] = f[j]
      PROVE  Body(g, i) = Body(f, i)
  BY <1>2, <1>4, <1>5
<1>6. R # {}
  BY <1>1
<1> HIDE DEF R, D, Body
<1>8. \A g \in [D -> R], i \in D : B[g][i] = Body(g, i)
  OBVIOUS
<1> HIDE DEF B
<1>7. Founded(D, R, m, B)
  <2>1. \A g \in [D -> R], i \in D : B[g][i] \in R
    BY <1>3, <1>8
  <2>2. \A g, f \in [D -> R], i \in D :
          (\A j \in D : m[j] < m[i] => g[j] = f[j]) => B[g][i] = B[f][i]
    BY <1>5, <1>8
  <2> QED
    BY <1>4, <1>6, <2>1, <2>2 DEF Founded
<1>9. \E f : f = [i \in D |-> Body(f, i)]
  <2>1. PICK f \in [D -> R] : \A i \in D : f[i] = B[f][i]
    BY <1>7, Recursion
  <2>2. f = [i \in D |-> Body(f, i)]
    BY <1>8, <2>1
  <2> QED
    BY <2>2
<1> DEFINE F == CHOOSE f : f = [i \in D |-> Body(f, i)]
<1>10. F = [i \in D |-> Body(F, i)]
  BY <1>9
<1>11. SiftDown(order, h, e, pos) = F[pos]
  BY DEF SiftDown, D, Body, c
<1> HIDE DEF F
<1> QED
  BY <1>10, <1>11 DEF D, Body, c, SiftsDown

(* The heap condition between the places from k on and their children *)
HeapFrom(w, n, k, h) == \A i \in 2 .. n : Parent(i) >= k => w[h[i]] <= w[h[Parent(i)]]

(* What SiftDown has made of h and e from slot i on, when a hole is there. *)
Sunk(w, S, n, h, e, g, i) ==
  /\ g \in [1 .. n -> S]
  /\ \A j \in 1 .. n : j < 2 * i /\ j # i => g[j] = h[j]
  /\ SameCounts(g, [h EXCEPT ![i] = e])
  /\ HeapFrom(w, n, i + 1, h) =>
       /\ HeapFrom(w, n, i, g)
       /\ g[i] = e \/ \E j \in 2 .. n : Parent(j) = i /\ g[i] = h[j]

(* The hole takes e, where no larger child is. *)
LEMMA SunkPut ==
  ASSUME NEW S, NEW w \in [S -> Int], NEW n \in Nat, NEW h \in [1 .. n -> S], NEW e \in S,
         NEW i \in 1 .. n, \A j \in 1 .. n : j \in {2 * i, 2 * i + 1} => w[h[j]] <= w[e]
  PROVE  Sunk(w, S, n, h, e, [h EXCEPT ![i] = e], i)
<1> DEFINE g == [h EXCEPT ![i] = e]
<1>1. g \in [1 .. n -> S] /\ \A j \in 1 .. n : g[j] = IF j = i THEN e ELSE h[j]
  OBVIOUS
<1>2. SameCounts(g, [h EXCEPT ![i] = e])
  BY DEF SameCounts
<1> HIDE DEF g
<1>3. ASSUME HeapFrom(w, n, i + 1, h) PROVE HeapFrom(w, n, i, g)
  <2> SUFFICES ASSUME NEW j \in 2 .. n, Parent(j) >= i PROVE w[g[j]] <= w[g[Parent(j)]]
    BY DEF HeapFrom
  <2> DEFINE q == Parent(j)
  <2>1. q \in 1 .. n /\ q < j /\ j \in {2 * q, 2 * q + 1} /\ q >= i /\ j \in 1 .. n
    BY Halves
  <2>2. g[j] = h[j]
    BY <1>1, <2>1
  <2>3. q # i => g[q] = h[q] /\ w[h[j]] <= w[h[q]]
    <3>1. q # i => q >= i + 1
      BY <2>1
    <3> QED
      BY <1>1, <1>3, <2>1, <3>1 DEF HeapFrom
  <2> HIDE DEF q
  <2>4. q = i => g[q] = e /\ w[h[j]] <= w[e]
    BY <1>1, <2>1
  <2> QED
    BY <2>2, <2>3, <2>4 DEF q
<1>4. g[i] = e /\ \A j \in 1 .. n : j < 2 * i /\ j # i => g[j] = h[j]
  BY <1>1
<1> QED
  BY <1>1, <1>2, <1>3, <1>4 DEF Sunk, g

(* The larger child c goes up into the hole. *)
LEMMA SunkDown ==
  ASSUME NEW S, NEW w \in [S -> Int], NEW n \in Nat, NEW h \in [1 .. n -> S], NEW e \in S,
         NEW i \in 1 .. n, NEW c \in 1 .. n, c \in {2 * i, 2 * i + 1}, w[e] < w[h[c]],
         \A j \in 1 .. n : j \in {2 * i, 2 * i + 1} => w[h[j]] <= w[h[c]],
         NEW f, Sunk(w, S, n, h, e, f, c)
  PROVE  Sunk(w, S, n, h, e, [f EXCEPT ![i] = h[c]], i)
<1> DEFINE g == [f EXCEPT ![i] = h[c]]
<1>1. i < c /\ Parent(c) = i /\ c \in 2 .. n /\ h[c] \in S
  BY DEF Parent
<1>2. /\ f \in [1 .. n -> S]
      /\ \A j \in 1 .. n : j < 2 * c /\ j # c => f[j] = h[j]
      /\ SameCounts(f, [h EXCEPT ![c] = e])
  BY DEF Sunk
<1>3. g \in [1 .. n -> S] /\ \A j \in 1 .. n : g[j] = IF j = i THEN h[c] ELSE f[j]
  BY <1>1, <1>2
<1>4. ASSUME NEW j \in 1 .. n, j < 2 * i, j # i PROVE g[j] = h[j]
  <2>1. j < 2 * c /\ j # c
    BY <1>1, <1>4
  <2> HIDE DEF g
  <2> QED
    BY <1>2, <1>3, <1>4, <2>1
<1>5. SameCounts(g, [h EXCEPT ![i] = e])
  <2> DEFINE b == [h EXCEPT ![c] = e]
             d == [h EXCEPT ![i] = e]
  <2>1. f[i] = h[i]
    <3>1. i < 2 * c /\ i # c
      BY <1>1
    <3> QED
      BY <1>2, <3>1
  <2>2. g = [f EXCEPT ![i] = h[c]] /\ b = [h EXCEPT ![c] = e] /\ d = [h EXCEPT ![i] = e]
    OBVIOUS
  <2> HIDE DEF g, b, d
  <2>3. Exchanged(g, f, f[i], h[c])
    BY <1>1, <1>2, <2>2, CountExcept
  <2>4. Exchanged(b, h, h[c], e)
    BY <2>2, CountExcept
  <2>5. Exchanged(d, h, h[i], e)
    BY <2>2, CountExcept
  <2>6. SameCounts(f, b)
    BY <1>2 DEF b
  <2>7. ASSUME NEW v PROVE Count(g, v) = Count(d, v)
    <3>1. Count(h, v) \in Nat /\ Is(h[i], v) \in Nat /\ Is(h[c], v) \in Nat /\ Is(e, v) \in Nat
      BY CountType DEF Is
    <3>2. Count(g, v) = Count(f, v) + Is(h[c], v) - Is(h[i], v)
      BY <2>1, <2>3 DEF Exchanged
    <3>3. Count(f, v) = Count(h, v) + Is(e, v) - Is(h[c], v)
      BY <2>4, <2>6 DEF Exchanged, SameCounts
    <3>4. Count(d, v) = Count(h, v) + Is(e, v) - Is(h[i], v)
      BY <2>5 DEF Exchanged
    <3> QED
      BY <3>1, <3>2, <3>3, <3>4
  <2> QED
    BY <2>7 DEF d, SameCounts
<1> HIDE DEF g
<1>6. ASSUME HeapFrom(w, n, i + 1, h) PROVE HeapFrom(w, n, i, g)
  <2>1. \A j \in 2 .. n : Parent(j) > i => w[h[j]] <= w[h[Parent(j)]]
    BY <1>6, Halves DEF HeapFrom
  <2>2. HeapFrom(w, n, c + 1, h)
    <3>1. \A j \in 2 .. n : Parent(j) \in Nat
      BY Halves
    <3> QED
      BY <1>1, <2>1, <3>1 DEF HeapFrom
  <2>3. /\ \A j \in 2 .. n : Parent(j) >= c => w[f[j]] <= w[f[Parent(j)]]
        /\ f[c] = e \/ \E j \in 2 .. n : Parent(j) = c /\ f[c] = h[j]
    BY <2>2 DEF Sunk, HeapFrom
  <2>4. w[f[c]] <= w[h[c]]
    <3>1. CASE f[c] = e
      BY <1>1, <3>1
    <3>2. ASSUME NEW j \in 2 .. n, Parent(j) = c, f[c] = h[j] PROVE w[f[c]] <= w[h[c]]
      BY <1>1, <2>1, <3>2
    <3> QED
      BY <2>3, <3>1, <3>2
  <2> SUFFICES ASSUME NEW j \in 2 .. n, Parent(j) >= i PROVE w[g[j]] <= w[g[Parent(j)]]
    BY DEF HeapFrom
  <2> DEFINE q == Parent(j)
  <2>5. q \in 1 .. n /\ q < j /\ j \in {2 * q, 2 * q + 1} /\ q >= i /\ j \in 1 .. n
    BY Halves
  <2>6. g[j] = f[j]
    BY <1>3, <2>5
  <2> HIDE DEF q
  <2>7. CASE q = i
    <3>1. g[q] = h[c]
      BY <1>3, <2>5, <2>7
    <3>2. j # c => f[j] = h[j]
      <4>1. j < 2 * c
        BY <1>1, <2>5, <2>7
      <4> QED
        BY <1>2, <2>5, <4>1
    <3>3. w[h[j]] <= w[h[c]]
      BY <2>5, <2>7
    <3> QED
      BY <2>4, <2>6, <3>1, <3>2, <3>3 DEF q
  <2>8. CASE q >= c
    <3>1. g[q] = f[q]
      BY <1>1, <1>3, <2>5, <2>8
    <3>2. w[f[j]] <= w[f[q]]
      BY <2>3, <2>8 DEF q
    <3> QED
      BY <2>6, <3>1, <3>2 DEF q
  <2>9. CASE i < q /\ q < c
    <3>1. q < 2 * c /\ q # c /\ q # i
      BY <1>1, <2>5, <2>9
    <3>2. g[q] = h[q]
      BY <1>2, <1>3, <2>5, <3>1
    <3>3. j < 2 * c /\ j # c
      BY <1>1, <2>5, <2>9 DEF q
    <3>4. f[j] = h[j]
      BY <1>2, <2>5, <3>3
    <3>5. w[h[j]] <= w[h[q]]
      BY <2>1, <2>9 DEF q
    <3> QED
      BY <2>6, <3>2, <3>4, <3>5 DEF q
  <2> QED
    BY <1>1, <2>5, <2>7, <2>8, <2>9
<1>7. Parent(c) = i /\ g[i] = h[c]
  BY <1>1, <1>3
<1> QED
  BY <1>1, <1>3, <1>4, <1>5, <1>6, <1>7 DEF Sunk, g

LEMMA LargerIsLarger ==
  ASSUME NEW order \in {1, -1}, NEW S, Keyed(S), NEW h \in Seq(S), NEW i \in 1 .. Len(h),
         ~(LeftChild(i) > Len(h)), NEW c, c = LargerChild(order, h, i),
         NEW w, w = Weights(order, S)
  PROVE  \A j \in 1 .. Len(h) : j \in {2 * i, 2 * i + 1} => w[h[j]] <= w[h[c]]
<1> DEFINE l == 2 * i
<1>1. l \in 1 .. Len(h) /\ h[l] \in S /\ l = LeftChild(i)
  BY DEF LeftChild
<1>2. w \in [S -> Int] /\ \A x, y \in S : Compare(order, x, y) > 0 <=> w[x] > w[y]
  BY CompareWeights, SMTT(30)
<1>3. l < Len(h) => l + 1 \in 1 .. Len(h) /\ h[l + 1] \in S
  BY <1>1
<1> HIDE DEF l
<1>4. c = IF l < Len(h) /\ Compare(order, h[l + 1], h[l]) > 0 THEN l + 1 ELSE l
  BY <1>1 DEF LargerChild
<1>5. CASE l < Len(h)
  <2>1. c = IF w[h[l + 1]] > w[h[l]] THEN l + 1 ELSE l
    BY <1>1, <1>2, <1>3, <1>4, <1>5
  <2>2. w[h[l]] \in Int /\ w[h[l + 1]] \in Int
    BY <1>1, <1>2, <1>3, <1>5
  <2>3. w[h[l]] <= w[h[c]] /\ w[h[l + 1]] <= w[h[c]]
    BY <2>1, <2>2
  <2> QED
    BY <2>3 DEF l
<1>6. CASE ~(l < Len(h))
  <2>1. c = l /\ \A j \in 1 .. Len(h) : j \in {l, l + 1} => j = l
    BY <1>1, <1>4, <1>6
  <2>2. w[h[l]] \in Int
    BY <1>1, <1>2
  <2> QED
    BY <2>1, <2>2 DEF l
<1> QED
  BY <1>5, <1>6

(* An entry is put in a place above two heaps. *)
LEMMA SiftDownSound ==
  ASSUME NEW order \in {1, -1}, NEW S, Keyed(S), NEW h \in Seq(S), NEW e \in S,
         NEW pos \in 1 .. Len(h), NEW w, w = Weights(order, S)
  PROVE  /\ SiftDown(order, h, e, pos) \in Seq(S)
         /\ Sunk(w, S, Len(h), h, e, SiftDown(order, h, e, pos), pos)
<1> DEFINE n == Len(h)
           D == 1 .. n
           m == [i \in D |-> n - i]
<1>1. PICK Down : SiftDown(order, h, e, pos) = Down[pos] /\ SiftsDown(order, h, e, n, Down)
  BY SiftDownSteps
<1>2. n \in Nat /\ h \in [1 .. n -> S] /\ n = Len(h)
  OBVIOUS
<1>3. /\ w \in [S -> Int]
      /\ \A x, y \in S : Compare(order, x, y) <= 0 <=> w[x] <= w[y]
  BY CompareWeights, SMTT(30)
<1>4. m \in [D -> Nat] /\ \A i, j \in D : i < j => m[j] < m[i]
  BY <1>2
<1> HIDE DEF n, m
<1> DEFINE T == {i \in D : Sunk(w, S, n, h, e, Down[i], i)}
<1>5. ASSUME NEW i \in D, \A j \in D : m[j] < m[i] => j \in T PROVE i \in T
  <2> DEFINE c == LargerChild(order, h, i)
  <2>1. CASE LeftChild(i) > n
    <3>1. Down[i] = [h EXCEPT ![i] = e]
      BY <1>1, <2>1 DEF SiftsDown
    <3>2. \A j \in 1 .. n : j \in {2 * i, 2 * i + 1} => w[h[j]] <= w[e]
      BY <1>2, <2>1 DEF LeftChild
    <3>3. Sunk(w, S, n, h, e, [h EXCEPT ![i] = e], i)
      <4> HIDE DEF T
      <4> QED
        BY <1>2, <1>3, <3>2, SunkPut
    <3> QED
      BY <3>1, <3>3
  <2>2. CASE ~(LeftChild(i) > n)
    <3>1. c \in 1 .. n /\ i < c /\ c \in {2 * i, 2 * i + 1} /\ h[c] \in S
      BY <1>2, <2>2, LargerIsChild
    <3>2. \A j \in 1 .. n : j \in {2 * i, 2 * i + 1} => w[h[j]] <= w[h[c]]
      BY <1>2, <2>2, LargerIsLarger
    <3>3. CASE Compare(order, h[c], e) <= 0
      <4>1. Down[i] = [h EXCEPT ![i] = e]
        BY <1>1, <2>2, <3>3 DEF SiftsDown
      <4> HIDE DEF c
      <4>2. \A j \in 1 .. n : j \in {2 * i, 2 * i + 1} => w[h[j]] <= w[e]
        <5>1. w[h[c]] <= w[e]
          BY <1>3, <3>1, <3>3
        <5> QED
          BY <1>2, <1>3, <3>1, <3>2, <5>1
      <4>3. Sunk(w, S, n, h, e, [h EXCEPT ![i] = e], i)
        <5> HIDE DEF T
        <5> QED
          BY <1>2, <1>3, <4>2, SunkPut
      <4> QED
        BY <4>1, <4>3
    <3>4. CASE ~(Compare(order, h[c], e) <= 0)
      <4>1. Down[i] = [Down[c] EXCEPT ![i] = h[c]]
        BY <1>1, <2>2, <3>4 DEF SiftsDown
      <4> HIDE DEF c
      <4>2. w[e] < w[h[c]]
        BY <1>3, <3>1, <3>4
      <4>3. Sunk(w, S, n, h, e, Down[c], c)
        BY <1>4, <1>5, <3>1
      <4>4. Sunk(w, S, n, h, e, [Down[c] EXCEPT ![i] = h[c]], i)
        <5> HIDE DEF T
        <5> QED
          BY <1>2, <1>3, <3>1, <3>2, <4>2, <4>3, SunkDown
      <4> QED
        BY <4>1, <4>4
    <3> QED
      BY <3>3, <3>4
  <2> QED
    BY <2>1, <2>2
<1>6. D \subseteq T
  <2> HIDE DEF T, D
  <2> QED
    BY <1>4, <1>5, MeasureInduced
<1>7. Sunk(w, S, n, h, e, SiftDown(order, h, e, pos), pos)
  BY <1>1, <1>6, <1>2
<1> HIDE DEF T
<1>8. SiftDown(order, h, e, pos) \in [1 .. n -> S]
  BY <1>7 DEF Sunk
<1>9. SiftDown(order, h, e, pos) \in Seq(S)
  BY <1>2, <1>8
<1> QED
  BY <1>7, <1>9 DEF n

LEMMA AsHeapFrom ==
  ASSUME NEW w, NEW n \in Nat, NEW h
  PROVE  HeapFrom(w, n, 1, h) <=> HeapBy(w, n, h)
BY Halves DEF HeapFrom, HeapBy

(* The top is taken from a heap, and nothing else. *)
LEMMA WithoutTopSound ==
  ASSUME NEW order \in {1, -1}, NEW S, Keyed(S), NEW h \in Seq(S), h # <<>>
  PROVE  /\ WithoutTop(order, h) \in Seq(S)
         /\ Len(WithoutTop(order, h)) = Len(h) - 1
         /\ Added(h, WithoutTop(order, h), h[1])
         /\ IsHeap(order, h) => IsHeap(order, WithoutTop(order, h))
<1> DEFINE n == Len(h) - 1
           t == SubSeq(h, 1, n)
           r == WithoutTop(order, h)
<1>1. n \in Nat /\ Len(h) = n + 1 /\ h[n + 1] \in S
  OBVIOUS
<1> HIDE DEF n
<1>2. /\ t \in Seq(S) /\ Len(t) = n
      /\ \A j \in 1 .. n : t[j] = h[j]
      /\ Added(h, t, h[n + 1])
  BY <1>1, CountFront
<1> HIDE DEF t
<1>3. r = IF n = 0 THEN <<>> ELSE SiftDown(order, t, h[n + 1], 1)
  BY DEF WithoutTop, n, t
<1> HIDE DEF r
<1>4. CASE n = 0
  <2>1. r = <<>> /\ t = <<>>
    BY <1>2, <1>3, <1>4
  <2>2. r \in Seq(S) /\ Len(r) = 0
    BY <2>1
  <2>3. Added(h, r, h[1])
    BY <1>2, <1>4, <2>1
  <2>4. IsHeap(order, r)
    BY <2>2 DEF IsHeap
  <2> QED
    BY <1>1, <1>4, <2>2, <2>3, <2>4 DEF r
<1>5. CASE n # 0
  <2>1. PICK w : w = Weights(order, S)
    OBVIOUS
  <2>2. 1 \in 1 .. Len(t) /\ r = SiftDown(order, t, h[n + 1], 1)
    BY <1>1, <1>2, <1>3, <1>5
  <2>3. r \in Seq(S) /\ Sunk(w, S, n, t, h[n + 1], r, 1)
    BY <1>1, <1>2, <2>1, <2>2, SiftDownSound
  <2>4. /\ r \in [1 .. n -> S]
        /\ SameCounts(r, [t EXCEPT ![1] = h[n + 1]])
        /\ HeapFrom(w, n, 2, t) => HeapFrom(w, n, 1, r)
    BY <2>3 DEF Sunk
  <2>5. Len(r) = n
    BY <1>1, <2>3, <2>4
  <2>6. Added(h, r, h[1])
    <3> DEFINE b == [t EXCEPT ![1] = h[n + 1]]
    <3>1. t \in [1 .. n -> S] /\ b = [t EXCEPT ![1] = h[n + 1]] /\ 1 \in 1 .. n /\ t[1] = h[1]
      BY <1>1, <1>2, <1>5
    <3> HIDE DEF b
    <3>2. Exchanged(b, t, t[1], h[n + 1])
      BY <1>1, <3>1, CountExcept
    <3>3. ASSUME NEW v PROVE Count(h, v) = Count(r, v) + Is(h[1], v)
      <4>1. Count(t, v) \in Nat /\ Is(h[1], v) \in Nat /\ Is(h[n + 1], v) \in Nat
        BY <1>1, <3>1, CountType DEF Is
      <4>2. Count(r, v) = Count(t, v) + Is(h[n + 1], v) - Is(h[1], v)
        BY <2>4, <3>1, <3>2 DEF Exchanged, SameCounts, b
      <4>3. Count(h, v) = Count(t, v) + Is(h[n + 1], v)
        BY <1>2 DEF Added
      <4> QED
        BY <4>1, <4>2, <4>3
    <3> QED
      BY <3>3 DEF Added
  <2>7. ASSUME IsHeap(order, h) PROVE IsHeap(order, r)
    <3>1. HeapBy(w, n + 1, h)
      BY <1>1, <2>1, <2>7, HeapWeights
    <3>2. HeapFrom(w, n, 2, t)
      <4>1. ASSUME NEW j \in 2 .. n PROVE w[t[j]] <= w[t[Parent(j)]]
        <5>1. j \in 1 .. n /\ Parent(j) \in 1 .. n /\ j \in 2 .. n + 1
          BY <1>1, Halves
        <5> QED
          BY <1>2, <3>1, <5>1 DEF HeapBy
      <4> QED
        BY <4>1 DEF HeapFrom
    <3>3. HeapBy(w, Len(r), r)
      BY <1>1, <2>4, <2>5, <3>2, AsHeapFrom
    <3> QED
      BY <2>1, <2>3, <3>3, HeapWeights
  <2> QED
    BY <1>1, <2>3, <2>5, <2>6, <2>7 DEF r
<1> QED
  BY <1>4, <1>5

(* No entry of a heap is larger than its top. *)
LEMMA HeapTop ==
  ASSUME NEW order \in {1, -1}, NEW S, Keyed(S), NEW h \in Seq(S), IsHeap(order, h),
         NEW i \in 1 .. Len(h)
  PROVE  Compare(order, h[1], h[i]) >= 0
<1>1. PICK w : w = Weights(order, S)
  OBVIOUS
<1>2. HeapBy(w, Len(h), h)
  BY <1>1, HeapWeights
<1>3. /\ w \in [S -> Int]
      /\ \A x, y \in S : Compare(order, x, y) >= 0 <=> w[x] >= w[y]
  BY <1>1, CompareWeights, SMTT(30)
<1> DEFINE D == 1 .. Len(h)
           T == {j \in D : w[h[j]] <= w[h[1]]}
           m == [j \in D |-> j]
<1>4. m \in [D -> Nat] /\ h[1] \in S /\ 1 \in D
  OBVIOUS
<1>5. ASSUME NEW j \in D, \A k \in D : m[k] < m[j] => k \in T PROVE j \in T
  <2>1. h[j] \in S
    OBVIOUS
  <2>2. CASE j = 1
    BY <1>3, <1>4, <2>2
  <2>3. CASE j # 1
    <3>1. Parent(j) \in D /\ Parent(j) < j /\ j \in 2 .. Len(h)
      BY <2>3, Halves
    <3>2. Parent(j) \in T
      BY <1>5, <3>1
    <3>3. w[h[j]] <= w[h[Parent(j)]] /\ h[Parent(j)] \in S
      BY <1>2, <3>1 DEF HeapBy
    <3> QED
      BY <1>3, <1>4, <2>1, <3>2, <3>3
  <2> QED
    BY <2>2, <2>3
<1>6. D \subseteq T
  <2> HIDE DEF D, T, m
  <2> QED
    BY <1>4, <1>5, MeasureInduced
<1>7. w[h[i]] <= w[h[1]] /\ h[i] \in S
  BY <1>6
<1> QED
  BY <1>3, <1>4, <1>7

-----------------------------------------------------------------------------
(* Bags of entries *)

LEMMA CountSeq ==
  ASSUME NEW S, NEW s \in Seq(S), NEW v
  PROVE  /\ Count(s, v) \in Nat
         /\ Count(s, v) > 0 <=> \E i \in DOMAIN s : s[i] = v
<1> DEFINE n == Len(s)
<1>1. n \in Nat /\ s \in [1 .. n -> S]
  OBVIOUS
<1> HIDE DEF n
<1> QED
  BY <1>1, CountType, CountPositive

LEMMA BagOfCounts ==
  ASSUME NEW S, NEW s \in Seq(S), NEW b, b = BagOf(s)
  PROVE  /\ \A v : v \in DOMAIN b <=> Count(s, v) > 0
         /\ \A v \in DOMAIN b : v \in S /\ b[v] = Count(s, v)
         /\ b = [v \in DOMAIN b |-> Count(s, v)]
<1>1. /\ DOMAIN b = {s[i] : i \in DOMAIN s}
      /\ b = [v \in DOMAIN b |-> Count(s, v)]
  BY DEF BagOf, Count
<1>2. \A v : v \in DOMAIN b <=> \E i \in DOMAIN s : s[i] = v
  BY <1>1
<1>3. \A v : v \in DOMAIN b <=> Count(s, v) > 0
  BY <1>2, CountSeq
<1>4. \A i \in DOMAIN s : s[i] \in S
  OBVIOUS
<1> QED
  BY <1>1, <1>2, <1>3, <1>4

LEMMA BagOfAdded ==
  ASSUME NEW S, NEW s \in Seq(S), NEW t \in Seq(S), NEW y \in S, Added(t, s, y)
  PROVE  /\ BagOf(t) = AbstractQueue!BagAdd(BagOf(s), y)
         /\ BagOf(s) = AbstractQueue!BagRemove(BagOf(t), y)
<1> DEFINE b == BagOf(s)
           c == BagOf(t)
<1>1. /\ \A v : v \in DOMAIN b <=> Count(s, v) > 0
      /\ b = [v \in DOMAIN b |-> Count(s, v)]
      /\ \A v : v \in DOMAIN c <=> Count(t, v) > 0
      /\ c = [v \in DOMAIN c |-> Count(t, v)]
  BY BagOfCounts
<1>2. \A v : Count(s, v) \in Nat
  BY CountSeq
<1>3. \A v : Count(t, v) = IF v = y THEN Count(s, v) + 1 ELSE Count(s, v)
  BY <1>2 DEF Added, Is
<1> HIDE DEF b, c
<1>8. /\ \A v : v \in DOMAIN b <=> Count(s, v) > 0
      /\ \A v : v \in DOMAIN c <=> Count(t, v) > 0
  BY <1>1
<1>4. DOMAIN c = DOMAIN b \cup {y}
  <2>1. ASSUME NEW v PROVE v \in DOMAIN c <=> v \in DOMAIN b \/ v = y
    <3>1. Count(s, v) \in Nat /\ Count(t, v) = IF v = y THEN Count(s, v) + 1 ELSE Count(s, v)
      BY <1>2, <1>3
    <3> QED
      BY <1>8, <3>1
  <2> QED
    BY <2>1
<1>9. y \in DOMAIN c /\ c[y] = Count(s, y) + 1 /\ Count(s, y) \in Nat
  <2>1. y \in DOMAIN c
    BY <1>4
  <2>2. c[y] = Count(t, y)
    BY <1>1, <2>1
  <2> QED
    BY <1>2, <1>3, <2>1, <2>2
<1>5. DOMAIN b = IF c[y] = 1 THEN DOMAIN c \ {y} ELSE DOMAIN c
  <2>1. c[y] = 1 <=> y \notin DOMAIN b
    BY <1>8, <1>9
  <2> QED
    BY <1>4, <2>1
<1>6. c = AbstractQueue!BagAdd(b, y)
  BY <1>1, <1>2, <1>3, <1>4 DEF AbstractQueue!BagAdd
<1>7. b = AbstractQueue!BagRemove(c, y)
  <2> DEFINE r == AbstractQueue!BagRemove(c, y)
  <2>1. r = IF c[y] = 1 THEN [e \in DOMAIN c \ {y} |-> c[e]]
            ELSE [e \in DOMAIN c |-> IF e = y THEN c[e] - 1 ELSE c[e]]
    BY <1>9 DEF AbstractQueue!BagRemove
  <2> HIDE DEF r
  <2>2. DOMAIN r = DOMAIN b /\ r = [v \in DOMAIN r |-> r[v]]
    BY <1>5, <2>1
  <2>3. ASSUME NEW v \in DOMAIN b PROVE r[v] = b[v]
    <3>1. v \in DOMAIN c /\ b[v] = Count(s, v) /\ c[v] = Count(t, v) /\ Count(s, v) \in Nat
      BY <1>1, <1>2, <1>4
    <3>2. c[v] = IF v = y THEN b[v] + 1 ELSE b[v]
      BY <1>3, <3>1
    <3>3. v # y \/ c[y] # 1
      BY <1>5
    <3> QED
      BY <2>1, <3>1, <3>2, <3>3
  <2>4. b = [v \in DOMAIN b |-> b[v]]
    BY <1>1
  <2> QED
    BY <2>2, <2>3, <2>4 DEF r
<1> QED
  BY <1>6, <1>7 DEF b, c

LEMMA BagOfNone ==
  ASSUME NEW S, NEW s \in Seq(S)
  PROVE  BagOf(s) = AbstractQueue!EmptyBag <=> s = <<>>
<1>1. DOMAIN BagOf(s) = {s[i] : i \in DOMAIN s}
  BY DEF BagOf
<1>2. DOMAIN AbstractQueue!EmptyBag = {}
  BY DEF AbstractQueue!EmptyBag, AbstractQueue!SetToBag
<1>3. s = <<>> => BagOf(s) = AbstractQueue!EmptyBag
  BY DEF BagOf, AbstractQueue!EmptyBag, AbstractQueue!SetToBag
<1>4. s # <<>> => s[1] \in DOMAIN BagOf(s)
  <2>1. s # <<>> => 1 \in DOMAIN s
    OBVIOUS
  <2> QED
    BY <1>1, <2>1
<1> QED
  BY <1>2, <1>3, <1>4

LEMMA EmptyBagOf == BagOf(<<>>) = AbstractQueue!EmptyBag
<1>1. <<>> \in Seq(QueueEntries)
  OBVIOUS
<1> QED
  BY <1>1, BagOfNone

(* The occurrences in a bag, each with its number *)
Occurrences(s, S) == {p \in S \X Nat : 1 <= p[2] /\ p[2] <= Count(s, p[1])}

LEMMA OccurrencesCounted ==
  ASSUME NEW S, NEW s \in Seq(S)
  PROVE  Cardinality(Occurrences(s, S)) = Len(s)
<1> DEFINE Counted(n, t) == IsFiniteSet(Occurrences(t, S)) /\ Cardinality(Occurrences(t, S)) = n
           N == {n \in Nat : \A t \in [1 .. n -> S] : Counted(n, t)}
<1>1. 0 \in N
  <2> SUFFICES ASSUME NEW t \in [1 .. 0 -> S] PROVE Counted(0, t)
    OBVIOUS
  <2>1. \A v : Count(t, v) = 0
    <3>1. \A v : Count(t, v) \in Nat /\ (Count(t, v) > 0 <=> \E i \in DOMAIN t : t[i] = v)
      BY CountType, CountPositive
    <3>2. DOMAIN t = {}
      OBVIOUS
    <3> QED
      BY <3>1, <3>2
  <2>2. Occurrences(t, S) = {}
    BY <2>1 DEF Occurrences
  <2> QED
    BY <2>2, FS_EmptySet
<1>2. ASSUME NEW n \in N PROVE n + 1 \in N
  <2> SUFFICES ASSUME NEW t \in [1 .. n + 1 -> S] PROVE Counted(n + 1, t)
    OBVIOUS
  <2> DEFINE u == [i \in 1 .. n |-> t[i]]
             y == t[n + 1]
  <2>1. u \in [1 .. n -> S] /\ y \in S /\ \A i \in 1 .. n : t[i] = u[i]
    OBVIOUS
  <2>2. Counted(n, u)
    BY <2>1
  <2>3. n \in Nat /\ t[n + 1] = y
    OBVIOUS
  <2> HIDE DEF u, y, N
  <2>4. Added(t, u, y)
    BY <2>1, <2>3, CountMore
  <2>5. \A v : Count(u, v) \in Nat
    BY <2>1, <2>3, CountType
  <2>6. \A v : Count(t, v) = IF v = y THEN Count(u, v) + 1 ELSE Count(u, v)
    BY <2>4, <2>5 DEF Added, Is
  <2> DEFINE p == <<y, Count(u, y) + 1>>
  <2>7. p \notin Occurrences(u, S)
    BY <2>5 DEF Occurrences
  <2>8. Occurrences(t, S) = Occurrences(u, S) \cup {p}
    <3>1. ASSUME NEW v \in S, NEW k \in Nat
          PROVE  <<v, k>> \in Occurrences(t, S) <=> <<v, k>> \in Occurrences(u, S) \/ <<v, k>> = p
      BY <2>5, <2>6 DEF Occurrences
    <3>2. p \in S \X Nat
      BY <2>1, <2>5
    <3> HIDE DEF p
    <3>3. Occurrences(t, S) \subseteq S \X Nat /\ Occurrences(u, S) \subseteq S \X Nat
      BY DEF Occurrences
    <3> QED
      BY <3>1, <3>2, <3>3
  <2> HIDE DEF p
  <2> QED
    BY <2>2, <2>3, <2>7, <2>8, FS_AddElement
<1> HIDE DEF N
<1>3. N = Nat
  BY <1>1, <1>2, NatInduced DEF N
<1>4. Len(s) \in Nat /\ s \in [1 .. Len(s) -> S]
  OBVIOUS
<1> QED
  BY <1>3, <1>4 DEF N

LEMMA SameCardinality == ASSUME NEW X PROVE AbstractQueue!Cardinality(X) = Cardinality(X)
BY DEF AbstractQueue!Cardinality, Cardinality

LEMMA BagOfSize ==
  ASSUME NEW S, NEW s \in Seq(S)
  PROVE  AbstractQueue!Size(BagOf(s)) = Len(s)
<1> DEFINE b == BagOf(s)
<1>1. /\ \A v : v \in DOMAIN b <=> Count(s, v) > 0
      /\ \A v \in DOMAIN b : v \in S /\ b[v] = Count(s, v)
  BY BagOfCounts
<1>2. \A v : Count(s, v) \in Nat
  BY CountSeq
<1> HIDE DEF b
<1>3. UNION {{v} \X (1 .. b[v]) : v \in DOMAIN b} = Occurrences(s, S)
  <2>1. ASSUME NEW p, p \in UNION {{v} \X (1 .. b[v]) : v \in DOMAIN b}
        PROVE  p \in Occurrences(s, S)
    BY <1>1, <1>2, <2>1 DEF Occurrences
  <2>2. ASSUME NEW p \in Occurrences(s, S)
        PROVE  p \in UNION {{v} \X (1 .. b[v]) : v \in DOMAIN b}
    <3>1. p[1] \in DOMAIN b /\ b[p[1]] = Count(s, p[1]) /\ p[2] \in 1 .. Count(s, p[1])
      BY <1>1, <1>2 DEF Occurrences
    <3>2. p = <<p[1], p[2]>>
      BY DEF Occurrences
    <3> QED
      BY <3>1, <3>2
  <2> QED
    BY <2>1, <2>2
<1>4. AbstractQueue!Size(b) = Cardinality(UNION {{v} \X (1 .. b[v]) : v \in DOMAIN b})
  BY Zenon, SameCardinality DEF AbstractQueue!Size
<1>5. AbstractQueue!Size(b) = Cardinality(Occurrences(s, S))
  BY <1>3, <1>4
<1> QED
  BY <1>5, OccurrencesCounted DEF b

-----------------------------------------------------------------------------
(* The priority queue *)

LEMMA TopIsLargest ==
  ASSUME NEW o \in {1, -1}, NEW S, Keyed(S), NEW h \in Seq(S), h # <<>>, IsHeap(o, h)
  PROVE  /\ h[1] \in DOMAIN BagOf(h)
         /\ \A f \in DOMAIN BagOf(h) : Compare(o, h[1], f) >= 0
<1>1. \A i \in 1 .. Len(h) : Compare(o, h[1], h[i]) >= 0
  BY HeapTop
<1>2. DOMAIN BagOf(h) = {h[i] : i \in DOMAIN h} /\ DOMAIN h = 1 .. Len(h) /\ 1 \in DOMAIN h
  BY DEF BagOf
<1> QED
  BY <1>1, <1>2

(* The struct has its type, and its entries are a heap; while there is no order there are
   no entries. *)
QueueInv ==
  queue # NULL => /\ queue \in QueueStructs
                  /\ queue.comp = NULL => queue.data = <<>>
                  /\ queue.comp # NULL => IsHeap(queue.comp, queue.data)

LEMMA PushedSound ==
  ASSUME QueueInv, queue # NULL, queue.comp # NULL, NEW e \in QueueEntries,
         NEW q \in Pushed(queue, e)
  PROVE  /\ q \in QueueStructs /\ IsHeap(q.comp, q.data)
         /\ q.comp = queue.comp /\ q.value_free = queue.value_free
         /\ Added(q.data, queue.data, e)
         /\ q.data # <<>>
<1> DEFINE o == queue.comp
           h == queue.data
           g == SiftUp(o, h, e)
<1>1. /\ queue \in QueueStructs /\ o \in {1, -1} /\ h \in Seq(QueueEntries) /\ IsHeap(o, h)
      /\ queue.capacity \in Nat /\ queue.value_free \in BOOLEAN
  BY DEF QueueInv, QueueStructs
<1>2. Keyed(QueueEntries)
  BY QueueAssumption DEF Keyed
<1> HIDE DEF o, h
<1>3. /\ g \in Seq(QueueEntries)
      /\ Added(g, h, e)
      /\ IsHeap(o, g)
  BY <1>1, <1>2, SiftUpSound
<1>6. Len(g) = Len(Append(h, e))
  BY <1>1, <1>2, SiftUpSound
<1> HIDE DEF g
<1> DEFINE c == IF queue.capacity = 0 THEN 1 ELSE 2 * queue.capacity
<1>7. q \in {[queue EXCEPT !.data = g], [[queue EXCEPT !.data = g] EXCEPT !.capacity = c]}
  BY DEF Pushed, g, o, h
<1>8. c \in Nat
  BY <1>1
<1> HIDE DEF c
<1>4. /\ q.data = g /\ q.comp = o /\ q.value_free = queue.value_free /\ q.capacity \in Nat
      /\ q \in QueueStructs
  BY <1>1, <1>3, <1>7, <1>8 DEF QueueStructs, o
<1>5. g # <<>>
  BY <1>1, <1>3, <1>6
<1> QED
  BY <1>3, <1>4, <1>5 DEF o, h

LEMMA PoppedSound ==
  ASSUME QueueInv, queue # NULL, queue.data # <<>>
  PROVE  /\ Popped(queue) \in QueueStructs /\ queue.comp \in {1, -1} \ {NULL}
         /\ IsHeap(queue.comp, Popped(queue).data)
         /\ Popped(queue).comp = queue.comp /\ Popped(queue).value_free = queue.value_free
         /\ Added(queue.data, Popped(queue).data, queue.data[1])
         /\ queue.data[1] \in QueueEntries
<1> DEFINE o == queue.comp
           h == queue.data
           r == WithoutTop(o, h)
<1>1. /\ queue \in QueueStructs /\ o \in {1, -1} \ {NULL} /\ h \in Seq(QueueEntries) /\ IsHeap(o, h)
      /\ h # <<>> /\ h[1] \in QueueEntries
  BY DEF QueueInv, QueueStructs
<1>2. Keyed(QueueEntries)
  BY QueueAssumption DEF Keyed
<1> HIDE DEF o, h
<1>3. r \in Seq(QueueEntries) /\ Added(h, r, h[1]) /\ IsHeap(o, r)
  BY <1>1, <1>2, WithoutTopSound
<1> HIDE DEF r
<1>4. /\ Popped(queue).data = r /\ Popped(queue).comp = o
      /\ Popped(queue).value_free = queue.value_free /\ Popped(queue) \in QueueStructs
  BY <1>1, <1>3 DEF Popped, QueueStructs, o, h, r
<1> QED
  BY <1>1, <1>3, <1>4 DEF o, h

(* What the abstract queue is by the entries in the struct *)
LEMMA SetQueueCompStep ==
  ASSUME QueueInv, queue # NULL, NEW o \in {1, -1, NULL}, SetQueueComp(o)
  PROVE  AbstractQueue!Call /\ QueueInv' /\ queue' # NULL
<1>1. queue \in QueueStructs /\ queue.data \in Seq(QueueEntries)
  BY DEF QueueInv, QueueStructs
<1> DEFINE refused == o = NULL \/ queue.data # <<>>
<1>2. /\ queue' = IF refused THEN queue ELSE [queue EXCEPT !.comp = o]
      /\ queueReply' = QueueReply(<<"set_comp", o>>, IF refused THEN -1 ELSE 0, <<>>)
  BY DEF SetQueueComp
<1>3. queue' \in QueueStructs /\ queue'.data = queue.data /\ queue'.value_free = queue.value_free
  BY <1>1, <1>2 DEF QueueStructs
<1>4. queue' # NULL
  BY <1>3, QueueAssumption
<1>5. QueueInv'
  <2>1. ~refused => queue'.data = <<>> /\ queue'.comp = o /\ o # NULL
    BY <1>1, <1>2, <1>3 DEF QueueStructs
  <2>2. \A x : IsHeap(x, <<>>)
    BY DEF IsHeap
  <2> QED
    BY <1>2, <1>3, <2>1, <2>2 DEF QueueInv
<1>6. BagOf(<<>>) = AbstractQueue!EmptyBag
  BY EmptyBagOf
<1>7. BagOf(queue.data) = AbstractQueue!EmptyBag <=> queue.data = <<>>
  BY <1>1, BagOfNone
<1>8. AbstractQueue!SetComp(o)
  BY <1>2, <1>3, <1>4, <1>6, <1>7
     DEF AbstractQueue!SetComp, AbstractQueue!Answer, AbstractQueue!Reply, QueueReply
<1> QED
  BY <1>4, <1>5, <1>8 DEF AbstractQueue!Call

LEMMA SetValueFreeStep ==
  ASSUME QueueInv, queue # NULL, NEW b \in BOOLEAN, SetValueFree(b)
  PROVE  AbstractQueue!Call /\ QueueInv' /\ queue' # NULL
<1>1. /\ queue \in QueueStructs
      /\ queue' = [queue EXCEPT !.value_free = b]
      /\ queueReply' = QueueReply(<<"set_value_free", b>>, 0, <<>>)
  BY DEF QueueInv, SetValueFree
<1>2. /\ queue' \in QueueStructs /\ queue'.data = queue.data /\ queue'.comp = queue.comp
      /\ queue'.value_free = b
  BY <1>1 DEF QueueStructs
<1>3. queue' # NULL
  BY <1>2, QueueAssumption
<1>4. QueueInv'
  BY <1>2 DEF QueueInv
<1>5. AbstractQueue!SetValueFree(b)
  BY <1>1, <1>2, <1>3, EmptyBagOf DEF AbstractQueue!SetValueFree, AbstractQueue!Reply, QueueReply
<1> QED
  BY <1>3, <1>4, <1>5 DEF AbstractQueue!Call

LEMMA DestroyQueueStep ==
  ASSUME QueueInv, queue # NULL, DestroyQueue
  PROVE  AbstractQueue!Call /\ QueueInv'
<1>1. AbstractQueue!Destroy
  BY EmptyBagOf
     DEF DestroyQueue, AbstractQueue!Destroy, AbstractQueue!Reply, QueueReply
<1> QED
  BY <1>1 DEF AbstractQueue!Call, DestroyQueue, QueueInv

(* The entries become those of a heap r, without further change. *)
LEMMA BecomeStep ==
  ASSUME QueueInv, queue # NULL, queue' \in QueueStructs, queue.comp \in {1, -1} \ {NULL},
         queue'.comp = queue.comp, queue'.value_free = queue.value_free,
         IsHeap(queue.comp, queue'.data)
  PROVE  /\ AbstractQueue!Become(BagOf(queue'.data))
         /\ QueueInv' /\ queue' # NULL
<1>1. queue' # NULL
  BY QueueAssumption
<1> DEFINE r == queue'.data
<1>2. r \in Seq(QueueEntries)
  BY DEF QueueStructs
<1>3. BagOf(r) = AbstractQueue!EmptyBag <=> r = <<>>
  BY <1>2, BagOfNone
<1>4. r # <<>> => r[1] \in AbstractQueue!Largest(BagOf(r))
  <2>1. Keyed(QueueEntries)
    BY QueueAssumption DEF Keyed
  <2>2. r # <<>> => /\ r[1] \in DOMAIN BagOf(r)
                    /\ \A f \in DOMAIN BagOf(r) : Compare(queue.comp, r[1], f) >= 0
    BY <1>2, <2>1, TopIsLargest
  <2>3. \A x, y : AbstractQueue!Compare(queue.comp, x, y) = Compare(queue.comp, x, y)
    BY DEF AbstractQueue!Compare, Compare
  <2> QED
    BY <2>2, <2>3 DEF AbstractQueue!Largest
<1>5. AbstractQueue!Become(BagOf(r))
  BY <1>1, <1>3, <1>4 DEF AbstractQueue!Become
<1>6. QueueInv'
  BY <1>1, QueueAssumption DEF QueueInv
<1> QED
  BY <1>1, <1>5, <1>6

LEMMA ReplyStep ==
  ASSUME NEW call, NEW result, queueReply' = QueueReply(call, result, <<>>)
  PROVE  AbstractQueue!Reply(call, result, AbstractQueue!EmptyBag)
BY EmptyBagOf DEF AbstractQueue!Reply, QueueReply

(* A call that only answers *)
LEMMA AnswerStep ==
  ASSUME QueueInv, queue' = queue, NEW call, NEW result,
         queueReply' = QueueReply(call, result, <<>>)
  PROVE  AbstractQueue!Answer(call, result) /\ QueueInv'
<1>1. AbstractQueue!Answer(call, result)
  BY EmptyBagOf DEF AbstractQueue!Answer, AbstractQueue!Reply, QueueReply
<1> QED
  BY <1>1 DEF QueueInv

LEMMA PushStep ==
  ASSUME QueueInv, queue # NULL, NEW e \in QueueEntries, Push(e)
  PROVE  AbstractQueue!Call /\ QueueInv' /\ queue' # NULL
<1>1. CASE queueReply' = QueueReply(<<"push", e>>, -1, <<>>) /\ UNCHANGED queue
  <2>1. AbstractQueue!Answer(<<"push", e>>, -1) /\ QueueInv'
    BY <1>1, AnswerStep
  <2>2. AbstractQueue!Push(e)
    BY <2>1 DEF AbstractQueue!Push
  <2> QED
    BY <1>1, <2>1, <2>2 DEF AbstractQueue!Call
<1>2. CASE /\ queue.comp # NULL /\ queue' \in Pushed(queue, e)
           /\ queueReply' = QueueReply(<<"push", e>>, 0, <<>>)
  <2>1. /\ queue' \in QueueStructs /\ IsHeap(queue'.comp, queue'.data)
        /\ queue'.comp = queue.comp /\ queue'.value_free = queue.value_free
        /\ Added(queue'.data, queue.data, e)
    BY <1>2, PushedSound
  <2>2. /\ queue.comp \in {1, -1} \ {NULL} /\ queue.data \in Seq(QueueEntries)
        /\ queue'.data \in Seq(QueueEntries)
    BY <1>2, <2>1 DEF QueueInv, QueueStructs
  <2>3. AbstractQueue!Become(BagOf(queue'.data)) /\ QueueInv' /\ queue' # NULL
    BY <2>1, <2>2, BecomeStep
  <2>4. BagOf(queue'.data) = AbstractQueue!BagAdd(BagOf(queue.data), e)
    BY <2>1, <2>2, BagOfAdded
  <2>5. AbstractQueue!Push(e)
    BY <1>2, <2>3, <2>4, EmptyBagOf DEF AbstractQueue!Push, AbstractQueue!Reply, QueueReply
  <2> QED
    BY <2>3, <2>5 DEF AbstractQueue!Call
<1> QED
  BY <1>1, <1>2 DEF Push

LEMMA PopStep ==
  ASSUME QueueInv, queue # NULL, PopQueue
  PROVE  AbstractQueue!Call /\ QueueInv' /\ queue' # NULL
<1>0. queue.data \in Seq(QueueEntries)
  BY DEF QueueInv, QueueStructs
<1>1. BagOf(queue.data) = AbstractQueue!EmptyBag <=> queue.data = <<>>
  BY <1>0, BagOfNone
<1>2. CASE queue.data = <<>>
  <2>1. queue' = queue /\ queueReply' = QueueReply(<<"pop">>, NULL, <<>>)
    BY <1>2 DEF PopQueue, Top
  <2>2. AbstractQueue!Answer(<<"pop">>, NULL) /\ QueueInv'
    BY <2>1, AnswerStep
  <2>3. AbstractQueue!Pop
    BY <1>1, <1>2, <2>2 DEF AbstractQueue!Pop
  <2> QED
    BY <2>1, <2>2, <2>3 DEF AbstractQueue!Call
<1>3. CASE queue.data # <<>>
  <2>1. queue' = Popped(queue) /\ queueReply' = QueueReply(<<"pop">>, queue.data[1], <<>>)
    BY <1>3 DEF PopQueue, Top
  <2>2. /\ queue' \in QueueStructs /\ queue.comp \in {1, -1} \ {NULL}
        /\ IsHeap(queue.comp, queue'.data)
        /\ queue'.comp = queue.comp /\ queue'.value_free = queue.value_free
        /\ Added(queue.data, queue'.data, queue.data[1])
        /\ queue.data[1] \in QueueEntries
    BY <1>3, <2>1, PoppedSound
  <2>3. queue'.data \in Seq(QueueEntries)
    BY <2>2 DEF QueueStructs
  <2>4. AbstractQueue!Become(BagOf(queue'.data)) /\ QueueInv' /\ queue' # NULL
    BY <2>2, BecomeStep
  <2>5. BagOf(queue'.data) = AbstractQueue!BagRemove(BagOf(queue.data), queue.data[1])
    BY <1>0, <2>2, <2>3, BagOfAdded
  <2>6. AbstractQueue!Pop
    BY <1>1, <1>3, <2>1, <2>4, <2>5, EmptyBagOf
       DEF AbstractQueue!Pop, AbstractQueue!Reply, QueueReply
  <2> QED
    BY <2>4, <2>6 DEF AbstractQueue!Call
<1> QED
  BY <1>2, <1>3

LEMMA AskStep ==
  ASSUME QueueInv, queue # NULL, Peek \/ QueueSize \/ QueueIsEmpty
  PROVE  AbstractQueue!Call /\ QueueInv' /\ queue' # NULL
<1>0. queue.data \in Seq(QueueEntries)
  BY DEF QueueInv, QueueStructs
<1>1. CASE Peek
  <2>1. queue' = queue /\ queueReply' = QueueReply(<<"peek">>, Top, <<>>)
    BY <1>1 DEF Peek, Ask
  <2>2. AbstractQueue!Answer(<<"peek">>, Top) /\ QueueInv'
    BY <2>1, AnswerStep
  <2>3. Top = IF queue = NULL \/ queue.data = <<>> THEN NULL ELSE queue.data[1]
    BY DEF Top
  <2> QED
    BY <2>1, <2>2, <2>3 DEF AbstractQueue!Call
<1>2. CASE QueueSize
  <2>1. queue' = queue /\ queueReply' = QueueReply(<<"size">>, Len(queue.data), <<>>)
    BY <1>2 DEF QueueSize, Ask
  <2>2. AbstractQueue!Answer(<<"size">>, Len(queue.data)) /\ QueueInv'
    BY <2>1, AnswerStep
  <2>3. Len(queue.data) = AbstractQueue!Size(BagOf(queue.data))
    BY <1>0, BagOfSize
  <2> QED
    BY <2>1, <2>2, <2>3 DEF AbstractQueue!Call
<1>3. CASE QueueIsEmpty
  <2>1. queue' = queue /\ queueReply' = QueueReply(<<"is_empty">>, queue.data = <<>>, <<>>)
    BY <1>3 DEF QueueIsEmpty, Ask
  <2>2. AbstractQueue!Answer(<<"is_empty">>, queue.data = <<>>) /\ QueueInv'
    BY <2>1, AnswerStep
  <2>3. (queue.data = <<>>) = (BagOf(queue.data) = AbstractQueue!EmptyBag)
    BY <1>0, BagOfNone
  <2> QED
    BY <2>1, <2>2, <2>3 DEF AbstractQueue!Call
<1> QED
  BY <1>1, <1>2, <1>3

LEMMA CreateQueueStep ==
  ASSUME QueueInv, CreateQueue
  PROVE  queue = NULL /\ AbstractQueue!Create /\ QueueInv'
<1>1. CASE queue' = NULL
  <2>1. queue' = queue /\ queueReply' = QueueReply(<<"init">>, FALSE, <<>>)
    BY <1>1 DEF CreateQueue
  <2>2. AbstractQueue!Answer(<<"init">>, FALSE) /\ QueueInv'
    BY <2>1, AnswerStep
  <2> QED
    BY <2>2 DEF AbstractQueue!Create, CreateQueue
<1>2. CASE queue' = EmptyQueue
  <2>1. queue' \in QueueStructs /\ queue'.data = <<>> /\ queue'.comp = QueueOrder
        /\ queue'.value_free = FALSE
    BY <1>2, QueueAssumption DEF EmptyQueue, QueueStructs
  <2>2. queue' # NULL
    BY <2>1, QueueAssumption
  <2>3. queueReply' = QueueReply(<<"init">>, TRUE, <<>>)
    BY <2>2 DEF CreateQueue
  <2>4. AbstractQueue!Create
    <3>1. (queue # NULL /\ queue.value_free)' = FALSE
      BY <2>1
    <3>2. AbstractQueue!Reply(<<"init">>, TRUE, AbstractQueue!EmptyBag)
      BY <2>3, ReplyStep
    <3>3. (IF queue = NULL THEN NULL ELSE queue.comp)' \in {1, -1, NULL}
      BY <2>1, QueueAssumption
    <3>4. /\ (IF queue = NULL THEN NULL ELSE BagOf(queue.data))' = AbstractQueue!EmptyBag
          /\ (IF queue = NULL \/ queue.data = <<>> THEN NULL ELSE queue.data[1])' = NULL
      BY <2>1, <2>2, EmptyBagOf
    <3> QED
      BY <3>1, <3>2, <3>3, <3>4 DEF AbstractQueue!Create
  <2>5. \A x : IsHeap(x, <<>>)
    BY DEF IsHeap
  <2> QED
    BY <2>1, <2>4, <2>5 DEF QueueInv, CreateQueue
<1> QED
  BY <1>1, <1>2 DEF CreateQueue

(* Whatever was pushed and popped before, pop and peek give an entry that no other has to
   precede, push and pop change the bag of entries by one, and destroy frees what is
   left. *)
THEOREM QueueIsBag == QueueSpec => ImplementsBag
<1>1. QueueInit => QueueInv /\ AbstractQueue!Init
  <2> SUFFICES ASSUME QueueInit PROVE QueueInv /\ AbstractQueue!Init
    OBVIOUS
  <2>1. queue = NULL /\ queueReply = QueueReply(<<"none">>, 0, <<>>)
    BY DEF QueueInit
  <2> QED
    BY <2>1, EmptyBagOf DEF QueueInv, AbstractQueue!Init, QueueReply
<1>2. QueueInv /\ [QueueNext]_queueVars => QueueInv' /\ [AbstractQueue!Next]_AbstractQueue!vars
  <2> SUFFICES ASSUME QueueInv, [QueueNext]_queueVars
               PROVE  QueueInv' /\ [AbstractQueue!Next]_AbstractQueue!vars
    OBVIOUS
  <2>1. CASE CreateQueue
    <3>1. queue = NULL /\ AbstractQueue!Create /\ QueueInv'
      BY <2>1, CreateQueueStep
    <3> QED
      BY <3>1 DEF AbstractQueue!Next
  <2>2. CASE queue # NULL /\ QueueNext /\ ~CreateQueue
    <3>1. AbstractQueue!Call /\ QueueInv'
      BY <2>2, SetQueueCompStep, SetValueFreeStep, DestroyQueueStep, PushStep, PopStep, AskStep
         DEF QueueNext
    <3>2. queue.data \in Seq(QueueEntries)
      BY <2>2 DEF QueueInv, QueueStructs
    <3>3. BagOf(queue.data) # NULL
      <4> DEFINE b == BagOf(queue.data)
      <4>1. /\ \A v \in DOMAIN b : v \in QueueEntries /\ b[v] = Count(queue.data, v)
            /\ b = [v \in DOMAIN b |-> Count(queue.data, v)]
        BY <3>2, BagOfCounts
      <4>2. \A v : Count(queue.data, v) \in Nat
        BY <3>2, CountSeq
      <4> HIDE DEF b
      <4>3. b \in [DOMAIN b -> Nat] /\ DOMAIN b \in SUBSET QueueEntries
        BY <4>1, <4>2
      <4> QED
        BY <4>3, QueueAssumption DEF b
    <3> QED
      BY <2>2, <3>1, <3>3 DEF AbstractQueue!Next
  <2>3. CASE UNCHANGED queueVars
    BY <2>3 DEF queueVars, QueueInv, AbstractQueue!vars
  <2> QED
    BY <2>1, <2>2, <2>3 DEF QueueNext
<1> QED
  BY <1>1, <1>2, PTL DEF QueueSpec, ImplementsBag, AbstractQueue!Spec

-----------------------------------------------------------------------------
(* The block of an array *)

Cells == ArrayValues \cup {JUNK}

(* The entries s are in the slots after the first n of mem, and nothing is elsewhere. *)
Holds(mem, n, s) ==
  /\ mem \in Seq(Cells) /\ n \in Nat /\ s \in Seq(ArrayValues)
  /\ n + Len(s) <= Len(mem)
  /\ \A i \in 1 .. Len(mem) : mem[i] = IF i - n \in 1 .. Len(s) THEN s[i - n] ELSE JUNK

LEMMA HoldsContents ==
  ASSUME NEW mem, NEW n, NEW s, Holds(mem, n, s)
  PROVE  SubSeq(mem, n + 1, n + Len(s)) = s
<1> DEFINE t == SubSeq(mem, n + 1, n + Len(s))
<1>1. /\ mem \in Seq(Cells) /\ n \in Nat /\ s \in Seq(ArrayValues) /\ Len(s) \in Nat
      /\ n + Len(s) <= Len(mem)
      /\ \A i \in 1 .. Len(mem) : mem[i] = IF i - n \in 1 .. Len(s) THEN s[i - n] ELSE JUNK
  BY DEF Holds
<1>2. \A i \in 1 .. Len(s) : n + i \in 1 .. Len(mem) /\ mem[n + i] = s[i]
  BY <1>1
<1>3. t \in Seq(Cells) /\ Len(t) = Len(s) /\ \A i \in 1 .. Len(s) : t[i] = mem[n + i]
  BY <1>1
<1> HIDE DEF t
<1>4. t = s
  BY <1>1, <1>2, <1>3
<1> QED
  BY <1>4 DEF t

LEMMA HoldsFilled ==
  ASSUME NEW mem \in Seq(Cells), NEW n \in Nat, NEW s \in Seq(ArrayValues),
         n + Len(s) <= Len(mem)
  PROVE  Holds(Filled(mem, n, s), n, s) /\ Len(Filled(mem, n, s)) = Len(mem)
<1> DEFINE t == Filled(mem, n, s)
<1>1. /\ DOMAIN mem = 1 .. Len(mem) /\ DOMAIN s = 1 .. Len(s) /\ Len(mem) \in Nat /\ Len(s) \in Nat
      /\ \A i \in 1 .. Len(s) : s[i] \in ArrayValues
  OBVIOUS
<1>2. t = [i \in 1 .. Len(mem) |-> IF i - n \in 1 .. Len(s) THEN s[i - n] ELSE JUNK]
  BY <1>1 DEF Filled
<1> HIDE DEF t
<1>3. t \in [1 .. Len(mem) -> Cells]
  BY <1>1, <1>2 DEF Cells
<1>4. t \in Seq(Cells) /\ Len(t) = Len(mem)
  BY <1>1, <1>3
<1> QED
  BY <1>2, <1>4 DEF Holds, t

LEMMA HoldsNothing ==
  ASSUME NEW n \in Nat
  PROVE  Room(n) \in Seq(Cells) /\ Len(Room(n)) = n
<1>1. Room(n) \in [1 .. n -> Cells]
  BY DEF Room, Cells
<1> QED
  BY <1>1

LEMMA HoldsSet ==
  ASSUME NEW mem, NEW n, NEW s, Holds(mem, n, s), NEW i \in Nat, i < Len(s), NEW v \in ArrayValues
  PROVE  /\ Holds([mem EXCEPT ![n + i + 1] = v], n, [s EXCEPT ![i + 1] = v])
         /\ Len([mem EXCEPT ![n + i + 1] = v]) = Len(mem)
         /\ Len([s EXCEPT ![i + 1] = v]) = Len(s)
<1> DEFINE t == [mem EXCEPT ![n + i + 1] = v]
           r == [s EXCEPT ![i + 1] = v]
<1>1. /\ mem \in Seq(Cells) /\ n \in Nat /\ s \in Seq(ArrayValues) /\ Len(s) \in Nat
      /\ n + Len(s) <= Len(mem)
      /\ \A j \in 1 .. Len(mem) : mem[j] = IF j - n \in 1 .. Len(s) THEN s[j - n] ELSE JUNK
  BY DEF Holds
<1>2. /\ r \in Seq(ArrayValues) /\ Len(r) = Len(s)
      /\ \A j \in 1 .. Len(s) : r[j] = IF j = i + 1 THEN v ELSE s[j]
  BY <1>1
<1>3. /\ t \in Seq(Cells) /\ Len(t) = Len(mem)
      /\ \A j \in 1 .. Len(mem) : t[j] = IF j = n + i + 1 THEN v ELSE mem[j]
  BY <1>1 DEF Cells
<1> HIDE DEF t, r
<1>4. ASSUME NEW j \in 1 .. Len(mem)
      PROVE  t[j] = IF j - n \in 1 .. Len(s) THEN r[j - n] ELSE JUNK
  <2>1. CASE j = n + i + 1
    <3>1. j - n = i + 1 /\ i + 1 \in 1 .. Len(s)
      BY <1>1, <2>1
    <3> QED
      BY <1>2, <1>3, <2>1, <3>1
  <2>2. CASE j # n + i + 1
    <3>1. j - n # i + 1
      BY <1>1, <2>2
    <3> QED
      BY <1>1, <1>2, <1>3, <2>2, <3>1
  <2> QED
    BY <2>1, <2>2
<1>5. Holds(t, n, r)
  BY <1>1, <1>2, <1>3, <1>4 DEF Holds
<1> QED
  BY <1>2, <1>3, <1>5 DEF t, r

LEMMA HoldsAppended ==
  ASSUME NEW mem, NEW n, NEW s, Holds(mem, n, s), NEW v \in ArrayValues, n + Len(s) < Len(mem)
  PROVE  /\ Holds([mem EXCEPT ![n + Len(s) + 1] = v], n, Append(s, v))
         /\ Len([mem EXCEPT ![n + Len(s) + 1] = v]) = Len(mem)
<1> DEFINE k == Len(s)
           t == [mem EXCEPT ![n + k + 1] = v]
           r == Append(s, v)
<1>1. /\ mem \in Seq(Cells) /\ n \in Nat /\ s \in Seq(ArrayValues) /\ k \in Nat
      /\ n + k < Len(mem)
      /\ \A j \in 1 .. Len(mem) : mem[j] = IF j - n \in 1 .. k THEN s[j - n] ELSE JUNK
  BY DEF Holds
<1>2. /\ r \in Seq(ArrayValues) /\ Len(r) = k + 1
      /\ \A j \in 1 .. k + 1 : r[j] = IF j = k + 1 THEN v ELSE s[j]
  BY <1>1
<1>3. /\ t \in Seq(Cells) /\ Len(t) = Len(mem)
      /\ \A j \in 1 .. Len(mem) : t[j] = IF j = n + k + 1 THEN v ELSE mem[j]
  BY <1>1 DEF Cells
<1> HIDE DEF t, r, k
<1>4. \A j \in 1 .. Len(mem) : t[j] = IF j - n \in 1 .. k + 1 THEN r[j - n] ELSE JUNK
  BY <1>1, <1>2, <1>3
<1>5. Holds(t, n, r)
  BY <1>1, <1>2, <1>3, <1>4 DEF Holds
<1> QED
  BY <1>2, <1>3, <1>5 DEF t, r, k

LEMMA HoldsPopped ==
  ASSUME NEW mem, NEW n, NEW s, Holds(mem, n, s), s # <<>>
  PROVE  /\ Holds([mem EXCEPT ![n + Len(s)] = JUNK], n, SubSeq(s, 1, Len(s) - 1))
         /\ Len([mem EXCEPT ![n + Len(s)] = JUNK]) = Len(mem)
<1> DEFINE k == Len(s)
           t == [mem EXCEPT ![n + k] = JUNK]
           r == SubSeq(s, 1, k - 1)
<1>1. /\ mem \in Seq(Cells) /\ n \in Nat /\ s \in Seq(ArrayValues) /\ k \in Nat /\ k >= 1
      /\ n + k <= Len(mem)
      /\ \A j \in 1 .. Len(mem) : mem[j] = IF j - n \in 1 .. k THEN s[j - n] ELSE JUNK
  BY DEF Holds
<1>2. /\ r \in Seq(ArrayValues) /\ Len(r) = k - 1
      /\ \A j \in 1 .. k - 1 : r[j] = s[j]
  <2>1. k - 1 \in Nat /\ Len(s) = (k - 1) + 1
    BY <1>1
  <2> HIDE DEF k
  <2> QED
    BY <1>1, <2>1, CountFront
<1>3. /\ t \in Seq(Cells) /\ Len(t) = Len(mem)
      /\ \A j \in 1 .. Len(mem) : t[j] = IF j = n + k THEN JUNK ELSE mem[j]
  BY <1>1 DEF Cells
<1> HIDE DEF t, r, k
<1>4. ASSUME NEW j \in 1 .. Len(mem)
      PROVE  t[j] = IF j - n \in 1 .. k - 1 THEN r[j - n] ELSE JUNK
  <2>1. CASE j - n \in 1 .. k - 1
    <3>1. r[j - n] = s[j - n] /\ j - n \in 1 .. k /\ j # n + k
      BY <1>1, <1>2, <2>1
    <3> QED
      BY <1>1, <1>3, <2>1, <3>1
  <2>2. CASE j - n \notin 1 .. k - 1
    BY <1>1, <1>3, <2>2
  <2> QED
    BY <2>1, <2>2
<1>5. Holds(t, n, r)
  BY <1>1, <1>2, <1>3, <1>4 DEF Holds
<1> QED
  BY <1>2, <1>3, <1>5 DEF t, r, k

LEMMA HoldsPoppedFirst ==
  ASSUME NEW mem, NEW n, NEW s, Holds(mem, n, s), s # <<>>
  PROVE  /\ Holds([mem EXCEPT ![n + 1] = JUNK], n + 1, Tail(s))
         /\ Len([mem EXCEPT ![n + 1] = JUNK]) = Len(mem)
<1> DEFINE k == Len(s)
           t == [mem EXCEPT ![n + 1] = JUNK]
           r == Tail(s)
<1>1. /\ mem \in Seq(Cells) /\ n \in Nat /\ s \in Seq(ArrayValues) /\ k \in Nat /\ k >= 1
      /\ n + k <= Len(mem)
      /\ \A j \in 1 .. Len(mem) : mem[j] = IF j - n \in 1 .. k THEN s[j - n] ELSE JUNK
  BY DEF Holds
<1>2. /\ r \in Seq(ArrayValues) /\ Len(r) = k - 1
      /\ \A j \in 1 .. k - 1 : r[j] = s[j + 1]
  BY <1>1
<1>3. /\ t \in Seq(Cells) /\ Len(t) = Len(mem)
      /\ \A j \in 1 .. Len(mem) : t[j] = IF j = n + 1 THEN JUNK ELSE mem[j]
  BY <1>1 DEF Cells
<1> HIDE DEF t, r, k
<1>4. \A j \in 1 .. Len(mem) : t[j] = IF j - (n + 1) \in 1 .. k - 1 THEN r[j - (n + 1)] ELSE JUNK
  <2> SUFFICES ASSUME NEW j \in 1 .. Len(mem)
               PROVE  t[j] = IF j - (n + 1) \in 1 .. k - 1 THEN r[j - (n + 1)] ELSE JUNK
    OBVIOUS
  <2>1. CASE j - (n + 1) \in 1 .. k - 1
    <3>1. r[j - (n + 1)] = s[j - n]
      BY <1>1, <1>2, <2>1
    <3> QED
      BY <1>1, <1>3, <2>1, <3>1
  <2>2. CASE j - (n + 1) \notin 1 .. k - 1
    BY <1>1, <1>3, <2>2
  <2> QED
    BY <2>1, <2>2
<1>5. Holds(t, n + 1, r)
  BY <1>1, <1>2, <1>3, <1>4 DEF Holds
<1> QED
  BY <1>2, <1>3, <1>5 DEF t, r, k

LEMMA HoldsMoved ==
  ASSUME NEW mem, NEW n, NEW s, Holds(mem, n, s), NEW m \in Nat, n + Len(s) <= m
  PROVE  Holds(Moved(mem, m), n, s) /\ Len(Moved(mem, m)) = m
<1> DEFINE t == Moved(mem, m)
<1>1. /\ mem \in Seq(Cells) /\ n \in Nat /\ s \in Seq(ArrayValues) /\ Len(s) \in Nat
      /\ n + Len(s) <= Len(mem)
      /\ \A j \in 1 .. Len(mem) : mem[j] = IF j - n \in 1 .. Len(s) THEN s[j - n] ELSE JUNK
      /\ DOMAIN mem = 1 .. Len(mem)
  BY DEF Holds
<1>2. t = [i \in 1 .. m |-> IF i \in 1 .. Len(mem) THEN mem[i] ELSE JUNK]
  BY <1>1 DEF Moved
<1>3. \A i \in 1 .. Len(mem) : mem[i] \in Cells
  BY <1>1
<1> HIDE DEF t
<1>4. t \in [1 .. m -> Cells]
  BY <1>2, <1>3 DEF Cells
<1>5. t \in Seq(Cells) /\ Len(t) = m
  BY <1>4
<1>6. \A j \in 1 .. m : t[j] = IF j - n \in 1 .. Len(s) THEN s[j - n] ELSE JUNK
  BY <1>1, <1>2
<1> QED
  BY <1>1, <1>5, <1>6 DEF Holds, t

-----------------------------------------------------------------------------
(* The struct of an array with the entries s *)

Block(a, s) ==
  /\ a \in ArrayStructs /\ Holds(a.mem, a.front, s)
  /\ a.size = Len(s) /\ a.size <= a.capacity
  /\ a.front + a.capacity <= Len(a.mem) /\ a.front + a.capacity <= MaxSlots

LEMMA BlockContents ==
  ASSUME NEW a, NEW s, Block(a, s)
  PROVE  /\ Contents(a) = s
         /\ a # NULL
<1>1. Contents(a) = s
  BY HoldsContents DEF Block, Contents
<1>2. a # NULL
  BY ArrayAssumption DEF Block
<1> QED
  BY <1>1, <1>2

(* The same room for other entries, no more than fit *)
LEMMA BlockFilled ==
  ASSUME NEW a, NEW r, Block(a, r), NEW s \in Seq(ArrayValues), Len(s) <= a.capacity,
         NEW c, c = [a EXCEPT !.mem = Filled(a.mem, a.front, s), !.size = Len(s)]
  PROVE  Block(c, s)
<1>1. /\ a \in ArrayStructs /\ a.mem \in Seq(Cells) /\ a.front \in Nat /\ a.capacity \in Nat
      /\ a.front + a.capacity <= Len(a.mem) /\ a.front + a.capacity <= MaxSlots
      /\ Len(a.mem) \in Nat /\ Len(s) \in Nat
  BY DEF Block, ArrayStructs, Cells
<1> DEFINE mem == Filled(a.mem, a.front, s)
<1>2. Holds(mem, a.front, s) /\ Len(mem) = Len(a.mem)
  <2>1. a.front + Len(s) <= Len(a.mem)
    BY <1>1
  <2> QED
    BY <1>1, <2>1, HoldsFilled
<1> HIDE DEF mem
<1>3. mem \in Seq(ArrayValues \cup {JUNK})
  BY <1>2 DEF Holds, Cells
<1>4. /\ c \in ArrayStructs /\ c.mem = mem /\ c.front = a.front /\ c.size = Len(s)
      /\ c.capacity = a.capacity
  BY <1>1, <1>3 DEF ArrayStructs, mem
<1> HIDE DEF mem
<1> QED
  BY <1>1, <1>2, <1>4, ArrayAssumption DEF Block

(* As many entries in place of the old ones *)
LEMMA BlockWith ==
  ASSUME NEW a, NEW r, Block(a, r), NEW s \in Seq(ArrayValues), Len(s) = Len(r)
  PROVE  /\ Block(WithContents(a, s), s)
         /\ WithContents(a, s).capacity = a.capacity
         /\ WithContents(a, s).comp = a.comp /\ WithContents(a, s).null = a.null
<1>1. a \in ArrayStructs /\ a.size = Len(s) /\ Len(s) <= a.capacity
  BY DEF Block
<1> DEFINE c == [a EXCEPT !.mem = Filled(a.mem, a.front, s), !.size = Len(s)]
<1>2. Block(c, s)
  BY <1>1, BlockFilled
<1>3. c = [a EXCEPT !.mem = Filled(a.mem, a.front, s)] /\ c.capacity = a.capacity
      /\ c.comp = a.comp /\ c.null = a.null
  BY <1>1 DEF ArrayStructs
<1> HIDE DEF c
<1> QED
  BY <1>2, <1>3 DEF WithContents

(* A new struct with the entries s *)
LEMMA BlockAlloc ==
  ASSUME NEW n \in Nat, n <= MaxSlots, NEW s \in Seq(ArrayValues), Len(s) <= n
  PROVE  /\ Block(WithContents(Alloc(n, Len(s)), s), s)
         /\ WithContents(Alloc(n, Len(s)), s).capacity = n
<1> DEFINE k == Slots(n)
           e == [Alloc(n, Len(s)) EXCEPT !.size = 0]
           a == Alloc(n, Len(s))
<1>1. k \in Nat /\ n <= k /\ Len(s) \in Nat
  BY DEF Slots
<1> HIDE DEF k
<1>2. Room(k) \in Seq(Cells) /\ Len(Room(k)) = k
  BY <1>1, HoldsNothing
<1>3. /\ e = [mem |-> Room(k), front |-> 0, size |-> 0, capacity |-> n, comp |-> NULL,
              null |-> NULL]
      /\ a = [mem |-> Room(k), front |-> 0, size |-> Len(s), capacity |-> n, comp |-> NULL,
              null |-> NULL]
  BY DEF Alloc, k
<1> HIDE DEF e, a
<1>4. Holds(Room(k), 0, <<>>)
  <2>1. \A i \in 1 .. k : Room(k)[i] = JUNK
    BY DEF Room
  <2> QED
    BY <1>1, <1>2, <2>1 DEF Holds
<1>5. e \in ArrayStructs
  BY <1>2, <1>3 DEF ArrayStructs, Cells
<1>6. Block(e, <<>>)
  BY <1>1, <1>2, <1>3, <1>4, <1>5, ArrayAssumption DEF Block
<1> DEFINE c == [e EXCEPT !.mem = Filled(e.mem, e.front, s), !.size = Len(s)]
<1>7. Block(c, s)
  BY <1>1, <1>3, <1>6, BlockFilled
<1>8. c = [a EXCEPT !.mem = Filled(a.mem, a.front, s)] /\ c.capacity = n
  <2>1. e.mem = Room(k) /\ e.front = 0 /\ a.mem = Room(k) /\ a.front = 0
    BY <1>3
  <2> DEFINE f == Filled(Room(k), 0, s)
  <2>2. c = [e EXCEPT !.mem = f, !.size = Len(s)]
    BY <2>1
  <2>3. Filled(a.mem, a.front, s) = f
    BY <2>1
  <2> HIDE DEF f, c
  <2>4. c = [mem |-> f, front |-> 0, size |-> Len(s), capacity |-> n, comp |-> NULL,
             null |-> NULL]
    BY <1>3, <2>2
  <2>5. [a EXCEPT !.mem = f] = [mem |-> f, front |-> 0, size |-> Len(s), capacity |-> n,
                                comp |-> NULL, null |-> NULL]
    BY <1>3
  <2> QED
    BY <2>3, <2>4, <2>5
<1> HIDE DEF c
<1> QED
  BY <1>7, <1>8 DEF WithContents, a

LEMMA BlockSettings ==
  ASSUME NEW a, NEW s, Block(a, s), NEW o \in {1, -1, NULL}, NEW v \in ArrayValues \cup {NULL}
  PROVE  /\ Block([a EXCEPT !.comp = o], s) /\ Block([a EXCEPT !.null = v], s)
         /\ Block([a EXCEPT !.comp = o, !.null = v], s)
BY DEF Block, ArrayStructs

LEMMA BlockSet ==
  ASSUME NEW a, NEW s, Block(a, s), NEW i \in Nat, i < Len(s), NEW v \in ArrayValues,
         NEW c, c = [a EXCEPT !.mem[a.front + i + 1] = v]
  PROVE  /\ Block(c, [s EXCEPT ![i + 1] = v])
         /\ c.capacity = a.capacity /\ c.comp = a.comp /\ c.null = a.null
<1> DEFINE mem == [a.mem EXCEPT ![a.front + i + 1] = v]
           r == [s EXCEPT ![i + 1] = v]
<1>1. Holds(mem, a.front, r) /\ Len(mem) = Len(a.mem) /\ Len(r) = Len(s)
  BY HoldsSet DEF Block
<1>2. a \in ArrayStructs /\ c = [a EXCEPT !.mem = mem]
  BY DEF Block, ArrayStructs
<1> HIDE DEF mem, r
<1>3. mem \in Seq(ArrayValues \cup {JUNK})
  BY <1>1 DEF Holds, Cells
<1>4. /\ c \in ArrayStructs /\ c.mem = mem /\ c.front = a.front /\ c.size = a.size
      /\ c.capacity = a.capacity /\ c.comp = a.comp /\ c.null = a.null
  BY <1>2, <1>3 DEF ArrayStructs
<1>5. Block(c, r)
  BY <1>1, <1>4 DEF Block
<1> QED
  BY <1>4, <1>5 DEF r

LEMMA BlockAppended ==
  ASSUME NEW a, NEW s, Block(a, s), a.size < a.capacity, NEW v \in ArrayValues
  PROVE  /\ Block(Appended(a, v), Append(s, v))
         /\ Appended(a, v).capacity = a.capacity
         /\ Appended(a, v).comp = a.comp /\ Appended(a, v).null = a.null
<1> DEFINE k == Len(s)
           mem == [a.mem EXCEPT ![a.front + k + 1] = v]
           r == Append(s, v)
           c == Appended(a, v)
<1>1. /\ a \in ArrayStructs /\ a.size = k /\ k \in Nat /\ a.front \in Nat /\ a.capacity \in Nat
      /\ Len(a.mem) \in Nat /\ a.front + a.capacity <= Len(a.mem) /\ k < a.capacity
      /\ a.front + a.capacity <= MaxSlots
  BY DEF Block, ArrayStructs, Holds
<1>2. Holds(mem, a.front, r) /\ Len(mem) = Len(a.mem)
  <2>1. a.front + Len(s) < Len(a.mem)
    BY <1>1
  <2> QED
    BY <2>1, HoldsAppended DEF Block
<1>3. Len(r) = k + 1
  BY DEF Block, Holds
<1>4. c = [a EXCEPT !.mem = mem, !.size = k + 1]
  BY <1>1 DEF Appended, ArrayStructs
<1> HIDE DEF mem, r, c, k
<1>5. mem \in Seq(ArrayValues \cup {JUNK})
  BY <1>2 DEF Holds, Cells
<1>6. /\ c \in ArrayStructs /\ c.mem = mem /\ c.front = a.front /\ c.size = k + 1
      /\ c.capacity = a.capacity /\ c.comp = a.comp /\ c.null = a.null
  <2>1. k + 1 \in Nat
    BY <1>1
  <2> QED
    BY <1>1, <1>4, <1>5, <2>1 DEF ArrayStructs
<1>7. Block(c, r)
  BY <1>1, <1>2, <1>3, <1>6 DEF Block
<1> QED
  BY <1>6, <1>7 DEF r, c

LEMMA BlockSlid ==
  ASSUME NEW a, NEW s, Block(a, s)
  PROVE  /\ Block(Slid(a), s)
         /\ Slid(a).capacity >= a.capacity /\ Slid(a).capacity = a.capacity + a.front
         /\ Slid(a).comp = a.comp /\ Slid(a).null = a.null /\ Slid(a).front = 0
<1> DEFINE mem == Filled(a.mem, 0, s)
           c == Slid(a)
<1>1. /\ a \in ArrayStructs /\ a.size = Len(s) /\ Len(s) \in Nat /\ a.front \in Nat
      /\ a.capacity \in Nat /\ a.mem \in Seq(Cells) /\ s \in Seq(ArrayValues)
      /\ Len(a.mem) \in Nat /\ a.front + a.capacity <= Len(a.mem) /\ Len(s) <= a.capacity
      /\ a.front + a.capacity <= MaxSlots
  BY DEF Block, ArrayStructs, Holds
<1>2. Holds(mem, 0, s) /\ Len(mem) = Len(a.mem)
  <2>1. 0 \in Nat /\ 0 + Len(s) <= Len(a.mem)
    BY <1>1
  <2> QED
    BY <1>1, <2>1, HoldsFilled
<1>3. c = [a EXCEPT !.mem = mem, !.front = 0, !.capacity = @ + a.front]
  BY BlockContents DEF Slid
<1> HIDE DEF mem, c
<1>4. mem \in Seq(ArrayValues \cup {JUNK})
  BY <1>2 DEF Holds, Cells
<1>5. /\ c \in ArrayStructs /\ c.mem = mem /\ c.front = 0 /\ c.size = Len(s)
      /\ c.capacity = a.capacity + a.front /\ c.comp = a.comp /\ c.null = a.null
  <2>1. a.capacity + a.front \in Nat
    BY <1>1
  <2> QED
    BY <1>1, <1>3, <1>4, <2>1 DEF ArrayStructs
<1>6. Block(c, s)
  BY <1>1, <1>2, <1>5, ArrayAssumption DEF Block
<1> QED
  BY <1>1, <1>5, <1>6 DEF c

(* realloc to m slots of which n count as capacity *)
MovedTo(a, m, n) == [a EXCEPT !.mem = Moved(a.mem, m), !.capacity = n]

LEMMA BlockMoved ==
  ASSUME NEW a, NEW s, Block(a, s), NEW n \in Nat, a.capacity <= n, a.front + n <= MaxSlots,
         NEW m, m = a.front + n, NEW c, c = MovedTo(a, m, n)
  PROVE  Block(c, s) /\ c.capacity = n /\ c.comp = a.comp /\ c.null = a.null
<1> DEFINE mem == Moved(a.mem, m)
<1>1. /\ a \in ArrayStructs /\ a.size = Len(s) /\ Len(s) \in Nat /\ a.front \in Nat
      /\ a.capacity \in Nat /\ Len(s) <= a.capacity
  BY DEF Block, ArrayStructs, Holds
<1>2. Holds(mem, a.front, s) /\ Len(mem) = m
  <2>1. m \in Nat /\ a.front + Len(s) <= m
    BY <1>1
  <2> QED
    BY <2>1, HoldsMoved DEF Block
<1> HIDE DEF mem
<1>3. mem \in Seq(ArrayValues \cup {JUNK})
  BY <1>2 DEF Holds, Cells
<1>4. /\ c \in ArrayStructs /\ c.mem = mem /\ c.front = a.front /\ c.size = Len(s)
      /\ c.capacity = n /\ c.comp = a.comp /\ c.null = a.null
  BY <1>1, <1>3 DEF ArrayStructs, mem, MovedTo
<1>5. /\ Len(s) <= n /\ a.front + n <= Len(mem)
  BY <1>1, <1>2
<1> QED
  BY <1>2, <1>4, <1>5 DEF Block

LEMMA BlockWithRoom ==
  ASSUME NEW a, NEW s, Block(a, s), NEW c \in WithRoom(a)
  PROVE  /\ Block(c, s) /\ c.size < c.capacity /\ c.capacity >= a.capacity
         /\ c.comp = a.comp /\ c.null = a.null
<1>1. /\ a \in ArrayStructs /\ a.size = Len(s) /\ Len(s) \in Nat /\ a.front \in Nat
      /\ a.capacity \in Nat /\ Len(s) <= a.capacity /\ a.front + a.capacity <= MaxSlots
      /\ MaxSlots \in Nat
  BY ArrayAssumption DEF Block, ArrayStructs, Holds
<1>2. CASE a.size < a.capacity
  BY <1>1, <1>2 DEF WithRoom
<1>3. CASE ~(a.size < a.capacity) /\ a.front > 0 /\ a.front >= a.size
  <2>1. c = Slid(a)
    BY <1>3 DEF WithRoom
  <2>2. /\ Block(c, s) /\ c.capacity = a.capacity + a.front
        /\ c.comp = a.comp /\ c.null = a.null
    BY <2>1, BlockSlid
  <2>3. c.size = Len(s)
    BY <2>2 DEF Block
  <2> QED
    BY <1>1, <1>3, <2>2, <2>3
<1>4. CASE ~(a.size < a.capacity) /\ ~(a.front > 0 /\ a.front >= a.size)
  <2> DEFINE n == IF a.capacity = 0 THEN 1 ELSE 2 * a.capacity
             m == a.front + n
  <2>1. n \in Nat /\ a.capacity < n
    BY <1>1
  <2>2. Grown(a) = MovedTo(a, m, n)
    BY DEF Grown, MovedTo
  <2>3. Grown(a).capacity = n
    BY <1>1, <2>2 DEF ArrayStructs, MovedTo
  <2>4. c = Grown(a) /\ n <= MaxSlots - a.front
    BY <1>1, <1>4, <2>1, <2>3 DEF WithRoom
  <2> HIDE DEF n
  <2>5. a.front + n <= MaxSlots /\ m = a.front + n
    BY <1>1, <2>1, <2>4
  <2>6. a.capacity <= n
    BY <1>1, <2>1
  <2> HIDE DEF m
  <2>7. Block(c, s) /\ c.capacity = n /\ c.comp = a.comp /\ c.null = a.null
    BY <2>1, <2>2, <2>4, <2>5, <2>6, BlockMoved
  <2>8. c.size = Len(s)
    BY <2>7 DEF Block
  <2> QED
    BY <1>1, <2>1, <2>7, <2>8
<1> QED
  BY <1>2, <1>3, <1>4

(* One entry less in the same room *)
LEMMA BlockPopped ==
  ASSUME NEW a, NEW s, Block(a, s), s # <<>>,
         NEW c, c = [a EXCEPT !.mem = [a.mem EXCEPT ![a.front + a.size] = JUNK], !.size = @ - 1]
  PROVE  /\ Block(c, SubSeq(s, 1, Len(s) - 1))
         /\ c.capacity = a.capacity /\ c.comp = a.comp /\ c.null = a.null
<1> DEFINE k == Len(s)
           mem == [a.mem EXCEPT ![a.front + k] = JUNK]
           r == SubSeq(s, 1, k - 1)
<1>1. /\ a \in ArrayStructs /\ a.size = k /\ k \in Nat /\ k > 0 /\ a.front \in Nat
      /\ a.capacity \in Nat /\ Len(a.mem) \in Nat /\ a.front + a.capacity <= Len(a.mem)
      /\ k <= a.capacity /\ a.front + a.capacity <= MaxSlots
  BY DEF Block, ArrayStructs, Holds
<1>2. Holds(mem, a.front, r) /\ Len(mem) = Len(a.mem)
  BY HoldsPopped DEF Block
<1>3. Len(r) = k - 1
  <2>1. s \in Seq(ArrayValues) /\ k - 1 \in 0 .. Len(s)
    BY <1>1 DEF Block, Holds
  <2>2. \A n \in 0 .. Len(s) : Len(SubSeq(s, 1, n)) = n
    BY <2>1
  <2> QED
    BY <2>1, <2>2
<1>4. c = [a EXCEPT !.mem = mem, !.size = k - 1]
  BY <1>1 DEF ArrayStructs
<1> HIDE DEF mem, r, k
<1>5. mem \in Seq(ArrayValues \cup {JUNK})
  BY <1>2 DEF Holds, Cells
<1>6. /\ c \in ArrayStructs /\ c.mem = mem /\ c.front = a.front /\ c.size = k - 1
      /\ c.capacity = a.capacity /\ c.comp = a.comp /\ c.null = a.null
  <2>1. k - 1 \in Nat
    BY <1>1
  <2> QED
    BY <1>1, <1>4, <1>5, <2>1 DEF ArrayStructs
<1>7. Block(c, r)
  BY <1>1, <1>2, <1>3, <1>6 DEF Block
<1> QED
  BY <1>6, <1>7 DEF r, k

LEMMA BlockPoppedFirst ==
  ASSUME NEW a, NEW s, Block(a, s), s # <<>>,
         NEW c, c = [a EXCEPT !.mem = [a.mem EXCEPT ![a.front + 1] = JUNK], !.size = @ - 1,
                              !.capacity = @ - 1, !.front = @ + 1]
  PROVE  /\ Block(c, Tail(s))
         /\ c.capacity = a.capacity - 1 /\ c.comp = a.comp /\ c.null = a.null
<1> DEFINE k == Len(s)
           mem == [a.mem EXCEPT ![a.front + 1] = JUNK]
           r == Tail(s)
           n == a.front
<1>1. /\ a \in ArrayStructs /\ a.size = k /\ k \in Nat /\ k > 0 /\ n \in Nat
      /\ a.capacity \in Nat /\ Len(a.mem) \in Nat /\ n + a.capacity <= Len(a.mem)
      /\ k <= a.capacity /\ n + a.capacity <= MaxSlots
  BY DEF Block, ArrayStructs, Holds
<1>2. Holds(mem, n + 1, r) /\ Len(mem) = Len(a.mem)
  BY HoldsPoppedFirst DEF Block
<1>3. Len(r) = k - 1
  BY <1>1 DEF Block, Holds
<1>4. c = [a EXCEPT !.mem = mem, !.size = k - 1, !.capacity = a.capacity - 1, !.front = n + 1]
  BY <1>1 DEF ArrayStructs
<1> HIDE DEF mem, r, k
<1>5. mem \in Seq(ArrayValues \cup {JUNK})
  BY <1>2 DEF Holds, Cells
<1>6. /\ c \in ArrayStructs /\ c.mem = mem /\ c.front = n + 1 /\ c.size = k - 1
      /\ c.capacity = a.capacity - 1 /\ c.comp = a.comp /\ c.null = a.null
  <2>1. k - 1 \in Nat /\ a.capacity - 1 \in Nat /\ n + 1 \in Nat
    BY <1>1
  <2> QED
    BY <1>1, <1>4, <1>5, <2>1 DEF ArrayStructs
<1>7. Block(c, r)
  <2>1. /\ k - 1 <= a.capacity - 1 /\ (n + 1) + (a.capacity - 1) <= Len(a.mem)
        /\ (n + 1) + (a.capacity - 1) <= MaxSlots
    BY <1>1, ArrayAssumption
  <2> QED
    BY <1>2, <1>3, <1>6, <2>1 DEF Block
<1> QED
  BY <1>6, <1>7 DEF r, k

-----------------------------------------------------------------------------
(* Stable sorting *)

(* Entry x of s is in front of entry y when s is sorted without changing what is equal. *)
Before(w, s, x, y) == w[s[x]] < w[s[y]] \/ (w[s[x]] = w[s[y]] /\ x < y)

(* pos says where each of the n entries of s is in t, and no entry overtakes another
   without reason. *)
SortsTo(S, w, n, s, t, pos) ==
  /\ w \in [S -> Int] /\ n \in Nat /\ s \in [1 .. n -> S] /\ pos \in [1 .. n -> 1 .. n]
  /\ \A x \in 1 .. n : t[pos[x]] = s[x]
  /\ \A x, y \in 1 .. n : Before(w, s, x, y) => pos[x] < pos[y]

SortedBy(w, n, t) == \A x, y \in 1 .. n : x < y => w[t[x]] <= w[t[y]]

LEMMA SortsOnto ==
  ASSUME NEW S, NEW w, NEW n, NEW s, NEW t, NEW pos, SortsTo(S, w, n, s, t, pos)
  PROVE  \A r \in 1 .. n : \E x \in 1 .. n : pos[x] = r
<1>1. /\ w \in [S -> Int] /\ n \in Nat /\ s \in [1 .. n -> S]
      /\ pos \in [1 .. n -> 1 .. n]
      /\ \A x, y \in 1 .. n : Before(w, s, x, y) => pos[x] < pos[y]
  BY DEF SortsTo
<1>2. ASSUME NEW x \in 1 .. n, NEW y \in 1 .. n, x # y PROVE pos[x] # pos[y]
  <2>1. w[s[x]] \in Int /\ w[s[y]] \in Int
    BY <1>1
  <2>2. Before(w, s, x, y) \/ Before(w, s, y, x)
    BY <1>1, <1>2, <2>1 DEF Before
  <2> QED
    BY <1>1, <2>2
<1>3. pos \in Injection(1 .. n, 1 .. n)
  BY <1>1, <1>2 DEF Injection, IsInjective
<1>4. pos \in Surjection(1 .. n, 1 .. n)
  BY <1>1, <1>3, FS_Interval, FS_Injection
<1> QED
  BY <1>4 DEF Surjection

LEMMA SortsSorted ==
  ASSUME NEW S, NEW w, NEW n, NEW s, NEW t, NEW pos, SortsTo(S, w, n, s, t, pos)
  PROVE  SortedBy(w, n, t)
<1> SUFFICES ASSUME NEW x \in 1 .. n, NEW y \in 1 .. n, x < y PROVE w[t[x]] <= w[t[y]]
  BY DEF SortedBy
<1>1. PICK a \in 1 .. n : pos[a] = x
  BY SortsOnto
<1>2. PICK b \in 1 .. n : pos[b] = y
  BY SortsOnto
<1>6. pos \in [1 .. n -> 1 .. n] /\ n \in Nat
  BY DEF SortsTo
<1>3. t[x] = s[a] /\ t[y] = s[b] /\ ~(pos[b] < pos[a])
  <2>1. t[pos[a]] = s[a] /\ t[pos[b]] = s[b]
    BY DEF SortsTo
  <2> QED
    BY <1>1, <1>2, <1>6, <2>1
<1>4. ~Before(w, s, b, a)
  BY <1>3 DEF SortsTo
<1>5. w[s[a]] \in Int /\ w[s[b]] \in Int /\ a \in Int /\ b \in Int
  BY DEF SortsTo
<1> QED
  BY <1>3, <1>4, <1>5 DEF Before

LEMMA SortsItself ==
  ASSUME NEW S, NEW w \in [S -> Int], NEW n \in Nat, NEW s \in [1 .. n -> S],
         SortedBy(w, n, s)
  PROVE  SortsTo(S, w, n, s, s, [x \in 1 .. n |-> x])
<1>1. ASSUME NEW x \in 1 .. n, NEW y \in 1 .. n, Before(w, s, x, y) PROVE x < y
  <2>1. w[s[x]] \in Int /\ w[s[y]] \in Int
    OBVIOUS
  <2> QED
    BY <1>1, <2>1 DEF Before, SortedBy
<1> QED
  BY <1>1 DEF SortsTo

(* Entry x of s is entry p[x] of u, and equal entries are in the same order. *)
Rearranges(S, w, n, s, u, p) ==
  /\ w \in [S -> Int] /\ n \in Nat /\ s \in [1 .. n -> S] /\ p \in [1 .. n -> 1 .. n]
  /\ \A x \in 1 .. n : u[p[x]] = s[x]
  /\ \A x, y \in 1 .. n : w[s[x]] = w[s[y]] /\ x < y => p[x] < p[y]

LEMMA SortsRearranged ==
  ASSUME NEW S, NEW w, NEW n, NEW s, NEW u, NEW p, Rearranges(S, w, n, s, u, p), NEW t, NEW q, 
         SortsTo(S, w, n, u, t, q)
  PROVE  SortsTo(S, w, n, s, t, [x \in 1 .. n |-> q[p[x]]])
<1>1. /\ w \in [S -> Int] /\ n \in Nat /\ s \in [1 .. n -> S]
      /\ p \in [1 .. n -> 1 .. n] /\ q \in [1 .. n -> 1 .. n]
      /\ \A x \in 1 .. n : u[p[x]] = s[x] /\ t[q[x]] = u[x]
  BY DEF Rearranges, SortsTo
<1>2. ASSUME NEW x \in 1 .. n, NEW y \in 1 .. n, Before(w, s, x, y) PROVE q[p[x]] < q[p[y]]
  <2>1. Before(w, u, p[x], p[y])
    BY <1>1, <1>2 DEF Rearranges, Before
  <2>2. p[x] \in 1 .. n /\ p[y] \in 1 .. n
    BY <1>1
  <2> QED
    BY <2>1, <2>2 DEF SortsTo
<1> QED
  BY <1>1, <1>2 DEF SortsTo

(* The first half entries of s are a, the others b. *)
InHalves(s, n, half, a, m, b) ==
  /\ n \in Nat /\ half \in 0 .. n /\ m \in Nat /\ n = half + m
  /\ \A x \in 1 .. half : a[x] = s[x]
  /\ \A x \in 1 .. m : b[x] = s[half + x]

(* Halves that are sorted each on its own *)
LEMMA RearrangesHalves ==
  ASSUME NEW S, NEW w, NEW n, NEW half, NEW m, NEW s \in [1 .. n -> S], NEW u,
         NEW a, NEW l, NEW p, SortsTo(S, w, half, a, l, p),
         NEW b, NEW r, NEW q, SortsTo(S, w, m, b, r, q),
         InHalves(s, n, half, a, m, b), InHalves(u, n, half, l, m, r)
  PROVE  \E f : Rearranges(S, w, n, s, u, f)
<1> DEFINE f == [x \in 1 .. n |-> IF x <= half THEN p[x] ELSE half + q[x - half]]
<1>1. /\ p \in [1 .. half -> 1 .. half] /\ q \in [1 .. m -> 1 .. m]
      /\ \A x \in 1 .. half : l[p[x]] = a[x]
      /\ \A x \in 1 .. m : r[q[x]] = b[x]
      /\ w \in [S -> Int]
  BY DEF SortsTo
<1>8. /\ \A x \in 1 .. half : a[x] = s[x] /\ l[x] = u[x]
      /\ \A x \in 1 .. m : b[x] = s[half + x] /\ r[x] = u[half + x]
  BY DEF InHalves
<1>7. half \in Nat /\ m \in Nat /\ n \in Nat /\ half <= n /\ n = half + m
  BY DEF InHalves
<1>2. ASSUME NEW x \in 1 .. half PROVE f[x] = p[x] /\ f[x] \in 1 .. half
  <2>1. x \in 1 .. n /\ x <= half /\ p[x] \in 1 .. half
    BY <1>1, <1>7
  <2> QED
    BY <2>1
<1>3. ASSUME NEW x \in half + 1 .. n
      PROVE  /\ x - half \in 1 .. m /\ f[x] = half + q[x - half]
             /\ f[x] \in half + 1 .. n
  <2>1. x \in 1 .. n /\ ~(x <= half) /\ x - half \in 1 .. m
    BY <1>7
  <2>2. q[x - half] \in 1 .. m
    BY <1>1, <2>1
  <2>3. f[x] = half + q[x - half]
    BY <2>1
  <2> HIDE DEF f
  <2> QED
    BY <1>7, <2>1, <2>2, <2>3
<1>4. f \in [1 .. n -> 1 .. n]
  <2>1. ASSUME NEW x \in 1 .. n PROVE f[x] \in 1 .. n
    <3>1. CASE x <= half
      <4>1. x \in 1 .. half
        BY <1>7, <3>1
      <4>2. f[x] \in 1 .. half
        BY <1>2, <4>1
      <4> QED
        BY <1>7, <4>2
    <3>2. CASE x > half
      <4>1. x \in half + 1 .. n
        BY <1>7, <3>2
      <4>2. f[x] \in half + 1 .. n
        BY <1>3, <4>1
      <4> QED
        BY <1>7, <4>2
    <3> QED
      BY <1>7, <3>1, <3>2
  <2> QED
    BY <2>1
<1> HIDE DEF f
<1>5. ASSUME NEW x \in 1 .. n PROVE u[f[x]] = s[x]
  <2>1. CASE x <= half
    <3>1. x \in 1 .. half
      BY <1>7, <2>1
    <3> QED
      BY <1>1, <1>2, <1>8, <3>1
  <2>2. CASE x > half
    <3>1. x \in half + 1 .. n /\ half + (x - half) = x
      BY <1>7, <2>2
    <3>2. q[x - half] \in 1 .. m
      BY <1>1, <1>3, <3>1
    <3>4. x - half \in 1 .. m /\ f[x] = half + q[x - half]
      BY <1>3, <3>1
    <3>3. u[f[x]] = r[q[x - half]] /\ r[q[x - half]] = b[x - half] /\ b[x - half] = s[half + (x - half)]
      BY <1>1, <1>8, <3>2, <3>4
    <3> QED
      BY <3>1, <3>3
  <2> QED
    BY <1>7, <2>1, <2>2
<1>6. ASSUME NEW x \in 1 .. n, NEW y \in 1 .. n, w[s[x]] = w[s[y]], x < y PROVE f[x] < f[y]
  <2>1. CASE y <= half
    <3>1. x \in 1 .. half /\ y \in 1 .. half
      BY <1>6, <1>7, <2>1
    <3>2. Before(w, a, x, y)
      BY <1>6, <1>8, <3>1 DEF Before
    <3> QED
      BY <1>2, <3>1, <3>2 DEF SortsTo
  <2>2. CASE x > half
    <3>1. /\ x \in half + 1 .. n /\ y \in half + 1 .. n /\ x - half < y - half
          /\ half + (x - half) = x /\ half + (y - half) = y
      BY <1>6, <1>7, <2>2
    <3>2. x - half \in 1 .. m /\ y - half \in 1 .. m
      BY <1>7, <3>1
    <3>3. b[x - half] = s[x] /\ b[y - half] = s[y]
      BY <1>8, <3>1, <3>2
    <3>4. Before(w, b, x - half, y - half)
      BY <1>6, <3>1, <3>3 DEF Before
    <3>6. \A d, e \in 1 .. m : Before(w, b, d, e) => q[d] < q[e]
      BY DEF SortsTo
    <3>5. q[x - half] < q[y - half] /\ q[x - half] \in Int /\ q[y - half] \in Int
      BY <1>1, <3>2, <3>4, <3>6
    <3>7. f[x] = half + q[x - half] /\ f[y] = half + q[y - half]
      BY <1>3, <3>1
    <3> QED
      BY <1>7, <3>5, <3>7
  <2>3. CASE x <= half /\ y > half
    <3>1. x \in 1 .. half /\ y \in half + 1 .. n
      BY <1>7, <2>3
    <3>2. f[x] \in 1 .. half /\ f[y] \in half + 1 .. n
      BY <1>2, <1>3, <3>1
    <3> QED
      BY <1>7, <3>2
  <2> QED
    BY <1>7, <2>1, <2>2, <2>3
<1> QED
  BY <1>1, <1>4, <1>5, <1>6, <1>7 DEF Rearranges

(* w gives what the order compares. *)
Weighs(order, S, w) ==
  /\ w \in [S -> Int]
  /\ \A x, y \in S : /\ Compare(order, x, y) < 0 <=> w[x] < w[y]
                     /\ Compare(order, x, y) = 0 <=> w[x] = w[y]
                     /\ Compare(order, x, y) <= 0 <=> w[x] <= w[y]

LEMMA SortsByRank ==
  ASSUME NEW order, NEW S, NEW w, Weighs(order, S, w),
         NEW n, NEW s, NEW t, NEW pos, SortsTo(S, w, n, s, t, pos)
  PROVE  \A x \in 1 .. n : Rank(order, s, x) = pos[x]
<1>1. DOMAIN s = 1 .. n /\ n \in Nat
  BY DEF SortsTo
<1>2. \A x, y \in S : /\ Compare(order, x, y) < 0 <=> w[x] < w[y]
                      /\ Compare(order, x, y) = 0 <=> w[x] = w[y]
  BY DEF Weighs
<1>3. SortsTo(S, w, n, s, t, pos) /\ pos \in [1 .. n -> 1 .. n] /\ w \in [S -> Int]
      /\ n \in Nat /\ s \in [1 .. n -> S]
  BY DEF SortsTo, Weighs
<1>7. \A r \in 1 .. n : \E x \in 1 .. n : pos[x] = r
  BY SortsOnto
<1>8. ASSUME NEW j \in 1 .. n
      PROVE  s[j] \in S /\ w[s[j]] \in Int /\ pos[j] \in 1 .. n /\ pos[j] \in Int
  BY <1>3
<1>4. ASSUME NEW x \in 1 .. n PROVE Rank(order, s, x) = pos[x]
  <2> DEFINE A == {j \in DOMAIN s : \/ Compare(order, s[j], s[x]) < 0
                                    \/ Compare(order, s[j], s[x]) = 0 /\ j < x}
             B == 1 .. pos[x] - 1
             f == [j \in A |-> pos[j]]
  <2>1. A = {j \in 1 .. n : pos[j] < pos[x]}
    <3>1. ASSUME NEW j \in 1 .. n
          PROVE  (\/ Compare(order, s[j], s[x]) < 0
                  \/ Compare(order, s[j], s[x]) = 0 /\ j < x) <=> Before(w, s, j, x)
      BY <1>1, <1>2, <1>8 DEF Before
    <3>2. ASSUME NEW j \in 1 .. n PROVE Before(w, s, j, x) <=> pos[j] < pos[x]
      <4>1. w[s[j]] \in Int /\ w[s[x]] \in Int /\ pos[j] \in Int /\ pos[x] \in Int
        BY <1>8
      <4>2. Before(w, s, j, x) \/ Before(w, s, x, j) \/ j = x
        BY <4>1 DEF Before
      <4>3. Before(w, s, x, j) => pos[x] < pos[j]
        BY <1>3 DEF SortsTo
      <4>4. Before(w, s, j, x) => pos[j] < pos[x]
        BY <1>3 DEF SortsTo
      <4> QED
        BY <4>1, <4>2, <4>3, <4>4
    <3> QED
      BY <1>1, <3>1, <3>2
  <2>2. Rank(order, s, x) = 1 + Cardinality(A)
    BY DEF Rank
  <2> HIDE DEF A
  <2>3. f \in [A -> B]
    BY <1>3, <2>1
  <2>4. \A j, k \in A : j # k => f[j] # f[k]
    <3>1. ASSUME NEW j \in 1 .. n, NEW k \in 1 .. n, j # k PROVE pos[j] # pos[k]
      <4>1. w[s[j]] \in Int /\ w[s[k]] \in Int /\ pos[j] \in Int /\ pos[k] \in Int
        BY <1>8
      <4>2. Before(w, s, j, k) \/ Before(w, s, k, j)
        BY <3>1, <4>1 DEF Before
      <4> QED
        BY <1>3, <4>1, <4>2 DEF SortsTo
    <3> QED
      BY <2>1, <3>1
  <2>5. \A r \in B : \E j \in A : f[j] = r
    <3> SUFFICES ASSUME NEW r \in B PROVE \E j \in A : f[j] = r
      OBVIOUS
    <3>3. pos[x] \in 1 .. n /\ n \in Nat
      BY <1>1, <1>8
    <3>1. r \in 1 .. n /\ r < pos[x]
      BY <3>3
    <3>2. PICK j \in 1 .. n : pos[j] = r
      BY <1>7, <3>1
    <3> QED
      BY <2>1, <3>1, <3>2
  <2>6. pos[x] \in 1 .. n
    BY <1>3
  <2> HIDE DEF f, B
  <2>7. f \in Bijection(A, B)
    BY <2>3, <2>4, <2>5 DEF Bijection, Injection, Surjection, IsInjective
  <2>8. IsFiniteSet(A)
    <3>1. IsFiniteSet(1 .. n) /\ A \in SUBSET (1 .. n)
      BY <1>1, <2>1, FS_Interval
    <3> QED
      BY <3>1, FS_Subset
  <2>9. Cardinality(A) = Cardinality(B)
    BY <2>7, <2>8, FS_Bijection DEF ExistsBijection
  <2>10. Cardinality(B) = pos[x] - 1
    <3>1. pos[x] - 1 \in Int /\ 1 \in Int /\ pos[x] \in Int /\ pos[x] >= 1
      BY <2>6
    <3>2. ~(1 > pos[x] - 1) => (pos[x] - 1) - 1 + 1 = pos[x] - 1
      BY <3>1
    <3>3. 1 > pos[x] - 1 => pos[x] - 1 = 0
      BY <3>1
    <3>4. Cardinality(B) = IF 1 > pos[x] - 1 THEN 0 ELSE (pos[x] - 1) - 1 + 1
      BY <3>1, FS_Interval DEF B
    <3> QED
      BY <3>2, <3>3, <3>4
  <2> QED
    BY <2>2, <2>6, <2>9, <2>10
<1> QED
  BY <1>4

(* The definition of sorting that the specification of arrays uses *)
LEMMA SortsStably ==
  ASSUME NEW order, NEW S, NEW w, Weighs(order, S, w),
         NEW n, NEW s, NEW t \in [1 .. n -> S],
         NEW pos, SortsTo(S, w, n, s, t, pos)
  PROVE  t = StablySorted(order, s)
<1>1. DOMAIN s = 1 .. n
  BY DEF SortsTo
<1>2. \A x \in 1 .. n : Rank(order, s, x) = pos[x]
  BY SortsByRank
<1>3. ASSUME NEW r \in 1 .. n PROVE t[r] = s[CHOOSE i \in DOMAIN s : Rank(order, s, i) = r]
  <2>1. PICK x \in 1 .. n : pos[x] = r
    BY SortsOnto
  <2>2. \E i \in DOMAIN s : Rank(order, s, i) = r
    BY <1>1, <1>2, <2>1
  <2> DEFINE i == CHOOSE i \in DOMAIN s : Rank(order, s, i) = r
  <2>3. i \in 1 .. n /\ Rank(order, s, i) = r
    BY <1>1, <2>2
  <2> HIDE DEF i
  <2>4. pos[i] = r
    BY <1>2, <2>3
  <2>5. t[r] = s[i]
    BY <2>3, <2>4 DEF SortsTo
  <2> QED
    BY <2>5 DEF i
<1>4. t = [r \in 1 .. n |-> t[r]]
  OBVIOUS
<1> QED
  BY <1>1, <1>3, <1>4 DEF StablySorted
Sorts(S, w, n, s, t) == t \in [1 .. n -> S] /\ \E pos : SortsTo(S, w, n, s, t, pos)

-----------------------------------------------------------------------------
(* Merging *)

(* The entries of u in the places C are sorted into the first q places of f. *)
PlacedAt(S, w, n, u, C, q, f, pos) ==
  /\ w \in [S -> Int] /\ n \in Nat /\ u \in [1 .. n -> S] /\ f \in [1 .. n -> S]
  /\ C \subseteq 1 .. n /\ q \in 0 .. n
  /\ pos \in [1 .. n -> Int]
  /\ \A x \in C : pos[x] \in 1 .. q /\ f[pos[x]] = u[x]
  /\ \A x, y \in C : Before(w, u, x, y) => pos[x] < pos[y]

Placed(S, w, n, u, C, q, f) == \E pos : PlacedAt(S, w, n, u, C, q, f, pos)

LEMMA PlacedNext ==
  ASSUME NEW S, NEW w, NEW n, NEW u, NEW C, NEW q, NEW f, Placed(S, w, n, u, C, q, f),
         NEW z \in (1 .. n) \ C, \A x \in C : ~Before(w, u, z, x),
         NEW k, k = q + 1, k <= n
  PROVE  Placed(S, w, n, u, C \cup {z}, k, [f EXCEPT ![k] = u[z]])
<1>1. PICK pos : PlacedAt(S, w, n, u, C, q, f, pos)
  BY DEF Placed
<1> DEFINE g == [f EXCEPT ![k] = u[z]]
           p == [pos EXCEPT ![z] = k]
           E == C \cup {z}
<1>2. /\ w \in [S -> Int] /\ n \in Nat /\ u \in [1 .. n -> S] /\ f \in [1 .. n -> S]
      /\ C \subseteq 1 .. n /\ q \in 0 .. n /\ pos \in [1 .. n -> Int] /\ k \in 1 .. n
      /\ \A x \in C : pos[x] \in 1 .. q /\ f[pos[x]] = u[x]
      /\ \A x, y \in C : Before(w, u, x, y) => pos[x] < pos[y]
  BY <1>1 DEF PlacedAt
<1>10. q \in Nat /\ n \in Nat /\ k = q + 1 /\ k <= n
  BY <1>2
<1>3. g \in [1 .. n -> S] /\ p \in [1 .. n -> Int] /\ E \subseteq 1 .. n
  BY <1>2
<1>4. \A x \in C : p[x] = pos[x] /\ p[x] \in 1 .. q /\ g[p[x]] = u[x]
  <2> SUFFICES ASSUME NEW x \in C PROVE p[x] = pos[x] /\ p[x] \in 1 .. q /\ g[p[x]] = u[x]
    OBVIOUS
  <2>1. x \in 1 .. n /\ x # z /\ pos[x] \in 1 .. q /\ f[pos[x]] = u[x]
    BY <1>2
  <2>2. p[x] = pos[x]
    BY <1>2, <2>1
  <2>3. pos[x] # k /\ pos[x] \in 1 .. n
    BY <1>10, <2>1
  <2>4. g[pos[x]] = f[pos[x]]
    BY <1>2, <2>3
  <2> QED
    BY <2>1, <2>2, <2>4
<1>5. p[z] = k /\ g[k] = u[z]
  BY <1>2
<1> HIDE DEF p, g
<1>6. \A x \in E : p[x] \in 1 .. k /\ g[p[x]] = u[x]
  <2> SUFFICES ASSUME NEW x \in E PROVE p[x] \in 1 .. k /\ g[p[x]] = u[x]
    OBVIOUS
  <2>1. CASE x \in C
    <3>1. p[x] \in 1 .. q /\ g[p[x]] = u[x]
      BY <1>4, <2>1
    <3> QED
      BY <1>10, <3>1
  <2>2. CASE x = z
    BY <1>5, <1>10, <2>2
  <2> QED
    BY <2>1, <2>2
<1>7. ASSUME NEW x \in E, NEW y \in E, Before(w, u, x, y) PROVE p[x] < p[y]
  <2>1. CASE x \in C /\ y \in C
    BY <1>2, <1>4, <1>7, <2>1
  <2>2. CASE x \in C /\ y = z
    BY <1>2, <1>4, <1>5, <2>2
  <2>3. CASE x = z /\ y \in C
    BY <1>7, <2>3
  <2>4. CASE x = z /\ y = z
    <3>1. w[u[z]] \in Int /\ z \in Int
      BY <1>2
    <3>2. ~Before(w, u, z, z)
      BY <3>1 DEF Before
    <3> QED
      BY <1>7, <2>4, <3>2
  <2> QED
    BY <2>1, <2>2, <2>3, <2>4
<1>8. k \in 0 .. n
  BY <1>2
<1>9. PlacedAt(S, w, n, u, E, k, g, p)
  BY <1>2, <1>3, <1>6, <1>7, <1>8 DEF PlacedAt
<1> QED
  BY <1>9 DEF Placed, g

(* The rest is in its place already. *)
LEMMA PlacedAll ==
  ASSUME NEW S, NEW w, NEW n, NEW u, NEW q, NEW f, NEW C, C = 1 .. q,
         Placed(S, w, n, u, C, q, f),
         \A y \in q + 1 .. n : f[y] = u[y],
         \A x \in 1 .. n, y \in q + 1 .. n : x < y => w[u[x]] <= w[u[y]]
  PROVE  Sorts(S, w, n, u, f)
<1>1. PICK pos : PlacedAt(S, w, n, u, C, q, f, pos)
  BY DEF Placed
<1> DEFINE p == [x \in 1 .. n |-> IF x <= q THEN pos[x] ELSE x]
<1>2. /\ w \in [S -> Int] /\ n \in Nat /\ u \in [1 .. n -> S] /\ f \in [1 .. n -> S]
      /\ q \in 0 .. n /\ pos \in [1 .. n -> Int]
      /\ \A x \in 1 .. q : pos[x] \in 1 .. q /\ f[pos[x]] = u[x]
      /\ \A x, y \in 1 .. q : Before(w, u, x, y) => pos[x] < pos[y]
  BY <1>1 DEF PlacedAt
<1>3. \A x \in 1 .. q : x \in 1 .. n /\ p[x] = pos[x]
  BY <1>2
<1>4. \A x \in q + 1 .. n : x \in 1 .. n /\ p[x] = x
  BY <1>2
<1>5. \A x \in 1 .. n : x \in 1 .. q \/ x \in q + 1 .. n
  BY <1>2
<1>10. DOMAIN p = 1 .. n /\ p = [x \in 1 .. n |-> p[x]]
  OBVIOUS
<1> HIDE DEF p
<1>6. \A x \in 1 .. n : p[x] \in 1 .. n /\ f[p[x]] = u[x]
  BY <1>2, <1>3, <1>4, <1>5
<1>7. p \in [1 .. n -> 1 .. n]
  BY <1>6, <1>10
<1>8. ASSUME NEW x \in 1 .. n, NEW y \in 1 .. n, Before(w, u, x, y) PROVE p[x] < p[y]
  <2>1. CASE x \in 1 .. q /\ y \in 1 .. q
    BY <1>2, <1>3, <1>8, <2>1
  <2>2. CASE x \in 1 .. q /\ y \in q + 1 .. n
    <3>1. p[x] \in 1 .. q /\ p[y] = y
      BY <1>2, <1>3, <1>4, <2>2
    <3> QED
      BY <1>2, <2>2, <3>1
  <2>3. CASE x \in q + 1 .. n
    <3>1. w[u[x]] \in Int /\ w[u[y]] \in Int /\ x \in Int /\ y \in Int /\ q \in Int
      BY <1>2
    <3>2. x < y
      <4>1. y < x => w[u[y]] <= w[u[x]]
        BY <2>3
      <4> QED
        BY <1>8, <3>1, <4>1 DEF Before
    <3>3. y \in q + 1 .. n
      BY <2>3, <3>1, <3>2
    <3> QED
      BY <1>4, <2>3, <3>2, <3>3
  <2> QED
    BY <1>5, <2>1, <2>2, <2>3
<1>9. SortsTo(S, w, n, u, f, p)
  BY <1>2, <1>6, <1>7, <1>8 DEF SortsTo
<1> QED
  BY <1>2, <1>9 DEF Sorts

(* A turn of the loops of Merged *)
MergeTurn(order, u, half, m, k) ==
  IF m.i > half THEN m
  ELSE IF m.j <= Len(u) /\ Compare(order, m.v[m.j], SubSeq(u, 1, half)[m.i]) < 0
  THEN [m EXCEPT !.v[k] = m.v[m.j], !.j = @ + 1]
  ELSE [m EXCEPT !.v[k] = SubSeq(u, 1, half)[m.i], !.i = @ + 1]

Merges(order, u, half, M) ==
  M = [k \in 0 .. Len(u) |-> IF k = 0 THEN [v |-> u, i |-> 1, j |-> half + 1]
                             ELSE MergeTurn(order, u, half, M[k - 1], k)]

MergeStates(S, n) == [v : [1 .. n -> S], i : Nat \ {0}, j : Nat \ {0}]

LEMMA MergeTurnType ==
  ASSUME NEW order, NEW S, NEW u \in Seq(S), NEW half \in 1 .. Len(u), NEW n, n = Len(u),
         NEW m \in MergeStates(S, n), NEW k \in 1 .. n
  PROVE  MergeTurn(order, u, half, m, k) \in MergeStates(S, n)
<1> DEFINE tmp == SubSeq(u, 1, half)
<1>1. n \in Nat /\ half \in Nat /\ half <= n
  OBVIOUS
<1>2. tmp \in Seq(S) /\ Len(tmp) = half
  OBVIOUS
<1> HIDE DEF tmp
<1>3. m.v \in [1 .. n -> S] /\ m.i \in Nat \ {0} /\ m.j \in Nat \ {0}
  BY DEF MergeStates
<1>4. CASE m.i > half
  BY <1>4 DEF MergeTurn
<1>5. CASE ~(m.i > half) /\ m.j <= n /\ Compare(order, m.v[m.j], tmp[m.i]) < 0
  <2>1. MergeTurn(order, u, half, m, k) = [m EXCEPT !.v[k] = m.v[m.j], !.j = @ + 1]
    BY <1>5 DEF MergeTurn, tmp
  <2>2. m.v[m.j] \in S /\ m.j + 1 \in Nat \ {0}
    BY <1>1, <1>3, <1>5
  <2>3. [m.v EXCEPT ![k] = m.v[m.j]] \in [1 .. n -> S]
    BY <1>3, <2>2
  <2> QED
    BY <2>1, <2>2, <2>3 DEF MergeStates
<1>6. CASE ~(m.i > half) /\ ~(m.j <= n /\ Compare(order, m.v[m.j], tmp[m.i]) < 0)
  <2>1. MergeTurn(order, u, half, m, k) = [m EXCEPT !.v[k] = tmp[m.i], !.i = @ + 1]
    BY <1>6 DEF MergeTurn, tmp
  <2>2. tmp[m.i] \in S /\ m.i + 1 \in Nat \ {0}
    BY <1>1, <1>2, <1>3, <1>6
  <2>3. [m.v EXCEPT ![k] = tmp[m.i]] \in [1 .. n -> S]
    BY <1>3, <2>2
  <2> QED
    BY <2>1, <2>2, <2>3 DEF MergeStates
<1> QED
  BY <1>4, <1>5, <1>6

LEMMA MergedSteps ==
  ASSUME NEW order, NEW S, NEW u \in Seq(S), NEW half \in 1 .. Len(u)
  PROVE  \E M : Merged(order, u, half) = M[Len(u)].v /\ Merges(order, u, half, M)
<1> DEFINE n == Len(u)
           D == 0 .. n
           R == MergeStates(S, n)
           z == [v |-> u, i |-> 1, j |-> half + 1]
           Body(g, k) == IF k = 0 THEN z ELSE MergeTurn(order, u, half, g[k - 1], k)
           m == [k \in D |-> k]
           B == [g \in [D -> R] |-> [k \in D |-> Body(g, k)]]
<1>1. z \in R /\ n \in Nat
  BY DEF MergeStates
<1>2. \A g \in R, k \in 1 .. n : MergeTurn(order, u, half, g, k) \in R
  <2>1. n = Len(u)
    OBVIOUS
  <2> HIDE DEF n
  <2> QED
    BY <2>1, MergeTurnType
<1>3. \A k \in D : k # 0 => k \in 1 .. n /\ k - 1 \in D /\ k - 1 < k
  OBVIOUS
<1>5. m \in [D -> Nat] /\ \A k \in D : m[k] = k
  OBVIOUS
<1> HIDE DEF z, R, m, n
<1>6. ASSUME NEW g \in [D -> R], NEW k \in D PROVE Body(g, k) \in R
  <2>1. CASE k = 0
    BY <1>1, <2>1
  <2>2. CASE k # 0
    <3>1. k \in 1 .. n /\ g[k - 1] \in R
      BY <1>3, <2>2
    <3> QED
      BY <1>2, <2>2, <3>1
  <2> QED
    BY <2>1, <2>2
<1>4. ASSUME NEW g \in [D -> R], NEW f \in [D -> R], NEW k \in D,
             \A j \in D : m[j] < m[k] => g[j] = f[j]
      PROVE  Body(g, k) = Body(f, k)
  <2>1. CASE k = 0
    BY <2>1
  <2>2. CASE k # 0
    <3>1. k - 1 \in D /\ m[k - 1] < m[k]
      BY <1>3, <1>5, <2>2
    <3>2. g[k - 1] = f[k - 1]
      BY <1>4, <3>1
    <3> QED
      BY <2>2, <3>2
  <2> QED
    BY <2>1, <2>2
<1> HIDE DEF D, Body
<1>7. R # {}
  BY <1>1
<1>8. \A g \in [D -> R], k \in D : B[g][k] = Body(g, k)
  OBVIOUS
<1> HIDE DEF B
<1>9. Founded(D, R, m, B)
  <2>1. \A g \in [D -> R], k \in D : B[g][k] \in R
    BY <1>6, <1>8
  <2>2. \A g, f \in [D -> R], k \in D :
          (\A j \in D : m[j] < m[k] => g[j] = f[j]) => B[g][k] = B[f][k]
    BY <1>4, <1>8
  <2> QED
    BY <1>5, <1>7, <2>1, <2>2 DEF Founded
<1>10. \E f : f = [k \in D |-> Body(f, k)]
  <2>1. PICK f \in [D -> R] : \A k \in D : f[k] = B[f][k]
    BY <1>9, Recursion
  <2>2. f = [k \in D |-> Body(f, k)]
    BY <1>8, <2>1
  <2> QED
    BY <2>2
<1> DEFINE F == CHOOSE f : f = [k \in D |-> Body(f, k)]
<1>11. F = [k \in D |-> Body(F, k)]
  BY <1>10
<1>12. Merged(order, u, half) = F[n].v
  BY DEF Merged, D, Body, z, n, MergeTurn
<1> HIDE DEF F
<1> QED
  BY <1>11, <1>12 DEF D, Body, z, n, Merges

Halved(w, n, half, u) ==
  \A x, y \in 1 .. n : x < y /\ (y <= half \/ half < x) => w[u[x]] <= w[u[y]]

Taken(half, i, j) == {x \in Nat : (1 <= x /\ x < i) \/ (half < x /\ x < j)}

(* After k turns the entries up to i of the left and up to j of the right half are out. *)
MergeAt(S, w, n, half, u, k, i, j, f) ==
  /\ w \in [S -> Int] /\ n \in Nat /\ u \in [1 .. n -> S] /\ half \in 1 .. n /\ k \in 0 .. n
  /\ i \in 1 .. half + 1 /\ j \in half + 1 .. n + 1 /\ f \in [1 .. n -> S]
  /\ \E q : /\ q = i + j - half - 2 /\ q <= k /\ (i <= half => q = k)
            /\ Placed(S, w, n, u, Taken(half, i, j), q, f)
  /\ \A y \in j .. n : f[y] = u[y]
  /\ i <= half => \A y \in half + 1 .. j - 1 : w[u[y]] < w[u[i]]
  /\ j <= n => \A x \in 1 .. i - 1 : w[u[x]] <= w[u[j]]

LEMMA MergeLeft ==
  ASSUME NEW S, NEW w, NEW n, NEW u, NEW half, Halved(w, n, half, u),
         NEW h, NEW i, NEW j, NEW f, MergeAt(S, w, n, half, u, h, i, j, f),
         i <= half, j <= n => w[u[i]] <= w[u[j]],
         NEW k, k = h + 1, k <= n, NEW l, l = i + 1, NEW g, g = [f EXCEPT ![k] = u[i]]
  PROVE  MergeAt(S, w, n, half, u, k, l, j, g)
<1> DEFINE C == Taken(half, i, j)
<1>15. PICK q : /\ q = i + j - half - 2 /\ (i <= half => q = h)
                /\ Placed(S, w, n, u, C, q, f)
  BY DEF MergeAt
<1>16. h = i + j - half - 2 /\ Placed(S, w, n, u, C, h, f)
  BY <1>15
<1>1. /\ w \in [S -> Int] /\ n \in Nat /\ u \in [1 .. n -> S]
      /\ half \in Nat /\ half >= 1 /\ half <= n /\ h \in Nat /\ k \in 1 .. n
      /\ i \in 1 .. half /\ j \in half + 1 .. n + 1 /\ f \in [1 .. n -> S]
      /\ i \in 1 .. n /\ h = i + j - half - 2
      /\ Placed(S, w, n, u, C, h, f)
      /\ \A y \in j .. n : f[y] = u[y]
  BY <1>16 DEF MergeAt
<1>3. \A y \in half + 1 .. j - 1 : w[u[y]] < w[u[i]]
  BY DEF MergeAt
<1>14. \A x \in 1 .. n : w[u[x]] \in Int
  BY <1>1
<1>4. \A x \in C : x \in 1 .. n /\ x # i /\ ~Before(w, u, i, x)
  <2> SUFFICES ASSUME NEW x \in C PROVE x \in 1 .. n /\ x # i /\ ~Before(w, u, i, x)
    OBVIOUS
  <2>1. x \in Nat
    BY DEF Taken
  <2>2. CASE 1 <= x /\ x < i
    <3>1. x \in 1 .. n /\ x < i /\ i <= half
      BY <1>1, <2>1, <2>2
    <3>2. w[u[x]] <= w[u[i]] /\ w[u[x]] \in Int /\ w[u[i]] \in Int
      BY <1>1, <1>14, <3>1 DEF Halved
    <3>3. i \in Int /\ x \in Int
      BY <1>1, <2>1
    <3> QED
      BY <3>1, <3>2, <3>3 DEF Before
  <2>3. CASE half < x /\ x < j
    <3>1. x \in 1 .. n /\ i < x /\ x \in half + 1 .. j - 1
      BY <1>1, <2>1, <2>3
    <3>2. w[u[x]] < w[u[i]] /\ w[u[x]] \in Int /\ w[u[i]] \in Int
      BY <1>1, <1>3, <1>14, <3>1
    <3>3. i \in Int /\ x \in Int
      BY <1>1, <2>1
    <3> QED
      BY <3>1, <3>2, <3>3 DEF Before
  <2> QED
    BY <2>2, <2>3 DEF Taken
<1>6. Taken(half, l, j) = C \cup {i}
  <2>1. \A x \in Nat : /\ x < i + 1 <=> (x < i \/ x = i)
                       /\ x < j + 1 <=> (x < j \/ x = j)
    BY <1>1
  <2>2. i \in Nat /\ 1 <= i
    BY <1>1
  <2> QED
    BY <2>1, <2>2 DEF Taken
<1> HIDE DEF C
<1>5. Placed(S, w, n, u, C \cup {i}, k, g)
  <2>2. i \in (1 .. n) \ C
    BY <1>1, <1>4
  <2> QED
    BY <1>1, <1>4, <2>2, PlacedNext
<1>8. \A y \in j .. n : g[y] = u[y]
  <2> SUFFICES ASSUME NEW y \in j .. n PROVE g[y] = u[y]
    OBVIOUS
  <2>1. y # k /\ y \in 1 .. n
    BY <1>1
  <2>2. f[y] = u[y]
    BY <1>1
  <2> QED
    BY <1>1, <2>1, <2>2
<1>9. l <= half => \A y \in half + 1 .. j - 1 : w[u[y]] < w[u[l]]
  <2> SUFFICES ASSUME l <= half, NEW y \in half + 1 .. j - 1 PROVE w[u[y]] < w[u[l]]
    OBVIOUS
  <2>1. i \in 1 .. n /\ l \in 1 .. n /\ y \in 1 .. n /\ i < l
    BY <1>1
  <2>2. w[u[i]] <= w[u[l]] /\ w[u[i]] \in Int /\ w[u[l]] \in Int /\ w[u[y]] \in Int
    BY <1>14, <2>1 DEF Halved
  <2>3. w[u[y]] < w[u[i]]
    BY <1>3
  <2> QED
    BY <2>2, <2>3
<1>10. j <= n => \A x \in 1 .. l - 1 : w[u[x]] <= w[u[j]]
  <2> SUFFICES ASSUME j <= n, NEW x \in 1 .. l - 1 PROVE w[u[x]] <= w[u[j]]
    OBVIOUS
  <2>1. x \in 1 .. n /\ j \in 1 .. n /\ x \in Int /\ i \in Int /\ (x = i \/ x < i)
    BY <1>1
  <2>2. w[u[i]] \in Int /\ w[u[x]] \in Int /\ w[u[j]] \in Int
    BY <1>1, <1>14, <2>1
  <2>3. w[u[x]] <= w[u[i]]
    BY <1>1, <2>1, <2>2 DEF Halved
  <2> QED
    BY <2>2, <2>3
<1>12. l \in 1 .. half + 1 /\ g \in [1 .. n -> S] /\ k \in 0 .. n /\ k = l + j - half - 2
  <2>1. u[i] \in S
    BY <1>1
  <2> QED
    BY <1>1, <2>1
<1>13. /\ k = l + j - half - 2 /\ k <= k /\ Placed(S, w, n, u, Taken(half, l, j), k, g)
       /\ half \in 1 .. n
  <2>1. k <= k /\ half \in 1 .. n
    BY <1>1
  <2>2. Placed(S, w, n, u, Taken(half, l, j), k, g)
    BY <1>5, <1>6
  <2> QED
    BY <1>12, <2>1, <2>2
<1> QED
  BY <1>1, <1>8, <1>9, <1>10, <1>12, <1>13 DEF MergeAt

LEMMA MergeRight ==
  ASSUME NEW S, NEW w, NEW n, NEW u, NEW half, Halved(w, n, half, u),
         NEW h, NEW i, NEW j, NEW f, MergeAt(S, w, n, half, u, h, i, j, f),
         i <= half, j <= n, w[u[j]] < w[u[i]],
         NEW k, k = h + 1, k <= n, NEW l, l = j + 1, NEW g, g = [f EXCEPT ![k] = u[j]]
  PROVE  MergeAt(S, w, n, half, u, k, i, l, g)
<1> DEFINE C == Taken(half, i, j)
<1>15. PICK q : /\ q = i + j - half - 2 /\ (i <= half => q = h)
                /\ Placed(S, w, n, u, C, q, f)
  BY DEF MergeAt
<1>16. h = i + j - half - 2 /\ Placed(S, w, n, u, C, h, f)
  BY <1>15
<1>1. /\ w \in [S -> Int] /\ n \in Nat /\ u \in [1 .. n -> S]
      /\ half \in Nat /\ half >= 1 /\ half <= n /\ h \in Nat /\ k \in 1 .. n
      /\ i \in 1 .. half /\ j \in half + 1 .. n /\ f \in [1 .. n -> S]
      /\ i \in 1 .. n /\ j \in 1 .. n /\ h = i + j - half - 2
      /\ Placed(S, w, n, u, C, h, f)
      /\ \A y \in j .. n : f[y] = u[y]
  BY <1>16 DEF MergeAt
<1>3. \A x \in 1 .. i - 1 : w[u[x]] <= w[u[j]]
  BY DEF MergeAt
<1>14. \A x \in 1 .. n : w[u[x]] \in Int
  BY <1>1
<1>4. \A x \in C : x \in 1 .. n /\ x # j /\ ~Before(w, u, j, x)
  <2> SUFFICES ASSUME NEW x \in C PROVE x \in 1 .. n /\ x # j /\ ~Before(w, u, j, x)
    OBVIOUS
  <2>1. x \in Nat
    BY DEF Taken
  <2>2. CASE 1 <= x /\ x < i
    <3>1. x \in 1 .. n /\ x < j /\ x \in 1 .. i - 1
      BY <1>1, <2>1, <2>2
    <3>2. w[u[x]] <= w[u[j]] /\ w[u[x]] \in Int /\ w[u[j]] \in Int
      BY <1>1, <1>3, <1>14, <3>1
    <3>3. j \in Int /\ x \in Int
      BY <1>1, <2>1
    <3> QED
      BY <3>1, <3>2, <3>3 DEF Before
  <2>3. CASE half < x /\ x < j
    <3>1. x \in 1 .. n /\ x < j /\ half < x
      BY <1>1, <2>1, <2>3
    <3>2. w[u[x]] <= w[u[j]] /\ w[u[x]] \in Int /\ w[u[j]] \in Int
      BY <1>1, <1>14, <3>1 DEF Halved
    <3>3. j \in Int /\ x \in Int
      BY <1>1, <2>1
    <3> QED
      BY <3>1, <3>2, <3>3 DEF Before
  <2> QED
    BY <2>2, <2>3 DEF Taken
<1>6. Taken(half, i, l) = C \cup {j}
  <2>1. \A x \in Nat : /\ x < i + 1 <=> (x < i \/ x = i)
                       /\ x < j + 1 <=> (x < j \/ x = j)
    BY <1>1
  <2>2. j \in Nat /\ half < j
    BY <1>1
  <2> QED
    BY <2>1, <2>2 DEF Taken
<1> HIDE DEF C
<1>5. Placed(S, w, n, u, C \cup {j}, k, g)
  <2>2. j \in (1 .. n) \ C
    BY <1>1, <1>4
  <2> QED
    BY <1>1, <1>4, <2>2, PlacedNext
<1>8. \A y \in l .. n : g[y] = u[y]
  <2> SUFFICES ASSUME NEW y \in l .. n PROVE g[y] = u[y]
    OBVIOUS
  <2>1. y # k /\ y \in 1 .. n /\ y \in j .. n
    BY <1>1
  <2>2. f[y] = u[y]
    BY <1>1, <2>1
  <2> QED
    BY <1>1, <2>1, <2>2
<1>9. i <= half => \A y \in half + 1 .. l - 1 : w[u[y]] < w[u[i]]
  <2> SUFFICES ASSUME NEW y \in half + 1 .. l - 1 PROVE w[u[y]] < w[u[i]]
    OBVIOUS
  <2>1. y \in 1 .. n /\ y \in Int /\ j \in Int /\ (y = j \/ y < j) /\ half < y
    BY <1>1
  <2>2. w[u[i]] \in Int /\ w[u[y]] \in Int /\ w[u[j]] \in Int
    BY <1>1, <1>14, <2>1
  <2>3. w[u[y]] <= w[u[j]]
    BY <1>1, <2>1, <2>2 DEF Halved
  <2> QED
    BY <2>2, <2>3
<1>10. l <= n => \A x \in 1 .. i - 1 : w[u[x]] <= w[u[l]]
  <2> SUFFICES ASSUME l <= n, NEW x \in 1 .. i - 1 PROVE w[u[x]] <= w[u[l]]
    OBVIOUS
  <2>1. l \in 1 .. n /\ x \in 1 .. n /\ j < l /\ half < j
    BY <1>1
  <2>2. w[u[l]] \in Int /\ w[u[x]] \in Int /\ w[u[j]] \in Int
    BY <1>1, <1>14, <2>1
  <2>3. w[u[j]] <= w[u[l]]
    BY <1>1, <2>1 DEF Halved
  <2>4. w[u[x]] <= w[u[j]]
    BY <1>3
  <2> QED
    BY <2>2, <2>3, <2>4
<1>12. /\ l \in half + 1 .. n + 1 /\ g \in [1 .. n -> S] /\ k \in 0 .. n /\ k = i + l - half - 2
       /\ i \in 1 .. half + 1
  <2>1. u[j] \in S
    BY <1>1
  <2> QED
    BY <1>1, <2>1
<1>13. /\ k = i + l - half - 2 /\ k <= k /\ Placed(S, w, n, u, Taken(half, i, l), k, g)
       /\ half \in 1 .. n
  <2>1. k <= k /\ half \in 1 .. n
    BY <1>1
  <2>2. Placed(S, w, n, u, Taken(half, i, l), k, g)
    BY <1>5, <1>6
  <2> QED
    BY <1>12, <2>1, <2>2
<1> QED
  BY <1>1, <1>8, <1>9, <1>10, <1>12, <1>13 DEF MergeAt

LEMMA MergeTurnSound ==
  ASSUME NEW order, NEW S, NEW w, Weighs(order, S, w), NEW u \in Seq(S), NEW n, n = Len(u),
         NEW half \in 1 .. n, Halved(w, n, half, u), NEW h, NEW m \in MergeStates(S, n),
         MergeAt(S, w, n, half, u, h, m.i, m.j, m.v), NEW k, k = h + 1, k <= n,
         NEW c, c = MergeTurn(order, u, half, m, k)
  PROVE  MergeAt(S, w, n, half, u, k, c.i, c.j, c.v)
<1> DEFINE tmp == SubSeq(u, 1, half)
           i == m.i
           j == m.j
<1>1. /\ n \in Nat /\ half \in Nat /\ half <= n /\ i \in Nat \ {0} /\ j \in Nat \ {0}
      /\ \A x \in 1 .. half : tmp[x] = u[x]
      /\ \A x \in 1 .. n : u[x] \in S
  BY DEF MergeStates
<1>9. m.v \in [1 .. n -> S]
  BY DEF MergeStates
<1>2. i \in 1 .. half + 1 /\ j \in half + 1 .. n + 1 /\ \A y \in j .. n : m.v[y] = u[y]
  BY DEF MergeAt
<1> HIDE DEF tmp
<1>3. CASE i > half
  <2>1. c = m
    BY <1>3 DEF MergeTurn
  <2>2. ~(i <= half) /\ k \in 0 .. n /\ h \in Int
    BY <1>1, <1>3 DEF MergeAt
  <2>3. PICK q : /\ q = i + j - half - 2 /\ q <= h
                 /\ Placed(S, w, n, u, Taken(half, i, j), q, m.v)
    BY DEF MergeAt
  <2>4. q <= k
    BY <1>1, <1>2, <2>2, <2>3
  <2> QED
    BY <2>1, <2>2, <2>3, <2>4 DEF MergeAt
<1>4. ASSUME i <= half PROVE i \in 1 .. half /\ tmp[i] = u[i] /\ u[i] \in S
  BY <1>1, <1>4
<1>5. ASSUME j <= n PROVE m.v[j] = u[j] /\ u[j] \in S
  <2>1. j \in j .. n /\ j \in 1 .. n
    BY <1>1, <1>5
  <2> QED
    BY <1>1, <1>2, <2>1
<1>6. \A x, y \in S : Compare(order, x, y) < 0 <=> w[x] < w[y]
  BY DEF Weighs
<1>10. w \in [S -> Int]
  BY DEF Weighs
<1>7. CASE i <= half /\ j <= n /\ w[u[j]] < w[u[i]]
  <2> DEFINE g == [m.v EXCEPT ![k] = u[j]]
  <2>1. ~(i > half) /\ Compare(order, m.v[j], tmp[i]) < 0
    BY <1>1, <1>4, <1>5, <1>6, <1>7
  <2>2. c = [m EXCEPT !.v[k] = m.v[j], !.j = @ + 1]
    BY <1>7, <2>1 DEF MergeTurn, tmp
  <2>3. c.i = i /\ c.j = j + 1 /\ c.v = g
    BY <1>5, <1>7, <2>2 DEF MergeStates
  <2>4. j + 1 = j + 1 /\ g = [m.v EXCEPT ![k] = u[j]]
    OBVIOUS
  <2> HIDE DEF i, j, g
  <2>5. MergeAt(S, w, n, half, u, k, i, c.j, g)
    BY <1>7, <2>3, <2>4, MergeRight DEF i, j
  <2> QED
    BY <2>3, <2>5
<1>8. CASE i <= half /\ ~(j <= n /\ w[u[j]] < w[u[i]])
  <2> DEFINE g == [m.v EXCEPT ![k] = u[i]]
  <2>1. ~(i > half) /\ ~(j <= n /\ Compare(order, m.v[j], tmp[i]) < 0)
    BY <1>1, <1>4, <1>5, <1>6, <1>8
  <2>2. c = [m EXCEPT !.v[k] = tmp[i], !.i = @ + 1]
    BY <1>8, <2>1 DEF MergeTurn, tmp
  <2>3. c.i = i + 1 /\ c.j = j /\ c.v = g
    BY <1>4, <1>8, <2>2 DEF MergeStates
  <2>4. g = [m.v EXCEPT ![k] = u[i]]
    OBVIOUS
  <2>6. j <= n => w[u[i]] <= w[u[j]]
    <3> SUFFICES ASSUME j <= n PROVE w[u[i]] <= w[u[j]]
      OBVIOUS
    <3>1. u[i] \in S /\ u[j] \in S
      BY <1>4, <1>5, <1>8
    <3>2. w[u[i]] \in Int /\ w[u[j]] \in Int
      BY <1>10, <3>1
    <3> QED
      BY <1>8, <3>2
  <2> HIDE DEF i, j, g
  <2>5. MergeAt(S, w, n, half, u, k, c.i, j, g)
    BY <1>8, <2>3, <2>4, <2>6, MergeLeft DEF i, j
  <2> QED
    BY <2>3, <2>5
<1> QED
  BY <1>1, <1>3, <1>7, <1>8

LEMMA MergedSound ==
  ASSUME NEW order, NEW S, NEW w, Weighs(order, S, w), NEW u \in Seq(S), NEW n, n = Len(u),
         NEW half \in 1 .. n, Halved(w, n, half, u)
  PROVE  Sorts(S, w, n, u, Merged(order, u, half))
<1>1. PICK M : Merged(order, u, half) = M[n].v /\ Merges(order, u, half, M)
  BY MergedSteps
<1>2. /\ n \in Nat /\ half \in Nat /\ half >= 1 /\ half <= n /\ u \in [1 .. n -> S]
      /\ w \in [S -> Int]
  BY DEF Weighs
<1>3. M = [k \in 0 .. n |-> IF k = 0 THEN [v |-> u, i |-> 1, j |-> half + 1]
                            ELSE MergeTurn(order, u, half, M[k - 1], k)]
  BY <1>1 DEF Merges
<1> DEFINE T == {k \in Nat : k <= n => /\ M[k] \in MergeStates(S, n)
                                       /\ MergeAt(S, w, n, half, u, k, M[k].i, M[k].j, M[k].v)}
<1>4. 0 \in T
  <2>1. M[0] = [v |-> u, i |-> 1, j |-> half + 1]
    BY <1>2, <1>3
  <2>2. M[0] \in MergeStates(S, n) /\ M[0].v = u /\ M[0].i = 1 /\ M[0].j = half + 1
    BY <1>2, <2>1 DEF MergeStates
  <2>3. Placed(S, w, n, u, {}, 0, u)
    <3>1. PlacedAt(S, w, n, u, {}, 0, u, [x \in 1 .. n |-> 0])
      BY <1>2 DEF PlacedAt
    <3> QED
      BY <3>1 DEF Placed
  <2>4. Taken(half, 1, half + 1) = {}
    BY <1>2 DEF Taken
  <2>5. 1 + (half + 1) - half - 2 = 0
    BY <1>2
  <2>6. \E q : /\ q = 1 + (half + 1) - half - 2 /\ q <= 0 /\ (1 <= half => q = 0)
               /\ Placed(S, w, n, u, Taken(half, 1, half + 1), q, u)
    <3>1. Placed(S, w, n, u, Taken(half, 1, half + 1), 0, u)
      BY <2>3, <2>4
    <3>2. 0 = 1 + (half + 1) - half - 2 /\ 0 <= 0
      BY <2>5
    <3> QED
      BY <3>1, <3>2
  <2>7. 1 \in 1 .. half + 1 /\ half + 1 \in half + 1 .. n + 1 /\ 0 \in 0 .. n
    BY <1>2
  <2>8. (half + 1 .. (half + 1) - 1) = {} /\ (1 .. 1 - 1) = {}
    BY <1>2
  <2>9. MergeAt(S, w, n, half, u, 0, 1, half + 1, u)
    BY <1>2, <2>6, <2>7, <2>8 DEF MergeAt
  <2> QED
    BY <2>2, <2>9
<1>5. ASSUME NEW k \in T PROVE k + 1 \in T
  <2> SUFFICES ASSUME k + 1 <= n
               PROVE  /\ M[k + 1] \in MergeStates(S, n)
                      /\ MergeAt(S, w, n, half, u, k + 1, M[k + 1].i, M[k + 1].j, M[k + 1].v)
    OBVIOUS
  <2> DEFINE h == k + 1
             m == M[k]
             c == M[h]
  <2>1. /\ k \in Nat /\ k <= n /\ h \in 1 .. n /\ h <= n /\ h = k + 1 /\ h - 1 = k
    BY <1>2
  <2>2. m \in MergeStates(S, n) /\ MergeAt(S, w, n, half, u, k, m.i, m.j, m.v)
    BY <2>1
  <2>3. c = MergeTurn(order, u, half, m, h)
    <3>1. h \in 0 .. n /\ h # 0
      BY <2>1
    <3> HIDE DEF h
    <3> QED
      BY <1>3, <2>1, <3>1
  <2> HIDE DEF T, h, m, c
  <2>4. c \in MergeStates(S, n)
    BY <2>1, <2>2, <2>3, MergeTurnType
  <2>5. MergeAt(S, w, n, half, u, h, c.i, c.j, c.v)
    BY <2>1, <2>2, <2>3, MergeTurnSound
  <2> QED
    BY <2>4, <2>5 DEF h, c
<1> HIDE DEF T
<1>6. T = Nat
  <2>1. T \subseteq Nat
    BY DEF T
  <2> QED
    BY <1>4, <1>5, <2>1, NatInduced
<1> DEFINE m == M[n]
           i == m.i
           j == m.j
           f == m.v
<1>7. m \in MergeStates(S, n) /\ MergeAt(S, w, n, half, u, n, i, j, f)
  <2>1. n \in T /\ n <= n
    BY <1>2, <1>6
  <2> QED
    BY <2>1 DEF T
<1>8. Merged(order, u, half) = f
  BY <1>1
<1> HIDE DEF m, i, j, f
<1>9. i = half + 1 /\ j \in half + 1 .. n + 1 /\ f \in [1 .. n -> S]
  BY <1>2, <1>7 DEF MergeAt
<1> DEFINE q == j - 1
<1>10. Placed(S, w, n, u, Taken(half, i, j), q, f)
  <2>1. PICK p : p = i + j - half - 2 /\ Placed(S, w, n, u, Taken(half, i, j), p, f)
    BY <1>7 DEF MergeAt
  <2>2. p = q
    BY <1>2, <1>9, <2>1
  <2> QED
    BY <2>1, <2>2
<1>11. q \in 0 .. n /\ half <= q /\ q + 1 = j
  BY <1>2, <1>9
<1>12. Taken(half, i, j) = 1 .. q
  BY <1>2, <1>9, <1>11 DEF Taken
<1>13. \A y \in q + 1 .. n : f[y] = u[y]
  BY <1>7, <1>11 DEF MergeAt
<1>14. \A x \in 1 .. n : w[u[x]] \in Int
  BY <1>2
<1>15. ASSUME NEW x \in 1 .. n, NEW y \in q + 1 .. n, x < y PROVE w[u[x]] <= w[u[y]]
  <2>1. y \in 1 .. n /\ j \in 1 .. n /\ j <= y /\ half < j /\ j \in Int /\ y \in Int /\ x \in Int
    BY <1>2, <1>9, <1>11
  <2>2. CASE half < x
    BY <1>15, <2>1, <2>2 DEF Halved
  <2>3. CASE ~(half < x)
    <3>1. x \in 1 .. i - 1
      BY <1>2, <1>9, <2>3
    <3>2. w[u[x]] <= w[u[j]]
      BY <1>7, <2>1, <3>1 DEF MergeAt
    <3>3. w[u[j]] <= w[u[y]]
      BY <1>14, <2>1 DEF Halved
    <3> QED
      BY <1>14, <2>1, <3>2, <3>3
  <2> QED
    BY <2>2, <2>3
<1> HIDE DEF q
<1>16. Sorts(S, w, n, u, f)
  BY <1>10, <1>12, <1>13, <1>15, PlacedAll
<1> QED
  BY <1>8, <1>16

-----------------------------------------------------------------------------
(* Insertion *)

(* r is t with x in place p, and what was there and behind it a place further on. *)
Spread(S, m, t, x, p, n, r) ==
  /\ m \in Nat /\ n = m + 1 /\ p \in 1 .. n /\ x \in S
  /\ t \in [1 .. m -> S] /\ r \in [1 .. n -> S] /\ r[p] = x
  /\ \A i \in 1 .. m : /\ i < p => r[i] = t[i]
                       /\ i >= p => r[i + 1] = t[i]

LEMMA InsertedSorts ==
  ASSUME NEW S, NEW w, NEW m, NEW s, NEW t, Sorts(S, w, m, s, t),
         NEW x, NEW p, NEW n, NEW r, Spread(S, m, t, x, p, n, r),
         \A j \in 1 .. m : (j < p => w[t[j]] <= w[x]) /\ (j >= p => w[x] < w[t[j]]),
         NEW v \in [1 .. n -> S], v[n] = x, \A i \in 1 .. m : v[i] = s[i]
  PROVE  Sorts(S, w, n, v, r)
<1>1. PICK pos : SortsTo(S, w, m, s, t, pos)
  BY DEF Sorts
<1>2. /\ w \in [S -> Int] /\ m \in Nat /\ s \in [1 .. m -> S] /\ pos \in [1 .. m -> 1 .. m]
      /\ \A i \in 1 .. m : t[pos[i]] = s[i]
      /\ \A i, j \in 1 .. m : Before(w, s, i, j) => pos[i] < pos[j]
  BY <1>1 DEF SortsTo
<1>3. /\ n = m + 1 /\ n \in Nat /\ p \in 1 .. n /\ x \in S /\ t \in [1 .. m -> S]
      /\ r \in [1 .. n -> S] /\ r[p] = x
      /\ \A i \in 1 .. m : /\ i < p => r[i] = t[i]
                           /\ i >= p => r[i + 1] = t[i]
  BY DEF Spread
<1> DEFINE q == [i \in 1 .. n |-> IF i = n THEN p ELSE IF pos[i] < p THEN pos[i] ELSE pos[i] + 1]
<1>4. \A i \in 1 .. n : i = n \/ i \in 1 .. m
  BY <1>2, <1>3
<1>5. \A i \in 1 .. m : /\ i \in 1 .. n /\ i # n /\ pos[i] \in 1 .. m /\ i \in Int
                        /\ q[i] = IF pos[i] < p THEN pos[i] ELSE pos[i] + 1
  BY <1>2, <1>3
<1>6. n \in 1 .. n /\ q[n] = p
  BY <1>2, <1>3
<1>7. DOMAIN q = 1 .. n /\ q = [i \in 1 .. n |-> q[i]]
  OBVIOUS
<1> HIDE DEF q
<1>8. ASSUME NEW i \in 1 .. m PROVE q[i] \in 1 .. n /\ r[q[i]] = v[i]
  <2>1. pos[i] \in 1 .. m /\ t[pos[i]] = v[i] /\ pos[i] \in Int /\ p \in Int /\ m \in Int
    BY <1>2, <1>3, <1>5
  <2>2. CASE pos[i] < p
    <3>1. q[i] = pos[i] /\ r[pos[i]] = t[pos[i]]
      BY <1>3, <1>5, <2>1, <2>2
    <3> QED
      BY <1>3, <2>1, <3>1
  <2>3. CASE ~(pos[i] < p)
    <3>1. q[i] = pos[i] + 1 /\ r[pos[i] + 1] = t[pos[i]]
      BY <1>3, <1>5, <2>1, <2>3
    <3> QED
      BY <1>3, <2>1, <3>1
  <2> QED
    BY <2>2, <2>3
<1>9. \A i \in 1 .. n : q[i] \in 1 .. n /\ r[q[i]] = v[i]
  BY <1>3, <1>4, <1>6, <1>8
<1>10. ASSUME NEW i \in 1 .. n, NEW j \in 1 .. n, Before(w, v, i, j) PROVE q[i] < q[j]
  <2>1. w[v[i]] \in Int /\ w[v[j]] \in Int /\ w[x] \in Int /\ i \in Int /\ j \in Int /\ p \in Int
    BY <1>2, <1>3
  <2>2. CASE i \in 1 .. m /\ j \in 1 .. m
    <3>1. Before(w, s, i, j)
      BY <1>10, <2>2 DEF Before
    <3>2. pos[i] < pos[j] /\ pos[i] \in Int /\ pos[j] \in Int
      BY <1>2, <1>5, <2>2, <3>1
    <3> QED
      BY <1>5, <2>1, <2>2, <3>2
  <2>3. CASE i \in 1 .. m /\ j = n
    <3>1. w[v[i]] <= w[x]
      BY <1>10, <2>1, <2>3 DEF Before
    <3>2. pos[i] \in 1 .. m /\ t[pos[i]] = v[i]
      BY <1>2, <1>5, <2>3
    <3>3. ~(w[x] < w[v[i]])
      BY <2>1, <3>1
    <3>4. ~(pos[i] >= p)
      BY <3>2, <3>3
    <3>5. pos[i] < p
      BY <1>2, <2>1, <3>2, <3>4
    <3> QED
      BY <1>5, <1>6, <2>3, <3>5
  <2>4. CASE i = n /\ j \in 1 .. m
    <3>1. w[x] < w[v[j]]
      <4>1. ~(n < j)
        BY <1>2, <1>3, <2>4
      <4> QED
        BY <1>10, <2>4, <4>1 DEF Before
    <3>2. pos[j] \in 1 .. m /\ t[pos[j]] = v[j]
      BY <1>2, <1>5, <2>4
    <3>3. ~(w[v[j]] <= w[x])
      BY <2>1, <3>1
    <3>4. ~(pos[j] < p)
      BY <3>2, <3>3
    <3>5. q[j] = pos[j] + 1 /\ pos[j] \in Int
      BY <1>5, <2>4, <3>4
    <3> QED
      BY <1>6, <2>1, <2>4, <3>4, <3>5
  <2>5. CASE i = n /\ j = n
    <3>1. ~Before(w, v, n, n)
      BY <2>1, <2>5 DEF Before
    <3> QED
      BY <1>10, <2>5, <3>1
  <2> QED
    BY <1>4, <2>2, <2>3, <2>4, <2>5
<1>11. q \in [1 .. n -> 1 .. n]
  BY <1>7, <1>9
<1>12. SortsTo(S, w, n, v, r, q)
  BY <1>2, <1>3, <1>9, <1>10, <1>11 DEF SortsTo
<1> QED
  BY <1>3, <1>12 DEF Sorts

(* Where the loop of the insertion sort stops *)
PlaceFor(order, x, s, n) ==
  LET Stop[j \in 1 .. n] == IF j = 1 THEN 1
                            ELSE IF Compare(order, x, s[j - 1]) < 0 THEN Stop[j - 1] ELSE j
  IN  Stop[n]

LEMMA PlaceSound ==
  ASSUME NEW order, NEW S, NEW w, Weighs(order, S, w), NEW x \in S, NEW m \in Nat,
         NEW s \in [1 .. m -> S], NEW n, n = m + 1, SortedBy(w, m, s),
         NEW p, p = PlaceFor(order, x, s, n)
  PROVE  /\ p \in 1 .. n
         /\ \A j \in 1 .. m : (j < p => w[s[j]] <= w[x]) /\ (j >= p => w[x] < w[s[j]])
<1> DEFINE D == 1 .. n
           R == Int
           Body(g, j) == IF j = 1 THEN 1 ELSE IF Compare(order, x, s[j - 1]) < 0 THEN g[j - 1] ELSE j
           d == [j \in D |-> j]
           B == [g \in [D -> R] |-> [j \in D |-> Body(g, j)]]
<1>1. /\ n \in Nat /\ n >= 1
      /\ \A j \in D : /\ j \in Nat /\ j >= 1
                      /\ j # 1 => j - 1 \in D /\ j - 1 < j /\ j - 1 \in 1 .. m
  OBVIOUS
<1>2. d \in [D -> Nat] /\ \A j \in D : d[j] = j
  OBVIOUS
<1> HIDE DEF d
<1>3. ASSUME NEW g \in [D -> R], NEW j \in D PROVE Body(g, j) \in R
  BY <1>1
<1>4. ASSUME NEW g \in [D -> R], NEW f \in [D -> R], NEW j \in D,
             \A i \in D : d[i] < d[j] => g[i] = f[i]
      PROVE  Body(g, j) = Body(f, j)
  BY <1>1, <1>2, <1>4
<1>16. R # {}
  OBVIOUS
<1> HIDE DEF Body, D, R
<1>5. \A g \in [D -> R], j \in D : B[g][j] = Body(g, j)
  OBVIOUS
<1> HIDE DEF B
<1>6. Founded(D, R, d, B)
  <2>1. \A g \in [D -> R], j \in D : B[g][j] \in R
    BY <1>3, <1>5
  <2>2. \A g, f \in [D -> R], j \in D :
          (\A i \in D : d[i] < d[j] => g[i] = f[i]) => B[g][j] = B[f][j]
    BY <1>4, <1>5
  <2> QED
    BY <1>2, <1>16, <2>1, <2>2 DEF Founded
<1>7. \E f : f = [j \in D |-> Body(f, j)]
  <2>1. PICK f \in [D -> R] : \A j \in D : f[j] = B[f][j]
    BY <1>6, Recursion
  <2>2. f = [j \in D |-> Body(f, j)]
    BY <1>5, <2>1
  <2> QED
    BY <2>2
<1> DEFINE F == CHOOSE f : f = [j \in D |-> Body(f, j)]
<1>8. F = [j \in D |-> Body(F, j)]
  BY <1>7
<1>9. p = F[n]
  BY DEF PlaceFor, D, Body
<1> HIDE DEF F
<1>10. \A j \in D : F[j] = IF j = 1 THEN 1
                           ELSE IF Compare(order, x, s[j - 1]) < 0 THEN F[j - 1] ELSE j
  BY <1>8 DEF Body
<1>11. /\ w \in [S -> Int] /\ \A y \in 1 .. m : w[s[y]] \in Int /\ s[y] \in S
       /\ w[x] \in Int
  BY DEF Weighs
<1> DEFINE FitsAt(j, k) == /\ k \in 1 .. j
                         /\ \A i \in 1 .. m : /\ i < k => w[s[i]] <= w[x]
                                              /\ i >= k /\ i < j => w[x] < w[s[i]]
           T == {j \in Nat : j + 1 <= n => FitsAt(j + 1, F[j + 1])}
<1>12. 0 \in T
  <2>1. 1 \in D /\ F[1] = 1
    BY <1>1, <1>10 DEF D
  <2>2. FitsAt(1, 1)
    OBVIOUS
  <2> QED
    BY <2>1, <2>2
<1>13. ASSUME NEW l \in T PROVE l + 1 \in T
  <2> SUFFICES ASSUME l + 1 + 1 <= n PROVE FitsAt(l + 1 + 1, F[l + 1 + 1])
    OBVIOUS
  <2> DEFINE k == l + 1
             j == k + 1
  <2>1. /\ l \in Nat /\ k \in Nat /\ k >= 1 /\ j \in Nat /\ j # 1 /\ j - 1 = k /\ j <= n
        /\ k <= n /\ k \in 1 .. m
    OBVIOUS
  <2>2. j \in D /\ k \in D
    BY <2>1 DEF D
  <2>3. FitsAt(k, F[k])
    BY <2>1
  <2>4. F[j] = IF Compare(order, x, s[k]) < 0 THEN F[k] ELSE j
    BY <1>10, <2>1, <2>2
  <2>5. Compare(order, x, s[k]) < 0 <=> w[x] < w[s[k]]
    BY <1>11, <2>1 DEF Weighs
  <2> HIDE DEF T
  <2>6. j = k + 1
    OBVIOUS
  <2> HIDE DEF k, j
  <2>7. CASE w[x] < w[s[k]]
    <3>1. F[j] = F[k]
      BY <2>4, <2>5, <2>7
    <3>2. FitsAt(j, F[k])
      BY <2>1, <2>3, <2>6, <2>7
    <3> QED
      BY <3>1, <3>2 DEF k, j
  <2>8. CASE ~(w[x] < w[s[k]])
    <3>1. F[j] = j
      BY <2>4, <2>5, <2>8
    <3>2. \A i \in 1 .. m : i < j => w[s[i]] <= w[x]
      <4> SUFFICES ASSUME NEW i \in 1 .. m, i < j PROVE w[s[i]] <= w[x]
        OBVIOUS
      <4>1. i = k \/ i < k
        BY <2>1, <2>6
      <4>2. w[s[i]] <= w[s[k]]
        BY <1>11, <2>1, <4>1 DEF SortedBy
      <4> QED
        BY <1>11, <2>1, <2>8, <4>2
    <3>3. FitsAt(j, j)
      BY <2>1, <3>2
    <3> QED
      BY <3>1, <3>3 DEF k, j
  <2> QED
    BY <2>7, <2>8
<1> HIDE DEF T
<1>14. T = Nat
  <2>1. T \subseteq Nat
    BY DEF T
  <2> QED
    BY <1>12, <1>13, <2>1, NatInduced
<1>15. FitsAt(n, F[n])
  <2>1. m \in T /\ m + 1 = n /\ m + 1 <= n
    BY <1>1, <1>14
  <2> QED
    BY <2>1 DEF T
<1> QED
  BY <1>9, <1>15

Prefix(v, n) == [i \in 1 .. n |-> v[i]]

(* The n-th entry of v among the ones in front of it, sorted as s *)
InsertedIn(order, v, s, n) ==
  SubSeq(s, 1, PlaceFor(order, v[n], s, n) - 1) \o <<v[n]>>
    \o SubSeq(s, PlaceFor(order, v[n], s, n), n - 1)

(* r is a, x and b in a row. *)
InARow(S, a, x, b, r) ==
  /\ r \in Seq(S) /\ Len(r) = Len(a) + 1 + Len(b)
  /\ \A i \in 1 .. Len(a) : r[i] = a[i]
  /\ r[Len(a) + 1] = x
  /\ \A i \in 1 .. Len(b) : r[Len(a) + 1 + i] = b[i]

LEMMA EntriesInARow ==
  ASSUME NEW S, NEW a \in Seq(S), NEW b \in Seq(S), NEW x \in S
  PROVE  InARow(S, a, x, b, a \o <<x>> \o b)
<1> DEFINE c == a \o <<x>>
           r == c \o b
           k == Len(a)
           l == Len(b)
<1>1. c \in Seq(S) /\ Len(c) = k + 1 /\ c[k + 1] = x /\ \A i \in 1 .. k : c[i] = a[i]
  OBVIOUS
<1>2. k \in Nat /\ l \in Nat
  OBVIOUS
<1> HIDE DEF c
<1>10. c \in Seq(S)
  BY <1>1
<1>11. r \in Seq(S)
  BY <1>10
<1>12. Len(r) = Len(c) + Len(b)
  BY <1>10
<1>13. \A i \in 1 .. Len(c) : r[i] = c[i]
  BY <1>10
<1>14. \A i \in 1 .. Len(b) : r[Len(c) + i] = b[i]
  BY <1>10
<1> HIDE DEF r, k, l
<1>3. /\ r \in Seq(S) /\ Len(r) = Len(c) + Len(b)
      /\ \A i \in 1 .. Len(c) : r[i] = c[i]
      /\ \A i \in 1 .. Len(b) : r[Len(c) + i] = b[i]
  BY <1>11, <1>12, <1>13, <1>14
<1>4. Len(b) = l /\ Len(a) = k
  BY DEF k, l
<1>5. \A i \in 1 .. k : r[i] = a[i]
  BY <1>1, <1>2, <1>3
<1>6. r[k + 1] = x
  BY <1>1, <1>2, <1>3
<1>7. \A i \in 1 .. l : r[k + 1 + i] = b[i]
  BY <1>1, <1>2, <1>3, <1>4
<1>8. r \in Seq(S) /\ Len(r) = k + 1 + l
  BY <1>1, <1>3, <1>4
<1>9. InARow(S, a, x, b, r)
  BY <1>4, <1>5, <1>6, <1>7, <1>8 DEF InARow
<1> QED
  BY <1>9 DEF r, c

LEMMA EntriesAsFunction ==
  ASSUME NEW S, NEW s \in Seq(S), NEW n, Len(s) = n
  PROVE  s \in [1 .. n -> S]
OBVIOUS

(* a and b are what is left and right of place p in t. *)
SplitAt(S, t, m, p, n, a, b) ==
  /\ t \in Seq(S) /\ Len(t) = m /\ n = m + 1 /\ p \in 1 .. n
  /\ a = SubSeq(t, 1, p - 1) /\ b = SubSeq(t, p, m)

LEMMA SpreadOut ==
  ASSUME NEW S, NEW t, NEW m, NEW p, NEW n, NEW a, NEW b, SplitAt(S, t, m, p, n, a, b),
         NEW x \in S, NEW r, InARow(S, a, x, b, r)
  PROVE  Spread(S, m, t, x, p, n, r)
<1>6. /\ t \in Seq(S) /\ Len(t) = m /\ n = m + 1 /\ p \in 1 .. n
      /\ a = SubSeq(t, 1, p - 1) /\ b = SubSeq(t, p, m)
  BY DEF SplitAt
<1>1. m \in Nat /\ n \in Nat /\ p \in Nat /\ p >= 1 /\ p <= m + 1 /\ n = m + 1
  BY <1>6
<1>2. a \in Seq(S) /\ Len(a) = p - 1 /\ \A i \in 1 .. p - 1 : a[i] = t[i]
  BY <1>1, <1>6
<1>3. b \in Seq(S) /\ Len(b) = m - p + 1 /\ \A i \in 1 .. m - p + 1 : b[i] = t[p + i - 1]
  BY <1>1, <1>6
<1>4. /\ r \in Seq(S) /\ Len(r) = Len(a) + 1 + Len(b)
      /\ \A i \in 1 .. Len(a) : r[i] = a[i]
      /\ r[Len(a) + 1] = x
      /\ \A i \in 1 .. Len(b) : r[Len(a) + 1 + i] = b[i]
  BY DEF InARow
<1>5. /\ r \in Seq(S) /\ Len(r) = n /\ r[p] = x
      /\ \A i \in 1 .. p - 1 : r[i] = a[i]
      /\ \A i \in 1 .. m - p + 1 : r[p + i] = b[i]
  <2> DEFINE k == Len(a)
             l == Len(b)
  <2>2. k = p - 1 /\ l = m - p + 1
    BY <1>2, <1>3
  <2> HIDE DEF k, l
  <2>3. k + 1 = p /\ k + 1 + l = n
    BY <1>1, <2>2
  <2>1. Len(a) + 1 = p /\ Len(a) = p - 1 /\ Len(a) + 1 + Len(b) = n
    BY <2>2, <2>3 DEF k, l
  <2> QED
    BY <1>3, <1>4, <2>1
<1>9. ASSUME NEW i \in 1 .. m, i < p PROVE r[i] = t[i]
  <2>1. i \in 1 .. p - 1
    BY <1>1, <1>9
  <2> QED
    BY <1>2, <1>5, <2>1
<1>10. ASSUME NEW i \in 1 .. m, i >= p PROVE r[i + 1] = t[i]
  <2> DEFINE k == i + 1 - p
  <2>1. k \in 1 .. m - p + 1 /\ p + k - 1 = i /\ p + k = i + 1
    BY <1>1, <1>10
  <2> HIDE DEF k
  <2>2. r[p + k] = b[k] /\ b[k] = t[p + k - 1]
    BY <1>3, <1>5, <2>1
  <2> QED
    BY <2>1, <2>2
<1>12. r \in [1 .. n -> S]
  <2>1. r \in Seq(S) /\ Len(r) = n
    BY <1>5
  <2> QED
    BY <2>1, EntriesAsFunction
<1>13. t \in [1 .. m -> S]
  BY <1>6, EntriesAsFunction
<1> QED
  BY <1>1, <1>5, <1>9, <1>10, <1>12, <1>13 DEF Spread

LEMMA SortsNothing ==
  ASSUME NEW S, NEW w \in [S -> Int], NEW v
  PROVE  Sorts(S, w, 0, Prefix(v, 0), <<>>)
<1>1. Prefix(v, 0) \in [1 .. 0 -> S] /\ <<>> \in [1 .. 0 -> S] /\ 1 .. 0 = {}
  BY DEF Prefix
<1>2. <<>> \in [1 .. 0 -> 1 .. 0]
  OBVIOUS
<1>3. SortsTo(S, w, 0, Prefix(v, 0), <<>>, <<>>)
  BY <1>1, <1>2 DEF SortsTo
<1> QED
  BY <1>1, <1>3 DEF Sorts

(* What the recursion of InsertionSorted says of its function *)
Inserts(order, v, I) ==
  I = [n \in 0 .. Len(v) |-> IF n = 0 THEN <<>> ELSE InsertedIn(order, v, I[n - 1], n)]

LEMMA InsertedType ==
  ASSUME NEW order, NEW S, NEW w, Weighs(order, S, w), NEW v \in Seq(S), NEW n \in 1 .. Len(v),
         NEW m, m = n - 1, NEW s \in Seq(S), Len(s) = m, Sorts(S, w, m, Prefix(v, m), s),
         NEW r, r = InsertedIn(order, v, s, n)
  PROVE  r \in Seq(S) /\ Len(r) = n /\ Sorts(S, w, n, Prefix(v, n), r)
<1> DEFINE x == v[n]
           p == PlaceFor(order, x, s, n)
<1>1. m \in Nat /\ n = m + 1 /\ x \in S /\ s \in [1 .. m -> S] /\ m = Len(s)
  OBVIOUS
<1>2. SortedBy(w, m, s)
  BY SortsSorted DEF Sorts
<1> DEFINE a == SubSeq(s, 1, p - 1)
           b == SubSeq(s, p, m)
<1>3. r = a \o <<x>> \o b
  BY DEF InsertedIn
<1>15. p \in 1 .. n => a \in Seq(S) /\ b \in Seq(S)
  <2> HIDE DEF p
  <2> QED
    BY <1>1
<1> HIDE DEF x, p
<1>4. /\ p \in 1 .. n
      /\ \A j \in 1 .. m : (j < p => w[s[j]] <= w[x]) /\ (j >= p => w[x] < w[s[j]])
  BY <1>1, <1>2, PlaceSound DEF p
<1>13. a = SubSeq(s, 1, p - 1) /\ b = SubSeq(s, p, m)
  OBVIOUS
<1> HIDE DEF a, b
<1>14. InARow(S, a, x, b, r)
  BY <1>1, <1>3, <1>4, <1>15, EntriesInARow
<1>16. SplitAt(S, s, m, p, n, a, b)
  BY <1>1, <1>4, <1>13 DEF SplitAt
<1>17. Spread(S, m, s, x, p, n, r)
  BY <1>1, <1>14, <1>16, SpreadOut
<1>18. r \in Seq(S)
  BY <1>14 DEF InARow
<1>19. r \in [1 .. n -> S] /\ n \in Nat
  BY <1>17 DEF Spread
<1>20. Len(r) = n
  BY <1>18, <1>19
<1>5. r \in Seq(S) /\ Len(r) = n /\ Spread(S, m, s, x, p, n, r)
  BY <1>17, <1>18, <1>20
<1> DEFINE u == Prefix(v, n)
           z == Prefix(v, m)
<1>6. u \in [1 .. n -> S] /\ u[n] = x /\ \A i \in 1 .. m : u[i] = z[i]
  BY <1>1 DEF Prefix, x
<1>8. Sorts(S, w, m, z, s)
  OBVIOUS
<1> HIDE DEF u, z
<1>9. Spread(S, m, s, x, p, n, r)
  BY <1>5
<1>10. \A j \in 1 .. m : (j < p => w[s[j]] <= w[x]) /\ (j >= p => w[x] < w[s[j]])
  BY <1>4
<1>11. u \in [1 .. n -> S] /\ u[n] = x /\ \A i \in 1 .. m : u[i] = z[i]
  BY <1>6
<1>7. Sorts(S, w, n, u, r)
  BY <1>8, <1>9, <1>10, <1>11, InsertedSorts
<1> QED
  BY <1>5, <1>7 DEF u

LEMMA InsertionSteps ==
  ASSUME NEW order, NEW S, NEW w, Weighs(order, S, w), NEW v \in Seq(S)
  PROVE  \E I : InsertionSorted(order, v) = I[Len(v)] /\ Inserts(order, v, I)
<1> DEFINE n == Len(v)
           D == 0 .. n
           R == Seq(S)
           Body(g, k) == IF k = 0 THEN <<>> ELSE InsertedIn(order, v, g[k - 1], k)
           Tame(g, k) == IF Body(g, k) \in R THEN Body(g, k) ELSE <<>>
           d == [k \in D |-> k]
           B == [g \in [D -> R] |-> [k \in D |-> Tame(g, k)]]
<1>1. n \in Nat /\ R # {} /\ <<>> \in R
  OBVIOUS
<1>2. \A k \in D : k # 0 => k \in 1 .. n /\ k - 1 \in D /\ k - 1 < k
  OBVIOUS
<1>3. d \in [D -> Nat] /\ \A k \in D : d[k] = k
  OBVIOUS
<1> HIDE DEF d
<1>14. R = Seq(S)
  OBVIOUS
<1> HIDE DEF n, R
<1>4. ASSUME NEW g \in [D -> R], NEW f \in [D -> R], NEW k \in D,
             \A j \in D : d[j] < d[k] => g[j] = f[j]
      PROVE  Tame(g, k) = Tame(f, k)
  <2>1. Body(g, k) = Body(f, k)
    <3>1. CASE k = 0
      BY <3>1
    <3>2. CASE k # 0
      <4>1. k - 1 \in D /\ d[k - 1] < d[k]
        BY <1>2, <1>3, <3>2
      <4>2. g[k - 1] = f[k - 1]
        BY <1>4, <4>1
      <4> QED
        BY <3>2, <4>2
    <3> QED
      BY <3>1, <3>2
  <2> QED
    BY <2>1
<1>5. ASSUME NEW g \in [D -> R], NEW k \in D PROVE Tame(g, k) \in R
  <2> HIDE DEF Body
  <2> QED
    BY <1>1
<1> HIDE DEF D, Tame
<1>6. \A g \in [D -> R], k \in D : B[g][k] = Tame(g, k)
  OBVIOUS
<1> HIDE DEF B
<1>7. Founded(D, R, d, B)
  <2>1. \A g \in [D -> R], k \in D : B[g][k] \in R
    BY <1>5, <1>6
  <2>2. \A g, f \in [D -> R], k \in D :
          (\A j \in D : d[j] < d[k] => g[j] = f[j]) => B[g][k] = B[f][k]
    BY <1>4, <1>6
  <2> QED
    BY <1>1, <1>3, <2>1, <2>2 DEF Founded
<1>8. PICK f \in [D -> R] : \A k \in D : f[k] = Tame(f, k)
  <2>1. PICK f \in [D -> R] : \A k \in D : f[k] = B[f][k]
    BY <1>7, Recursion
  <2> QED
    BY <1>6, <2>1
<1> DEFINE Good(k) == f[k] = Body(f, k) /\ f[k] \in R /\ Len(f[k]) = k
                      /\ Sorts(S, w, k, Prefix(v, k), f[k])
           T == {k \in Nat : k <= n => Good(k)}
<1>9. 0 \in T
  <2>1. 0 \in D /\ Body(f, 0) = <<>>
    BY <1>1 DEF D
  <2>2. f[0] = <<>>
    BY <1>1, <1>8, <2>1 DEF Tame
  <2>3. Sorts(S, w, 0, Prefix(v, 0), <<>>)
    BY SortsNothing DEF Weighs
  <2> QED
    BY <1>1, <2>1, <2>2, <2>3
<1>10. ASSUME NEW m \in T PROVE m + 1 \in T
  <2> DEFINE k == m + 1
             r == InsertedIn(order, v, f[m], k)
  <2> SUFFICES ASSUME k <= n PROVE Good(k)
    OBVIOUS
  <2>1. m \in Nat /\ k \in 1 .. n /\ m = k - 1 /\ k \in D /\ k # 0 /\ m <= n
    BY <1>1 DEF D
  <2>2. Good(m)
    BY <2>1
  <2> HIDE DEF T, k
  <2>3. r \in Seq(S) /\ Len(r) = k /\ Sorts(S, w, k, Prefix(v, k), r)
    <3>1. f[m] \in Seq(S) /\ Len(f[m]) = m /\ Sorts(S, w, m, Prefix(v, m), f[m])
      BY <1>14, <2>2
    <3>2. k \in 1 .. Len(v)
      BY <2>1 DEF n
    <3> HIDE DEF r, Good
    <3> QED
      BY <2>1, <3>1, <3>2, InsertedType DEF r
  <2>4. Body(f, k) = r
    BY <2>1
  <2>5. f[k] = Body(f, k)
    <3>1. f[k] = Tame(f, k)
      BY <1>8, <2>1
    <3> HIDE DEF Body, r
    <3> QED
      BY <1>14, <2>3, <2>4, <3>1 DEF Tame
  <2> HIDE DEF r, Body
  <2> QED
    BY <1>14, <2>3, <2>4, <2>5
<1> HIDE DEF T, Good
<1>11. T = Nat
  <2>1. T \subseteq Nat
    BY DEF T
  <2> QED
    BY <1>9, <1>10, <2>1, NatInduced
<1>12. f = [k \in D |-> Body(f, k)]
  <2>1. ASSUME NEW k \in D PROVE f[k] = Body(f, k)
    <3>1. k \in T /\ k <= n
      BY <1>1, <1>11 DEF D
    <3> QED
      BY <3>1 DEF T, Good
  <2> HIDE DEF Body
  <2> QED
    BY <2>1
<1> DEFINE F == CHOOSE g : g = [k \in D |-> Body(g, k)]
<1>13. F = [k \in D |-> Body(F, k)]
  BY <1>12
<1>15. InsertionSorted(order, v) = F[n]
  BY DEF InsertionSorted, D, Body, n, InsertedIn, PlaceFor
<1> HIDE DEF F
<1>16. Inserts(order, v, F)
  BY <1>13 DEF D, n, Inserts
<1> QED
  BY <1>15, <1>16 DEF n

LEMMA InsertionSound ==
  ASSUME NEW order, NEW S, NEW w, Weighs(order, S, w), NEW v \in Seq(S)
  PROVE  /\ InsertionSorted(order, v) \in Seq(S)
         /\ Len(InsertionSorted(order, v)) = Len(v)
         /\ Sorts(S, w, Len(v), v, InsertionSorted(order, v))
<1>1. PICK I : InsertionSorted(order, v) = I[Len(v)] /\ Inserts(order, v, I)
  BY InsertionSteps
<1> DEFINE n == Len(v)
           Good(k) == I[k] \in Seq(S) /\ Len(I[k]) = k /\ Sorts(S, w, k, Prefix(v, k), I[k])
           T == {k \in Nat : k <= n => Good(k)}
<1>2. I = [k \in 0 .. n |-> IF k = 0 THEN <<>> ELSE InsertedIn(order, v, I[k - 1], k)]
  BY <1>1 DEF Inserts
<1>3. 0 \in T
  <2>1. 0 \in 0 .. n /\ I[0] = <<>>
    BY <1>2
  <2>3. Sorts(S, w, 0, Prefix(v, 0), <<>>)
    BY SortsNothing DEF Weighs
  <2>4. Good(0)
    BY <2>1, <2>3
  <2> HIDE DEF Good
  <2> QED
    BY <2>4
<1>4. ASSUME NEW m \in T PROVE m + 1 \in T
  <2> DEFINE k == m + 1
             r == InsertedIn(order, v, I[m], k)
  <2> SUFFICES ASSUME k <= n PROVE Good(k)
    OBVIOUS
  <2>1. m \in Nat /\ k \in 1 .. n /\ m = k - 1 /\ k \in 0 .. n /\ k # 0 /\ m <= n
    OBVIOUS
  <2>2. Good(m)
    BY <2>1
  <2> HIDE DEF T, k
  <2>4. I[k] = r
    BY <1>2, <2>1
  <2>3. r \in Seq(S) /\ Len(r) = k /\ Sorts(S, w, k, Prefix(v, k), r)
    <3>2. k \in 1 .. Len(v)
      BY <2>1
    <3> HIDE DEF r, n
    <3> QED
      BY <2>1, <2>2, <3>2, InsertedType DEF r
  <2> HIDE DEF r
  <2> QED
    BY <2>3, <2>4
<1> HIDE DEF T
<1>5. T = Nat
  <2>1. T \subseteq Nat
    BY DEF T
  <2> QED
    BY <1>3, <1>4, <2>1, NatInduced
<1>6. Good(n)
  <2>1. n \in T /\ n <= n
    BY <1>5
  <2> QED
    BY <2>1 DEF T
<1>7. Prefix(v, n) = v
  BY DEF Prefix
<1> QED
  BY <1>1, <1>6, <1>7

-----------------------------------------------------------------------------
(* The merge sort *)

LEMMA SortsTypes ==
  ASSUME NEW S, NEW w, NEW n, NEW s, NEW t, Sorts(S, w, n, s, t)
  PROVE  w \in [S -> Int] /\ n \in Nat /\ s \in [1 .. n -> S] /\ t \in [1 .. n -> S]
BY DEF Sorts, SortsTo

LEMMA SortsHalves ==
  ASSUME NEW S, NEW w, NEW n, NEW half, NEW m, NEW s \in [1 .. n -> S], NEW u,
         NEW a, NEW l, Sorts(S, w, half, a, l), NEW b, NEW r, Sorts(S, w, m, b, r),
         InHalves(s, n, half, a, m, b), InHalves(u, n, half, l, m, r),
         NEW t, Sorts(S, w, n, u, t)
  PROVE  Sorts(S, w, n, s, t)
<1>1. n \in Nat /\ half \in 0 .. n /\ m = n - half /\ m \in Nat
  BY DEF InHalves
<1>2. w \in [S -> Int] /\ t \in [1 .. n -> S]
  BY SortsTypes
<1>3. PICK p : SortsTo(S, w, half, a, l, p)
  BY DEF Sorts
<1>4. PICK q : SortsTo(S, w, m, b, r, q)
  BY DEF Sorts
<1>5. \E f : Rearranges(S, w, n, s, u, f)
  BY <1>3, <1>4, RearrangesHalves
<1>6. PICK f : Rearranges(S, w, n, s, u, f)
  BY <1>5
<1>7. PICK g : SortsTo(S, w, n, u, t, g)
  BY DEF Sorts
<1>8. SortsTo(S, w, n, s, t, [x \in 1 .. n |-> g[f[x]]])
  BY <1>6, <1>7, SortsRearranged
<1> QED
  BY <1>2, <1>8 DEF Sorts

(* A sequence of two parts *)
Parts(S, n, half, l, m, r) ==
  /\ n \in Nat /\ half \in 0 .. n /\ m \in Nat /\ n = half + m
  /\ l \in Seq(S) /\ Len(l) = half /\ r \in Seq(S) /\ Len(r) = m

LEMMA JoinedHalves ==
  ASSUME NEW S, NEW n, NEW half, NEW l, NEW m, NEW r, Parts(S, n, half, l, m, r),
         NEW u, u = l \o r
  PROVE  u \in [1 .. n -> S] /\ InHalves(u, n, half, l, m, r)
<1>1. /\ n \in Nat /\ half \in 0 .. n /\ m \in Nat /\ n = half + m
      /\ l \in Seq(S) /\ Len(l) = half /\ r \in Seq(S) /\ Len(r) = m
  BY DEF Parts
<1>9. l \in Seq(S) /\ r \in Seq(S)
  BY <1>1
<1>2. u \in Seq(S)
  BY <1>9
<1>3. Len(u) = Len(l) + Len(r)
  BY <1>9
<1>4. \A x \in 1 .. Len(l) : l[x] = u[x]
  BY <1>9
<1>5. \A x \in 1 .. Len(r) : r[x] = u[Len(l) + x]
  BY <1>9
<1>6. Len(u) = n
  BY <1>1, <1>3
<1>7. u \in [1 .. n -> S]
  BY <1>2, <1>6, EntriesAsFunction
<1>8. InHalves(u, n, half, l, m, r)
  BY <1>1, <1>4, <1>5 DEF InHalves
<1> QED
  BY <1>7, <1>8

LEMMA SplitHalves ==
  ASSUME NEW S, NEW v \in Seq(S), NEW n, Len(v) = n, NEW half, NEW m, n = half + m, half \in Nat, m \in Nat,
         NEW a, a = SubSeq(v, 1, half), NEW b, b = SubSeq(v, half + 1, n)
  PROVE  Parts(S, n, half, a, m, b) /\ InHalves(v, n, half, a, m, b)
<1>1. n \in Nat /\ half \in Nat /\ m \in Nat /\ half <= n /\ n = half + m /\ half \in 0 .. n
  OBVIOUS
<1>2. a \in Seq(S) /\ Len(a) = half /\ \A x \in 1 .. half : a[x] = v[x]
  BY <1>1
<1>3. b \in Seq(S) /\ Len(b) = m /\ \A x \in 1 .. m : b[x] = v[half + x]
  BY <1>1
<1> QED
  BY <1>1, <1>2, <1>3 DEF InHalves, Parts

(* What the recursion does with the sorted halves of v *)
SortStep(order, v, half, left, right) ==
  IF Len(v) <= InsertionMax THEN InsertionSorted(order, v)
  ELSE IF Compare(order, left[half], right[1]) <= 0 THEN left \o right
  ELSE Merged(order, left \o right, half)

SortedAs(S, w, v, t) == t \in Seq(S) /\ Len(t) = Len(v) /\ Sorts(S, w, Len(v), v, t)

LEMMA SortedAsEntries ==
  ASSUME NEW S, NEW w, NEW v \in Seq(S), NEW n, Len(v) = n, NEW t, Sorts(S, w, n, v, t)
  PROVE  SortedAs(S, w, v, t)
<1>1. t \in [1 .. n -> S] /\ n \in Nat
  BY SortsTypes
<1>2. t \in Seq(S) /\ Len(t) = n
  BY <1>1
<1> QED
  BY <1>2 DEF SortedAs

LEMMA SortStepSound ==
  ASSUME NEW order, NEW S, NEW w, Weighs(order, S, w), NEW v \in Seq(S), NEW half,
         half = Len(v) \div 2,
         NEW l, Len(v) > InsertionMax => SortedAs(S, w, SubSeq(v, 1, half), l),
         NEW r, Len(v) > InsertionMax => SortedAs(S, w, SubSeq(v, half + 1, Len(v)), r)
  PROVE  SortedAs(S, w, v, SortStep(order, v, half, l, r))
<1> DEFINE n == Len(v)
           m == n - half
           u == l \o r
           a == SubSeq(v, 1, half)
           b == SubSeq(v, half + 1, n)
<1>1. CASE n <= InsertionMax
  <2>1. SortedAs(S, w, v, InsertionSorted(order, v))
    BY InsertionSound DEF SortedAs
  <2> QED
    BY <1>1, <2>1 DEF SortStep
<1>2. CASE n > InsertionMax
  <2>1. n \in Nat /\ half \in 1 .. n /\ half \in 0 .. n /\ m \in Nat /\ m >= 1
        /\ n = half + m /\ Len(v) = n /\ ~(n <= InsertionMax)
    BY <1>2, ArrayAssumption
  <2>2. SortedAs(S, w, a, l) /\ SortedAs(S, w, b, r)
    BY <1>2
  <2>15. m = n - half /\ a = SubSeq(v, 1, half) /\ b = SubSeq(v, half + 1, n)
    OBVIOUS
  <2> HIDE DEF n, m, a, b
  <2>17. half \in Nat
    BY <2>1
  <2>18. Parts(S, n, half, a, m, b) /\ InHalves(v, n, half, a, m, b)
    BY <2>1, <2>15, <2>17, SplitHalves
  <2>3. /\ a \in Seq(S) /\ Len(a) = half /\ b \in Seq(S) /\ Len(b) = m
        /\ InHalves(v, n, half, a, m, b)
    BY <2>18 DEF Parts
  <2>4. l \in Seq(S) /\ Len(l) = half /\ r \in Seq(S) /\ Len(r) = m
    BY <2>2, <2>3 DEF SortedAs
  <2>5. Sorts(S, w, half, a, l) /\ Sorts(S, w, m, b, r)
    BY <2>2, <2>3 DEF SortedAs
  <2>6. u \in [1 .. n -> S] /\ InHalves(u, n, half, l, m, r)
    <3>1. Parts(S, n, half, l, m, r)
      BY <2>1, <2>4 DEF Parts
    <3>2. u = l \o r
      OBVIOUS
    <3> HIDE DEF u
    <3> QED
      BY <3>1, <3>2, JoinedHalves
  <2>7. v \in [1 .. n -> S]
    BY <2>1, EntriesAsFunction
  <2> HIDE DEF u
  <2>16. u \in Seq(S) /\ Len(u) = n
    BY <2>1, <2>6
  <2>8. SortedBy(w, half, l) /\ SortedBy(w, m, r)
    BY <2>5, SortsSorted DEF Sorts
  <2>9. /\ \A x \in 1 .. half : l[x] = u[x]
        /\ \A x \in 1 .. m : r[x] = u[half + x]
    BY <2>6 DEF InHalves
  <2>10. \A x, y \in 1 .. half : x < y => w[u[x]] <= w[u[y]]
    BY <2>8, <2>9 DEF SortedBy
  <2>11. ASSUME NEW x \in 1 .. n, NEW y \in 1 .. n, half < x, x < y PROVE w[u[x]] <= w[u[y]]
    <3> DEFINE i == x - half
               j == y - half
    <3>1. i \in 1 .. m /\ j \in 1 .. m /\ i < j /\ x = half + i /\ y = half + j
      BY <2>1, <2>11
    <3> HIDE DEF i, j
    <3>2. w[r[i]] <= w[r[j]]
      BY <2>8, <3>1 DEF SortedBy
    <3> QED
      BY <2>9, <3>1, <3>2
  <2>12. Halved(w, n, half, u)
    <3>1. ASSUME NEW x \in 1 .. n, NEW y \in 1 .. n, x < y, y <= half
          PROVE  w[u[x]] <= w[u[y]]
      <4>1. x \in 1 .. half /\ y \in 1 .. half
        BY <2>1, <3>1
      <4> QED
        BY <2>10, <3>1, <4>1
    <3> QED
      BY <2>11, <3>1 DEF Halved
  <2>13. Sorts(S, w, n, u, SortStep(order, v, half, l, r))
    <3>1. CASE Compare(order, l[half], r[1]) <= 0
      <4>1. l[half] = u[half] /\ r[1] = u[half + 1] /\ half + 1 \in 1 .. n
        BY <2>1, <2>9
      <4>2. u[half] \in S /\ u[half + 1] \in S
        BY <2>1, <2>6, <4>1
      <4>3. w[u[half]] <= w[u[half + 1]]
        BY <3>1, <4>1, <4>2 DEF Weighs
      <4>4. \A x \in 1 .. n : w[u[x]] \in Int
        BY <2>6 DEF Weighs
      <4>5. SortedBy(w, n, u)
        <5> SUFFICES ASSUME NEW x \in 1 .. n, NEW y \in 1 .. n, x < y PROVE w[u[x]] <= w[u[y]]
          BY DEF SortedBy
        <5>1. CASE y <= half \/ half < x
          BY <2>12, <5>1 DEF Halved
        <5>2. CASE x <= half /\ half < y
          <6>1. w[u[x]] <= w[u[half]]
            <7>1. x = half \/ x < half
              BY <2>1, <5>2
            <7>2. x < half => w[u[x]] <= w[u[half]]
              BY <2>1, <2>12 DEF Halved
            <7> QED
              BY <2>1, <4>4, <7>1, <7>2
          <6>2. w[u[half + 1]] <= w[u[y]]
            <7>1. y = half + 1 \/ half + 1 < y
              BY <2>1, <5>2
            <7>2. half + 1 < y => w[u[half + 1]] <= w[u[y]]
              BY <2>1, <2>12, <4>1 DEF Halved
            <7> QED
              BY <2>1, <4>1, <4>4, <7>1, <7>2
          <6>3. w[u[x]] \in Int /\ w[u[half]] \in Int /\ w[u[half + 1]] \in Int /\ w[u[y]] \in Int
            BY <2>1, <4>1, <4>4
          <6> QED
            BY <4>3, <6>1, <6>2, <6>3
        <5> QED
          BY <2>1, <5>1, <5>2
      <4>6. SortsTo(S, w, n, u, u, [x \in 1 .. n |-> x])
        BY <2>1, <2>6, <4>5, SortsItself DEF Weighs
      <4>7. Sorts(S, w, n, u, u)
        BY <2>6, <4>6 DEF Sorts
      <4>8. SortStep(order, v, half, l, r) = u
        BY <2>1, <3>1 DEF SortStep, u
      <4> QED
        BY <4>7, <4>8
    <3>2. CASE ~(Compare(order, l[half], r[1]) <= 0)
      <4>1. Sorts(S, w, n, u, Merged(order, u, half))
        BY <2>1, <2>12, <2>16, MergedSound
      <4>2. SortStep(order, v, half, l, r) = Merged(order, u, half)
        BY <2>1, <3>2 DEF SortStep, u
      <4> QED
        BY <4>1, <4>2
    <3> QED
      BY <3>1, <3>2
  <2>14. Sorts(S, w, n, v, SortStep(order, v, half, l, r))
    BY <2>3, <2>5, <2>6, <2>7, <2>13, SortsHalves
  <2> QED
    BY <2>1, <2>14, SortedAsEntries
<1>3. n \in Nat /\ InsertionMax \in Nat
  BY ArrayAssumption
<1> QED
  BY <1>1, <1>2, <1>3

LowHalf(v) == SubSeq(v, 1, Len(v) \div 2)
HighHalf(v) == SubSeq(v, Len(v) \div 2 + 1, Len(v))

LEMMA HalvesShorter ==
  ASSUME NEW S, NEW v \in Seq(S), Len(v) > InsertionMax
  PROVE  /\ LowHalf(v) \in Seq(S) /\ Len(LowHalf(v)) < Len(v)
         /\ HighHalf(v) \in Seq(S) /\ Len(HighHalf(v)) < Len(v)
<1> DEFINE n == Len(v)
           half == n \div 2
           m == n - half
           a == SubSeq(v, 1, half)
           b == SubSeq(v, half + 1, n)
<1>1. /\ n \in Nat /\ half \in Nat /\ m \in Nat /\ n = half + m /\ half < n /\ m < n
      /\ Len(v) = n
  BY ArrayAssumption
<1>2. a = SubSeq(v, 1, half) /\ b = SubSeq(v, half + 1, n)
  OBVIOUS
<1>3. LowHalf(v) = a /\ HighHalf(v) = b
  BY DEF LowHalf, HighHalf
<1> HIDE DEF n, half, m, a, b
<1>4. Parts(S, n, half, a, m, b)
  BY <1>1, <1>2, SplitHalves
<1>5. a \in Seq(S) /\ Len(a) = half /\ b \in Seq(S) /\ Len(b) = m
  BY <1>4 DEF Parts
<1>6. a \in Seq(S) /\ Len(a) < n /\ b \in Seq(S) /\ Len(b) < n
  BY <1>1, <1>5
<1> QED
  BY <1>1, <1>3, <1>6

(* The recursion that SortedRange is *)
SortBy(order, g, v) == SortStep(order, v, Len(v) \div 2, g[LowHalf(v)], g[HighHalf(v)])

LEMMA SortBySound ==
  ASSUME NEW order, NEW S, NEW w, Weighs(order, S, w), NEW v \in Seq(S), NEW g,
         Len(v) > InsertionMax => /\ SortedAs(S, w, LowHalf(v), g[LowHalf(v)])
                                  /\ SortedAs(S, w, HighHalf(v), g[HighHalf(v)])
  PROVE  SortedAs(S, w, v, SortBy(order, g, v))
<1> DEFINE half == Len(v) \div 2
           l == g[LowHalf(v)]
           r == g[HighHalf(v)]
<1>1. Len(v) > InsertionMax => SortedAs(S, w, SubSeq(v, 1, half), l)
  BY DEF LowHalf
<1>2. Len(v) > InsertionMax => SortedAs(S, w, SubSeq(v, half + 1, Len(v)), r)
  BY DEF HighHalf
<1>3. SortBy(order, g, v) = SortStep(order, v, half, l, r)
  BY DEF SortBy
<1>4. half = Len(v) \div 2
  OBVIOUS
<1> HIDE DEF half, l, r
<1> QED
  BY <1>1, <1>2, <1>3, <1>4, SortStepSound

(* f and g give the same for all that is shorter than v. *)
SameBelow(S, v, g, f) == \A u \in Seq(S) : Len(u) < Len(v) => g[u] = f[u]

LEMMA SortBySame ==
  ASSUME NEW order, NEW S, NEW v \in Seq(S), NEW g, NEW f, SameBelow(S, v, g, f)
  PROVE  SortBy(order, g, v) = SortBy(order, f, v)
<1>1. CASE Len(v) > InsertionMax
  <2>1. g[LowHalf(v)] = f[LowHalf(v)] /\ g[HighHalf(v)] = f[HighHalf(v)]
    BY <1>1, HalvesShorter DEF SameBelow
  <2> QED
    BY <2>1 DEF SortBy
<1>2. CASE ~(Len(v) > InsertionMax)
  <2>1. Len(v) <= InsertionMax
    BY <1>2, ArrayAssumption
  <2> QED
    BY <2>1 DEF SortBy, SortStep
<1> QED
  BY <1>1, <1>2

(* Sorting a range gives its entries in their stable order. *)
LEMMA SortedRangeSound ==
  ASSUME NEW order, NEW w, Weighs(order, ArrayValues, w), NEW s \in Seq(ArrayValues)
  PROVE  /\ SortedRange(order, s) \in Seq(ArrayValues)
         /\ Len(SortedRange(order, s)) = Len(s)
         /\ SortedRange(order, s) = StablySorted(order, s)
<1> DEFINE S == ArrayValues
           R == Seq(ArrayValues)
           Body(g, v) == SortBy(order, g, v)
           Tame(g, v) == IF Body(g, v) \in R THEN Body(g, v) ELSE v
           d == [v \in R |-> Len(v)]
           B == [g \in [R -> R] |-> [v \in R |-> Tame(g, v)]]
<1>1. R # {} /\ R = Seq(S)
  OBVIOUS
<1>2. d \in [R -> Nat] /\ \A v \in R : d[v] = Len(v)
  OBVIOUS
<1>20. Weighs(order, S, w)
  OBVIOUS
<1> HIDE DEF d
<1>3. ASSUME NEW g \in [R -> R], NEW f \in [R -> R], NEW v \in R,
             \A u \in R : d[u] < d[v] => g[u] = f[u]
      PROVE  Tame(g, v) = Tame(f, v)
  <2>1. SameBelow(S, v, g, f)
    BY <1>2, <1>3 DEF SameBelow
  <2>2. Body(g, v) = Body(f, v)
    <3>1. v \in Seq(S)
      OBVIOUS
    <3> HIDE DEF S, R
    <3>2. SortBy(order, g, v) = SortBy(order, f, v)
      BY <2>1, <3>1, SortBySame
    <3> QED
      BY <3>2
  <2> HIDE DEF Body
  <2> QED
    BY <2>2
<1> HIDE DEF S, R
<1>4. ASSUME NEW g \in [R -> R], NEW v \in R PROVE Tame(g, v) \in R
  <2> HIDE DEF Body
  <2> QED
    OBVIOUS
<1> HIDE DEF Tame
<1>5. \A g \in [R -> R], v \in R : B[g][v] = Tame(g, v)
  OBVIOUS
<1> HIDE DEF B
<1>6. Founded(R, R, d, B)
  <2>1. \A g \in [R -> R], v \in R : B[g][v] \in R
    BY <1>4, <1>5
  <2>2. \A g, f \in [R -> R], v \in R :
          (\A u \in R : d[u] < d[v] => g[u] = f[u]) => B[g][v] = B[f][v]
    BY <1>3, <1>5
  <2> QED
    BY <1>1, <1>2, <2>1, <2>2 DEF Founded
<1>7. PICK f \in [R -> R] : \A v \in R : f[v] = Tame(f, v)
  <2>1. PICK f \in [R -> R] : \A v \in R : f[v] = B[f][v]
    BY <1>6, Recursion
  <2> QED
    BY <1>5, <2>1
<1> HIDE DEF Body
<1> DEFINE T == {v \in R : f[v] = Body(f, v)}
           U == {v \in R : f[v] = Body(f, v) /\ SortedAs(S, w, v, f[v])}
<1>8. ASSUME NEW v \in R, \A u \in R : d[u] < d[v] => u \in U PROVE v \in U
  <2>1. \A u \in R : Len(u) < Len(v) => SortedAs(S, w, u, f[u])
    BY <1>2, <1>8
  <2>2. v \in Seq(S)
    BY <1>1
  <2>3. Len(v) > InsertionMax => /\ SortedAs(S, w, LowHalf(v), f[LowHalf(v)])
                                 /\ SortedAs(S, w, HighHalf(v), f[HighHalf(v)])
    BY <1>1, <2>1, <2>2, HalvesShorter
  <2>4. SortedAs(S, w, v, SortBy(order, f, v))
    BY <1>20, <2>2, <2>3, SortBySound
  <2>5. SortedAs(S, w, v, Body(f, v)) /\ Body(f, v) \in R
    BY <1>1, <2>4 DEF Body, SortedAs
  <2>6. f[v] = Body(f, v)
    BY <1>7, <2>5 DEF Tame
  <2> QED
    BY <2>5, <2>6
<1> HIDE DEF U
<1>9. R \subseteq U
  BY <1>2, <1>8, MeasureInduced
<1>10. f = [v \in R |-> Body(f, v)]
  <2>1. \A v \in R : f[v] = Body(f, v)
    BY <1>9 DEF U
  <2> QED
    BY <2>1
<1> DEFINE F == CHOOSE g : g = [v \in R |-> Body(g, v)]
<1>11. F = [v \in R |-> Body(F, v)]
  BY <1>10
<1>12. SortedRange(order, s) = F[s]
  BY DEF SortedRange, Body, SortBy, SortStep, LowHalf, HighHalf, R
<1> HIDE DEF F
<1> DEFINE V == {v \in R : SortedAs(S, w, v, F[v])}
<1>13. ASSUME NEW v \in R, \A u \in R : d[u] < d[v] => u \in V PROVE v \in V
  <2>1. \A u \in R : Len(u) < Len(v) => SortedAs(S, w, u, F[u])
    BY <1>2, <1>13
  <2>2. v \in Seq(S)
    BY <1>1
  <2>3. Len(v) > InsertionMax => /\ SortedAs(S, w, LowHalf(v), F[LowHalf(v)])
                                 /\ SortedAs(S, w, HighHalf(v), F[HighHalf(v)])
    BY <1>1, <2>1, <2>2, HalvesShorter
  <2>4. SortedAs(S, w, v, SortBy(order, F, v))
    BY <1>20, <2>2, <2>3, SortBySound
  <2>5. F[v] = SortBy(order, F, v)
    BY <1>11 DEF Body
  <2> QED
    BY <2>4, <2>5
<1> HIDE DEF V
<1>14. R \subseteq V
  BY <1>2, <1>13, MeasureInduced
<1>15. SortedAs(S, w, s, F[s])
  BY <1>14 DEF V, R
<1> DEFINE n == Len(s)
           t == F[s]
<1>16. t \in Seq(S) /\ Len(t) = n /\ Sorts(S, w, n, s, t)
  BY <1>15 DEF SortedAs
<1> HIDE DEF n, t
<1>17. PICK pos : SortsTo(S, w, n, s, t, pos)
  BY <1>16 DEF Sorts
<1>18. t \in [1 .. n -> S]
  BY <1>16, SortsTypes
<1>19. t = StablySorted(order, s)
  BY <1>17, <1>18, <1>20, SortsStably
<1> QED
  BY <1>12, <1>16, <1>19 DEF t, n, S

-----------------------------------------------------------------------------
(* Making a heap *)

(* g has the entries of h, and is a heap from slot k on. *)
HeapedFrom(S, w, n, h, k, g) ==
  g \in [1 .. n -> S] /\ SameCounts(g, h) /\ HeapFrom(w, n, k, g)

LEMMA HeapedLeaves ==
  ASSUME NEW S, NEW w, NEW n \in Nat, NEW h \in [1 .. n -> S], NEW i \in Nat, 2 * i > n
  PROVE  HeapedFrom(S, w, n, h, i, h)
<1>1. ASSUME NEW j \in 2 .. n, Parent(j) >= i PROVE FALSE
  <2>1. j \in Nat /\ j >= 2
    OBVIOUS
  <2>2. Parent(j) \in Nat /\ j \in {2 * Parent(j), 2 * Parent(j) + 1}
    BY <2>1, Halves
  <2> QED
    BY <1>1, <2>2
<1> QED
  BY <1>1 DEF HeapedFrom, HeapFrom, SameCounts

LEMMA HeapedNext ==
  ASSUME NEW order \in {1, -1}, NEW S, Keyed(S), NEW w, w = Weights(order, S),
         NEW n \in Nat, NEW h \in [1 .. n -> S], NEW i \in 1 .. n, NEW k, k = i + 1,
         NEW g, HeapedFrom(S, w, n, h, k, g)
  PROVE  HeapedFrom(S, w, n, h, i, SiftDown(order, g, g[i], i))
<1> DEFINE e == g[i]
           c == SiftDown(order, g, e, i)
<1>1. g \in [1 .. n -> S] /\ SameCounts(g, h) /\ HeapFrom(w, n, i + 1, g) /\ e \in S
  BY DEF HeapedFrom
<1>2. g \in Seq(S) /\ Len(g) = n
  BY <1>1
<1>3. i \in 1 .. Len(g)
  BY <1>2
<1>4. [g EXCEPT ![i] = e] = g
  BY <1>1
<1> HIDE DEF e
<1>5. Sunk(w, S, Len(g), g, e, c, i)
  BY <1>1, <1>2, <1>3, SiftDownSound
<1>6. Sunk(w, S, n, g, e, c, i)
  BY <1>2, <1>5
<1> HIDE DEF c
<1>7. c \in [1 .. n -> S] /\ SameCounts(c, g) /\ HeapFrom(w, n, i, c)
  BY <1>1, <1>4, <1>6 DEF Sunk
<1>8. HeapedFrom(S, w, n, h, i, c)
  BY <1>1, <1>7 DEF HeapedFrom, SameCounts
<1> QED
  BY <1>8 DEF c, e

(* Everything that heapify does to the entries *)
LEMMA HeapifiedSound ==
  ASSUME NEW order \in {1, -1}, NEW S, Keyed(S), NEW h \in Seq(S)
  PROVE  /\ Heapified(order, h) \in Seq(S) /\ Len(Heapified(order, h)) = Len(h)
         /\ SameCounts(Heapified(order, h), h)
         /\ IsHeap(order, Heapified(order, h))
<1> DEFINE n == Len(h)
           D == 1 .. n + 1
           R == [1 .. n -> S]
           w == Weights(order, S)
           Sift(g, i) == SiftDown(order, g, g[i], i)
           Body(f, i) == IF LeftChild(i) > n THEN h ELSE Sift(f[i + 1], i)
           d == [i \in D |-> n + 1 - i]
           B == [f \in [D -> R] |-> [i \in D |-> Body(f, i)]]
<1>1. n \in Nat /\ h \in R /\ w = Weights(order, S) /\ Len(h) = n
  OBVIOUS
<1>17. R = [1 .. n -> S]
  OBVIOUS
<1>2. \A i \in D : LeftChild(i) > n \/ /\ i \in 1 .. n /\ i + 1 \in D /\ n + 1 - (i + 1) < n + 1 - i
  BY <1>1 DEF LeftChild
<1>3. d \in [D -> Nat] /\ \A i \in D : d[i] = n + 1 - i
  BY <1>1
<1>4. ASSUME NEW g \in R, NEW i \in 1 .. n PROVE Sift(g, i) \in R
  <2>1. g \in Seq(S) /\ Len(g) = n /\ g[i] \in S /\ i \in 1 .. Len(g)
    BY <1>1
  <2>2. Sunk(w, S, Len(g), g, g[i], Sift(g, i), i)
    BY <2>1, <1>1, SiftDownSound
  <2>3. Sunk(w, S, n, g, g[i], Sift(g, i), i)
    BY <2>1, <2>2
  <2> QED
    BY <2>3 DEF Sunk
<1>5. \A k \in D : k \in 1 .. n + 1
  OBVIOUS
<1>16. 1 \in D /\ \A j \in Nat : j <= n => n + 1 - j \in D
  BY <1>1
<1> HIDE DEF Sift, n, w, d, D, R
<1>6. ASSUME NEW f \in [D -> R], NEW i \in D PROVE Body(f, i) \in R
  BY <1>1, <1>2, <1>4
<1>7. ASSUME NEW f \in [D -> R], NEW g \in [D -> R], NEW i \in D, \A j \in D : d[j] < d[i] => f[j] = g[j]
      PROVE  Body(f, i) = Body(g, i)
  <2>1. CASE LeftChild(i) > n
    BY <2>1
  <2>2. CASE ~(LeftChild(i) > n)
    <3>1. f[i + 1] = g[i + 1]
      BY <1>2, <1>3, <1>7, <2>2
    <3> QED
      BY <2>2, <3>1
  <2> QED
    BY <2>1, <2>2
<1> HIDE DEF Body
<1>8. \A f \in [D -> R], i \in D : B[f][i] = Body(f, i)
  OBVIOUS
<1> HIDE DEF B
<1>9. Founded(D, R, d, B)
  <2>1. \A f \in [D -> R], i \in D : B[f][i] \in R
    BY <1>6, <1>8
  <2>2. \A f, g \in [D -> R], i \in D :
          (\A j \in D : d[j] < d[i] => f[j] = g[j]) => B[f][i] = B[g][i]
    BY <1>7, <1>8
  <2> QED
    BY <1>1, <1>3, <2>1, <2>2 DEF Founded
<1>10. \E f : f = [i \in D |-> Body(f, i)]
  <2>1. PICK f \in [D -> R] : \A i \in D : f[i] = B[f][i]
    BY <1>9, Recursion
  <2>2. f = [i \in D |-> Body(f, i)]
    BY <1>8, <2>1
  <2> QED
    BY <2>2
<1> DEFINE F == CHOOSE fix : fix = [i \in D |-> Body(fix, i)]
<1>11. F = [i \in D |-> Body(F, i)]
  BY <1>10
<1>12. Heapified(order, h) = F[1]
  BY DEF Heapified, Body, Sift, D, n
<1> HIDE DEF F
<1>13. \A i \in D : F[i] = Body(F, i)
  BY <1>11
<1> DEFINE T == {i \in D : HeapedFrom(S, w, n, h, i, F[i])}
<1>14. ASSUME NEW i \in D, \A j \in D : d[j] < d[i] => j \in T PROVE i \in T
  <2>1. CASE LeftChild(i) > n
    <3>1. F[i] = h
      BY <1>13, <2>1 DEF Body
    <3>2. i \in Nat /\ 2 * i > n
      BY <1>1, <1>5, <2>1 DEF LeftChild
    <3>3. HeapedFrom(S, w, n, h, i, h)
      BY <1>1, <1>17, <3>2, HeapedLeaves
    <3> QED
      BY <3>1, <3>3
  <2>2. CASE ~(LeftChild(i) > n)
    <3> DEFINE k == i + 1
               g == F[k]
    <3>1. i \in 1 .. n /\ k \in D /\ d[k] < d[i] /\ k = i + 1
      BY <1>2, <1>3, <2>2
    <3>2. k \in T
      BY <1>14, <3>1
    <3>3. F[i] = SiftDown(order, g, g[i], i)
      BY <1>13, <2>2 DEF Body, Sift
    <3>4. HeapedFrom(S, w, n, h, k, g)
      BY <3>2
    <3> HIDE DEF k, g
    <3>5. HeapedFrom(S, w, n, h, i, SiftDown(order, g, g[i], i))
      BY <1>1, <1>17, <3>1, <3>4, HeapedNext
    <3> QED
      BY <3>3, <3>5
  <2> QED
    BY <2>1, <2>2
<1> HIDE DEF T
<1>15. D \subseteq T
  BY <1>3, <1>14, MeasureInduced
<1> DEFINE g == F[1]
<1>18. HeapedFrom(S, w, n, h, 1, g)
  BY <1>15, <1>16 DEF T
<1> HIDE DEF g
<1>19. g \in [1 .. n -> S] /\ SameCounts(g, h) /\ HeapFrom(w, n, 1, g)
  BY <1>18 DEF HeapedFrom
<1>20. g \in Seq(S) /\ Len(g) = n
  BY <1>1, <1>19
<1>21. HeapBy(w, Len(g), g)
  BY <1>1, <1>19, <1>20, AsHeapFrom
<1>22. IsHeap(order, g)
  BY <1>1, <1>20, <1>21, HeapWeights
<1> QED
  BY <1>12, <1>19, <1>20, <1>22 DEF g, n

-----------------------------------------------------------------------------
(* Bisections *)

(* low holds the first m of n places. *)
LEMMA BisectedSound ==
  ASSUME NEW n \in Nat, NEW m \in 0 .. n, NEW low, low = 0 .. m - 1
  PROVE  Bisected(low, n) = <<m - 1, m>>
<1> DEFINE E == -1 .. n
           D == E \X E
           R == E \X E
           Mid(lo, hi) == lo + (hi - lo) \div 2
           Body(g, p) == IF p[2] - p[1] <= 1 THEN p
                         ELSE IF Mid(p[1], p[2]) \in low THEN g[<<Mid(p[1], p[2]), p[2]>>]
                         ELSE g[<<p[1], Mid(p[1], p[2])>>]
           d == [p \in D |-> IF p[2] - p[1] > 0 THEN p[2] - p[1] ELSE 0]
           B == [g \in [D -> R] |-> [p \in D |-> Body(g, p)]]
<1>1. \A p \in D : /\ p[1] \in E /\ p[2] \in E /\ p = <<p[1], p[2]>>
                   /\ p[1] \in Int /\ p[2] \in Int
  OBVIOUS
<1>2. d \in [D -> Nat] /\ \A p \in D : d[p] = IF p[2] - p[1] > 0 THEN p[2] - p[1] ELSE 0
  BY <1>1
<1> HIDE DEF d
<1>3. ASSUME NEW lo \in E, NEW hi \in E, ~(hi - lo <= 1), NEW k, k = Mid(lo, hi)
      PROVE  /\ k \in E /\ lo < k /\ k < hi
             /\ d[<<k, hi>>] < d[<<lo, hi>>] /\ d[<<lo, k>>] < d[<<lo, hi>>]
             /\ <<k, hi>> \in D /\ <<lo, k>> \in D
  <2>1. k \in E /\ lo < k /\ k < hi /\ k \in Int
    BY <1>3
  <2>2. <<k, hi>> \in D /\ <<lo, k>> \in D /\ <<lo, hi>> \in D
    BY <2>1
  <2>3. d[<<k, hi>>] = hi - k /\ d[<<lo, k>>] = k - lo /\ d[<<lo, hi>>] = hi - lo
    BY <1>2, <2>1, <2>2
  <2> QED
    BY <2>1, <2>2, <2>3
<1> HIDE DEF Mid
<1>4. ASSUME NEW g \in [D -> R], NEW p \in D PROVE Body(g, p) \in R
  <2>1. CASE p[2] - p[1] <= 1
    BY <2>1
  <2>2. CASE ~(p[2] - p[1] <= 1)
    <3> DEFINE k == Mid(p[1], p[2])
    <3>1. <<k, p[2]>> \in D /\ <<p[1], k>> \in D
      BY <1>1, <1>3, <2>2
    <3>2. g[<<k, p[2]>>] \in R /\ g[<<p[1], k>>] \in R
      BY <3>1
    <3> QED
      BY <2>2, <3>2
  <2> QED
    BY <2>1, <2>2
<1>5. ASSUME NEW g \in [D -> R], NEW f \in [D -> R], NEW p \in D, \A q \in D : d[q] < d[p] => g[q] = f[q]
      PROVE  Body(g, p) = Body(f, p)
  <2>1. CASE p[2] - p[1] <= 1
    BY <2>1
  <2>2. CASE ~(p[2] - p[1] <= 1)
    <3> DEFINE k == Mid(p[1], p[2])
    <3>1. /\ <<k, p[2]>> \in D /\ <<p[1], k>> \in D
          /\ d[<<k, p[2]>>] < d[p] /\ d[<<p[1], k>>] < d[p]
      BY <1>1, <1>3, <2>2
    <3>2. g[<<k, p[2]>>] = f[<<k, p[2]>>] /\ g[<<p[1], k>>] = f[<<p[1], k>>]
      BY <1>5, <3>1
    <3> QED
      BY <2>2, <3>2
  <2> QED
    BY <2>1, <2>2
<1>6. R # {} /\ <<-1, n>> \in D /\ \A lo, hi \in E : <<lo, hi>> \in D
  OBVIOUS
<1>16. E = -1 .. n
  OBVIOUS
<1> HIDE DEF Body, D, R, E
<1>7. \A g \in [D -> R], p \in D : B[g][p] = Body(g, p)
  OBVIOUS
<1> HIDE DEF B
<1>8. Founded(D, R, d, B)
  <2>1. \A g \in [D -> R], p \in D : B[g][p] \in R
    BY <1>4, <1>7
  <2>2. \A g, f \in [D -> R], p \in D :
          (\A q \in D : d[q] < d[p] => g[q] = f[q]) => B[g][p] = B[f][p]
    BY <1>5, <1>7
  <2> QED
    BY <1>2, <1>6, <2>1, <2>2 DEF Founded
<1>9. \E f : f = [p \in D |-> Body(f, p)]
  <2>1. PICK f \in [D -> R] : \A p \in D : f[p] = B[f][p]
    BY <1>8, Recursion
  <2>2. f = [p \in D |-> Body(f, p)]
    BY <1>7, <2>1
  <2> QED
    BY <2>2
<1> DEFINE F == CHOOSE f : f = [p \in D |-> Body(f, p)]
<1>10. F = [p \in D |-> Body(F, p)]
  BY <1>9
<1>11. Bisected(low, n) = F[<<-1, n>>]
  BY DEF Bisected, Body, Mid, D, E
<1> HIDE DEF F
<1>12. \A p \in D : F[p] = Body(F, p)
  BY <1>10
<1> DEFINE T == {p \in D : p[1] < p[2] /\ p[1] < m /\ m <= p[2] => F[p] = <<m - 1, m>>}
<1>13. ASSUME NEW p \in D, \A q \in D : d[q] < d[p] => q \in T PROVE p \in T
  <2> DEFINE lo == p[1]
             hi == p[2]
             k == Mid(lo, hi)
  <2> SUFFICES ASSUME lo < hi, lo < m, m <= hi PROVE F[p] = <<m - 1, m>>
    OBVIOUS
  <2>1. lo \in E /\ hi \in E /\ p = <<lo, hi>> /\ lo \in Int /\ hi \in Int
    BY <1>1
  <2>2. CASE hi - lo <= 1
    <3>1. lo = m - 1 /\ hi = m
      BY <2>1, <2>2
    <3> QED
      BY <1>12, <2>1, <2>2, <3>1 DEF Body
  <2>3. CASE ~(hi - lo <= 1)
    <3>1. /\ k \in E /\ lo < k /\ k < hi
          /\ d[<<k, hi>>] < d[p] /\ d[<<lo, k>>] < d[p]
          /\ <<k, hi>> \in D /\ <<lo, k>> \in D
      BY <1>3, <2>1, <2>3
    <3>2. <<k, hi>> \in T /\ <<lo, k>> \in T
      BY <1>13, <3>1
    <3>3. F[p] = IF k \in low THEN F[<<k, hi>>] ELSE F[<<lo, k>>]
      BY <1>12, <2>3 DEF Body
    <3>4. k \in Int /\ k >= 0
      BY <1>16, <2>1, <3>1
    <3>5. k \in low => F[<<k, hi>>] = <<m - 1, m>>
      <4>1. k \in low => k < m
        BY <3>4
      <4> QED
        BY <3>1, <3>2, <4>1
    <3>6. k \notin low => F[<<lo, k>>] = <<m - 1, m>>
      <4>1. k \notin low => m <= k
        BY <3>4
      <4> QED
        BY <3>1, <3>2, <4>1
    <3> QED
      BY <3>3, <3>5, <3>6
  <2> QED
    BY <2>2, <2>3
<1> HIDE DEF T
<1>14. D \subseteq T
  BY <1>2, <1>13, MeasureInduced
<1>15. F[<<-1, n>>] = <<m - 1, m>>
  <2>1. <<-1, n>> \in T
    BY <1>6, <1>14
  <2> QED
    BY <2>1 DEF T
<1> QED
  BY <1>11, <1>15

(* The places that satisfy something that only the first ones do *)
LEMMA FirstPlaces ==
  ASSUME NEW n \in Nat, NEW A, A \subseteq 1 .. n, \A i \in A : \A j \in 1 .. i : j \in A
  PROVE  /\ Cardinality(A) \in 0 .. n /\ A = 1 .. Cardinality(A)
<1> DEFINE Closed(k, X) == X \subseteq 1 .. k /\ \A i \in X : \A j \in 1 .. i : j \in X
           T == {k \in Nat : \A X : Closed(k, X) => \E m \in 0 .. k : X = 1 .. m}
<1>1. 0 \in T
  <2>1. ASSUME NEW X, Closed(0, X) PROVE \E m \in 0 .. 0 : X = 1 .. m
    <3>1. X = 1 .. 0 /\ 0 \in 0 .. 0
      BY <2>1
    <3> QED
      BY <3>1
  <2> QED
    BY <2>1
<1>2. ASSUME NEW k \in T PROVE k + 1 \in T
  <2>1. ASSUME NEW X, Closed(k + 1, X) PROVE \E m \in 0 .. k + 1 : X = 1 .. m
    <3>1. CASE k + 1 \in X
      <4>2. k \in Nat /\ X \subseteq 1 .. k + 1 /\ \A j \in 1 .. k + 1 : j \in X
        BY <2>1, <3>1
      <4>3. X = 1 .. k + 1
        BY <4>2
      <4>1. X = 1 .. k + 1 /\ k + 1 \in 0 .. k + 1
        BY <4>2, <4>3
      <4> QED
        BY <4>1
    <3>2. CASE k + 1 \notin X
      <4>1. Closed(k, X)
        BY <2>1, <3>2
      <4>2. PICK m \in 0 .. k : X = 1 .. m
        BY <4>1
      <4>3. m \in 0 .. k + 1
        BY <4>2
      <4> QED
        BY <4>2, <4>3
    <3> QED
      BY <3>1, <3>2
  <2>2. \A X : Closed(k + 1, X) => \E m \in 0 .. k + 1 : X = 1 .. m
    BY <2>1
  <2>3. k + 1 \in Nat
    OBVIOUS
  <2> HIDE DEF Closed
  <2> QED
    BY <2>2, <2>3
<1> HIDE DEF Closed
<1>3. T = Nat
  <2>1. T \subseteq Nat
    OBVIOUS
  <2> HIDE DEF T
  <2> QED
    BY <1>1, <1>2, <2>1, NatInduced
<1>4. Closed(n, A)
  BY DEF Closed
<1>5. PICK m \in 0 .. n : A = 1 .. m
  <2>1. n \in T
    BY <1>3
  <2> QED
    BY <1>4, <2>1
<1>6. Cardinality(1 .. m) = m
  <2>1. m \in Int /\ 1 \in Int /\ m \in Nat
    BY <1>5
  <2>2. Cardinality(1 .. m) = IF 1 > m THEN 0 ELSE m - 1 + 1
    BY <2>1, FS_Interval
  <2> QED
    BY <2>1, <2>2
<1> QED
  BY <1>5, <1>6

(* hits are the places of entries equal to v, above those of larger ones. *)
PartedBy(v, n, hits, above) ==
  /\ n \in Nat /\ n = array.size /\ hits \subseteq 0 .. n - 1 /\ above \subseteq 0 .. n - 1
  /\ \A i \in 0 .. n - 1 : (Against(i, v) = 0 <=> i \in hits) /\ (Against(i, v) > 0 <=> i \in above)
  /\ \A i \in above : \A j \in hits : j < i
  /\ \A i \in 0 .. n - 1 : i \notin above /\ i \notin hits => \A j \in hits : i < j

LEMMA BisectSound ==
  ASSUME NEW v, NEW n, NEW hits, NEW above, PartedBy(v, n, hits, above)
  PROVE  Bisect(v) \in hits \/ (Bisect(v) = -1 /\ hits = {})
<1> DEFINE E == -1 .. n
           D == E \X E
           R == Int
           Mid(lo, hi) == lo + (hi - lo) \div 2
           Body(g, p) == IF p[2] - p[1] <= 1 THEN -1
                         ELSE IF Against(Mid(p[1], p[2]), v) = 0 THEN Mid(p[1], p[2])
                         ELSE IF Against(Mid(p[1], p[2]), v) > 0 THEN g[<<p[1], Mid(p[1], p[2])>>]
                         ELSE g[<<Mid(p[1], p[2]), p[2]>>]
           d == [p \in D |-> IF p[2] - p[1] > 0 THEN p[2] - p[1] ELSE 0]
           B == [g \in [D -> R] |-> [p \in D |-> Body(g, p)]]
<1>0. /\ n \in Nat /\ n = array.size /\ hits \subseteq 0 .. n - 1 /\ above \subseteq 0 .. n - 1
      /\ \A i \in 0 .. n - 1 : (Against(i, v) = 0 <=> i \in hits) /\ (Against(i, v) > 0 <=> i \in above)
      /\ \A i \in above : \A j \in hits : j < i
      /\ \A i \in 0 .. n - 1 : i \notin above /\ i \notin hits => \A j \in hits : i < j
  BY DEF PartedBy
<1>1. \A p \in D : /\ p[1] \in E /\ p[2] \in E /\ p = <<p[1], p[2]>>
                   /\ p[1] \in Int /\ p[2] \in Int
  BY <1>0
<1>2. d \in [D -> Nat] /\ \A p \in D : d[p] = IF p[2] - p[1] > 0 THEN p[2] - p[1] ELSE 0
  BY <1>1
<1> HIDE DEF d
<1>3. ASSUME NEW lo \in E, NEW hi \in E, ~(hi - lo <= 1), NEW k, k = Mid(lo, hi)
      PROVE  /\ k \in E /\ lo < k /\ k < hi /\ k \in 0 .. n - 1 /\ k \in Int
             /\ d[<<k, hi>>] < d[<<lo, hi>>] /\ d[<<lo, k>>] < d[<<lo, hi>>]
             /\ <<k, hi>> \in D /\ <<lo, k>> \in D
  <2>1. k \in E /\ lo < k /\ k < hi /\ k \in Int /\ k \in 0 .. n - 1
    BY <1>0, <1>3
  <2>2. <<k, hi>> \in D /\ <<lo, k>> \in D /\ <<lo, hi>> \in D
    BY <2>1
  <2>3. d[<<k, hi>>] = hi - k /\ d[<<lo, k>>] = k - lo /\ d[<<lo, hi>>] = hi - lo
    BY <1>2, <2>1, <2>2
  <2> QED
    BY <2>1, <2>2, <2>3
<1> HIDE DEF Mid
<1>4. ASSUME NEW g \in [D -> R], NEW p \in D PROVE Body(g, p) \in R
  <2>1. CASE p[2] - p[1] <= 1
    BY <2>1
  <2>2. CASE ~(p[2] - p[1] <= 1)
    <3> DEFINE k == Mid(p[1], p[2])
    <3>1. <<k, p[2]>> \in D /\ <<p[1], k>> \in D /\ k \in Int
      BY <1>1, <1>3, <2>2
    <3>2. g[<<k, p[2]>>] \in R /\ g[<<p[1], k>>] \in R
      BY <3>1
    <3> QED
      BY <2>2, <3>1, <3>2
  <2> QED
    BY <2>1, <2>2
<1>5. ASSUME NEW g \in [D -> R], NEW f \in [D -> R], NEW p \in D, \A q \in D : d[q] < d[p] => g[q] = f[q]
      PROVE  Body(g, p) = Body(f, p)
  <2>1. CASE p[2] - p[1] <= 1
    BY <2>1
  <2>2. CASE ~(p[2] - p[1] <= 1)
    <3> DEFINE k == Mid(p[1], p[2])
    <3>1. /\ <<k, p[2]>> \in D /\ <<p[1], k>> \in D
          /\ d[<<k, p[2]>>] < d[p] /\ d[<<p[1], k>>] < d[p]
      BY <1>1, <1>3, <2>2
    <3>2. g[<<k, p[2]>>] = f[<<k, p[2]>>] /\ g[<<p[1], k>>] = f[<<p[1], k>>]
      BY <1>5, <3>1
    <3> QED
      BY <2>2, <3>2
  <2> QED
    BY <2>1, <2>2
<1>6. R # {} /\ <<-1, n>> \in D /\ \A lo, hi \in E : <<lo, hi>> \in D
  BY <1>0
<1> HIDE DEF Body, D, R, E
<1>7. \A g \in [D -> R], p \in D : B[g][p] = Body(g, p)
  OBVIOUS
<1> HIDE DEF B
<1>8. Founded(D, R, d, B)
  <2>1. \A g \in [D -> R], p \in D : B[g][p] \in R
    BY <1>4, <1>7
  <2>2. \A g, f \in [D -> R], p \in D :
          (\A q \in D : d[q] < d[p] => g[q] = f[q]) => B[g][p] = B[f][p]
    BY <1>5, <1>7
  <2> QED
    BY <1>2, <1>6, <2>1, <2>2 DEF Founded
<1>9. \E f : f = [p \in D |-> Body(f, p)]
  <2>1. PICK f \in [D -> R] : \A p \in D : f[p] = B[f][p]
    BY <1>8, Recursion
  <2>2. f = [p \in D |-> Body(f, p)]
    BY <1>7, <2>1
  <2> QED
    BY <2>2
<1> DEFINE F == CHOOSE f : f = [p \in D |-> Body(f, p)]
<1>10. F = [p \in D |-> Body(F, p)]
  BY <1>9
<1>17. n = array.size
  BY <1>0
<1>11. Bisect(v) = F[<<-1, n>>]
  BY <1>17 DEF Bisect, Body, Mid, D, E
<1> HIDE DEF F
<1>12. \A p \in D : F[p] = Body(F, p)
  BY <1>10
<1> DEFINE Hit(r) == r \in hits \/ (r = -1 /\ hits = {})
           T == {p \in D : (\A j \in hits : p[1] < j /\ j < p[2]) => Hit(F[p])}
<1>13. ASSUME NEW p \in D, \A q \in D : d[q] < d[p] => q \in T PROVE p \in T
  <2> DEFINE lo == p[1]
             hi == p[2]
             k == Mid(lo, hi)
  <2> SUFFICES ASSUME \A j \in hits : lo < j /\ j < hi PROVE Hit(F[p])
    OBVIOUS
  <2>1. lo \in E /\ hi \in E /\ p = <<lo, hi>> /\ lo \in Int /\ hi \in Int
    BY <1>1
  <2>4. \A j \in hits : j \in Int
    BY <1>0
  <2>2. CASE hi - lo <= 1
    <3>1. hits = {}
      BY <2>1, <2>2, <2>4
    <3> QED
      BY <1>12, <2>1, <2>2, <3>1 DEF Body
  <2>3. CASE ~(hi - lo <= 1)
    <3>1. /\ k \in E /\ lo < k /\ k < hi /\ k \in 0 .. n - 1 /\ k \in Int
          /\ d[<<k, hi>>] < d[p] /\ d[<<lo, k>>] < d[p]
          /\ <<k, hi>> \in D /\ <<lo, k>> \in D
      BY <1>3, <2>1, <2>3
    <3>2. <<k, hi>> \in T /\ <<lo, k>> \in T
      BY <1>13, <3>1
    <3>3. F[p] = IF Against(k, v) = 0 THEN k
                 ELSE IF Against(k, v) > 0 THEN F[<<lo, k>>] ELSE F[<<k, hi>>]
      BY <1>12, <2>3 DEF Body
    <3>4. CASE k \in hits
      BY <1>0, <3>1, <3>3, <3>4
    <3>5. CASE k \notin hits /\ k \in above
      <4>1. F[p] = F[<<lo, k>>]
        BY <1>0, <3>1, <3>3, <3>5
      <4>2. \A j \in hits : lo < j /\ j < k
        BY <1>0, <3>5
      <4>3. Hit(F[<<lo, k>>])
        <5> HIDE DEF Hit, lo, hi, k
        <5> QED
          BY <3>2, <4>2
      <4> QED
        BY <4>1, <4>3
    <3>6. CASE k \notin hits /\ k \notin above
      <4>1. F[p] = F[<<k, hi>>]
        BY <1>0, <3>1, <3>3, <3>6
      <4>2. \A j \in hits : k < j /\ j < hi
        BY <1>0, <3>1, <3>6
      <4>3. Hit(F[<<k, hi>>])
        <5> HIDE DEF Hit, lo, hi, k
        <5> QED
          BY <3>2, <4>2
      <4> QED
        BY <4>1, <4>3
    <3> QED
      BY <3>4, <3>5, <3>6
  <2> QED
    BY <2>2, <2>3
<1> HIDE DEF T
<1>14. D \subseteq T
  BY <1>2, <1>13, MeasureInduced
<1>15. Hit(F[<<-1, n>>])
  <2>1. <<-1, n>> \in T
    BY <1>6, <1>14
  <2>2. \A j \in hits : -1 < j /\ j < n
    BY <1>0
  <2> HIDE DEF Hit
  <2> QED
    BY <2>1, <2>2 DEF T
<1> QED
  BY <1>11, <1>15

(* The first of the hits, or -1 *)
FirstHit(hits, r) ==
  IF hits = {} THEN r = -1 ELSE r \in hits /\ \A j \in hits : r <= j

HitsOf(v, n, hits) ==
  /\ n \in Nat /\ n = array.size /\ hits \subseteq 0 .. n - 1
  /\ \A i \in 0 .. n - 1 : Against(i, v) = 0 <=> i \in hits

LEMMA IndexOfSound ==
  ASSUME NEW v, NEW n, NEW hits, HitsOf(v, n, hits)
  PROVE  FirstHit(hits, IndexOf(v))
<1> DEFINE D == 0 .. n
           R == Int
           Body(g, i) == IF i = n THEN -1 ELSE IF Against(i, v) = 0 THEN i ELSE g[i + 1]
           d == [i \in D |-> n - i]
           B == [g \in [D -> R] |-> [i \in D |-> Body(g, i)]]
<1>0. /\ n \in Nat /\ n = array.size /\ hits \subseteq 0 .. n - 1
      /\ \A i \in 0 .. n - 1 : Against(i, v) = 0 <=> i \in hits
  BY DEF HitsOf
<1>1. \A i \in D : /\ i \in Nat
                   /\ i # n => i + 1 \in D /\ i \in 0 .. n - 1
  BY <1>0
<1>2. d \in [D -> Nat] /\ \A i \in D : d[i] = n - i
  BY <1>0
<1>3. \A i \in D : i # n => d[i + 1] < d[i]
  BY <1>0, <1>1, <1>2
<1>4. ASSUME NEW g \in [D -> R], NEW i \in D PROVE Body(g, i) \in R
  BY <1>1
<1>5. ASSUME NEW g \in [D -> R], NEW f \in [D -> R], NEW i \in D, \A j \in D : d[j] < d[i] => g[j] = f[j]
      PROVE  Body(g, i) = Body(f, i)
  <2> HIDE DEF d, D, R
  <2>1. i # n => g[i + 1] = f[i + 1]
    BY <1>1, <1>3, <1>5
  <2> QED
    BY <2>1
<1>6. R # {} /\ 0 \in D
  BY <1>0
<1>16. D = 0 .. n
  OBVIOUS
<1> HIDE DEF Body, d, D, R
<1>7. \A g \in [D -> R], i \in D : B[g][i] = Body(g, i)
  OBVIOUS
<1> HIDE DEF B
<1>8. Founded(D, R, d, B)
  <2>1. \A g \in [D -> R], i \in D : B[g][i] \in R
    BY <1>4, <1>7
  <2>2. \A g, f \in [D -> R], i \in D :
          (\A j \in D : d[j] < d[i] => g[j] = f[j]) => B[g][i] = B[f][i]
    BY <1>5, <1>7
  <2> QED
    BY <1>2, <1>6, <2>1, <2>2 DEF Founded
<1>9. \E f : f = [i \in D |-> Body(f, i)]
  <2>1. PICK f \in [D -> R] : \A i \in D : f[i] = B[f][i]
    BY <1>8, Recursion
  <2>2. f = [i \in D |-> Body(f, i)]
    BY <1>7, <2>1
  <2> QED
    BY <2>2
<1> DEFINE F == CHOOSE fix : fix = [i \in D |-> Body(fix, i)]
<1>10. F = [i \in D |-> Body(F, i)]
  BY <1>9
<1>17. n = array.size
  BY <1>0
<1>11. IndexOf(v) = F[0]
  BY <1>17 DEF IndexOf, Body, D
<1> HIDE DEF F
<1>12. \A i \in D : F[i] = Body(F, i)
  BY <1>10
<1> DEFINE T == {i \in D : (\A j \in hits : i <= j) => FirstHit(hits, F[i])}
<1>13. ASSUME NEW i \in D, \A j \in D : d[j] < d[i] => j \in T PROVE i \in T
  <2> SUFFICES ASSUME \A j \in hits : i <= j PROVE FirstHit(hits, F[i])
    OBVIOUS
  <2>0. \A j \in hits : j \in Int /\ j < n
    BY <1>0
  <2>1. CASE i = n
    <3>1. hits = {}
      BY <1>0, <2>0, <2>1
    <3> QED
      BY <1>12, <2>1, <3>1 DEF Body, FirstHit
  <2>2. CASE i # n /\ i \in hits
    <3>1. F[i] = i
      BY <1>0, <1>1, <1>12, <2>2 DEF Body
    <3> QED
      BY <2>2, <3>1 DEF FirstHit
  <2>3. CASE i # n /\ i \notin hits
    <3>1. F[i] = F[i + 1]
      BY <1>0, <1>1, <1>12, <2>3 DEF Body
    <3>2. \A j \in hits : i + 1 <= j
      BY <1>1, <2>0, <2>3
    <3>3. i + 1 \in T
      BY <1>1, <1>3, <1>13, <2>3
    <3>4. FirstHit(hits, F[i + 1])
      BY <3>2, <3>3
    <3> QED
      BY <3>1, <3>4
  <2> QED
    BY <2>1, <2>2, <2>3
<1> HIDE DEF T
<1>14. D \subseteq T
  BY <1>2, <1>13, MeasureInduced
<1>15. FirstHit(hits, F[0])
  <2>1. 0 \in T
    BY <1>6, <1>14
  <2>2. \A j \in hits : 0 <= j
    BY <1>0
  <2> QED
    BY <2>1, <2>2 DEF T
<1> QED
  BY <1>11, <1>15

-----------------------------------------------------------------------------
(* What the specification of arrays says in its own copy of Ordering *)
LEMMA SameCompare == ASSUME NEW o, NEW x, NEW y PROVE AbstractArray!Compare(o, x, y) = Compare(o, x, y)
BY DEF AbstractArray!Compare, Compare

LEMMA SameCard == ASSUME NEW X PROVE AbstractArray!Cardinality(X) = Cardinality(X)
BY DEF AbstractArray!Cardinality, Cardinality

LEMMA SameStable == ASSUME NEW o, NEW s PROVE AbstractArray!StablySorted(o, s) = StablySorted(o, s)
BY DEF AbstractArray!StablySorted, StablySorted, AbstractArray!Rank, Rank, AbstractArray!Compare, Compare,
       AbstractArray!Cardinality, Cardinality

LEMMA SameHeap == ASSUME NEW o, NEW s PROVE AbstractArray!IsHeap(o, s) = IsHeap(o, s)
BY DEF AbstractArray!IsHeap, IsHeap, AbstractArray!Compare, Compare, AbstractArray!Parent, Parent

LEMMA SameBag == ASSUME NEW s, NEW t PROVE AbstractArray!SameEntries(s, t) = SameEntries(s, t)
BY DEF AbstractArray!SameEntries, SameEntries, AbstractArray!Cardinality, Cardinality

LEMMA FoldedIsJoined == ASSUME NEW s, NEW x PROVE Folded(s, x) = AbstractArray!Joined(s, x)[Len(s)]
BY DEF Folded, AbstractArray!Joined

-----------------------------------------------------------------------------
(* The steps of an array and of its specification *)

LEMMA BlockTypes ==
  ASSUME NEW a, NEW s, Block(a, s)
  PROVE  /\ a # NULL /\ a \in ArrayStructs /\ Contents(a) = s /\ s \in Seq(ArrayValues) /\ s # NULL
         /\ a.size = Len(s) /\ Len(s) \in Nat /\ a.front \in Nat /\ a.capacity \in Nat
         /\ a.size <= a.capacity /\ a.front + a.capacity <= MaxSlots /\ a.capacity <= MaxSlots
         /\ a.comp \in {1, -1, NULL} /\ a.null \in ArrayValues \cup {NULL}
         /\ a.front + a.capacity <= Len(a.mem)
<1>1. a # NULL /\ Contents(a) = s
  BY BlockContents
<1>2. /\ a \in ArrayStructs /\ Holds(a.mem, a.front, s)
      /\ a.size = Len(s) /\ a.size <= a.capacity
      /\ a.front + a.capacity <= Len(a.mem) /\ a.front + a.capacity <= MaxSlots
  BY DEF Block
<1>3. s \in Seq(ArrayValues) /\ s # NULL
  BY <1>2, ArrayAssumption DEF Holds
<1>4. /\ a.front \in Nat /\ a.capacity \in Nat
      /\ a.comp \in {1, -1, NULL} /\ a.null \in ArrayValues \cup {NULL}
  BY <1>2 DEF ArrayStructs
<1> QED
  BY <1>1, <1>2, <1>3, <1>4, ArrayAssumption

LEMMA RepliesSame ==
  ASSUME NEW call, NEW result, arrayReply' = ArrayReply(call, result)
  PROVE  AbstractArray!Reply(call, result)
BY DEF AbstractArray!Reply, ArrayReply

(* How the specification sees an array with the entries s *)
SeenAs(s) == /\ (IF array = NULL THEN NULL ELSE Contents(array)) = s
             /\ (IF array = NULL THEN 0 ELSE array.capacity) = array.capacity
             /\ (IF array = NULL THEN NULL ELSE array.comp) = array.comp
             /\ (IF array = NULL THEN NULL ELSE array.null) = array.null

LEMMA BlockSeen ==
  ASSUME NEW s, Block(array, s)
  PROVE  SeenAs(s)
BY BlockContents DEF SeenAs

LEMMA BlockSeenNext ==
  ASSUME NEW s, Block(array', s)
  PROVE  SeenAs(s)'
<1>1. Contents(array') = s /\ array' # NULL
  BY BlockContents
<1>2. Contents(array)' = s
  BY <1>1 DEF Contents
<1> QED
  BY <1>1, <1>2 DEF SeenAs

LEMMA AnswersSame ==
  ASSUME NEW call, NEW result, array' = array, arrayReply' = ArrayReply(call, result)
  PROVE  AbstractArray!Answer(call, result)
BY RepliesSame DEF AbstractArray!Answer

(* Same settings, other entries *)
SameSettings(a, b) == a.capacity = b.capacity /\ a.comp = b.comp /\ a.null = b.null

LEMMA BecomesSame ==
  ASSUME NEW s, Block(array, s), NEW t, Block(array', t), SameSettings(array', array),
         NEW call, arrayReply' = ArrayReply(call, 0)
  PROVE  AbstractArray!Become(call, t)
<1>1. SeenAs(s) /\ SeenAs(t)'
  BY BlockSeen, BlockSeenNext
<1>2. AbstractArray!Reply(call, 0)
  BY RepliesSame
<1> QED
  BY <1>1, <1>2 DEF AbstractArray!Become, SeenAs, SameSettings

(* The entries are in a block, or there is no array. *)
ArrayOk(a) == a = NULL \/ \E s : Block(a, s)

ArrayInv == ArrayOk(array) /\ (file # NULL => file \in Files)

LEMMA OkNext == ASSUME NEW s, Block(array', s) PROVE ArrayOk(array')
BY DEF ArrayOk

-----------------------------------------------------------------------------
(* Calls that do not change the entries *)

Done == AbstractArray!Call /\ ArrayOk(array')

LEMMA DestroyStep == ASSUME array # NULL, DestroyArray PROVE Done
<1>1. AbstractArray!Reply(<<"destroy">>, 0) /\ array' = NULL
  BY RepliesSame DEF DestroyArray
<1>2. AbstractArray!Destroy
  BY <1>1 DEF AbstractArray!Destroy
<1> QED
  BY <1>1, <1>2 DEF AbstractArray!Call, Done, ArrayOk

LEMMA SetCompStep ==
  ASSUME NEW s, Block(array, s), NEW o \in {1, -1}, SetArrayComp(o)
  PROVE  Done
<1>1. SeenAs(s) /\ array.size = Len(s) /\ s \in Seq(ArrayValues) /\ array \in ArrayStructs
  BY BlockTypes, BlockSeen
<1>2. s = <<>> <=> ~(array.size > 0)
  BY <1>1
<1>3. CASE array.size > 0 /\ Answer(<<"set_comp", o>>, -1)
  <2>1. AbstractArray!Answer(<<"set_comp", o>>, -1)
    BY <1>3, AnswersSame DEF Answer
  <2>2. AbstractArray!SetComp(o)
    BY <1>1, <1>2, <1>3, <2>1 DEF AbstractArray!SetComp, SeenAs
  <2>3. array' = array
    BY <1>3 DEF Answer
  <2> QED
    BY <2>2, <2>3 DEF AbstractArray!Call, Done, ArrayOk
<1>4. ASSUME NEW call, Change([array EXCEPT !.comp = o], call),
             (call = <<"set_comp", o>> /\ ~(array.size > 0)) \/ call = <<"force_set_comp", o>>
      PROVE  Done
  <2>1. array' = [array EXCEPT !.comp = o] /\ arrayReply' = ArrayReply(call, 0)
    BY <1>4 DEF Change
  <2>2. Block(array', s)
    <3>1. Block([array EXCEPT !.comp = o], s)
      BY BlockSettings
    <3> QED
      BY <2>1, <3>1
  <2>3. array'.comp = o /\ array'.capacity = array.capacity /\ array'.null = array.null
    BY <1>1, <2>1 DEF ArrayStructs
  <2>4. SeenAs(s)' /\ AbstractArray!Reply(call, 0)
    BY <2>1, <2>2, BlockSeenNext, RepliesSame
  <2>5. AbstractArray!SetComp(o)
    BY <1>1, <1>2, <1>4, <2>3, <2>4 DEF AbstractArray!SetComp, SeenAs
  <2> QED
    BY <2>2, <2>5, OkNext DEF AbstractArray!Call, Done
<1> QED
  BY <1>3, <1>4 DEF SetArrayComp

LEMMA SetNullStep ==
  ASSUME NEW s, Block(array, s), NEW v \in ArrayValues, SetNullValue(v)
  PROVE  Done
<1>1. SeenAs(s) /\ array \in ArrayStructs
  BY BlockTypes, BlockSeen
<1>2. array' = [array EXCEPT !.null = v] /\ arrayReply' = ArrayReply(<<"set_null_value", v>>, 0)
  BY DEF Change, SetNullValue
<1>3. Block(array', s)
  <2>1. Block([array EXCEPT !.null = v], s)
    BY BlockSettings
  <2> QED
    BY <1>2, <2>1
<1>4. array'.null = v /\ array'.capacity = array.capacity /\ array'.comp = array.comp
  BY <1>1, <1>2 DEF ArrayStructs
<1>5. SeenAs(s)' /\ AbstractArray!Reply(<<"set_null_value", v>>, 0)
  BY <1>2, <1>3, BlockSeenNext, RepliesSame
<1>6. AbstractArray!SetNullValue(v)
  BY <1>1, <1>4, <1>5 DEF AbstractArray!SetNullValue, SeenAs
<1> QED
  BY <1>3, <1>6, OkNext DEF AbstractArray!Call, Done

LEMMA AnswerOk ==
  ASSUME NEW s, Block(array, s), NEW call, NEW result, Answer(call, result)
  PROVE  AbstractArray!Answer(call, result) /\ ArrayOk(array')
BY AnswersSame DEF Answer, ArrayOk

LEMMA ReadStep ==
  ASSUME NEW s, Block(array, s),
         Size \/ Capacity \/ Fold \/ (\E v \in ArrayValues : Fold2(v)) \/ \E i \in 0 .. array.size : Get(i)
  PROVE  Done
<1>1. /\ SeenAs(s) /\ array.size = Len(s) /\ s \in Seq(ArrayValues) /\ Contents(array) = s
      /\ Len(s) \in Nat
  BY BlockTypes, BlockSeen
<1>2. CASE Size
  <2>1. AbstractArray!Answer(<<"size">>, Len(s)) /\ ArrayOk(array')
    BY <1>1, <1>2, AnswerOk DEF Size
  <2> QED
    BY <1>1, <2>1 DEF Done, AbstractArray!Call, SeenAs
<1>3. CASE Capacity
  <2>1. AbstractArray!Answer(<<"capacity">>, array.capacity) /\ ArrayOk(array')
    BY <1>3, AnswerOk DEF Capacity
  <2> QED
    BY <1>1, <2>1 DEF Done, AbstractArray!Call, SeenAs
<1>4. CASE Fold
  <2>1. s # <<>> /\ Answer(<<"fold">>, Folded(Tail(s), s[1]))
    BY <1>1, <1>4 DEF Fold
  <2>2. Len(Tail(s)) = Len(s) - 1
    BY <1>1, <2>1
  <2>3. Folded(Tail(s), s[1]) = AbstractArray!Joined(Tail(s), s[1])[Len(s) - 1]
    BY <2>2, FoldedIsJoined
  <2>4. /\ AbstractArray!Answer(<<"fold">>, AbstractArray!Joined(Tail(s), s[1])[Len(s) - 1])
        /\ ArrayOk(array')
    BY <2>1, <2>3, AnswerOk
  <2>5. AbstractArray!Folds
    BY <1>1, <2>4 DEF AbstractArray!Folds, SeenAs
  <2> QED
    BY <1>1, <2>1, <2>4, <2>5 DEF Done, AbstractArray!Call, SeenAs
<1>5. ASSUME NEW v \in ArrayValues, Fold2(v) PROVE Done
  <2>1. Answer(<<"fold2", v>>, Folded(s, v))
    BY <1>1, <1>5 DEF Fold2
  <2>2. Folded(s, v) = AbstractArray!Joined(s, v)[Len(s)]
    BY FoldedIsJoined
  <2>3. /\ AbstractArray!Answer(<<"fold2", v>>, AbstractArray!Joined(s, v)[Len(s)])
        /\ ArrayOk(array')
    BY <2>1, <2>2, AnswerOk
  <2> QED
    BY <1>1, <2>3 DEF Done, AbstractArray!Call, SeenAs
<1>6. ASSUME NEW i \in 0 .. array.size, Get(i) PROVE Done
  <2> DEFINE r == IF i < Len(s) THEN s[i + 1] ELSE array.null
  <2>1. Answer(<<"get", i>>, r)
    BY <1>1, <1>6 DEF Get
  <2> HIDE DEF r
  <2>2. AbstractArray!Answer(<<"get", i>>, r) /\ ArrayOk(array')
    BY <2>1, AnswerOk
  <2>3. AbstractArray!Get(i) /\ i \in 0 .. Len(s)
    BY <1>1, <2>2 DEF AbstractArray!Get, SeenAs, r
  <2> QED
    BY <1>1, <2>2, <2>3 DEF Done, AbstractArray!Call, SeenAs
<1> QED
  BY <1>2, <1>3, <1>4, <1>5, <1>6

LEMMA OrderWeighs ==
  ASSUME NEW o \in {1, -1}
  PROVE  Weighs(o, ArrayValues, Weights(o, ArrayValues))
<1>1. Keyed(ArrayValues)
  BY ArrayAssumption DEF Keyed
<1> QED
  BY <1>1, CompareWeights DEF Weighs

LEMMA ShortSorted ==
  ASSUME NEW o \in {1, -1}, NEW s \in Seq(ArrayValues), Len(s) < 2
  PROVE  StablySorted(o, s) = s
<1> DEFINE w == Weights(o, ArrayValues)
           n == Len(s)
           pos == [x \in 1 .. n |-> x]
<1>1. Weighs(o, ArrayValues, w)
  BY OrderWeighs
<1>2. n \in Nat /\ n < 2 /\ s \in [1 .. n -> ArrayValues]
  OBVIOUS
<1> HIDE DEF w, n
<1>3. SortedBy(w, n, s)
  BY <1>2 DEF SortedBy
<1>4. SortsTo(ArrayValues, w, n, s, s, pos)
  BY <1>1, <1>2, <1>3, SortsItself DEF Weighs
<1> HIDE DEF pos
<1> QED
  BY <1>1, <1>2, <1>4, SortsStably

(* The calls that put t in the place of the entries s *)
LEMMA WithContentsStep ==
  ASSUME NEW s, Block(array, s), NEW t \in Seq(ArrayValues), Len(t) = Len(s), NEW call,
         Change(WithContents(array, t), call)
  PROVE  AbstractArray!Become(call, t) /\ ArrayOk(array')
<1>1. array' = WithContents(array, t) /\ arrayReply' = ArrayReply(call, 0)
  BY DEF Change
<1>2. /\ Block(WithContents(array, t), t)
      /\ WithContents(array, t).capacity = array.capacity
      /\ WithContents(array, t).comp = array.comp /\ WithContents(array, t).null = array.null
  BY BlockWith
<1>3. Block(array', t) /\ SameSettings(array', array)
  BY <1>1, <1>2 DEF SameSettings
<1> QED
  BY <1>1, <1>3, BecomesSame, OkNext

LEMMA SortStepDone ==
  ASSUME NEW s, Block(array, s), SortArray
  PROVE  Done
<1>1. /\ SeenAs(s) /\ Contents(array) = s /\ array.size = Len(s) /\ s \in Seq(ArrayValues)
      /\ array.comp \in {1, -1, NULL} /\ Len(s) \in Nat
  BY BlockTypes, BlockSeen
<1>2. CASE Answer(<<"sort">>, -1)
  <2>1. AbstractArray!Answer(<<"sort">>, -1) /\ ArrayOk(array')
    BY <1>2, AnswerOk
  <2> QED
    BY <2>1 DEF Done, AbstractArray!Call, AbstractArray!Sort
<1> DEFINE o == array.comp
           t == SortedRange(o, s)
<1>3. o # NULL => /\ t \in Seq(ArrayValues) /\ Len(t) = Len(s) /\ t = StablySorted(o, s)
  <2> SUFFICES ASSUME o # NULL PROVE /\ t \in Seq(ArrayValues) /\ Len(t) = Len(s) /\ t = StablySorted(o, s)
    OBVIOUS
  <2>1. o \in {1, -1} /\ s \in Seq(ArrayValues)
    BY <1>1
  <2> HIDE DEF o
  <2>2. Weighs(o, ArrayValues, Weights(o, ArrayValues))
    BY <2>1, OrderWeighs
  <2> QED
    BY <2>1, <2>2, SortedRangeSound
<1>4. ASSUME o # NULL, AbstractArray!Become(<<"sort">>, StablySorted(o, s))
      PROVE  AbstractArray!Call
  <2>1. AbstractArray!Become(<<"sort">>, AbstractArray!StablySorted(o, s))
    BY <1>4, SameStable
  <2> QED
    BY <1>1, <1>4, <2>1 DEF AbstractArray!Call, AbstractArray!Sort, SeenAs
<1>5. CASE o # NULL /\ array.size < 2 /\ Answer(<<"sort">>, 0)
  <2>1. array' = array /\ arrayReply' = ArrayReply(<<"sort">>, 0)
    BY <1>5 DEF Answer
  <2>2. t = s
    <3>1. o \in {1, -1} /\ Len(s) < 2
      BY <1>1, <1>5
    <3> QED
      BY <1>1, <1>3, <1>5, <3>1, ShortSorted
  <2>3. Block(array', s) /\ SameSettings(array', array)
    BY <2>1 DEF SameSettings
  <2>4. AbstractArray!Become(<<"sort">>, s) /\ ArrayOk(array')
    BY <2>1, <2>3, BecomesSame, OkNext
  <2> QED
    BY <1>3, <1>4, <1>5, <2>2, <2>4 DEF Done
<1>6. CASE o # NULL /\ Change(WithContents(array, SortedRange(o, Contents(array))), <<"sort">>)
  <2>1. Change(WithContents(array, t), <<"sort">>)
    BY <1>1, <1>6
  <2> HIDE DEF t
  <2>2. AbstractArray!Become(<<"sort">>, t) /\ ArrayOk(array')
    BY <1>3, <1>6, <2>1, WithContentsStep
  <2> QED
    BY <1>3, <1>4, <1>6, <2>2 DEF Done
<1> QED
  BY <1>2, <1>5, <1>6 DEF SortArray

-----------------------------------------------------------------------------
(* Searching *)

LEMMA SearchedPlaces ==
  ASSUME NEW s, Block(array, s), array.comp # NULL, NEW v \in ArrayValues,
         NEW n, n = Len(s),
         NEW hits, hits = {i \in 0 .. n - 1 : Compare(array.comp, s[i + 1], v) = 0}
  PROVE  HitsOf(v, n, hits)
<1>1. array.size = n /\ n \in Nat /\ Contents(array) = s
  BY BlockTypes
<1>2. \A i : Against(i, v) = Compare(array.comp, s[i + 1], v)
  BY <1>1 DEF Against
<1> QED
  BY <1>1, <1>2 DEF HitsOf

LEMMA SortedPlaces ==
  ASSUME NEW s, Block(array, s), array.comp # NULL, NEW v \in ArrayValues,
         Sorted(array.comp, s), NEW n, n = Len(s),
         NEW hits, hits = {i \in 0 .. n - 1 : Compare(array.comp, s[i + 1], v) = 0},
         NEW above, above = {i \in 0 .. n - 1 : Compare(array.comp, s[i + 1], v) > 0}
  PROVE  PartedBy(v, n, hits, above)
<1> DEFINE o == array.comp
           w == Weights(o, ArrayValues)
<1>1. /\ array.size = n /\ n \in Nat /\ Contents(array) = s /\ o \in {1, -1}
      /\ s \in Seq(ArrayValues) /\ Keyed(ArrayValues)
  BY BlockTypes, ArrayAssumption DEF Keyed
<1>2. \A i : Against(i, v) = Compare(o, s[i + 1], v)
  BY <1>1 DEF Against
<1>3. Sorted(o, s)
  OBVIOUS
<1>4. /\ hits = {i \in 0 .. n - 1 : Compare(o, s[i + 1], v) = 0}
      /\ above = {i \in 0 .. n - 1 : Compare(o, s[i + 1], v) > 0}
  OBVIOUS
<1>13. w = Weights(o, ArrayValues)
  OBVIOUS
<1> HIDE DEF o, w
<1>5. /\ w \in [ArrayValues -> Int]
      /\ \A x, y \in ArrayValues : /\ Compare(o, x, y) <= 0 <=> w[x] <= w[y]
                                   /\ Compare(o, x, y) = 0 <=> w[x] = w[y]
                                   /\ Compare(o, x, y) > 0 <=> w[x] > w[y]
  BY <1>1, <1>13, CompareWeights
<1> DEFINE k(i) == w[s[i + 1]]
<1>6. \A i \in 0 .. n - 1 : i + 1 \in 1 .. Len(s) /\ s[i + 1] \in ArrayValues /\ k(i) \in Int /\ i \in Int
  BY <1>1, <1>5
<1>7. w[v] \in Int
  BY <1>5
<1>8. ASSUME NEW i \in 0 .. n - 1, NEW j \in 0 .. n - 1, i < j PROVE k(i) <= k(j)
  <2>1. Compare(o, s[i + 1], s[j + 1]) <= 0
    <3>1. i + 1 \in DOMAIN s /\ j + 1 \in DOMAIN s /\ i + 1 < j + 1
      BY <1>1, <1>6, <1>8
    <3> QED
      BY <1>3, <3>1 DEF Sorted
  <2> QED
    BY <1>5, <1>6, <2>1
<1>9. \A i \in 0 .. n - 1 : /\ i \in hits <=> k(i) = w[v]
                            /\ i \in above <=> k(i) > w[v]
  BY <1>4, <1>5, <1>6
<1> HIDE DEF k
<1>10. hits \subseteq 0 .. n - 1 /\ above \subseteq 0 .. n - 1
  BY <1>4
<1>11. ASSUME NEW i \in above, NEW j \in hits PROVE j < i
  <2>1. i \in 0 .. n - 1 /\ j \in 0 .. n - 1 /\ k(i) > w[v] /\ k(j) = w[v]
    BY <1>9, <1>10
  <2>2. i < j => k(i) <= k(j)
    BY <1>8, <2>1
  <2>3. i \in Int /\ j \in Int /\ k(i) \in Int /\ k(j) \in Int
    BY <1>6, <2>1
  <2>4. i # j
    BY <1>7, <2>1, <2>3
  <2> QED
    BY <1>7, <2>1, <2>2, <2>3, <2>4
<1>12. ASSUME NEW i \in 0 .. n - 1, i \notin above, i \notin hits, NEW j \in hits PROVE i < j
  <2>1. j \in 0 .. n - 1 /\ k(j) = w[v] /\ ~(k(i) > w[v]) /\ k(i) # w[v]
    BY <1>9, <1>10, <1>12
  <2>2. j < i => k(j) <= k(i)
    BY <1>8, <2>1
  <2>3. i \in Int /\ j \in Int /\ k(i) \in Int /\ k(j) \in Int
    BY <1>6, <2>1
  <2>4. i # j
    BY <1>12
  <2> QED
    BY <1>7, <2>1, <2>2, <2>3, <2>4
<1>14. \A i \in 0 .. n - 1 : (Against(i, v) = 0 <=> i \in hits) /\ (Against(i, v) > 0 <=> i \in above)
  BY <1>2, <1>4
<1> QED
  BY <1>1, <1>10, <1>11, <1>12, <1>14 DEF PartedBy

(* The entries that are smaller than v, or not larger, are the first ones. *)
LEMMA CountedPlaces ==
  ASSUME NEW s, Block(array, s), array.comp # NULL, NEW v \in ArrayValues,
         Sorted(array.comp, s), NEW n, n = Len(s),
         NEW A, \/ A = {i \in DOMAIN s : Compare(array.comp, s[i], v) < 0}
                \/ A = {i \in DOMAIN s : Compare(array.comp, s[i], v) <= 0},
         NEW m, m = Cardinality(A)
  PROVE  m \in 0 .. n /\ A = 1 .. m
<1> DEFINE o == array.comp
           w == Weights(o, ArrayValues)
<1>1. /\ n \in Nat /\ o \in {1, -1} /\ DOMAIN s = 1 .. n
      /\ s \in Seq(ArrayValues) /\ Keyed(ArrayValues)
  BY BlockTypes, ArrayAssumption DEF Keyed
<1>3. Sorted(o, s)
  OBVIOUS
<1>4. \/ A = {i \in DOMAIN s : Compare(o, s[i], v) < 0}
      \/ A = {i \in DOMAIN s : Compare(o, s[i], v) <= 0}
  OBVIOUS
<1>13. w = Weights(o, ArrayValues)
  OBVIOUS
<1> HIDE DEF o, w
<1>5. /\ w \in [ArrayValues -> Int]
      /\ \A x, y \in ArrayValues : /\ Compare(o, x, y) <= 0 <=> w[x] <= w[y]
                                   /\ Compare(o, x, y) < 0 <=> w[x] < w[y]
  BY <1>1, <1>13, CompareWeights
<1>6. \A i \in 1 .. n : s[i] \in ArrayValues /\ w[s[i]] \in Int
  BY <1>1, <1>5
<1>7. w[v] \in Int
  BY <1>5
<1>8. \A i, j \in 1 .. n : i < j => w[s[i]] <= w[s[j]]
  BY <1>1, <1>3, <1>5, <1>6 DEF Sorted
<1>9. \/ A = {i \in 1 .. n : w[s[i]] < w[v]}
      \/ A = {i \in 1 .. n : w[s[i]] <= w[v]}
  BY <1>1, <1>4, <1>5, <1>6
<1>10. A \subseteq 1 .. n
  BY <1>9
<1>11. ASSUME NEW i \in A, NEW j \in 1 .. i PROVE j \in A
  <2>1. i \in 1 .. n /\ j \in 1 .. n /\ (j = i \/ j < i)
    BY <1>1, <1>10
  <2>2. w[s[j]] <= w[s[i]]
    BY <1>6, <1>8, <2>1
  <2>3. w[s[j]] \in Int /\ w[s[i]] \in Int
    BY <1>6, <2>1
  <2> QED
    BY <1>7, <1>9, <2>1, <2>2, <2>3
<1> QED
  BY <1>1, <1>10, <1>11, FirstPlaces

LEMMA BisectedPlaces ==
  ASSUME NEW s, Block(array, s), NEW v, NEW n, n = Len(s), NEW low, NEW A, A \subseteq DOMAIN s,
         low = {i \in Places : i + 1 \in A}, NEW m \in 0 .. n, A = 1 .. m
  PROVE  Bisected(low, array.size) = <<m - 1, m>>
<1>1. array.size = n /\ n \in Nat
  BY BlockTypes
<1>2. low = 0 .. m - 1
  <2>1. \A i : i \in low <=> i \in 0 .. n - 1 /\ i + 1 \in 1 .. m
    BY <1>1 DEF Places
  <2>2. \A i : i \in 0 .. n - 1 /\ i + 1 \in 1 .. m <=> i \in 0 .. m - 1
    BY <1>1
  <2> HIDE DEF Places
  <2>3. \A i : i \in low <=> i \in 0 .. m - 1
    BY <2>1, <2>2
  <2> QED
    BY <2>3
<1> QED
  BY <1>1, <1>2, BisectedSound

LEMMA SearchStep ==
  ASSUME NEW s, Block(array, s), NEW v \in ArrayValues, Search(v)
  PROVE  Done
<1> DEFINE o == array.comp
           n == Len(s)
           hits == {i \in 0 .. n - 1 : Compare(o, s[i + 1], v) = 0}
           above == {i \in 0 .. n - 1 : Compare(o, s[i + 1], v) > 0}
<1>1. /\ SeenAs(s) /\ Contents(array) = s /\ array.size = n /\ s \in Seq(ArrayValues)
      /\ o # NULL /\ n \in Nat /\ DOMAIN s = 1 .. n
  BY BlockTypes, BlockSeen DEF Search
<1>2. AbstractArray!Places(v) = hits
  BY <1>1 DEF AbstractArray!Places, SeenAs, AbstractArray!Compare, Compare
<1>3. HitsOf(v, n, hits)
  <2>1. array.comp # NULL
    BY <1>1
  <2> QED
    BY <2>1, SearchedPlaces
<1>4. Sorted(o, s) => PartedBy(v, n, hits, above)
  <2>1. array.comp # NULL
    BY <1>1
  <2> QED
    BY <2>1, SortedPlaces
<1>5. AbstractArray!Search(v) => AbstractArray!Call
  BY DEF AbstractArray!Call
<1> HIDE DEF hits, above
<1>6. ASSUME NEW call, NEW r, Answer(call, r) PROVE AbstractArray!Answer(call, r) /\ ArrayOk(array')
  BY <1>6, AnswerOk
<1>7. CASE Answer(<<"index", v>>, IndexOf(v))
  <2> DEFINE r == IF hits = {} THEN -1 ELSE CHOOSE i \in hits : \A j \in hits : i <= j
             f == IndexOf(v)
  <2>1. FirstHit(hits, f)
    BY <1>3, IndexOfSound
  <2>2. \A i \in hits : i \in Int
    BY <1>3 DEF HitsOf
  <2> HIDE DEF f
  <2>3. f = r
    <3>1. CASE hits = {}
      BY <2>1, <3>1 DEF FirstHit
    <3>2. CASE hits # {}
      <4>1. f \in hits /\ \A j \in hits : f <= j
        BY <2>1, <3>2 DEF FirstHit
      <4>2. r \in hits /\ \A j \in hits : r <= j
        BY <3>2, <4>1
      <4> QED
        BY <2>2, <4>1, <4>2
    <3> QED
      BY <3>1, <3>2
  <2>4. AbstractArray!Answer(<<"index", v>>, r) /\ ArrayOk(array')
    BY <1>6, <1>7, <2>3 DEF f
  <2>5. AbstractArray!Search(v)
    BY <1>2, <2>4 DEF AbstractArray!Search
  <2> QED
    BY <1>5, <2>4, <2>5 DEF Done
<1>8. CASE Sorted(o, Contents(array)) /\ Answer(<<"bisect", v>>, Bisect(v))
  <2>1. Bisect(v) \in IF hits = {} THEN {-1} ELSE hits
    <3>1. PartedBy(v, n, hits, above)
      BY <1>1, <1>4, <1>8
    <3>2. Bisect(v) \in hits \/ (Bisect(v) = -1 /\ hits = {})
      BY <3>1, BisectSound
    <3> QED
      BY <3>2
  <2>2. AbstractArray!Answer(<<"bisect", v>>, Bisect(v)) /\ ArrayOk(array')
    BY <1>6, <1>8
  <2>3. AbstractArray!Search(v)
    BY <1>2, <2>1, <2>2 DEF AbstractArray!Search
  <2> QED
    BY <1>5, <2>2, <2>3 DEF Done
<1>9. CASE Sorted(o, Contents(array)) /\ Answer(<<"bisect_upper", v>>, BisectUpper(v))
  <2> DEFINE A == {i \in DOMAIN s : Compare(o, s[i], v) <= 0}
             low == {i \in Places : Against(i, v) <= 0}
             m == Cardinality(A)
  <2>1. m \in 0 .. n /\ A = 1 .. m
    BY <1>1, <1>9, CountedPlaces
  <2>2. low = {i \in Places : i + 1 \in A} /\ A \subseteq DOMAIN s
    BY <1>1 DEF Places, Against
  <2>3. AbstractArray!NotAbove(v) = m
    BY <1>1, SameCard DEF AbstractArray!NotAbove, SeenAs, AbstractArray!Compare, Compare
  <2>4. BisectUpper(v) = Bisected(low, array.size)[1]
    BY DEF BisectUpper
  <2> HIDE DEF A, low, m
  <2>5. Bisected(low, array.size) = <<m - 1, m>>
    BY <2>1, <2>2, BisectedPlaces
  <2>6. BisectUpper(v) = AbstractArray!NotAbove(v) - 1
    BY <2>3, <2>4, <2>5
  <2>7. /\ AbstractArray!Answer(<<"bisect_upper", v>>, AbstractArray!NotAbove(v) - 1)
        /\ ArrayOk(array')
    BY <1>6, <1>9, <2>6
  <2> QED
    BY <1>5, <2>7 DEF AbstractArray!Search, Done
<1>10. CASE Sorted(o, Contents(array)) /\ Answer(<<"bisect_lower", v>>, BisectLower(v))
  <2> DEFINE A == {i \in DOMAIN s : Compare(o, s[i], v) < 0}
             low == {i \in Places : Against(i, v) < 0}
             m == Cardinality(A)
  <2>1. m \in 0 .. n /\ A = 1 .. m
    BY <1>1, <1>10, CountedPlaces
  <2>2. low = {i \in Places : i + 1 \in A} /\ A \subseteq DOMAIN s
    BY <1>1 DEF Places, Against
  <2>3. AbstractArray!Below(v) = m
    BY <1>1, SameCard DEF AbstractArray!Below, SeenAs, AbstractArray!Compare, Compare
  <2>4. BisectLower(v) = Bisected(low, array.size)[2]
    BY DEF BisectLower
  <2> HIDE DEF A, low, m
  <2>5. Bisected(low, array.size) = <<m - 1, m>>
    BY <2>1, <2>2, BisectedPlaces
  <2>6. BisectLower(v) = AbstractArray!Below(v)
    BY <2>3, <2>4, <2>5
  <2>7. AbstractArray!Answer(<<"bisect_lower", v>>, AbstractArray!Below(v)) /\ ArrayOk(array')
    BY <1>6, <1>10, <2>6
  <2> QED
    BY <1>5, <2>7 DEF AbstractArray!Search, Done
<1> QED
  BY <1>7, <1>8, <1>9, <1>10 DEF Search

-----------------------------------------------------------------------------
(* Calls that change entries in their places *)

LEMMA MapStep ==
  ASSUME NEW s, Block(array, s), Map
  PROVE  Done
<1>1. SeenAs(s) /\ Contents(array) = s /\ s \in Seq(ArrayValues)
  BY BlockTypes, BlockSeen
<1> DEFINE t == [i \in DOMAIN s |-> Convert(s[i])]
<1>2. t \in Seq(ArrayValues) /\ Len(t) = Len(s)
  <2>1. Len(s) \in Nat /\ DOMAIN s = 1 .. Len(s) /\ \A i \in DOMAIN s : Convert(s[i]) \in ArrayValues
    BY <1>1, ArrayAssumption
  <2>2. t \in [1 .. Len(s) -> ArrayValues]
    BY <2>1
  <2> QED
    BY <2>1, <2>2
<1>3. Change(WithContents(array, t), <<"map">>)
  BY <1>1 DEF Map
<1>5. t = [i \in DOMAIN s |-> Convert(s[i])]
  OBVIOUS
<1> HIDE DEF t
<1>4. AbstractArray!Become(<<"map">>, t) /\ ArrayOk(array')
  BY <1>2, <1>3, WithContentsStep
<1> QED
  BY <1>1, <1>4, <1>5 DEF Done, AbstractArray!Call, SeenAs

(* The sums of the entries of t, the n-th of the first n after x *)
Sums(t, x, J) ==
  /\ J \in [0 .. Len(t) -> ArrayValues] /\ J[0] = x
  /\ \A k \in 1 .. Len(t) : J[k] = Join(J[k - 1], t[k])

LEMMA JoinedSums ==
  ASSUME NEW t \in Seq(ArrayValues), NEW x \in ArrayValues
  PROVE  Sums(t, x, AbstractArray!Joined(t, x))
<1> DEFINE n == Len(t)
           D == 0 .. n
           R == ArrayValues
           Body(g, i) == IF i = 0 THEN x ELSE Join(g[i - 1], t[i])
           d == [i \in D |-> i]
           B == [g \in [D -> R] |-> [i \in D |-> Body(g, i)]]
<1>1. /\ n \in Nat /\ x \in R /\ 0 \in D
      /\ \A i \in D : i # 0 => i - 1 \in D /\ i - 1 < i /\ i \in 1 .. n /\ t[i] \in R
      /\ \A i \in 1 .. n : i \in D /\ i # 0
  OBVIOUS
<1>2. d \in [D -> Nat] /\ \A i \in D : d[i] = i
  OBVIOUS
<1>14. \A u, v \in R : Join(u, v) \in R
  BY ArrayAssumption
<1> HIDE DEF d, D, R
<1>3. ASSUME NEW g \in [D -> R], NEW i \in D PROVE Body(g, i) \in R
  BY <1>1, <1>14
<1>4. ASSUME NEW g \in [D -> R], NEW f \in [D -> R], NEW i \in D, \A j \in D : d[j] < d[i] => g[j] = f[j]
      PROVE  Body(g, i) = Body(f, i)
  <2>1. i # 0 => g[i - 1] = f[i - 1]
    BY <1>1, <1>2, <1>4
  <2> QED
    BY <2>1
<1> HIDE DEF Body
<1>5. \A g \in [D -> R], i \in D : B[g][i] = Body(g, i)
  OBVIOUS
<1> HIDE DEF B
<1>6. Founded(D, R, d, B)
  <2>1. \A g \in [D -> R], i \in D : B[g][i] \in R
    BY <1>3, <1>5
  <2>2. \A g, f \in [D -> R], i \in D :
          (\A j \in D : d[j] < d[i] => g[j] = f[j]) => B[g][i] = B[f][i]
    BY <1>4, <1>5
  <2> QED
    BY <1>1, <1>2, <2>1, <2>2 DEF Founded
<1>7. PICK f \in [D -> R] : f = [i \in D |-> Body(f, i)]
  <2>1. PICK f \in [D -> R] : \A i \in D : f[i] = B[f][i]
    BY <1>6, Recursion
  <2>2. f = [i \in D |-> Body(f, i)]
    BY <1>5, <2>1
  <2> QED
    BY <2>2
<1> DEFINE F == CHOOSE fix : fix = [i \in D |-> Body(fix, i)]
<1>8. F = [i \in D |-> Body(F, i)]
  BY <1>7
<1>9. AbstractArray!Joined(t, x) = F
  BY DEF AbstractArray!Joined, Body, D, n
<1> HIDE DEF F
<1>10. \A i \in D : F[i] = Body(F, i)
  BY <1>8
<1> DEFINE T == {i \in D : F[i] \in R}
<1>11. ASSUME NEW i \in D, \A j \in D : d[j] < d[i] => j \in T PROVE i \in T
  <2>1. i # 0 => F[i - 1] \in R
    BY <1>1, <1>2, <1>11
  <2> QED
    BY <1>1, <1>10, <1>14, <2>1 DEF Body
<1> HIDE DEF T
<1>12. D \subseteq T
  BY <1>2, <1>11, MeasureInduced
<1>13. F \in [D -> R]
  BY <1>8, <1>12 DEF T
<1>15. F[0] = x /\ \A k \in 1 .. n : F[k] = Join(F[k - 1], t[k])
  BY <1>1, <1>10 DEF Body
<1> QED
  BY <1>9, <1>13, <1>15 DEF Sums, D, R, n

(* The loop of scan *)
Scanned(s) ==
  LET New[i \in DOMAIN s] == IF i = 1 THEN s[1] ELSE Join(New[i - 1], s[i])
  IN  [i \in DOMAIN s |-> New[i]]

LEMMA ScannedSums ==
  ASSUME NEW s \in Seq(ArrayValues)
  PROVE  /\ Scanned(s) \in Seq(ArrayValues) /\ Len(Scanned(s)) = Len(s)
         /\ s = <<>> => Scanned(s) = <<>>
         /\ s # <<>> => Scanned(s) = [i \in DOMAIN s |-> AbstractArray!Joined(Tail(s), s[1])[i - 1]]
<1> DEFINE n == Len(s)
           D == DOMAIN s
           R == ArrayValues
           Body(g, i) == IF i = 1 THEN s[1] ELSE Join(g[i - 1], s[i])
           d == [i \in D |-> i]
           B == [g \in [D -> R] |-> [i \in D |-> Body(g, i)]]
<1>1. /\ n \in Nat /\ D = 1 .. n
      /\ \A i \in D : /\ i \in Nat /\ s[i] \in R
                      /\ i # 1 => i - 1 \in D /\ i - 1 < i
  OBVIOUS
<1>2. d \in [D -> Nat] /\ \A i \in D : d[i] = i
  BY <1>1
<1>14. (\A u, v \in R : Join(u, v) \in R)
  BY ArrayAssumption
<1>0. CASE s = <<>>
  <2>1. D = {}
    BY <1>0
  <2>2. Scanned(s) \in [{} -> R]
    BY <2>1 DEF Scanned
  <2>3. Scanned(s) = <<>>
    BY <2>2
  <2> QED
    BY <1>0, <2>3
<1>20. CASE s # <<>>
  <2>20. R # {} /\ 1 \in D
    BY <1>20
  <2> HIDE DEF d, D, R
  <2>3. ASSUME NEW g \in [D -> R], NEW i \in D PROVE Body(g, i) \in R
    BY <1>1, <1>14
  <2>4. ASSUME NEW g \in [D -> R], NEW f \in [D -> R], NEW i \in D, \A j \in D : d[j] < d[i] => g[j] = f[j]
        PROVE  Body(g, i) = Body(f, i)
    <3>1. i # 1 => g[i - 1] = f[i - 1]
      BY <1>1, <1>2, <2>4
    <3> QED
      BY <3>1
  <2> HIDE DEF Body
  <2>5. \A g \in [D -> R], i \in D : B[g][i] = Body(g, i)
    OBVIOUS
  <2> HIDE DEF B
  <2>6. Founded(D, R, d, B)
    <3>1. \A g \in [D -> R], i \in D : B[g][i] \in R
      BY <2>3, <2>5
    <3>2. \A g, f \in [D -> R], i \in D :
            (\A j \in D : d[j] < d[i] => g[j] = f[j]) => B[g][i] = B[f][i]
      BY <2>4, <2>5
    <3> QED
      BY <1>2, <2>20, <3>1, <3>2 DEF Founded
  <2>7. PICK f \in [D -> R] : f = [i \in D |-> Body(f, i)]
    <3>1. PICK f \in [D -> R] : \A i \in D : f[i] = B[f][i]
      BY <2>6, Recursion
    <3>2. f = [i \in D |-> Body(f, i)]
      BY <2>5, <3>1
    <3> QED
      BY <3>2
  <2> DEFINE F == CHOOSE fix : fix = [i \in D |-> Body(fix, i)]
  <2>8. F = [i \in D |-> Body(F, i)]
    BY <2>7
  <2>9. Scanned(s) = [i \in D |-> F[i]]
    BY DEF Scanned, Body, D
  <2> HIDE DEF F
  <2>10. \A i \in D : F[i] = Body(F, i)
    BY <2>8
  <2> DEFINE t == Tail(s)
             J == AbstractArray!Joined(t, s[1])
  <2>11. t \in Seq(R) /\ Len(t) = n - 1 /\ \A k \in 1 .. n - 1 : t[k] = s[k + 1]
    BY <1>20 DEF R
  <2>12. Sums(t, s[1], J)
    BY <1>1, <2>11, <2>20, JoinedSums DEF R
  <2> HIDE DEF J, n
  <2>13. /\ J \in [0 .. n - 1 -> R] /\ J[0] = s[1]
         /\ \A k \in 1 .. n - 1 : J[k] = Join(J[k - 1], s[k + 1])
    BY <2>11, <2>12 DEF Sums, R
  <2> DEFINE T == {i \in D : F[i] = J[i - 1] /\ F[i] \in R}
  <2>14. ASSUME NEW i \in D, \A j \in D : d[j] < d[i] => j \in T PROVE i \in T
    <3>1. CASE i = 1
      <4>1. F[i] = s[1] /\ J[i - 1] = s[1] /\ s[1] \in R
        BY <1>1, <2>10, <2>13, <2>20, <3>1 DEF Body
      <4> QED
        BY <4>1
    <3>2. CASE i # 1
      <4> DEFINE k == i - 1
      <4>1. k \in 1 .. n - 1 /\ k \in D /\ d[k] < d[i] /\ k + 1 = i
        BY <1>1, <1>2, <3>2
      <4>2. F[k] = J[k - 1] /\ F[k] \in R
        BY <2>14, <4>1
      <4>3. F[i] = Join(F[k], s[i])
        BY <2>10, <3>2 DEF Body
      <4>4. J[k] = Join(J[k - 1], s[i])
        BY <2>13, <4>1
      <4>5. F[i] \in R
        BY <1>1, <1>14, <4>2, <4>3
      <4> QED
        BY <4>2, <4>3, <4>4, <4>5
    <3> QED
      BY <3>1, <3>2
  <2> HIDE DEF T
  <2>15. D \subseteq T
    BY <1>2, <2>14, MeasureInduced
  <2>16. Scanned(s) = [i \in D |-> J[i - 1]]
    BY <2>9, <2>15 DEF T
  <2>17. Scanned(s) \in [1 .. n -> R]
    BY <1>1, <2>9, <2>15 DEF T
  <2>18. Scanned(s) \in Seq(R) /\ Len(Scanned(s)) = n
    BY <1>1, <2>17
  <2> QED
    BY <1>20, <2>16, <2>18 DEF J, D, R, n
<1> QED
  BY <1>0, <1>20

LEMMA ScanStep ==
  ASSUME NEW s, Block(array, s), Scan
  PROVE  Done
<1>1. SeenAs(s) /\ Contents(array) = s /\ s \in Seq(ArrayValues)
  BY BlockTypes, BlockSeen
<1> DEFINE t == Scanned(s)
<1>2. /\ t \in Seq(ArrayValues) /\ Len(t) = Len(s)
      /\ s = <<>> => t = <<>>
      /\ s # <<>> => t = [i \in DOMAIN s |-> AbstractArray!Joined(Tail(s), s[1])[i - 1]]
  BY <1>1, ScannedSums
<1>3. Change(WithContents(array, t), <<"scan">>)
  BY <1>1 DEF Scan, Scanned
<1> HIDE DEF t
<1>4. AbstractArray!Become(<<"scan">>, t) /\ ArrayOk(array')
  BY <1>2, <1>3, WithContentsStep
<1>5. CASE s = <<>>
  <2>1. AbstractArray!Become(<<"scan">>, <<>>)
    BY <1>2, <1>4, <1>5
  <2> QED
    BY <1>1, <1>4, <1>5, <2>1 DEF Done, AbstractArray!Call, SeenAs
<1>6. CASE s # <<>>
  <2>1. AbstractArray!Folds
    BY <1>1, <1>2, <1>4, <1>6 DEF AbstractArray!Folds, SeenAs
  <2> QED
    BY <1>1, <1>4, <1>6, <2>1 DEF Done, AbstractArray!Call, SeenAs
<1> QED
  BY <1>5, <1>6

LEMMA SetStep ==
  ASSUME NEW s, Block(array, s), NEW v \in ArrayValues, NEW i \in 0 .. array.size, Set(i, v)
  PROVE  Done
<1>1. SeenAs(s) /\ s \in Seq(ArrayValues) /\ array.size = Len(s) /\ i \in 0 .. Len(s) /\ Len(s) \in Nat
  BY BlockTypes, BlockSeen
<1>2. AbstractArray!Set(i, v) => AbstractArray!Call
  BY <1>1 DEF AbstractArray!Call, SeenAs
<1>3. CASE i >= Len(s)
  <2>1. Answer(<<"set", v, i>>, -1) /\ ~(i < Len(s))
    BY <1>1, <1>3 DEF Set
  <2>2. AbstractArray!Answer(<<"set", v, i>>, -1) /\ ArrayOk(array')
    BY <2>1, AnswerOk
  <2>3. AbstractArray!Set(i, v)
    BY <1>1, <2>1, <2>2 DEF AbstractArray!Set, SeenAs
  <2> QED
    BY <1>2, <2>2, <2>3 DEF Done
<1>4. CASE i < Len(s)
  <2> DEFINE c == [array EXCEPT !.mem[array.front + i + 1] = v]
             t == [s EXCEPT ![i + 1] = v]
  <2>1. array' = c /\ arrayReply' = ArrayReply(<<"set", v, i>>, 0) /\ i \in Nat
    BY <1>1, <1>4 DEF Set, Change
  <2>2. Block(c, t) /\ c.capacity = array.capacity /\ c.comp = array.comp /\ c.null = array.null
    BY <1>1, <1>4, <2>1, BlockSet
  <2>5. t = [s EXCEPT ![i + 1] = v]
    OBVIOUS
  <2> HIDE DEF c, t
  <2>3. Block(array', t) /\ SameSettings(array', array)
    BY <2>1, <2>2 DEF SameSettings
  <2>4. AbstractArray!Become(<<"set", v, i>>, t) /\ ArrayOk(array')
    BY <2>1, <2>3, BecomesSame, OkNext
  <2>6. AbstractArray!Set(i, v)
    BY <1>1, <1>4, <2>4, <2>5 DEF AbstractArray!Set, SeenAs
  <2> QED
    BY <1>2, <2>4, <2>6 DEF Done
<1> QED
  BY <1>1, <1>3, <1>4

-----------------------------------------------------------------------------
(* Calls that take and add entries *)

LEMMA Answered ==
  ASSUME NEW t, Block(array', t), NEW call, NEW result, arrayReply' = ArrayReply(call, result)
  PROVE  AbstractArray!Reply(call, result) /\ SeenAs(t)' /\ ArrayOk(array')
BY RepliesSame, BlockSeenNext, OkNext

LEMMA PopNothingStep ==
  ASSUME NEW s, Block(array, s), NEW c \in {"pop", "pop_first", "heappop"}, PopNothing(<<c>>)
  PROVE  Done
<1>1. SeenAs(s) /\ s \in Seq(ArrayValues) /\ array.size = Len(s)
  BY BlockTypes, BlockSeen
<1>2. s = <<>> /\ Answer(<<c>>, array.null)
  BY <1>1 DEF PopNothing
<1>3. AbstractArray!Answer(<<c>>, array.null) /\ ArrayOk(array')
  BY <1>2, AnswerOk
<1>4. AbstractArray!Pops
  BY <1>1, <1>2, <1>3 DEF AbstractArray!Pops, SeenAs
<1> QED
  BY <1>3, <1>4 DEF AbstractArray!Call, Done

LEMMA BlockEntry ==
  ASSUME NEW a, NEW s, Block(a, s), NEW i \in 1 .. Len(s)
  PROVE  a.mem[a.front + i] = s[i]
<1>1. /\ Holds(a.mem, a.front, s) /\ a.front \in Nat /\ Len(s) \in Nat
      /\ a.front + Len(s) <= Len(a.mem)
  BY BlockTypes DEF Block, Holds
<1>2. a.front + i \in 1 .. Len(a.mem) /\ (a.front + i) - a.front = i
  <2>1. Len(a.mem) \in Nat
    BY <1>1 DEF Holds
  <2> QED
    BY <1>1, <2>1
<1> QED
  BY <1>1, <1>2 DEF Holds

LEMMA PopStepDone ==
  ASSUME NEW s, Block(array, s), Pop
  PROVE  Done
<1>1. SeenAs(s) /\ s \in Seq(ArrayValues) /\ array.size = Len(s) /\ Len(s) \in Nat
  BY BlockTypes, BlockSeen
<1>2. CASE PopNothing(<<"pop">>)
  BY <1>2, PopNothingStep
<1>3. CASE /\ array.size > 0
           /\ array' = Shrunk([array.mem EXCEPT ![array.front + array.size] = JUNK])
           /\ arrayReply' = ArrayReply(<<"pop">>, array.mem[array.front + array.size])
  <2> DEFINE k == Len(s)
             t == SubSeq(s, 1, k - 1)
  <2>1. s # <<>> /\ k \in 1 .. Len(s)
    BY <1>1, <1>3
  <2>2. array.mem[array.front + array.size] = s[k]
    BY <1>1, <2>1, BlockEntry
  <2>3. Block(array', t) /\ SameSettings(array', array)
    BY <1>3, <2>1, BlockPopped DEF Shrunk, SameSettings
  <2>4. AbstractArray!Reply(<<"pop">>, s[k]) /\ SeenAs(t)' /\ ArrayOk(array')
    BY <1>3, <2>2, <2>3, RepliesSame, BlockSeenNext, OkNext
  <2>5. 1 + (k - 1) = k
    BY <1>1
  <2>6. /\ AbstractArray!Pop(<<"pop">>, t, k - 1)
        /\ UNCHANGED (IF array = NULL THEN 0 ELSE array.capacity)
    BY <1>1, <2>3, <2>4, <2>5 DEF AbstractArray!Pop, SeenAs, SameSettings
  <2>7. AbstractArray!Pops
    BY <1>1, <2>1, <2>6 DEF AbstractArray!Pops, SeenAs
  <2> QED
    BY <2>4, <2>7 DEF AbstractArray!Call, Done
<1> QED
  BY <1>2, <1>3 DEF Pop

LEMMA PopFirstStep ==
  ASSUME NEW s, Block(array, s), PopFirst
  PROVE  Done
<1>1. /\ SeenAs(s) /\ s \in Seq(ArrayValues) /\ array.size = Len(s) /\ Len(s) \in Nat
      /\ array \in ArrayStructs
  BY BlockTypes, BlockSeen
<1>2. CASE PopNothing(<<"pop_first">>)
  BY <1>2, PopNothingStep
<1>3. CASE /\ array.size > 0
           /\ array' = [Shrunk([array.mem EXCEPT ![array.front + 1] = JUNK])
                          EXCEPT !.capacity = @ - 1, !.front = @ + 1]
           /\ arrayReply' = ArrayReply(<<"pop_first">>, array.mem[array.front + 1])
  <2> DEFINE t == Tail(s)
  <2>8. PICK c : c = [array EXCEPT !.mem = [array.mem EXCEPT ![array.front + 1] = JUNK],
                                   !.size = @ - 1, !.capacity = @ - 1, !.front = @ + 1]
    OBVIOUS
  <2>1. s # <<>> /\ 1 \in 1 .. Len(s)
    BY <1>1, <1>3
  <2>2. array.mem[array.front + 1] = s[1]
    BY <2>1, BlockEntry
  <2>3. array' = c
    BY <1>1, <1>3, <2>8 DEF Shrunk, ArrayStructs
  <2>9. Block(c, t)
    BY <2>1, <2>8, BlockPoppedFirst
  <2>4. c.capacity = array.capacity - 1 /\ c.comp = array.comp /\ c.null = array.null
    BY <1>1, <2>8 DEF ArrayStructs
  <2>5. AbstractArray!Reply(<<"pop_first">>, s[1]) /\ SeenAs(t)' /\ ArrayOk(array')
    BY <1>3, <2>2, <2>3, <2>9, Answered
  <2>6. /\ AbstractArray!Pop(<<"pop_first">>, t, 0)
        /\ array'.capacity = array.capacity - 1
    BY <1>1, <2>3, <2>4, <2>5 DEF AbstractArray!Pop, SeenAs
  <2>7. AbstractArray!Pops
    BY <1>1, <2>1, <2>5, <2>6 DEF AbstractArray!Pops, SeenAs
  <2> QED
    BY <2>5, <2>7 DEF AbstractArray!Call, Done
<1> QED
  BY <1>2, <1>3 DEF PopFirst

LEMMA RoomAppended ==
  ASSUME NEW s, Block(array, s), NEW v \in ArrayValues, NEW a \in WithRoom(array),
         NEW c, c = Appended(a, v), NEW t, t = Append(s, v)
  PROVE  /\ Block(c, t) /\ c.capacity >= array.capacity
         /\ c.comp = array.comp /\ c.null = array.null
<1>1. /\ Block(a, s) /\ a.size < a.capacity /\ a.capacity >= array.capacity
      /\ a.comp = array.comp /\ a.null = array.null
  BY BlockWithRoom
<1>2. /\ Block(Appended(a, v), Append(s, v)) /\ Appended(a, v).capacity = a.capacity
      /\ Appended(a, v).comp = a.comp /\ Appended(a, v).null = a.null
  BY <1>1, BlockAppended
<1> QED
  BY <1>1, <1>2

LEMMA AppendStep ==
  ASSUME NEW s, Block(array, s), NEW v \in ArrayValues, Append1(v)
  PROVE  Done
<1>1. SeenAs(s) /\ s \in Seq(ArrayValues) /\ array.size = Len(s)
  BY BlockTypes, BlockSeen
<1>2. CASE array.size = array.capacity /\ Answer(<<"append", v>>, -1)
  <2>1. AbstractArray!Answer(<<"append", v>>, -1) /\ ArrayOk(array')
    BY <1>2, AnswerOk
  <2>2. AbstractArray!Append1(v)
    BY <1>1, <1>2, <2>1 DEF AbstractArray!Append1, SeenAs
  <2> QED
    BY <2>1, <2>2 DEF AbstractArray!Call, Done
<1>3. ASSUME NEW a \in WithRoom(array), Change(Appended(a, v), <<"append", v>>) PROVE Done
  <2> DEFINE t == Append(s, v)
  <2>1. array' = Appended(a, v) /\ arrayReply' = ArrayReply(<<"append", v>>, 0)
    BY <1>3 DEF Change
  <2>2. /\ Block(array', t) /\ array'.capacity >= array.capacity
        /\ array'.comp = array.comp /\ array'.null = array.null
    BY <2>1, RoomAppended
  <2>3. AbstractArray!Reply(<<"append", v>>, 0) /\ SeenAs(t)' /\ ArrayOk(array')
    BY <2>1, <2>2, RepliesSame, BlockSeenNext, OkNext
  <2>4. AbstractArray!Append1(v)
    BY <1>1, <2>2, <2>3 DEF AbstractArray!Append1, SeenAs
  <2> QED
    BY <2>3, <2>4 DEF AbstractArray!Call, Done
<1> QED
  BY <1>2, <1>3 DEF Append1

(* Other room for the same entries *)
LEMMA RoomStep ==
  ASSUME NEW s, Block(array, s), NEW c, Block(c, s), array' = c,
         c.capacity >= array.capacity, c.comp = array.comp, c.null = array.null,
         NEW n \in Indexes, NEW r, arrayReply' = ArrayReply(<<"reserve", n>>, r),
         \/ r = -1 /\ array.capacity < n
         \/ r = 0 /\ c.capacity >= n
  PROVE  Done
<1>1. SeenAs(s)
  BY BlockSeen
<1>2. AbstractArray!Reply(<<"reserve", n>>, r) /\ SeenAs(s)' /\ ArrayOk(array')
  BY RepliesSame, BlockSeenNext, OkNext
<1>3. AbstractArray!Reserve(n)
  BY <1>1, <1>2 DEF AbstractArray!Reserve, SeenAs
<1> QED
  BY <1>2, <1>3 DEF AbstractArray!Call, Done

LEMMA ReserveStep ==
  ASSUME NEW s, Block(array, s), NEW n \in Indexes, Reserve(n)
  PROVE  Done
<1> DEFINE slid == Slid(array)
           c == MovedTo(slid, n, n)
<1>1. /\ array.capacity \in Nat /\ array.front \in Nat /\ n \in Nat /\ MaxSlots \in Nat
      /\ array.capacity <= MaxSlots
  BY BlockTypes, ArrayAssumption DEF Indexes
<1>2. /\ Block(slid, s) /\ slid.capacity >= array.capacity /\ slid.front = 0
      /\ slid.capacity = array.capacity + array.front
      /\ slid.comp = array.comp /\ slid.null = array.null
  BY BlockSlid
<1>3. CASE n <= array.capacity /\ Answer(<<"reserve", n>>, 0)
  <2>1. array' = array /\ arrayReply' = ArrayReply(<<"reserve", n>>, 0) /\ array.capacity >= n
        /\ array.capacity >= array.capacity
    BY <1>1, <1>3 DEF Answer
  <2> QED
    BY <2>1, RoomStep
<1>4. CASE ~(n <= array.capacity) /\ Answer(<<"reserve", n>>, -1)
  <2>1. array' = array /\ arrayReply' = ArrayReply(<<"reserve", n>>, -1) /\ array.capacity < n
        /\ array.capacity >= array.capacity
    BY <1>1, <1>4 DEF Answer
  <2> QED
    BY <2>1, RoomStep
<1>5. CASE n <= slid.capacity /\ Change(slid, <<"reserve", n>>)
  <2>1. array' = slid /\ arrayReply' = ArrayReply(<<"reserve", n>>, 0) /\ slid.capacity >= n
    BY <1>1, <1>2, <1>5 DEF Change
  <2> HIDE DEF slid
  <2> QED
    BY <1>2, <2>1, RoomStep
<1>6. CASE ~(n <= array.capacity) /\ array' = slid /\ arrayReply' = ArrayReply(<<"reserve", n>>, -1)
  <2>1. array.capacity < n
    BY <1>1, <1>6
  <2> HIDE DEF slid
  <2> QED
    BY <1>2, <1>6, <2>1, RoomStep
<1>7. CASE ~(n <= slid.capacity) /\ ~(n > MaxSlots)
           /\ Change([slid EXCEPT !.mem = Moved(slid.mem, n), !.capacity = n], <<"reserve", n>>)
  <2>1. array' = c /\ arrayReply' = ArrayReply(<<"reserve", n>>, 0)
    BY <1>7 DEF Change, MovedTo
  <2>4. slid.capacity \in Nat /\ n <= MaxSlots /\ slid.capacity <= n /\ n >= array.capacity
    BY <1>1, <1>2, <1>7
  <2> HIDE DEF slid
  <2>2. slid.capacity <= n /\ slid.front + n <= MaxSlots /\ n = slid.front + n
    BY <1>1, <1>2, <2>4
  <2>3. Block(c, s) /\ c.capacity = n /\ c.comp = slid.comp /\ c.null = slid.null
    BY <1>1, <1>2, <2>2, BlockMoved
  <2> HIDE DEF c
  <2>5. c.capacity >= array.capacity /\ c.capacity >= n /\ c.comp = array.comp /\ c.null = array.null
    BY <1>1, <1>2, <2>3, <2>4
  <2> QED
    BY <2>1, <2>3, <2>5, RoomStep
<1> QED
  BY <1>3, <1>4, <1>5, <1>6, <1>7 DEF Reserve

-----------------------------------------------------------------------------
(* Heap calls *)

LEMMA SameCountsSameEntries ==
  ASSUME NEW s, NEW t, SameCounts(s, t)
  PROVE  AbstractArray!SameEntries(s, t)
<1>1. SameEntries(s, t)
  BY DEF SameCounts, Count, SameEntries
<1> QED
  BY <1>1, SameBag

LEMMA OrderOfBlock ==
  ASSUME NEW s, Block(array, s), array.comp # NULL
  PROVE  array.comp \in {1, -1} /\ Keyed(ArrayValues) /\ s \in Seq(ArrayValues)
BY BlockTypes, ArrayAssumption DEF Keyed

LEMMA HeapPushStep ==
  ASSUME NEW s, Block(array, s), NEW v \in ArrayValues, HeapPush(v)
  PROVE  Done
<1>1. SeenAs(s) /\ s \in Seq(ArrayValues) /\ array.size = Len(s) /\ Contents(array) = s
  BY BlockTypes, BlockSeen
<1>2. CASE (array.comp = NULL \/ array.size = array.capacity) /\ Answer(<<"heappush", v>>, -1)
  <2>1. AbstractArray!Answer(<<"heappush", v>>, -1) /\ ArrayOk(array')
    BY <1>2, AnswerOk
  <2>2. AbstractArray!HeapPush(v)
    BY <1>1, <1>2, <2>1 DEF AbstractArray!HeapPush, SeenAs
  <2> QED
    BY <2>1, <2>2 DEF AbstractArray!Call, Done
<1>3. ASSUME array.comp # NULL, NEW a \in WithRoom(array),
             Change(WithContents(Appended(a, v), SiftUp(array.comp, Contents(array), v)), <<"heappush", v>>)
      PROVE  Done
  <2>10. PICK o : o = array.comp
    OBVIOUS
  <2>13. PICK t : t = SiftUp(o, s, v)
    OBVIOUS
  <2>14. PICK b : b = Appended(a, v)
    OBVIOUS
  <2>15. PICK r : r = Append(s, v)
    OBVIOUS
  <2>1. o \in {1, -1} /\ Keyed(ArrayValues)
    BY <1>3, <2>10, OrderOfBlock
  <2>2. array' = WithContents(b, t) /\ arrayReply' = ArrayReply(<<"heappush", v>>, 0)
    BY <1>1, <1>3, <2>10, <2>13, <2>14 DEF Change
  <2>3. Block(b, r) /\ b.capacity >= array.capacity /\ b.comp = array.comp /\ b.null = array.null
    BY <2>14, <2>15, RoomAppended
  <2>4. t \in Seq(ArrayValues) /\ Added(t, s, v) /\ (IsHeap(o, s) => IsHeap(o, t))
    BY <1>1, <2>1, <2>13, SiftUpSound
  <2>5. Len(t) = Len(r)
    BY <1>1, <2>1, <2>13, <2>15, SiftUpSound
  <2>6. SameCounts(t, r)
    <3>1. Added(r, s, v)
      BY <1>1, <2>15, CountAppend
    <3> QED
      BY <2>4, <3>1 DEF Added, SameCounts
  <2>11. AbstractArray!SameEntries(t, Append(s, v))
    BY <2>6, <2>15, SameCountsSameEntries
  <2>7. /\ Block(array', t) /\ array'.capacity >= array.capacity
        /\ array'.comp = array.comp /\ array'.null = array.null
    BY <2>2, <2>3, <2>4, <2>5, BlockWith
  <2>8. AbstractArray!Reply(<<"heappush", v>>, 0) /\ SeenAs(t)' /\ ArrayOk(array')
    BY <2>2, <2>7, Answered
  <2>12. AbstractArray!IsHeap(o, s) => AbstractArray!IsHeap(o, t)
    BY <2>4, SameHeap
  <2>9. AbstractArray!HeapPush(v)
    BY <1>1, <2>7, <2>8, <2>10, <2>11, <2>12 DEF AbstractArray!HeapPush, SeenAs
  <2> QED
    BY <2>8, <2>9 DEF AbstractArray!Call, Done
<1> QED
  BY <1>2, <1>3 DEF HeapPush

LEMMA HeapPopStep ==
  ASSUME NEW s, Block(array, s), HeapPop
  PROVE  Done
<1>1. /\ SeenAs(s) /\ s \in Seq(ArrayValues) /\ array.size = Len(s) /\ Contents(array) = s
      /\ Len(s) \in Nat /\ array \in ArrayStructs
  BY BlockTypes, BlockSeen
<1>2. CASE PopNothing(<<"heappop">>)
  BY <1>2, PopNothingStep
<1>3. CASE /\ array.size > 0 /\ array.comp # NULL
           /\ array' = Shrunk(Filled(array.mem, array.front, WithoutTop(array.comp, Contents(array))))
           /\ arrayReply' = ArrayReply(<<"heappop">>, Contents(array)[1])
  <2>10. PICK o : o = array.comp
    OBVIOUS
  <2>13. PICK t : t = WithoutTop(o, s)
    OBVIOUS
  <2>15. PICK c : c = [array EXCEPT !.mem = Filled(array.mem, array.front, t), !.size = Len(t)]
    OBVIOUS
  <2>16. PICK r : r = Append(t, s[1])
    OBVIOUS
  <2>1. o \in {1, -1} /\ Keyed(ArrayValues) /\ s # <<>> /\ s[1] \in ArrayValues
    BY <1>1, <1>3, <2>10, OrderOfBlock
  <2>4. /\ t \in Seq(ArrayValues) /\ Len(t) = Len(s) - 1 /\ Added(s, t, s[1])
        /\ IsHeap(o, s) => IsHeap(o, t)
    BY <1>1, <2>1, <2>13, WithoutTopSound
  <2>3. array' = [array EXCEPT !.mem = Filled(array.mem, array.front, t), !.size = @ - 1]
    BY <1>1, <1>3, <2>10, <2>13 DEF Shrunk
  <2>2. array' = c
    BY <1>1, <2>3, <2>4, <2>15 DEF ArrayStructs
  <2>5. Len(t) <= array.capacity
    <3>1. array.size <= array.capacity /\ array.capacity \in Nat
      BY BlockTypes
    <3> QED
      BY <1>1, <2>4, <3>1
  <2>6. Block(c, t)
    BY <2>4, <2>5, <2>15, BlockFilled
  <2>7. c.capacity = array.capacity /\ c.comp = array.comp /\ c.null = array.null
    BY <1>1, <2>15 DEF ArrayStructs
  <2>11. AbstractArray!SameEntries(s, Append(t, s[1]))
    <3>1. Added(r, t, s[1])
      BY <2>1, <2>4, <2>16, CountAppend
    <3>2. SameCounts(s, r)
      BY <2>4, <3>1 DEF Added, SameCounts
    <3> QED
      BY <2>16, <3>2, SameCountsSameEntries
  <2>8. AbstractArray!Reply(<<"heappop">>, s[1]) /\ SeenAs(t)' /\ ArrayOk(array')
    BY <1>1, <1>3, <2>2, <2>6, Answered
  <2>12. AbstractArray!IsHeap(o, s) => AbstractArray!IsHeap(o, t)
    BY <2>4, SameHeap
  <2>14. AbstractArray!Pop(<<"heappop">>, t, 0)
    BY <1>1, <2>2, <2>7, <2>8 DEF AbstractArray!Pop, SeenAs
  <2>9. AbstractArray!Pops
    BY <1>1, <2>1, <2>2, <2>7, <2>8, <2>10, <2>11, <2>12, <2>14 DEF AbstractArray!Pops, SeenAs
  <2> QED
    BY <2>8, <2>9 DEF AbstractArray!Call, Done
<1> QED
  BY <1>2, <1>3 DEF HeapPop

LEMMA HeapifyStep ==
  ASSUME NEW s, Block(array, s), Heapify
  PROVE  Done
<1>1. SeenAs(s) /\ s \in Seq(ArrayValues) /\ Contents(array) = s
  BY BlockTypes, BlockSeen
<1>2. CASE array.comp = NULL
  <2>1. AbstractArray!Answer(<<"heapify">>, -1) /\ ArrayOk(array')
    BY <1>2, AnswerOk DEF Heapify
  <2>2. AbstractArray!Heapify
    BY <1>1, <1>2, <2>1 DEF AbstractArray!Heapify, SeenAs
  <2> QED
    BY <2>1, <2>2 DEF AbstractArray!Call, Done
<1>3. CASE array.comp # NULL
  <2> DEFINE o == array.comp
             t == Heapified(o, s)
  <2>1. o \in {1, -1} /\ Keyed(ArrayValues)
    BY <1>3, OrderOfBlock
  <2>2. Change(WithContents(array, t), <<"heapify">>)
    BY <1>1, <1>3 DEF Heapify
  <2>3. o = array.comp
    OBVIOUS
  <2> HIDE DEF o
  <2>4. t \in Seq(ArrayValues) /\ Len(t) = Len(s) /\ SameCounts(t, s) /\ IsHeap(o, t)
    BY <1>1, <2>1, HeapifiedSound
  <2> HIDE DEF t
  <2>5. AbstractArray!Become(<<"heapify">>, t) /\ ArrayOk(array')
    BY <2>2, <2>4, WithContentsStep
  <2>6. AbstractArray!SameEntries(s, t)
    <3>1. SameCounts(s, t)
      BY <2>4 DEF SameCounts
    <3> QED
      BY <3>1, SameCountsSameEntries
  <2>7. AbstractArray!IsHeap(o, t)
    BY <2>4, SameHeap
  <2>8. AbstractArray!Heapify
    BY <1>1, <2>3, <2>5, <2>6, <2>7 DEF AbstractArray!Heapify, AbstractArray!Become, SeenAs
  <2> QED
    BY <2>5, <2>8 DEF AbstractArray!Call, Done
<1> QED
  BY <1>2, <1>3

-----------------------------------------------------------------------------
(* New arrays *)

LEMMA BlockEmpty ==
  ASSUME NEW n \in Nat, n <= MaxSlots
  PROVE  Block(Alloc(n, 0), <<>>)
<1>1. Slots(n) \in Nat /\ n <= Slots(n)
  BY DEF Slots
<1>2. PICK k \in Nat : k = Slots(n) /\ n <= k
  BY <1>1
<1>3. Room(k) \in Seq(Cells) /\ Len(Room(k)) = k
  BY <1>2, HoldsNothing
<1>4. Alloc(n, 0) = [mem |-> Room(k), front |-> 0, size |-> 0, capacity |-> n, comp |-> NULL,
                     null |-> NULL]
  BY <1>2 DEF Alloc
<1>5. Holds(Room(k), 0, <<>>)
  <2>1. \A i \in 1 .. k : Room(k)[i] = JUNK
    BY DEF Room
  <2> QED
    BY <1>2, <1>3, <2>1 DEF Holds
<1>6. Alloc(n, 0) \in ArrayStructs
  BY <1>3, <1>4 DEF ArrayStructs, Cells
<1> QED
  BY <1>2, <1>3, <1>4, <1>5, <1>6, ArrayAssumption DEF Block

LEMMA BlockMade ==
  ASSUME NEW n \in Nat, n <= MaxSlots, NEW s \in Seq(ArrayValues), NEW k, k = Len(s), k <= n,
         NEW c, c = WithContents(Alloc(n, k), s)
  PROVE  Block(c, s) /\ c.capacity = n
BY BlockAlloc

LEMMA NewStep ==
  ASSUME array = NULL, NEW s, NEW c, Block(c, s), NEW call, NewArray(call, SetDefaults(c))
  PROVE  AbstractArray!New(call, s) /\ ArrayOk(array')
<1>1. arrayReply' = ArrayReply(call, array' # NULL)
  BY DEF NewArray
<1>2. CASE array' = NULL
  <2>1. (array' # NULL) = FALSE
    BY <1>2
  <2>2. array' = array /\ arrayReply' = ArrayReply(call, FALSE)
    BY <1>1, <1>2, <2>1
  <2>3. AbstractArray!Answer(call, FALSE)
    BY <2>2, AnswersSame
  <2> QED
    BY <1>2, <2>3 DEF AbstractArray!New, ArrayOk
<1>3. CASE array' = SetDefaults(c)
  <2>1. c \in ArrayStructs /\ ArrayOrder \in {1, -1, NULL} /\ ArrayNull \in ArrayValues \cup {NULL}
    BY BlockTypes, ArrayAssumption
  <2>2. Block([c EXCEPT !.comp = ArrayOrder, !.null = ArrayNull], s)
    BY <2>1, BlockSettings
  <2>3. Block(array', s)
    BY <1>3, <2>2 DEF SetDefaults
  <2>4. /\ array' # NULL /\ array'.capacity \in Nat /\ Len(s) \in Nat
        /\ array'.capacity >= Len(s) /\ array'.comp \in {1, -1, NULL}
        /\ array'.null \in ArrayValues \cup {NULL}
    BY <2>3, BlockTypes
  <2>5. (array' # NULL) = TRUE
    BY <2>4
  <2>6. arrayReply' = ArrayReply(call, TRUE)
    BY <1>1, <2>5
  <2>7. AbstractArray!Reply(call, TRUE) /\ SeenAs(s)' /\ ArrayOk(array')
    BY <2>3, <2>6, Answered
  <2> QED
    BY <2>4, <2>7 DEF AbstractArray!New, SeenAs
<1> QED
  BY <1>2, <1>3 DEF NewArray

LEMMA InitStep ==
  ASSUME array = NULL, InitArray
  PROVE  AbstractArray!New(<<"init">>, <<>>) /\ ArrayOk(array')
<1>1. PICK c : c = Alloc(MinCapacity, 0)
  OBVIOUS
<1>2. Block(c, <<>>)
  BY <1>1, BlockEmpty, ArrayAssumption
<1>3. NewArray(<<"init">>, SetDefaults(c))
  BY <1>1 DEF InitArray
<1> QED
  BY <1>2, <1>3, NewStep

LEMMA Init2Step ==
  ASSUME array = NULL, NEW n \in Indexes, NEW v \in ArrayValues, Init2(n, v)
  PROVE  AbstractArray!New(<<"init2", n, v>>, [i \in 1 .. n |-> v]) /\ ArrayOk(array')
<1>1. PICK s : s = [i \in 1 .. n |-> v]
  OBVIOUS
<1>2. n \in Nat /\ MaxSlots \in Nat
  BY ArrayAssumption DEF Indexes
<1>3. s \in Seq(ArrayValues) /\ Len(s) = n
  <2>1. s \in [1 .. n -> ArrayValues]
    BY <1>1
  <2> QED
    BY <1>2, <2>1
<1>4. CASE n > MaxSlots
  <2>1. array' = array /\ arrayReply' = ArrayReply(<<"init2", n, v>>, FALSE)
    BY <1>4 DEF Init2, Answer
  <2>2. AbstractArray!Answer(<<"init2", n, v>>, FALSE)
    BY <2>1, AnswersSame
  <2> QED
    BY <2>1, <2>2 DEF AbstractArray!New, ArrayOk
<1>5. CASE ~(n > MaxSlots)
  <2>1. PICK c : c = WithContents(Alloc(n, n), s)
    OBVIOUS
  <2>2. Block(c, s)
    BY <1>2, <1>3, <1>5, <2>1, BlockMade
  <2>3. NewArray(<<"init2", n, v>>, SetDefaults(c))
    BY <1>1, <1>5, <2>1 DEF Init2
  <2>4. AbstractArray!New(<<"init2", n, v>>, s) /\ ArrayOk(array')
    BY <2>2, <2>3, NewStep
  <2> QED
    BY <1>1, <2>4
<1> QED
  BY <1>4, <1>5

LEMMA DeserializeStep ==
  ASSUME array = NULL, file # NULL => file \in Files, Deserialize
  PROVE  /\ AbstractArray!Deserialize /\ ArrayOk(array')
         /\ file = NULL => array' = NULL
<1>1. CASE Answer(<<"deserialize">>, FALSE)
  <2>1. array' = array /\ arrayReply' = ArrayReply(<<"deserialize">>, FALSE)
    BY <1>1 DEF Answer
  <2>2. AbstractArray!Answer(<<"deserialize">>, FALSE)
    BY <2>1, AnswersSame
  <2> QED
    BY <2>1, <2>2 DEF AbstractArray!Deserialize, AbstractArray!New, ArrayOk
<1>2. ASSUME file # NULL, Intact
      PROVE  file.crc # NULL /\ file.crc \in Seq(ArrayValues) /\ file.size = Len(file.crc)
             /\ file.size \in Nat /\ file.size <= MaxSlots
             /\ SubSeq(file.data, 1, file.size) = file.crc
  <2>1. /\ file.size \in Nat /\ file.data \in Seq(ArrayValues) /\ file.crc \in Seq(ArrayValues)
        /\ file.size <= MaxSlots /\ file.size <= Len(file.data)
        /\ SubSeq(file.data, 1, file.size) = file.crc
    BY <1>2 DEF Files, Intact
  <2>2. Len(SubSeq(file.data, 1, file.size)) = file.size
    BY <2>1
  <2> QED
    BY <2>1, <2>2, ArrayAssumption
<1>3. ASSUME file # NULL, Intact,
             NEW n, n = (IF file.size = 0 THEN MinCapacity ELSE file.size),
             array' = SetDefaults(WithContents(Alloc(n, file.size), file.crc)),
             arrayReply' = ArrayReply(<<"deserialize">>, TRUE)
      PROVE  AbstractArray!Deserialize /\ ArrayOk(array')
  <2>1. PICK s : s = file.crc
    OBVIOUS
  <2>2. /\ s # NULL /\ s \in Seq(ArrayValues) /\ file.size = Len(s) /\ Len(s) \in Nat
        /\ Len(s) <= MaxSlots
    BY <1>2, <1>3, <2>1
  <2>3. n \in Nat /\ n <= MaxSlots /\ Len(s) <= n
    BY <1>3, <2>2, ArrayAssumption
  <2>4. PICK c : c = WithContents(Alloc(n, file.size), s)
    OBVIOUS
  <2>5. Block(c, s)
    BY <2>2, <2>3, <2>4, BlockMade
  <2>6. array' = SetDefaults(c)
    BY <1>3, <2>1, <2>4
  <2>7. array' # NULL
    <3>1. ArrayOrder \in {1, -1, NULL} /\ ArrayNull \in ArrayValues \cup {NULL}
      BY ArrayAssumption
    <3>2. Block([c EXCEPT !.comp = ArrayOrder, !.null = ArrayNull], s)
      BY <2>5, <3>1, BlockSettings
    <3>3. Block(array', s)
      BY <2>6, <3>2 DEF SetDefaults
    <3> QED
      BY <3>3, BlockTypes
  <2>8. (array' # NULL) = TRUE
    BY <2>7
  <2>9. NewArray(<<"deserialize">>, SetDefaults(c))
    BY <1>3, <2>6, <2>8 DEF NewArray
  <2>10. AbstractArray!New(<<"deserialize">>, s) /\ ArrayOk(array')
    BY <2>5, <2>9, NewStep
  <2> QED
    BY <1>3, <2>1, <2>2, <2>10 DEF AbstractArray!Deserialize
<1>4. ASSUME file # NULL, Intact,
             array' = SetDefaults(WithContents(IF file.size = 0 THEN Alloc(MinCapacity, 0)
                                               ELSE Alloc(file.size, file.size),
                                               SubSeq(file.data, 1, file.size))),
             arrayReply' = ArrayReply(<<"deserialize">>, TRUE)
      PROVE  AbstractArray!Deserialize /\ ArrayOk(array')
  <2>1. SubSeq(file.data, 1, file.size) = file.crc
    BY <1>2, <1>4
  <2>2. CASE file.size = 0
    <3>1. array' = SetDefaults(WithContents(Alloc(MinCapacity, file.size), file.crc))
      BY <1>4, <2>1, <2>2
    <3> QED
      BY <1>3, <1>4, <2>2, <3>1
  <2>3. CASE file.size # 0
    <3>1. array' = SetDefaults(WithContents(Alloc(file.size, file.size), file.crc))
      BY <1>4, <2>1, <2>3
    <3> QED
      BY <1>3, <1>4, <2>3, <3>1
  <2> QED
    BY <2>2, <2>3
<1> QED
  BY <1>1, <1>4 DEF Deserialize

-----------------------------------------------------------------------------
(* Slices and files *)

LEMMA Settings ==
  ASSUME NEW f, NEW k, NEW o, NEW v, NEW p, NEW q, NEW b, NEW d,
         b = [mem |-> f, front |-> 0, size |-> k, capacity |-> k, comp |-> p, null |-> q],
         d = [b EXCEPT !.comp = o, !.null = v]
  PROVE  /\ d = [mem |-> f, front |-> 0, size |-> k, capacity |-> k, comp |-> o, null |-> v]
         /\ d.comp = o /\ d.null = v
OBVIOUS

LEMMA BlockSliced ==
  ASSUME NEW s, Block(array, s), NEW k \in Nat, k <= MaxSlots,
         NEW t \in Seq(ArrayValues), Len(t) = k,
         NEW c, c = WithContents([Alloc(k, k) EXCEPT !.comp = array.comp, !.null = array.null], t)
  PROVE  Block(c, t) /\ c.comp = array.comp /\ c.null = array.null
<1>1. PICK b : b = WithContents(Alloc(k, k), t)
  OBVIOUS
<1>2. Block(b, t)
  BY <1>1, BlockMade
<1>11. PICK o : o = array.comp
  OBVIOUS
<1>12. PICK v : v = array.null
  OBVIOUS
<1>3. PICK d : d = [b EXCEPT !.comp = o, !.null = v]
  OBVIOUS
<1>4. o \in {1, -1, NULL} /\ v \in ArrayValues \cup {NULL}
  BY <1>11, <1>12, BlockTypes
<1>5. Block(d, t)
  <2>1. Block([b EXCEPT !.comp = o, !.null = v], t)
    BY <1>2, <1>4, BlockSettings
  <2> QED
    BY <1>3, <2>1
<1>6. PICK m : m = Room(Slots(k))
  OBVIOUS
<1>7. PICK f : f = Filled(m, 0, t)
  OBVIOUS
<1>8. b = [mem |-> f, front |-> 0, size |-> k, capacity |-> k, comp |-> NULL, null |-> NULL]
  BY <1>1, <1>6, <1>7 DEF WithContents, Alloc
<1>9. c = [mem |-> f, front |-> 0, size |-> k, capacity |-> k, comp |-> o, null |-> v]
  BY <1>6, <1>7, <1>11, <1>12 DEF WithContents, Alloc
<1>10. /\ d = [mem |-> f, front |-> 0, size |-> k, capacity |-> k, comp |-> o, null |-> v]
       /\ d.comp = o /\ d.null = v
  BY <1>3, <1>8, Settings
<1>13. d = c
  BY <1>9, <1>10
<1> QED
  BY <1>5, <1>10, <1>11, <1>12, <1>13

LEMMA FunctionSequence ==
  ASSUME NEW S, NEW k \in Nat, NEW t \in [1 .. k -> S]
  PROVE  t \in Seq(S) /\ Len(t) = k
OBVIOUS

LEMMA SequenceFunction ==
  ASSUME NEW S, NEW r \in Seq(S)
  PROVE  r \in [1 .. Len(r) -> S]
OBVIOUS

(* r is the k entries of s after the first left. *)
SliceFrom(S, s, left, k, r) == r \in [1 .. k -> S] /\ \A i \in 1 .. k : r[i] = s[left + i]

(* t is the same, converted if f. *)
ConvertedFrom(s, left, k, f, t) ==
  /\ t \in [1 .. k -> ArrayValues]
  /\ t = [i \in 1 .. k |-> IF f THEN Convert(s[left + i]) ELSE s[left + i]]

LEMMA SliceOf ==
  ASSUME NEW S, NEW s \in Seq(S), NEW left \in Nat, NEW right \in Nat,
         NEW k \in Nat, k = right - left, right <= Len(s),
         NEW r, r = SubSeq(s, left + 1, right)
  PROVE  SliceFrom(S, s, left, k, r)
<1>1. r \in Seq(S) /\ Len(r) = k /\ \A i \in 1 .. k : r[i] = s[left + i]
  <2>1. /\ Len(s) \in Nat /\ (left + 1) \in 1 .. Len(s) + 1 /\ right \in left .. Len(s)
        /\ right - (left + 1) + 1 = k
    OBVIOUS
  <2>2. r \in Seq(S)
    OBVIOUS
  <2>3. Len(r) = k
    OBVIOUS
  <2>4. \A i \in 1 .. k : r[i] = s[left + i]
    OBVIOUS
  <2> QED
    BY <2>2, <2>3, <2>4
<1>2. DOMAIN r = 1 .. k
  BY <1>1
<1>3. \A i \in 1 .. k : r[i] \in S
  BY <1>1
<1>4. r \in [1 .. k -> S]
  <2>1. r \in [1 .. Len(r) -> S]
    BY <1>1, SequenceFunction
  <2> QED
    BY <1>1, <2>1
<1> QED
  BY <1>1, <1>4 DEF SliceFrom

LEMMA SlicedEntries ==
  ASSUME NEW s \in Seq(ArrayValues), NEW left \in Nat, NEW right \in Nat,
         NEW k \in Nat, k = right - left, right <= Len(s), NEW f \in BOOLEAN,
         NEW r, SliceFrom(ArrayValues, s, left, k, r),
         NEW t, t = (IF f THEN [i \in DOMAIN r |-> Convert(r[i])] ELSE r)
  PROVE  ConvertedFrom(s, left, k, f, t)
<1>0. r \in [1 .. k -> ArrayValues] /\ \A i \in 1 .. k : r[i] = s[left + i]
  BY DEF SliceFrom
<1>1. CASE f
  <2>1. t = [i \in 1 .. k |-> Convert(r[i])]
    BY <1>0, <1>1
  <2>2. \A i \in 1 .. k : Convert(r[i]) \in ArrayValues
    BY <1>0, ArrayAssumption
  <2> QED
    BY <1>0, <1>1, <2>1, <2>2 DEF ConvertedFrom
<1>2. CASE ~f
  BY <1>0, <1>2 DEF ConvertedFrom
<1> QED
  BY <1>1, <1>2

LEMMA DeepSliceStep ==
  ASSUME NEW s, Block(array, s), NEW left \in 0 .. array.size + 1,
         NEW right \in 0 .. array.size + 1, NEW f \in BOOLEAN, DeepSlice(left, right, f)
  PROVE  Done
<1>1. /\ SeenAs(s) /\ s \in Seq(ArrayValues) /\ Contents(array) = s /\ array.size = Len(s)
      /\ Len(s) \in Nat /\ array.size <= array.capacity /\ array.capacity <= MaxSlots
      /\ array.capacity \in Nat /\ MaxSlots \in Nat
  BY BlockTypes, BlockSeen, ArrayAssumption
<1>2. PICK call : call = <<"deep_slice", left, right, f>>
  OBVIOUS
<1>3. AbstractArray!DeepSlice(left, right, f) => AbstractArray!Call
  BY <1>1 DEF AbstractArray!Call, SeenAs
<1>4. CASE Answer(call, NULL)
  <2>1. AbstractArray!Answer(call, NULL) /\ ArrayOk(array')
    BY <1>4, AnswerOk
  <2>2. AbstractArray!DeepSlice(left, right, f)
    BY <1>2, <2>1 DEF AbstractArray!DeepSlice
  <2> QED
    BY <1>3, <2>1, <2>2 DEF Done
<1>5. ASSUME left <= right, right <= Len(s),
             array' \in {array, Sliced(left, right, f)},
             arrayReply' = ArrayReply(call, Contents(Sliced(left, right, f)))
      PROVE  Done
  <2>0. left \in Nat /\ right \in Nat
    OBVIOUS
  <2>1. PICK k \in Nat : k = right - left
    BY <1>5, <2>0
  <2>2. PICK r : r = SubSeq(s, left + 1, right)
    OBVIOUS
  <2>3. PICK t : t = IF f THEN [i \in DOMAIN r |-> Convert(r[i])] ELSE r
    OBVIOUS
  <2>4. /\ t \in Seq(ArrayValues) /\ Len(t) = k
        /\ t = [i \in 1 .. k |-> IF f THEN Convert(s[left + i]) ELSE s[left + i]]
    <3>1. right <= Len(s)
      BY <1>5
    <3>2. SliceFrom(ArrayValues, s, left, k, r)
      BY <1>1, <2>0, <2>1, <2>2, <3>1, SliceOf
    <3>3. ConvertedFrom(s, left, k, f, t)
      BY <1>1, <2>0, <2>1, <2>3, <3>1, <3>2, SlicedEntries
    <3>4. t \in Seq(ArrayValues) /\ Len(t) = k
      BY <3>3, FunctionSequence DEF ConvertedFrom
    <3> QED
      BY <3>3, <3>4 DEF ConvertedFrom
  <2>14. t = [i \in 1 .. right - left |-> IF f THEN Convert(s[left + i]) ELSE s[left + i]]
    BY <2>1, <2>4
  <2>5. PICK c : c = Sliced(left, right, f)
    OBVIOUS
  <2>6. c = WithContents([Alloc(k, k) EXCEPT !.comp = array.comp, !.null = array.null], t)
    BY <1>1, <2>1, <2>2, <2>3, <2>5 DEF Sliced
  <2>7. k <= MaxSlots /\ Len(t) = k
    BY <1>1, <1>5, <2>0, <2>1, <2>4
  <2>8. Block(c, t) /\ c.comp = array.comp /\ c.null = array.null
    BY <2>4, <2>6, <2>7, BlockSliced
  <2>9. Contents(c) = t
    BY <2>8, BlockTypes
  <2>10. arrayReply' = ArrayReply(call, t)
    BY <1>5, <2>5, <2>9
  <2>11. AbstractArray!Reply(call, t)
    BY <2>10, RepliesSame
  <2>12. CASE array' = array
    <3>1. AbstractArray!DeepSlice(left, right, f)
      BY <1>1, <1>2, <1>5, <2>14, <2>11, <2>12 DEF AbstractArray!DeepSlice, SeenAs
    <3>2. ArrayOk(array')
      BY <2>12 DEF ArrayOk
    <3> QED
      BY <1>3, <3>1, <3>2 DEF Done
  <2>13. CASE array' = c
    <3>1. SeenAs(t)' /\ ArrayOk(array')
      BY <2>8, <2>10, <2>13, Answered
    <3>2. /\ array'.capacity >= Len(t) /\ array'.comp = array.comp /\ array'.null = array.null
      <4>1. c.size = Len(t) /\ c.size <= c.capacity /\ c.capacity \in Nat /\ Len(t) \in Nat
        BY <2>8, BlockTypes
      <4> QED
        BY <2>8, <2>13, <4>1
    <3>3. AbstractArray!DeepSlice(left, right, f)
      BY <1>1, <1>2, <1>5, <2>14, <2>11, <3>1, <3>2 DEF AbstractArray!DeepSlice, SeenAs
    <3> QED
      BY <1>3, <3>1, <3>3 DEF Done
  <2> QED
    BY <1>5, <2>5, <2>12, <2>13
<1>6. right < left \/ right > array.size \/ (left <= right /\ right <= Len(s))
  BY <1>1
<1> QED
  BY <1>2, <1>4, <1>5, <1>6 DEF DeepSlice

LEMMA WrittenFile ==
  ASSUME NEW s, Block(array, s), NEW header \in BOOLEAN, NEW n \in 0 .. array.size
  PROVE  /\ Written(header, n) \in Files /\ Written(header, n).crc = s
         /\ Written(header, n) # NULL
<1>1. /\ s \in Seq(ArrayValues) /\ Contents(array) = s /\ array.size = Len(s) /\ Len(s) \in Nat
  BY BlockTypes
<1>2. SubSeq(s, 1, n) \in Seq(ArrayValues)
  BY <1>1
<1>3. Written(header, n) \in Files /\ Written(header, n).crc = s
  BY <1>1, <1>2 DEF Written, Files
<1> QED
  BY <1>3, ArrayAssumption

LEMMA SerializeStep ==
  ASSUME NEW s, Block(array, s), ArrayInv, Serialize
  PROVE  AbstractArray!Serialize /\ ArrayInv'
<1>1. SeenAs(s) /\ array' = array /\ s # NULL /\ array.size \in Nat
  BY BlockTypes, BlockSeen DEF Serialize
<1>2. ArrayOk(array)'
  BY <1>1 DEF ArrayInv, ArrayOk
<1>3. CASE UNCHANGED file /\ arrayReply' = ArrayReply(<<"serialize">>, -1)
  <2>1. AbstractArray!Serialize
    BY <1>1, <1>3 DEF AbstractArray!Serialize, ArrayReply
  <2> QED
    BY <1>2, <1>3, <2>1 DEF ArrayInv
<1>4. ASSUME NEW header \in BOOLEAN, NEW n \in 0 .. array.size, file' = Written(header, n),
             \/ arrayReply' = ArrayReply(<<"serialize">>, -1)
             \/ arrayReply' = ArrayReply(<<"serialize">>, 0)
      PROVE  AbstractArray!Serialize /\ ArrayInv'
  <2>1. file' \in Files /\ file'.crc = s /\ file' # NULL
    BY <1>4, WrittenFile
  <2>2. AbstractArray!Serialize
    BY <1>1, <1>4, <2>1 DEF AbstractArray!Serialize, ArrayReply, SeenAs
  <2> QED
    BY <1>2, <2>1, <2>2 DEF ArrayInv
<1>5. array.size \in 0 .. array.size /\ 0 \in 0 .. array.size
  BY <1>1
<1> QED
  BY <1>3, <1>4, <1>5 DEF Serialize

LEMMA DamageStep ==
  ASSUME ArrayInv, Damage
  PROVE  ArrayInv' /\ UNCHANGED AbstractArray!vars
<1>1. file \in Files /\ file # NULL /\ array' = array /\ arrayReply' = arrayReply
  BY DEF ArrayInv, Damage
<1>2. file' \in Files /\ file'.crc = file.crc
  <2>1. ASSUME NEW n \in 0 .. MaxSlots + 1, file' = [file EXCEPT !.size = n]
        PROVE  file' \in Files /\ file'.crc = file.crc
    <3>1. n \in Nat
      BY ArrayAssumption
    <3> QED
      BY <1>1, <2>1, <3>1 DEF Files
  <2>2. ASSUME NEW i \in DOMAIN file.data, NEW v \in ArrayValues,
               file' = [file EXCEPT !.data[i] = v]
        PROVE  file' \in Files /\ file'.crc = file.crc
    <3>1. file.data \in Seq(ArrayValues)
      BY <1>1 DEF Files
    <3>2. [file.data EXCEPT ![i] = v] \in Seq(ArrayValues)
      BY <3>1
    <3>3. file' = [file EXCEPT !.data = [file.data EXCEPT ![i] = v]]
      BY <2>2
    <3> QED
      BY <1>1, <3>2, <3>3 DEF Files
  <2> QED
    BY <2>1, <2>2 DEF Damage
<1>3. file' # NULL
  BY <1>2, ArrayAssumption
<1>4. ArrayInv'
  BY <1>1, <1>2 DEF ArrayInv, ArrayOk
<1>5. UNCHANGED AbstractArray!vars
  BY <1>1, <1>2, <1>3 DEF AbstractArray!vars, Contents
<1> QED
  BY <1>4, <1>5

-----------------------------------------------------------------------------
(* The array as a sequence *)

LEMMA BlockEntries ==
  ASSUME NEW s, Block(array, s)
  PROVE  EntriesInBlock
<1>1. /\ array.size = Len(s) /\ Len(s) \in Nat /\ array.front \in Nat
      /\ array.size <= array.capacity /\ array.capacity <= MaxSlots
      /\ array.front + array.capacity <= Len(array.mem)
  BY BlockTypes
<1>2. /\ array.mem \in Seq(Cells) /\ s \in Seq(ArrayValues)
      /\ \A i \in 1 .. Len(array.mem) : array.mem[i] =
           IF i - array.front \in 1 .. Len(s) THEN s[i - array.front] ELSE JUNK
  BY DEF Block, Holds
<1>3. ASSUME NEW i \in DOMAIN array.mem
      PROVE  (array.mem[i] = JUNK) <=> i \notin array.front + 1 .. array.front + array.size
  <2>1. i \in 1 .. Len(array.mem) /\ i \in Int
    BY <1>2
  <2>2. CASE i - array.front \in 1 .. Len(s)
    <3>1. s[i - array.front] \in ArrayValues
      BY <1>2, <2>2
    <3>2. array.mem[i] # JUNK
      BY <1>2, <2>1, <2>2, <3>1, ArrayAssumption
    <3>3. i \in array.front + 1 .. array.front + array.size
      BY <1>1, <2>1, <2>2
    <3> QED
      BY <3>2, <3>3
  <2>3. CASE i - array.front \notin 1 .. Len(s)
    <3>1. array.mem[i] = JUNK
      BY <1>2, <2>1, <2>3
    <3>2. i \notin array.front + 1 .. array.front + array.size
      BY <1>1, <2>1, <2>3
    <3> QED
      BY <3>1, <3>2
  <2> QED
    BY <2>2, <2>3
<1> QED
  BY <1>1, <1>3 DEF EntriesInBlock

LEMMA ValueStep ==
  ASSUME NEW s, Block(array, s), NEW v \in ArrayValues, ArrayCalls(v)
  PROVE  Done
<1>1. CASE SetNullValue(v)
  BY <1>1, SetNullStep
<1>2. CASE Search(v)
  BY <1>2, SearchStep
<1>3. CASE Fold2(v)
  BY <1>3, ReadStep
<1>4. ASSUME NEW i \in 0 .. array.size, Set(i, v) PROVE Done
  BY <1>4, SetStep
<1>5. CASE Append1(v)
  BY <1>5, AppendStep
<1>6. CASE HeapPush(v)
  BY <1>6, HeapPushStep
<1> QED
  BY <1>1, <1>2, <1>3, <1>4, <1>5, <1>6 DEF ArrayCalls

ArrayCall ==
  \/ \E left, right \in 0 .. array.size + 1, f \in BOOLEAN : DeepSlice(left, right, f)
  \/ DestroyArray
  \/ \E o \in {1, -1} : SetArrayComp(o)
  \/ SortArray
  \/ Fold
  \/ \E i \in 0 .. array.size : Get(i)
  \/ Size
  \/ Capacity
  \/ Map
  \/ Scan
  \/ Pop
  \/ PopFirst
  \/ \E n \in Indexes : Reserve(n)
  \/ HeapPop
  \/ Heapify
  \/ \E v \in ArrayValues : ArrayCalls(v)

LEMMA CallStep ==
  ASSUME array # NULL, ArrayOk(array), ArrayCall
  PROVE  Done
<1>0. PICK s : Block(array, s)
  BY DEF ArrayOk
<1>1. ASSUME NEW left \in 0 .. array.size + 1, NEW right \in 0 .. array.size + 1,
             NEW f \in BOOLEAN, DeepSlice(left, right, f)
      PROVE  Done
  BY <1>0, <1>1, DeepSliceStep
<1>2. CASE DestroyArray
  BY <1>2, DestroyStep
<1>3. ASSUME NEW o \in {1, -1}, SetArrayComp(o) PROVE Done
  BY <1>0, <1>3, SetCompStep
<1>4. CASE SortArray
  BY <1>0, <1>4, SortStepDone
<1>5. CASE Fold \/ Size \/ Capacity
  BY <1>0, <1>5, ReadStep
<1>6. ASSUME NEW i \in 0 .. array.size, Get(i) PROVE Done
  BY <1>0, <1>6, ReadStep
<1>7. CASE Map
  BY <1>0, <1>7, MapStep
<1>8. CASE Scan
  BY <1>0, <1>8, ScanStep
<1>9. CASE Pop
  BY <1>0, <1>9, PopStepDone
<1>10. CASE PopFirst
  BY <1>0, <1>10, PopFirstStep
<1>11. ASSUME NEW n \in Indexes, Reserve(n) PROVE Done
  BY <1>0, <1>11, ReserveStep
<1>12. CASE HeapPop
  BY <1>0, <1>12, HeapPopStep
<1>13. CASE Heapify
  BY <1>0, <1>13, HeapifyStep
<1>14. ASSUME NEW v \in ArrayValues, ArrayCalls(v) PROVE Done
  BY <1>0, <1>14, ValueStep
<1> QED
  BY <1>1, <1>2, <1>3, <1>4, <1>5, <1>6, <1>7, <1>8, <1>9, <1>10, <1>11, <1>12, <1>13, <1>14
     DEF ArrayCall

LEMMA ArrayStep ==
  ASSUME ArrayInv, [ArrayNext]_arrayVars
  PROVE  ArrayInv' /\ [AbstractArray!Next]_AbstractArray!vars
<1>1. ASSUME array = NULL, UNCHANGED file, ArrayOk(array'),
             \/ AbstractArray!New(<<"init">>, <<>>)
             \/ AbstractArray!Deserialize /\ (file = NULL => array' = NULL)
             \/ \E n \in Indexes, v \in ArrayValues :
                  AbstractArray!New(<<"init2", n, v>>, [i \in 1 .. n |-> v])
      PROVE  ArrayInv' /\ AbstractArray!Next
  <2>1. ArrayInv'
    BY <1>1 DEF ArrayInv, ArrayOk
  <2>2. file = NULL <=> (IF file = NULL THEN NULL ELSE file.crc) = NULL
    BY ArrayAssumption DEF ArrayInv, Files
  <2> QED
    BY <1>1, <2>1, <2>2 DEF AbstractArray!Next
<1>2. CASE array = NULL /\ InitArray /\ UNCHANGED file
  BY <1>1, <1>2, InitStep
<1>3. ASSUME array = NULL, UNCHANGED file, NEW n \in Indexes, NEW v \in ArrayValues, Init2(n, v)
      PROVE  ArrayInv' /\ AbstractArray!Next
  BY <1>1, <1>3, Init2Step
<1>4. CASE array = NULL /\ Deserialize
  <2>1. /\ AbstractArray!Deserialize /\ ArrayOk(array') /\ (file = NULL => array' = NULL)
        /\ UNCHANGED file
    BY <1>4, DeserializeStep DEF ArrayInv, Deserialize
  <2> QED
    BY <1>1, <1>4, <2>1
<1>5. ASSUME array # NULL PROVE (IF array = NULL THEN NULL ELSE Contents(array)) # NULL
  <2>1. PICK s : Block(array, s)
    BY <1>5 DEF ArrayInv, ArrayOk
  <2> QED
    BY <1>5, <2>1, BlockTypes
<1>6. CASE array # NULL /\ Serialize
  <2>1. PICK s : Block(array, s)
    BY <1>6 DEF ArrayInv, ArrayOk
  <2>2. AbstractArray!Serialize /\ ArrayInv'
    BY <1>6, <2>1, SerializeStep
  <2> QED
    BY <1>5, <1>6, <2>2 DEF AbstractArray!Next
<1>7. CASE Damage
  BY <1>7, DamageStep
<1>8. CASE array # NULL /\ UNCHANGED file /\ ArrayCall
  <2>1. AbstractArray!Call /\ ArrayOk(array')
    BY <1>8, CallStep DEF ArrayInv, Done
  <2>2. ArrayInv'
    BY <1>8, <2>1 DEF ArrayInv, ArrayOk
  <2> QED
    BY <1>5, <1>8, <2>1, <2>2 DEF AbstractArray!Next
<1>9. CASE UNCHANGED arrayVars
  BY <1>9 DEF arrayVars, ArrayInv, ArrayOk, AbstractArray!vars, Contents
<1> QED
  BY <1>2, <1>3, <1>4, <1>6, <1>7, <1>8, <1>9 DEF ArrayNext, ArrayCall

LEMMA ArrayStart == ArrayInit => ArrayInv /\ AbstractArray!Init
BY DEF ArrayInit, ArrayInv, ArrayOk, AbstractArray!Init, ArrayReply

(* The block of an array is as long as front and capacity say, within what there is memory
   for, and what is read of it are its entries: pops move the front, slides and
   reallocations move the entries (array.h). *)
THEOREM EntriesStayInBlock == ArraySpec => []EntriesInBlock
<1>1. ArrayInit => ArrayInv
  BY ArrayStart
<1>2. ArrayInv /\ [ArrayNext]_arrayVars => ArrayInv'
  BY ArrayStep
<1>3. ArrayInv => EntriesInBlock
  BY BlockEntries DEF ArrayInv, ArrayOk, EntriesInBlock
<1> QED
  BY <1>1, <1>2, <1>3, PTL DEF ArraySpec

(* Every call of array.h does to the sequence of entries what its name says and gives its
   answer, wherever the entries are in the block: sorting is stable, searches find the
   first and last places, heap calls keep a heap, and what is read from a file is what was
   last written there, or nothing. *)
THEOREM ArrayIsSequence == ArraySpec => ImplementsSequence
<1>1. ArrayInit => ArrayInv /\ AbstractArray!Init
  BY ArrayStart
<1>2. ArrayInv /\ [ArrayNext]_arrayVars => ArrayInv' /\ [AbstractArray!Next]_AbstractArray!vars
  BY ArrayStep
<1> QED
  BY <1>1, <1>2, PTL DEF ArraySpec, ImplementsSequence, AbstractArray!Spec

-----------------------------------------------------------------------------
(* Files: powers of two *)

(* 2 ^ n is the number of the subsets of a set with n elements. *)
LEMMA PowerIsNumber == \A n \in Nat : 2 ^ n \in Nat
<1> SUFFICES ASSUME NEW n \in Nat PROVE 2 ^ n \in Nat
  OBVIOUS
<1>1. IsFiniteSet(1 .. n) /\ Cardinality(1 .. n) = n
  BY FS_Interval
<1> QED
  BY <1>1, FS_SUBSET, FS_CardinalityType

LEMMA PowerDoubles == \A n \in Nat : 2 ^ (n + 1) = 2 * 2 ^ n
<1> SUFFICES ASSUME NEW n \in Nat PROVE 2 ^ (n + 1) = 2 * 2 ^ n
  OBVIOUS
<1> DEFINE S == 1 .. n
           T == 1 .. n + 1
           With == {U \cup {n + 1} : U \in SUBSET S}
           f == [U \in SUBSET S |-> U \cup {n + 1}]
<1>1. IsFiniteSet(S) /\ Cardinality(S) = n /\ IsFiniteSet(T) /\ Cardinality(T) = n + 1
  BY FS_Interval
<1>2. IsFiniteSet(SUBSET S) /\ Cardinality(SUBSET S) = 2 ^ n /\ Cardinality(SUBSET T) = 2 ^ (n + 1)
  BY <1>1, FS_SUBSET
<1>3. f \in Bijection(SUBSET S, With)
  <2>1. f \in [SUBSET S -> With]
    OBVIOUS
  <2>2. ASSUME NEW U \in SUBSET S, NEW V \in SUBSET S, f[U] = f[V] PROVE U = V
    <3>1. n + 1 \notin U /\ n + 1 \notin V
      OBVIOUS
    <3> QED
      BY <3>1, <2>2
  <2>3. \A W \in With : \E U \in SUBSET S : f[U] = W
    OBVIOUS
  <2> HIDE DEF f, With
  <2> QED
    BY <2>1, <2>2, <2>3 DEF Bijection, Injection, Surjection, IsInjective
<1>4. IsFiniteSet(With) /\ Cardinality(With) = 2 ^ n
  BY <1>2, <1>3, FS_Bijection DEF ExistsBijection
<1>5. (SUBSET S) \cap With = {}
  <2> SUFFICES ASSUME NEW W, W \in SUBSET S, W \in With PROVE FALSE
    OBVIOUS
  <2>1. n + 1 \in W
    OBVIOUS
  <2>2. n + 1 \notin S
    OBVIOUS
  <2> QED
    BY <2>1, <2>2
<1>6. SUBSET T = (SUBSET S) \cup With
  <2>1. T = S \cup {n + 1}
    OBVIOUS
  <2>2. ASSUME NEW W \in SUBSET T, n + 1 \in W PROVE W \in With
    <3>1. W = (W \ {n + 1}) \cup {n + 1} /\ W \ {n + 1} \in SUBSET S
      BY <2>1, <2>2
    <3> QED
      BY <3>1
  <2>3. ASSUME NEW W \in SUBSET T, n + 1 \notin W PROVE W \in SUBSET S
    BY <2>1, <2>3
  <2>4. \A W \in With : W \in SUBSET T
    BY <2>1
  <2>5. SUBSET S \subseteq SUBSET T
    BY <2>1
  <2>6. SUBSET T \subseteq (SUBSET S) \cup With
    BY <2>2, <2>3
  <2>7. With \subseteq SUBSET T
    BY <2>4
  <2> HIDE DEF S, T, With
  <2>8. \A A, B, C : A \subseteq C /\ B \subseteq C /\ C \subseteq A \cup B => C = A \cup B
    OBVIOUS
  <2> QED
    BY ONLY <2>5, <2>6, <2>7, <2>8
<1>7. Cardinality(SUBSET T) = 2 ^ n + 2 ^ n - Cardinality({})
  BY <1>2, <1>4, <1>5, <1>6, FS_Union
<1> HIDE DEF S, T, With, f
<1> QED
  BY <1>2, <1>7, FS_EmptySet, PowerIsNumber

LEMMA PowerPositive == \A n \in Nat : 2 ^ n \in Nat /\ 2 ^ n >= 1 /\ 2 ^ 0 = 1
<1> DEFINE S == {n \in Nat : 2 ^ n >= 1}
<1>1. 2 ^ 0 = 1
  OBVIOUS
<1>2. 0 \in S
  BY <1>1
<1>3. \A n \in S : n + 1 \in S
  BY PowerDoubles, PowerIsNumber
<1> HIDE DEF S
<1>4. S = Nat
  BY <1>2, <1>3, NatInduced DEF S
<1> QED
  BY <1>1, <1>4, PowerIsNumber DEF S

LEMMA PowerPlus == \A m, n \in Nat : 2 ^ (m + n) = 2 ^ m * 2 ^ n
<1> SUFFICES ASSUME NEW m \in Nat PROVE \A n \in Nat : 2 ^ (m + n) = 2 ^ m * 2 ^ n
  OBVIOUS
<1> DEFINE S == {n \in Nat : 2 ^ (m + n) = 2 ^ m * 2 ^ n}
<1>1. 0 \in S
  <2>1. m + 0 = m /\ 2 ^ 0 = 1 /\ 2 ^ m \in Nat
    BY PowerPositive
  <2> QED
    BY <2>1
<1>2. ASSUME NEW n \in S PROVE n + 1 \in S
  <2>1. 2 ^ (m + (n + 1)) = 2 * 2 ^ (m + n)
    <3>1. m + (n + 1) = (m + n) + 1 /\ m + n \in Nat
      OBVIOUS
    <3> QED
      BY <3>1, PowerDoubles
  <2>2. 2 ^ (n + 1) = 2 * 2 ^ n
    BY PowerDoubles
  <2> DEFINE a == 2 ^ m
             b == 2 ^ n
  <2>3. a \in Nat /\ b \in Nat /\ 2 ^ (m + n) = a * b
    BY PowerIsNumber
  <2> HIDE DEF a, b
  <2>4. 2 * (a * b) = a * (2 * b)
    BY <2>3
  <2>5. 2 ^ (m + (n + 1)) = a * 2 ^ (n + 1)
    BY <2>1, <2>2, <2>3, <2>4 DEF b
  <2> QED
    BY <2>5 DEF a
<1> HIDE DEF S
<1>3. S = Nat
  BY <1>1, <1>2, NatInduced DEF S
<1> QED
  BY <1>3 DEF S

LEMMA PowerMonotone == \A m, n \in Nat : m <= n => 2 ^ m <= 2 ^ n
<1> SUFFICES ASSUME NEW m \in Nat, NEW n \in Nat, m <= n PROVE 2 ^ m <= 2 ^ n
  OBVIOUS
<1>1. n - m \in Nat /\ m + (n - m) = n
  OBVIOUS
<1>2. 2 ^ n = 2 ^ m * 2 ^ (n - m)
  BY <1>1, PowerPlus
<1> DEFINE a == 2 ^ m
           b == 2 ^ (n - m)
<1>3. a \in Nat /\ b \in Nat /\ b >= 1
  BY <1>1, PowerPositive
<1> HIDE DEF a, b
<1>4. a <= a * b
  BY <1>3
<1> QED
  BY <1>2, <1>4 DEF a, b

LEMMA PowerLess == \A m, n \in Nat : 2 ^ m < 2 ^ n => m < n
<1> SUFFICES ASSUME NEW m \in Nat, NEW n \in Nat, ~(m < n) PROVE ~(2 ^ m < 2 ^ n)
  OBVIOUS
<1>1. 2 ^ n <= 2 ^ m
  BY PowerMonotone
<1> QED
  BY <1>1, PowerIsNumber

LEMMA Division ==
  ASSUME NEW c \in Nat \ {0}, NEW x \in Nat
  PROVE  /\ x = c * (x \div c) + (x % c)
         /\ x % c \in 0 .. c - 1 /\ x \div c \in Nat
         /\ x < c => x % c = x
<1>1. x = c * (x \div c) + (x % c) /\ x % c \in 0 .. c - 1 /\ x \div c \in Nat
  OBVIOUS
<1> DEFINE q == x \div c
           r == x % c
<1>2. x = c * q + r /\ r \in 0 .. c - 1 /\ q \in Nat
  BY <1>1
<1> HIDE DEF q, r
<1>3. x < c => q = 0
  BY <1>2
<1>4. q = 0 => x = r
  BY <1>2
<1> QED
  BY <1>2, <1>3, <1>4 DEF q, r

-----------------------------------------------------------------------------
(* Files: numbers in groups of bits *)

LEMMA FlagPositive ==
  /\ GroupBits \in Nat \ {0} /\ Flag \in Nat /\ Flag >= 2
  /\ RvBits \in Nat \ {0} /\ SizeBits \in Nat \ {0} /\ SizeBits <= RvBits
<1>1. GroupBits \in Nat \ {0} /\ RvBits \in Nat \ {0} /\ SizeBits \in Nat \ {0} /\ SizeBits <= RvBits
  BY SerializationAssumption
<1>2. PICK k \in Nat : GroupBits = k + 1
  <2>1. GroupBits - 1 \in Nat /\ GroupBits = (GroupBits - 1) + 1
    BY <1>1
  <2> QED
    BY <2>1
<1>3. Flag = 2 * 2 ^ k /\ 2 ^ k \in Nat /\ 2 ^ k >= 1
  BY <1>2, PowerDoubles, PowerPositive DEF Flag
<1> QED
  BY <1>1, <1>3

LEMMA FlagDivision ==
  \A x \in Nat : /\ x = Flag * (x \div Flag) + (x % Flag)
                 /\ x % Flag \in 0 .. Flag - 1 /\ x \div Flag \in Nat
<1>1. Flag \in Nat \ {0}
  BY FlagPositive
<1> QED
  BY <1>1, Division

Weight(i) == 2 ^ (GroupBits * (i - 1))

LEMMA WeightSteps ==
  ASSUME NEW i \in Nat \ {0}
  PROVE  /\ GroupBits * (i - 1) \in Nat
         /\ Weight(i) \in Nat /\ Weight(i) >= 1 /\ Weight(1) = 1
         /\ Weight(i + 1) = Flag * Weight(i)
         /\ Weight(i + 1) = 2 ^ (GroupBits * i)
<1>1. GroupBits \in Nat
  BY FlagPositive
<1>2. GroupBits * (i - 1) \in Nat /\ GroupBits * (1 - 1) = 0
  BY <1>1
<1>3. GroupBits * ((i + 1) - 1) = GroupBits + GroupBits * (i - 1)
  BY <1>1
<1>4. Weight(i + 1) = Flag * Weight(i)
  BY <1>1, <1>2, <1>3, PowerPlus DEF Weight, Flag
<1>5. (i + 1) - 1 = i
  OBVIOUS
<1> QED
  BY <1>2, <1>4, <1>5, PowerPositive DEF Weight

LEMMA WeightType == \A i \in Nat \ {0} : Weight(i) \in Nat /\ Weight(i) >= 1
BY WeightSteps

(* What the i-th byte of s adds *)
Part(s, i) == (s[i] % Flag) * Weight(i)

LEMMA PartType ==
  ASSUME NEW s \in Seq(Nat), NEW i \in 1 .. Len(s)
  PROVE  /\ Part(s, i) \in Nat /\ s[i] % Flag \in 0 .. Flag - 1
         /\ s[i] < Flag => s[i] % Flag = s[i]
<1>0. i \in Nat \ {0} /\ s[i] \in Nat /\ Flag \in Nat \ {0}
  BY FlagPositive
<1>1. s[i] \in Nat /\ Flag \in Nat \ {0} /\ Weight(i) \in Nat
  BY <1>0, WeightSteps
<1>2. s[i] % Flag \in 0 .. Flag - 1 /\ (s[i] < Flag => s[i] % Flag = s[i])
  <2> DEFINE x == s[i]
  <2>1. x \in Nat
    BY <1>1
  <2> HIDE DEF x
  <2>2. x % Flag \in 0 .. Flag - 1 /\ (x < Flag => x % Flag = x)
    BY <1>1, <2>1, Division
  <2> QED
    BY <2>2 DEF x
<1> DEFINE a == s[i] % Flag
           w == Weight(i)
<1>3. a \in Nat /\ w \in Nat
  BY <1>1, <1>2
<1> HIDE DEF a, w
<1>4. a * w \in Nat
  BY <1>3
<1> QED
  BY <1>2, <1>4 DEF a, w, Part

(* The recursion of Number *)
PartSums(s, n, f) == f[0] = 0 /\ \A i \in 1 .. n : f[i] = f[i - 1] + Part(s, i)

LEMMA NumberSums ==
  ASSUME NEW s \in Seq(Nat), NEW n \in 0 .. Len(s)
  PROVE  \E f \in [0 .. n -> Nat] : PartSums(s, n, f) /\ Number(s, n) = f[n]
<1> DEFINE D == 0 .. n
           R == Nat
           Body(g, i) == IF i = 0 THEN 0 ELSE g[i - 1] + Part(s, i)
           m == [i \in D |-> i]
           B == [g \in [D -> R] |-> [i \in D |-> Body(g, i)]]
<1>1. \A i \in D : i # 0 => i - 1 \in D /\ Part(s, i) \in Nat
  BY PartType
<1>2. ASSUME NEW g \in [D -> R], NEW i \in D PROVE Body(g, i) \in R
  BY <1>1
<1>3. ASSUME NEW g \in [D -> R], NEW f \in [D -> R], NEW i \in D,
             \A j \in D : m[j] < m[i] => g[j] = f[j]
      PROVE  Body(g, i) = Body(f, i)
  BY <1>1, <1>3
<1>4. R # {} /\ m \in [D -> Nat]
  OBVIOUS
<1> HIDE DEF m, R, D, Body
<1>5. Founded(D, R, m, B)
  BY <1>2, <1>3, <1>4, ZenonT(30) DEF Founded
<1>6. \A g \in [D -> R], i \in D : B[g][i] = Body(g, i)
  OBVIOUS
<1> HIDE DEF B
<1>7. \E f : f = [i \in D |-> Body(f, i)]
  <2>1. PICK f \in [D -> R] : \A i \in D : f[i] = B[f][i]
    BY <1>5, Recursion
  <2>2. f = [i \in D |-> Body(f, i)]
    BY <1>6, <2>1
  <2> QED
    BY <2>2
<1> DEFINE F == CHOOSE f : f = [i \in D |-> Body(f, i)]
<1>8. F = [i \in D |-> Body(F, i)]
  BY <1>7
<1>9. Number(s, n) = F[n]
  BY DEF Number, D, Body, Part, Weight
<1> HIDE DEF F
<1>10. /\ F[0] = 0
       /\ \A i \in 1 .. n : F[i] = F[i - 1] + Part(s, i)
       /\ \E h : F = [i \in 0 .. n |-> h[i]]
  <2>1. \A i \in D : F[i] = Body(F, i)
    BY <1>8
  <2>2. 0 \in D /\ \A i \in 1 .. n : i \in D /\ i # 0
    BY DEF D
  <2>3. F = [i \in 0 .. n |-> [j \in 0 .. n |-> Body(F, j)][i]]
    BY <1>8 DEF D
  <2> QED
    BY <2>1, <2>2, <2>3 DEF Body
<1>11. F \in [0 .. n -> Nat]
  <2> DEFINE S == {i \in Nat : i \in 0 .. n => F[i] \in Nat}
  <2>1. 0 \in S
    BY <1>10
  <2>2. ASSUME NEW i \in S PROVE i + 1 \in S
    <3>1. CASE i + 1 \in 0 .. n
      <4>1. F[i] \in Nat /\ Part(s, i + 1) \in Nat
        BY <3>1, PartType
      <4>2. F[i + 1] = F[(i + 1) - 1] + Part(s, i + 1) /\ (i + 1) - 1 = i
        <5>1. i + 1 \in 1 .. n /\ (i + 1) - 1 = i
          BY <3>1
        <5>2. \A j \in 1 .. n : F[j] = F[j - 1] + Part(s, j)
          BY <1>10
        <5> QED
          BY ONLY <5>1, <5>2
      <4> QED
        BY <4>1, <4>2
    <3> QED
      BY <3>1
  <2> HIDE DEF S
  <2>3. S = Nat
    BY <2>1, <2>2, NatInduced DEF S
  <2>4. \A i \in 0 .. n : F[i] \in Nat
    BY <2>3 DEF S
  <2> HIDE DEF S
  <2> QED
    BY <1>10, <2>4
<1> QED
  BY <1>9, <1>10, <1>11 DEF PartSums

(* Two sequences with the same first bytes have the same sums. *)
LEMMA SumsAgree ==
  ASSUME NEW s \in Seq(Nat), NEW t \in Seq(Nat), NEW n \in 0 .. Len(s), NEW k \in 0 .. n, k <= Len(t),
         \A i \in 1 .. k : s[i] = t[i],
         NEW f, PartSums(s, n, f), NEW g, PartSums(t, k, g)
  PROVE  f[k] = g[k]
<1> DEFINE S == {i \in Nat : i <= k => f[i] = g[i]}
<1>1. 0 \in S
  BY DEF PartSums
<1>2. ASSUME NEW i \in S PROVE i + 1 \in S
  <2>1. CASE i + 1 <= k
    <3>1. f[i] = g[i] /\ i + 1 \in 1 .. k /\ i + 1 \in 1 .. n /\ (i + 1) - 1 = i
      BY <2>1
    <3>2. f[i + 1] = f[i] + Part(s, i + 1)
      BY <3>1 DEF PartSums
    <3>3. g[i + 1] = g[i] + Part(t, i + 1)
      BY <3>1 DEF PartSums
    <3>4. Part(s, i + 1) = Part(t, i + 1)
      BY <3>1 DEF Part
    <3> QED
      BY <3>1, <3>2, <3>3, <3>4
  <2> QED
    BY <2>1
<1> HIDE DEF S
<1>3. S = Nat
  BY <1>1, <1>2, NatInduced DEF S
<1> QED
  BY <1>3 DEF S

LEMMA NumberPrefix ==
  ASSUME NEW s \in Seq(Nat), NEW t \in Seq(Nat), NEW k \in Nat, k <= Len(s), k <= Len(t),
         \A i \in 1 .. k : s[i] = t[i]
  PROVE  Number(s, k) = Number(t, k)
<1>1. k \in 0 .. Len(s) /\ k \in 0 .. Len(t) /\ k \in 0 .. k
  OBVIOUS
<1>2. PICK f : PartSums(s, k, f) /\ Number(s, k) = f[k]
  BY <1>1, NumberSums
<1>3. PICK g : PartSums(t, k, g) /\ Number(t, k) = g[k]
  BY <1>1, NumberSums
<1> QED
  BY <1>1, <1>2, <1>3, SumsAgree

LEMMA NumberStep ==
  ASSUME NEW s \in Seq(Nat)
  PROVE  /\ Number(s, 0) = 0
         /\ \A n \in 0 .. Len(s) : Number(s, n) \in Nat
         /\ \A n \in 1 .. Len(s) : Number(s, n) = Number(s, n - 1) + Part(s, n)
<1>1. \A n \in 0 .. Len(s) : Number(s, n) \in Nat
  BY NumberSums
<1>2. Number(s, 0) = 0
  BY NumberSums DEF PartSums
<1>3. ASSUME NEW n \in 1 .. Len(s) PROVE Number(s, n) = Number(s, n - 1) + Part(s, n)
  <2>1. n \in 0 .. Len(s) /\ n - 1 \in 0 .. Len(s) /\ n - 1 \in 0 .. n /\ n - 1 <= Len(s)
    OBVIOUS
  <2>2. PICK f : PartSums(s, n, f) /\ Number(s, n) = f[n]
    BY <2>1, NumberSums
  <2>3. PICK g : PartSums(s, n - 1, g) /\ Number(s, n - 1) = g[n - 1]
    BY <2>1, NumberSums
  <2>4. f[n - 1] = g[n - 1]
    BY <2>1, <2>2, <2>3, SumsAgree
  <2>5. f[n] = f[n - 1] + Part(s, n)
    BY <2>2 DEF PartSums
  <2> QED
    BY <2>2, <2>3, <2>4, <2>5
<1> QED
  BY <1>1, <1>2, <1>3

(* A byte in front *)
LEMMA NumberPrepended ==
  ASSUME NEW s \in Seq(Nat), NEW b \in Nat
  PROVE  \A n \in 0 .. Len(s) : Number(<<b>> \o s, n + 1) = (b % Flag) + Flag * Number(s, n)
<1> DEFINE t == <<b>> \o s
           S == {n \in Nat : n <= Len(s) => Number(t, n + 1) = (b % Flag) + Flag * Number(s, n)}
<1>1. t \in Seq(Nat) /\ Len(t) = Len(s) + 1 /\ t[1] = b /\ \A i \in 1 .. Len(s) : t[i + 1] = s[i]
  OBVIOUS
<1> HIDE DEF t
<1>2. Flag \in Nat \ {0} /\ Len(s) \in Nat
  BY FlagPositive
<1>3. 0 \in S
  <2>1. Number(t, 1) = Number(t, 0) + Part(t, 1) /\ Number(t, 0) = 0
    <3>1. 1 \in 1 .. Len(t) /\ 1 - 1 = 0
      BY <1>1, <1>2
    <3> QED
      BY <1>1, <3>1, NumberStep
  <2>2. Part(t, 1) = b % Flag /\ b % Flag \in Nat
    <3>1. b % Flag \in Nat
      BY <1>2
    <3>2. Weight(1) = 1
      BY WeightSteps
    <3> QED
      BY <1>1, <3>1, <3>2 DEF Part
  <2>3. Number(s, 0) = 0
    BY NumberStep
  <2> QED
    BY <1>2, <2>1, <2>2, <2>3
<1>4. ASSUME NEW n \in S PROVE n + 1 \in S
  <2>1. CASE n + 1 <= Len(s)
    <3>1. Number(t, n + 1) = (b % Flag) + Flag * Number(s, n)
      BY <1>2, <2>1
    <3>2. n + 1 \in 1 .. Len(s) /\ (n + 1) + 1 \in 1 .. Len(t) /\ (n + 1) - 1 = n
          /\ ((n + 1) + 1) - 1 = n + 1 /\ n \in 0 .. Len(s)
      BY <1>1, <1>2, <2>1
    <3>3. Number(t, (n + 1) + 1) = Number(t, n + 1) + Part(t, (n + 1) + 1)
      BY <1>1, <3>2, NumberStep
    <3>4. Number(s, n + 1) = Number(s, n) + Part(s, n + 1) /\ Number(s, n) \in Nat
      BY <3>2, NumberStep
    <3> DEFINE d == s[n + 1] % Flag
               w == Weight(n + 1)
               x == Number(s, n)
    <3>5. Part(s, n + 1) = d * w
      BY DEF Part
    <3>12. n + 1 \in Nat \ {0}
      OBVIOUS
    <3>13. w \in Nat /\ Weight((n + 1) + 1) = Flag * w
      BY <3>12, WeightSteps
    <3>6. Part(t, (n + 1) + 1) = d * (Flag * w)
      <4>1. t[(n + 1) + 1] = s[n + 1]
        BY <1>1, <3>2
      <4> QED
        BY <3>13, <4>1 DEF Part
    <3>14. d \in Nat
      BY <3>2, PartType
    <3>7. d \in Nat /\ w \in Nat /\ x \in Nat /\ b % Flag \in Nat
      BY <1>2, <3>4, <3>13, <3>14
    <3> HIDE DEF d, w, x
    <3>8. Flag * (x + d * w) = Flag * x + d * (Flag * w)
      BY <1>2, <3>7
    <3>9. /\ Number(s, n + 1) = x + d * w
          /\ Number(t, (n + 1) + 1) = ((b % Flag) + Flag * x) + d * (Flag * w)
      BY <3>1, <3>3, <3>4, <3>5, <3>6 DEF x
    <3>10. Flag * x \in Nat /\ d * (Flag * w) \in Nat
      BY <1>2, <3>7
    <3> QED
      BY <3>7, <3>8, <3>9, <3>10
  <2> QED
    BY <2>1
<1> HIDE DEF S
<1>5. S = Nat
  BY <1>3, <1>4, NatInduced DEF S
<1>6. \A n \in 0 .. Len(s) : Number(t, n + 1) = (b % Flag) + Flag * Number(s, n)
  <2>1. \A n \in Nat : n <= Len(s) => Number(t, n + 1) = (b % Flag) + Flag * Number(s, n)
    BY <1>5 DEF S
  <2> QED
    BY <1>2, <2>1
<1> QED
  BY <1>6 DEF t

(* The first n bytes say less than what n groups hold; the last one says most of it. *)
LEMMA NumberBelow ==
  ASSUME NEW s \in Seq(Nat)
  PROVE  \A n \in 0 .. Len(s) : Number(s, n) < Weight(n + 1)
<1> DEFINE S == {n \in Nat : n <= Len(s) => Number(s, n) < Weight(n + 1)}
<1>1. 0 \in S
  <2>1. Number(s, 0) = 0 /\ Weight(1) = 1 /\ 0 + 1 = 1
    BY NumberStep, WeightSteps
  <2> QED
    BY <2>1
<1>2. ASSUME NEW n \in S PROVE n + 1 \in S
  <2>1. CASE n + 1 <= Len(s)
    <3> DEFINE x == Number(s, n)
               d == s[n + 1] % Flag
               w == Weight(n + 1)
    <3>1. n + 1 \in 1 .. Len(s) /\ (n + 1) - 1 = n /\ n + 1 \in Nat \ {0} /\ n \in 0 .. Len(s)
      BY <2>1
    <3>2. x < w
      BY <2>1
    <3>3. Number(s, n + 1) = x + d * w
      BY <3>1, NumberStep DEF Part
    <3>4. Weight((n + 1) + 1) = Flag * w /\ w \in Nat
      BY <3>1, WeightSteps
    <3>5. d \in 0 .. Flag - 1 /\ Flag \in Nat /\ x \in Nat
      BY <3>1, PartType, FlagPositive, NumberStep
    <3> HIDE DEF x, d, w
    <3>6. d * w <= (Flag - 1) * w
      BY <3>4, <3>5
    <3>7. (Flag - 1) * w = Flag * w - w
      BY <3>4, <3>5
    <3>8. d * w \in Nat /\ Flag * w \in Nat
      BY <3>4, <3>5
    <3> QED
      BY <3>2, <3>3, <3>4, <3>5, <3>6, <3>7, <3>8
  <2> QED
    BY <2>1
<1> HIDE DEF S
<1>3. S = Nat
  BY <1>1, <1>2, NatInduced DEF S
<1>4. \A n \in Nat : n <= Len(s) => Number(s, n) < Weight(n + 1)
  BY <1>3 DEF S
<1> QED
  BY <1>4

LEMMA NumberLast ==
  ASSUME NEW s \in Seq(Nat), NEW n \in 1 .. Len(s), s[n] < Flag
  PROVE  /\ Number(s, n) < (s[n] + 1) * Weight(n)
         /\ Number(s, n) >= s[n] * Weight(n)
<1> DEFINE x == Number(s, n - 1)
           w == Weight(n)
           d == s[n]
<1>1. n \in Nat \ {0} /\ n - 1 \in 0 .. Len(s) /\ (n - 1) + 1 = n
  OBVIOUS
<1>2. Number(s, n) = x + d * w
  <2>1. Number(s, n) = x + Part(s, n)
    BY NumberStep
  <2>2. s[n] % Flag = s[n]
    BY PartType
  <2> QED
    BY <2>1, <2>2 DEF Part
<1>3. x < w /\ x \in Nat
  BY <1>1, NumberBelow, NumberStep
<1>4. d \in Nat /\ w \in Nat
  <2>1. d \in Nat
    OBVIOUS
  <2>2. w \in Nat
    BY <1>1, WeightType
  <2> QED
    BY <2>1, <2>2
<1> HIDE DEF x, w, d
<1>5. (d + 1) * w = d * w + w /\ d * w \in Nat
  BY <1>4
<1>6. Number(s, n) < (d + 1) * w /\ Number(s, n) >= d * w
  BY <1>2, <1>3, <1>4, <1>5
<1> QED
  BY <1>6 DEF d, w

LEMMA GroupsEnough ==
  /\ Groups \in Nat \ {0}
  /\ GroupBits * (Groups - 1) < RvBits
  /\ RvBits <= GroupBits * Groups
<1> DEFINE x == RvBits + GroupBits - 1
           c == GroupBits
<1>1. c \in Nat \ {0} /\ x \in Nat /\ x >= c /\ RvBits = x - c + 1
  BY FlagPositive
<1>2. Groups = x \div c
  BY DEF Groups
<1> HIDE DEF x, c
<1> DEFINE q == x \div c
           r == x % c
<1>3. x = c * q + r /\ r \in 0 .. c - 1 /\ q \in Nat
  BY <1>1, Division
<1> HIDE DEF q, r
<1>4. q # 0
  <2>1. q = 0 => c * q = 0
    BY <1>1, <1>3
  <2> QED
    BY <1>1, <1>3, <2>1
<1>5. c * (q - 1) = c * q - c /\ c * q \in Nat
  BY <1>1, <1>3
<1>6. c * (q - 1) < RvBits /\ RvBits <= c * q
  BY <1>1, <1>3, <1>5
<1> QED
  BY <1>2, <1>3, <1>4, <1>6 DEF q, c

RvLimit == 2 ^ RvBits

(* The bits that the last of Groups bytes may have *)
LEMMA LastWeight ==
  /\ RvBits - GroupBits * (Groups - 1) \in Nat
  /\ RvLimit = 2 ^ (RvBits - GroupBits * (Groups - 1)) * Weight(Groups)
<1> DEFINE k == GroupBits * (Groups - 1)
<1>1. k \in Nat /\ RvBits - k \in Nat /\ RvBits = (RvBits - k) + k
  <2>1. k \in Nat
    BY FlagPositive, GroupsEnough
  <2> HIDE DEF k
  <2>2. k < RvBits
    BY GroupsEnough DEF k
  <2> QED
    BY <2>1, <2>2, FlagPositive
<1> HIDE DEF k
<1>2. 2 ^ RvBits = 2 ^ (RvBits - k) * 2 ^ k
  BY <1>1, PowerPlus
<1> QED
  BY <1>1, <1>2 DEF k, Weight, RvLimit

LEMMA WeightMonotone ==
  ASSUME NEW m \in Nat \ {0}, NEW n \in Nat \ {0}, m <= n
  PROVE  GroupBits * (m - 1) <= GroupBits * (n - 1)
<1> DEFINE g == GroupBits
           a == m - 1
           b == n - 1
<1>1. g \in Nat /\ a \in Nat /\ b \in Nat /\ a <= b
  BY FlagPositive
<1> HIDE DEF g, a, b
<1>2. g * a <= g * b
  BY <1>1
<1> QED
  BY <1>2 DEF g, a, b

(* A number whose last byte fits has only the bits that rv has. *)
LEMMA FittingIsSmall ==
  ASSUME NEW s \in Seq(Nat), NEW n \in 1 .. Len(s), s[n] < Flag, n <= Groups, Fits(s, n)
  PROVE  Number(s, n) < RvLimit
<1>1. n \in Nat \ {0} /\ Number(s, n) \in Nat /\ Groups \in Nat \ {0} /\ RvBits \in Nat
  BY NumberStep, GroupsEnough, FlagPositive
<1>2. CASE n = Groups
  <2> DEFINE b == 2 ^ (RvBits - GroupBits * (Groups - 1))
             w == Weight(n)
             d == s[n]
  <2>1. d < b /\ RvLimit = b * w
    BY <1>2, LastWeight DEF Fits
  <2>2. Number(s, n) < (d + 1) * w
    BY NumberLast
  <2>3. b \in Nat /\ w \in Nat /\ d \in Nat
    <3>1. b \in Nat
      BY LastWeight, PowerIsNumber
    <3>2. w \in Nat
      BY <1>1, WeightType
    <3>3. d \in Nat
      OBVIOUS
    <3> QED
      BY <3>1, <3>2, <3>3
  <2> HIDE DEF b, w, d
  <2>4. (d + 1) * w <= b * w
    <3> DEFINE e == d + 1
    <3>1. e \in Nat /\ e <= b
      BY <2>1, <2>3
    <3> HIDE DEF e
    <3>2. e * w <= b * w
      BY <2>3, <3>1
    <3> QED
      BY <3>2 DEF e
  <2>5. (d + 1) * w \in Nat /\ b * w \in Nat
    BY <2>3
  <2> QED
    BY <1>1, <2>1, <2>2, <2>4, <2>5
<1>3. CASE n < Groups
  <2>0. PICK p \in Nat \ {0} : p = n + 1
    BY <1>1
  <2>1. Number(s, n) < Weight(p) /\ Weight(p) = 2 ^ (GroupBits * (p - 1))
    BY <2>0, NumberBelow DEF Weight
  <2>2. p <= Groups
    BY <1>1, <1>3, <2>0
  <2> DEFINE a == GroupBits * (p - 1)
             b == GroupBits * (Groups - 1)
  <2>3. a \in Nat /\ b \in Nat /\ b < RvBits /\ a <= b
    <3>1. \A i \in Nat \ {0} : GroupBits * (i - 1) \in Nat
      BY WeightSteps
    <3>2. a \in Nat /\ b \in Nat
      BY <1>1, <3>1
    <3>3. b < RvBits
      BY GroupsEnough
    <3>4. a <= b
      BY <1>1, <2>2, WeightMonotone
    <3> QED
      BY ONLY <3>2, <3>3, <3>4
  <2> HIDE DEF a, b
  <2>4. 2 ^ a <= 2 ^ RvBits
    <3>1. a <= RvBits
      BY <1>1, <2>3
    <3> QED
      BY <1>1, <2>3, <3>1, PowerMonotone
  <2>5. 2 ^ a \in Nat /\ 2 ^ RvBits \in Nat
    BY <1>1, <2>3, PowerIsNumber
  <2> QED
    BY <1>1, <2>1, <2>4, <2>5 DEF a, RvLimit
<1> QED
  BY <1>1, <1>2, <1>3

-----------------------------------------------------------------------------
(* Files: sizes as they are written *)

LEMMA SerializeSizeSteps ==
  \A x \in Nat :
    /\ SerializeSize(x) \in Seq(Nat)
    /\ SerializeSize(x) = IF x < Flag THEN <<x>>
                          ELSE <<(x % Flag) + Flag>> \o SerializeSize(x \div Flag)
<1> DEFINE D == Nat
           R == Seq(Nat)
           Body(g, i) == IF i < Flag THEN <<i>> ELSE <<(i % Flag) + Flag>> \o g[i \div Flag]
           m == [i \in D |-> i]
           B == [g \in [D -> R] |-> [i \in D |-> Body(g, i)]]
<1>1. ASSUME NEW i \in D, ~(i < Flag)
      PROVE  i \div Flag \in D /\ i \div Flag < i /\ (i % Flag) + Flag \in Nat
  <2> DEFINE q == i \div Flag
             r == i % Flag
  <2>1. i = Flag * q + r /\ r \in 0 .. Flag - 1 /\ q \in Nat
    BY FlagDivision
  <2> HIDE DEF q, r
  <2>2. Flag * q >= 2 * q
    BY <2>1, FlagPositive
  <2>3. q < i
    BY <1>1, <2>1, <2>2, FlagPositive
  <2> QED
    BY <2>1, <2>3, FlagPositive DEF q, r
<1>2. ASSUME NEW g \in [D -> R], NEW i \in D PROVE Body(g, i) \in R
  <2>1. CASE i < Flag
    BY <2>1
  <2>2. CASE ~(i < Flag)
    <3>1. g[i \div Flag] \in R /\ <<(i % Flag) + Flag>> \in R
      BY <1>1, <2>2
    <3> QED
      BY <2>2, <3>1
  <2> QED
    BY <2>1, <2>2
<1>3. ASSUME NEW g \in [D -> R], NEW f \in [D -> R], NEW i \in D,
             \A j \in D : m[j] < m[i] => g[j] = f[j]
      PROVE  Body(g, i) = Body(f, i)
  BY <1>1, <1>3
<1>4. R # {} /\ m \in [D -> Nat]
  <2>1. <<>> \in R
    OBVIOUS
  <2> QED
    BY <2>1
<1> HIDE DEF m, R, D, Body
<1>5. Founded(D, R, m, B)
  BY <1>2, <1>3, <1>4, ZenonT(30) DEF Founded
<1>6. \A g \in [D -> R], i \in D : B[g][i] = Body(g, i)
  OBVIOUS
<1> HIDE DEF B
<1>7. \E f : f = [i \in D |-> Body(f, i)]
  <2>1. PICK f \in [D -> R] : \A i \in D : f[i] = B[f][i]
    BY <1>5, Recursion
  <2>2. f = [i \in D |-> Body(f, i)]
    BY <1>6, <2>1
  <2> QED
    BY <2>2
<1> DEFINE F == CHOOSE f : f = [i \in D |-> Body(f, i)]
<1>8. F = [i \in D |-> Body(F, i)]
  BY <1>7
<1>9. \A x : SerializeSize(x) = F[x]
  BY DEF SerializeSize, D, Body
<1> HIDE DEF F
<1>10. \A x \in D : F[x] = Body(F, x)
  BY <1>8
<1>11. \A x \in D : F[x] \in R
  <2> DEFINE S == {x \in D : F[x] \in R}
  <2>1. ASSUME NEW x \in D, \A y \in D : m[y] < m[x] => y \in S
        PROVE  x \in S
    <3>1. CASE x < Flag
      <4>1. F[x] = <<x>> /\ x \in Nat
        BY <1>10, <3>1 DEF Body, D
      <4>2. <<x>> \in Seq(Nat)
        BY <4>1
      <4> QED
        BY <4>1, <4>2 DEF R
    <3>2. CASE ~(x < Flag)
      <4>1. m[x \div Flag] < m[x] /\ x \div Flag \in D /\ (x % Flag) + Flag \in Nat
        BY <1>1, <3>2 DEF m
      <4>2. F[x \div Flag] \in R
        BY <2>1, <4>1
      <4>3. F[x] = <<(x % Flag) + Flag>> \o F[x \div Flag]
        BY <1>10, <3>2 DEF Body
      <4>4. F[x] \in R
        BY <4>1, <4>2, <4>3 DEF R
      <4> QED
        BY <4>4
    <3> QED
      BY <3>1, <3>2
  <2> HIDE DEF S
  <2>2. D \subseteq S
    BY <1>4, <2>1, MeasureInduced
  <2> QED
    BY <2>2 DEF S
<1> QED
  BY <1>9, <1>10, <1>11 DEF D, R, Body

LEMMA SerializeSizeType == \A x \in Nat : SerializeSize(x) \in Seq(Nat)
BY SerializeSizeSteps

(* s says x, as SerializeSize does it. *)
Encodes(s, x) ==
  /\ s \in Seq(Nat) /\ Len(s) >= 1
  /\ \A i \in 1 .. Len(s) - 1 : s[i] >= Flag
  /\ s[Len(s)] < Flag
  /\ Len(s) > 1 => s[Len(s)] >= 1
  /\ Number(s, Len(s)) = x

LEMMA EncodesSmall == ASSUME NEW x \in Nat, x < Flag PROVE Encodes(<<x>>, x)
<1>1. <<x>> \in Seq(Nat) /\ Len(<<x>>) = 1 /\ <<x>>[1] = x
  OBVIOUS
<1> DEFINE s == <<x>>
<1>2. Number(s, 1) = x
  <2> HIDE DEF s
  <2>1. s \in Seq(Nat) /\ 1 \in 1 .. Len(s) /\ 1 - 1 = 0 /\ s[1] = x
    BY <1>1 DEF s
  <2>2. Number(s, 1) = Number(s, 1 - 1) + Part(s, 1) /\ Number(s, 0) = 0
    BY <2>1, NumberStep
  <2>3. Part(s, 1) = x
    <3>1. s[1] % Flag = x
      BY <2>1, PartType
    <3>2. Weight(1) = 1
      BY WeightSteps
    <3> QED
      BY <3>1, <3>2 DEF Part
  <2> QED
    BY <2>1, <2>2, <2>3
<1> HIDE DEF s
<1> QED
  BY <1>1, <1>2 DEF Encodes, s

LEMMA EncodesMore ==
  ASSUME NEW q \in Nat \ {0}, NEW r \in 0 .. Flag - 1, NEW s, Encodes(s, q)
  PROVE  Encodes(<<r + Flag>> \o s, Flag * q + r)
<1> DEFINE b == r + Flag
           t == <<b>> \o s
           n == Len(s)
<1>1. s \in Seq(Nat) /\ n \in Nat /\ n >= 1 /\ b \in Nat /\ b >= Flag /\ Flag \in Nat \ {0} /\ r \in Nat
  BY FlagPositive DEF Encodes
<1>2. /\ t \in Seq(Nat) /\ Len(t) = n + 1 /\ t[1] = b
      /\ \A i \in 1 .. n : t[i + 1] = s[i]
  BY <1>1
<1> HIDE DEF b
<1>10. b = r + Flag
  BY DEF b
<1>3. b % Flag = r
  <2> DEFINE d == b \div Flag
             e == b % Flag
             c == Flag
  <2>1. b = c * d + e /\ e \in 0 .. c - 1 /\ d \in Nat /\ c \in Nat \ {0} /\ b = r + c /\ r < c
    <3>1. b = c * d + e /\ e \in 0 .. c - 1 /\ d \in Nat
      BY <1>1, FlagDivision
    <3> QED
      BY <1>1, <1>10, <3>1
  <2> HIDE DEF c, d, e
  <2>2. d = 0 => c * d = 0
    BY <2>1
  <2>3. d >= 2 => c * d >= c * 2
    BY <2>1
  <2>4. c * 2 = c + c
    BY <2>1
  <2>5. d = 1
    BY <1>1, <2>1, <2>2, <2>3, <2>4
  <2>6. e = r
    BY <1>1, <2>1, <2>5
  <2> QED
    BY <2>6 DEF e, c
<1> HIDE DEF t
<1>4. Number(t, n + 1) = r + Flag * q
  <2>1. n \in 0 .. Len(s) /\ Number(s, n) = q
    BY <1>1 DEF Encodes
  <2> QED
    BY <1>1, <1>3, <2>1, NumberPrepended DEF t
<1>5. \A i \in 1 .. n : t[i] >= Flag
  <2> SUFFICES ASSUME NEW i \in 1 .. n PROVE t[i] >= Flag
    OBVIOUS
  <2>1. CASE i = 1
    BY <1>1, <1>2, <2>1
  <2>2. CASE i # 1
    <3>1. i - 1 \in 1 .. n - 1 /\ (i - 1) + 1 = i /\ i - 1 \in 1 .. n
      BY <1>1, <2>2
    <3>2. t[i] = s[i - 1]
      BY <1>2, <3>1
    <3>3. s[i - 1] >= Flag
      BY <3>1 DEF Encodes
    <3> QED
      BY <3>2, <3>3
  <2> QED
    BY <2>1, <2>2
<1>6. t[n + 1] = s[n] /\ s[n] < Flag
  BY <1>1, <1>2 DEF Encodes
<1> HIDE DEF n
<1>7. s[n] >= 1
  <2>1. CASE n > 1
    BY <2>1 DEF Encodes, n
  <2>2. CASE n = 1
    <3>1. Number(s, 1) = q
      BY <2>2 DEF Encodes, n
    <3>2. s[1] # 0
      <4>1. SUFFICES ASSUME s[1] = 0 PROVE FALSE
        OBVIOUS
      <4>2. 1 \in 1 .. Len(s) /\ 1 - 1 = 0
        BY <2>2 DEF n
      <4>3. Number(s, 1) < (s[1] + 1) * Weight(1)
        BY <1>1, <1>6, <2>2, <4>2, NumberLast
      <4>4. Weight(1) = 1
        BY WeightSteps
      <4> QED
        BY <3>1, <4>1, <4>3, <4>4
    <3>3. s[1] \in Nat
      <4>1. 1 \in 1 .. Len(s)
        BY <1>1 DEF n
      <4> QED
        BY <1>1, <4>1
    <3> QED
      BY <2>2, <3>2, <3>3
  <2> QED
    BY <1>1, <2>1, <2>2
<1>8. r + Flag * q = Flag * q + r
  <2>1. Flag * q \in Nat
    BY <1>1
  <2> QED
    BY <1>1, <2>1
<1>9. Encodes(t, Flag * q + r)
  BY <1>1, <1>2, <1>4, <1>5, <1>6, <1>7, <1>8 DEF Encodes
<1> QED
  BY <1>9 DEF t, b

LEMMA Encoded == \A x \in Nat : Encodes(SerializeSize(x), x)
<1> DEFINE S == {x \in Nat : Encodes(SerializeSize(x), x)}
           m == [x \in Nat |-> x]
<1>1. m \in [Nat -> Nat]
  OBVIOUS
<1>2. ASSUME NEW x \in Nat, \A y \in Nat : m[y] < m[x] => y \in S
      PROVE  x \in S
  <2>1. CASE x < Flag
    BY <2>1, EncodesSmall, SerializeSizeSteps
  <2>2. CASE ~(x < Flag)
    <3> DEFINE q == x \div Flag
               r == x % Flag
    <3>1. x = Flag * q + r /\ r \in 0 .. Flag - 1 /\ q \in Nat
      BY FlagDivision
    <3>2. SerializeSize(x) = <<r + Flag>> \o SerializeSize(q)
      BY <2>2, SerializeSizeSteps
    <3> HIDE DEF q, r
    <3>3. q # 0
      <4>1. q = 0 => Flag * q = 0
        BY FlagPositive
      <4> QED
        BY <2>2, <3>1, <4>1, FlagPositive
    <3>4. q < x
      <4>1. Flag * q >= 2 * q
        BY <3>1, FlagPositive
      <4> QED
        BY <2>2, <3>1, <3>3, <4>1, FlagPositive
    <3>5. Encodes(SerializeSize(q), q)
      BY <1>2, <3>1, <3>4
    <3>6. Encodes(SerializeSize(x), x)
      BY <3>1, <3>2, <3>3, <3>5, EncodesMore
    <3> QED
      BY <3>6
  <2> QED
    BY <2>1, <2>2
<1> HIDE DEF S, m
<1>3. Nat \subseteq S
  BY <1>1, <1>2, MeasureInduced
<1> QED
  BY <1>3 DEF S

-----------------------------------------------------------------------------
(* Files: reading *)

LEMMA Limits ==
  /\ RvLimit \in Nat \ {0} /\ SizeMax \in Nat /\ SizeMax < RvLimit
  /\ \A x \in Nat : x < RvLimit => x % 2 ^ RvBits = x
<1>1. RvLimit \in Nat \ {0} /\ 2 ^ SizeBits \in Nat \ {0}
  BY PowerPositive, FlagPositive DEF RvLimit
<1>2. 2 ^ SizeBits <= RvLimit
  BY PowerMonotone, FlagPositive DEF RvLimit
<1>3. \A x \in Nat : x < RvLimit => x % RvLimit = x
  BY <1>1, Division
<1> QED
  BY <1>1, <1>2, <1>3 DEF SizeMax, RvLimit

(* The first byte without a flag ends a size. *)
LEMMA SizeEnds ==
  ASSUME NEW s \in Seq(Nat), NEW n \in 1 .. Len(s), n <= Groups, s[n] < Flag,
         \A i \in 1 .. n - 1 : s[i] >= Flag
  PROVE  DeserializeSize(s) = IF ~Fits(s, n) \/ Number(s, n) % 2 ^ RvBits > SizeMax THEN Failed
                              ELSE Got(Number(s, n) % 2 ^ RvBits, SubSeq(s, n + 1, Len(s)))
<1> DEFINE ends == {i \in DOMAIN s : i <= Groups /\ s[i] < Flag}
           first == CHOOSE i \in ends : \A j \in ends : i <= j
<1>1. n \in ends
  OBVIOUS
<1>2. ASSUME NEW i \in ends PROVE n <= i
  <2>1. i \in 1 .. Len(s) /\ s[i] < Flag /\ s[i] \in Nat
    OBVIOUS
  <2>2. Flag \in Nat
    BY FlagPositive
  <2>3. i \notin 1 .. n - 1
    BY <2>1, <2>2
  <2> QED
    BY <2>1, <2>3
<1>3. ends \subseteq Int
  OBVIOUS
<1> HIDE DEF ends
<1>4. first \in ends /\ \A j \in ends : first <= j
  BY <1>1, <1>2
<1> HIDE DEF first
<1>5. first = n
  <2>1. first <= n /\ n <= first /\ first \in Int /\ n \in Int
    BY <1>1, <1>2, <1>3, <1>4
  <2> QED
    BY ONLY <2>1
<1>6. ends # {}
  BY <1>1
<1> DEFINE rv == Number(s, first) % 2 ^ RvBits
<1>7. DeserializeSize(s) = IF ends = {} \/ ~Fits(s, first) \/ rv > SizeMax THEN Failed
                           ELSE Got(rv, SubSeq(s, first + 1, Len(s)))
  BY DEF DeserializeSize, ends, first
<1> QED
  BY <1>5, <1>6, <1>7

LEMMA SizeGoesOn ==
  ASSUME NEW s \in Seq(Nat), \A i \in 1 .. Len(s) : i <= Groups => s[i] >= Flag
  PROVE  DeserializeSize(s) = Failed
<1>1. {i \in DOMAIN s : i <= Groups /\ s[i] < Flag} = {}
  <2>1. \A i \in 1 .. Len(s) : s[i] \in Nat
    OBVIOUS
  <2>2. Flag \in Nat
    BY FlagPositive
  <2> QED
    BY <2>1, <2>2
<1> QED
  BY <1>1 DEF DeserializeSize

(* A size that rv has room for is written in bytes that fit. *)
LEMMA EncodedFits ==
  ASSUME NEW x \in Nat, x < RvLimit, NEW s, Encodes(s, x)
  PROVE  Len(s) <= Groups /\ Fits(s, Len(s))
<1> DEFINE n == Len(s)
           w == Weight(n)
           d == s[n]
<1>1. s \in Seq(Nat) /\ n \in Nat \ {0} /\ n \in 1 .. Len(s) /\ d \in Nat /\ d < Flag
  BY DEF Encodes
<1>2. x >= d * w
  BY <1>1, NumberLast DEF Encodes
<1>3. w \in Nat /\ w >= 1
  BY <1>1, WeightType
<1> HIDE DEF n
<1>4. n <= Groups
  <2>1. CASE n = 1
    BY <2>1, GroupsEnough
  <2>2. CASE n > 1
    <3>1. d >= 1
      BY <2>2 DEF Encodes, n
    <3> HIDE DEF d, w
    <3>2. w <= d * w
      <4>1. 1 * w <= d * w
        BY <1>1, <1>3, <3>1
      <4> QED
        BY <1>3, <4>1
    <3>3. d * w \in Nat
      BY <1>1, <1>3
    <3>4. w < RvLimit
      BY <1>2, <1>3, <3>2, <3>3, Limits
    <3> DEFINE a == GroupBits * (n - 1)
    <3>5. a \in Nat /\ RvBits \in Nat
      BY <1>1, WeightSteps, FlagPositive
    <3>6. 2 ^ a < 2 ^ RvBits
      BY <3>4 DEF w, Weight, RvLimit
    <3> HIDE DEF a
    <3>7. a < RvBits
      BY <3>5, <3>6, PowerLess
    <3>8. SUFFICES ASSUME ~(n <= Groups) PROVE FALSE
      OBVIOUS
    <3>9. PICK p \in Nat \ {0} : p = Groups + 1
      BY GroupsEnough
    <3>10. GroupBits * (p - 1) <= a
      <4>1. p <= n
        BY <1>1, <3>8, <3>9, GroupsEnough
      <4> QED
        BY <1>1, <4>1, WeightMonotone DEF a
    <3>11. GroupBits * (p - 1) = GroupBits * Groups
      <4>1. p - 1 = Groups
        BY <3>9, GroupsEnough
      <4> QED
        BY <4>1
    <3>12. RvBits <= GroupBits * Groups
      BY GroupsEnough
    <3> DEFINE g == GroupBits * Groups
    <3>13. g \in Nat /\ g <= a /\ RvBits <= g
      <4>1. g \in Nat
        BY FlagPositive, GroupsEnough
      <4> QED
        BY <3>10, <3>11, <3>12, <4>1
    <3> HIDE DEF g
    <3> QED
      BY <3>5, <3>7, <3>13
  <2> QED
    BY <1>1, <2>1, <2>2
<1>5. Fits(s, n)
  <2> SUFFICES ASSUME n = Groups PROVE d < 2 ^ (RvBits - GroupBits * (Groups - 1))
    BY DEF Fits
  <2> DEFINE b == 2 ^ (RvBits - GroupBits * (Groups - 1))
  <2>1. RvLimit = b * w /\ b \in Nat
    BY LastWeight, PowerIsNumber
  <2> HIDE DEF b, d, w
  <2>2. d * w < b * w
    <3>1. d * w \in Nat /\ b * w \in Nat
      BY <1>1, <1>3, <2>1
    <3> QED
      BY <1>2, <2>1, <3>1
  <2>3. ~(b <= d)
    <3>1. b <= d => b * w <= d * w
      BY <1>1, <1>3, <2>1
    <3>2. d * w \in Nat /\ b * w \in Nat
      BY <1>1, <1>3, <2>1
    <3> QED
      BY <2>2, <3>1, <3>2
  <2>4. d < b
    BY <1>1, <2>1, <2>3
  <2> QED
    BY <2>4 DEF b
<1> QED
  BY <1>4, <1>5 DEF n

LEMMA SizeReadBack ==
  ASSUME NEW x \in 0 .. SizeMax, NEW rest \in Seq(Nat)
  PROVE  DeserializeSize(SerializeSize(x) \o rest) = Got(x, rest)
<1> DEFINE s == SerializeSize(x)
           t == s \o rest
<1>1. x \in Nat /\ x < RvLimit /\ x <= SizeMax /\ SizeMax \in Nat
  BY Limits
<1>2. Encodes(s, x)
  BY <1>1, Encoded
<1> HIDE DEF s
<1>3. PICK n \in Nat : n = Len(s) /\ n >= 1 /\ s \in Seq(Nat)
  BY <1>2 DEF Encodes
<1>4. /\ t \in Seq(Nat) /\ Len(t) = n + Len(rest) /\ n \in 1 .. Len(t)
      /\ \A i \in 1 .. n : t[i] = s[i]
  BY <1>3
<1>5. SubSeq(t, n + 1, Len(t)) = rest
  BY <1>3, <1>4
<1> HIDE DEF t
<1>6. n <= Groups /\ Fits(s, n)
  BY <1>1, <1>2, <1>3, EncodedFits
<1>7. Fits(t, n)
  <2>1. t[n] = s[n]
    BY <1>3, <1>4
  <2> QED
    BY <1>6, <2>1 DEF Fits
<1>8. Number(t, n) = x
  <2>1. Number(t, n) = Number(s, n)
    <3>1. n <= Len(s) /\ n <= Len(t)
      BY <1>3, <1>4
    <3>2. \A i \in 1 .. n : t[i] = s[i]
      BY <1>4
    <3> QED
      BY ONLY <1>3, <1>4, <3>1, <3>2, NumberPrefix
  <2> QED
    BY <1>2, <1>3, <2>1 DEF Encodes
<1>9. t[n] < Flag /\ \A i \in 1 .. n - 1 : t[i] >= Flag
  <2>1. s[n] < Flag /\ \A i \in 1 .. n - 1 : s[i] >= Flag
    BY <1>2, <1>3 DEF Encodes
  <2>2. n \in 1 .. n /\ \A i \in 1 .. n - 1 : i \in 1 .. n
    BY <1>3
  <2> QED
    BY <1>4, <2>1, <2>2
<1>10. x % 2 ^ RvBits = x
  BY <1>1, Limits
<1>11. DeserializeSize(t) = Got(x, rest)
  <2> DEFINE rv == Number(t, n) % 2 ^ RvBits
             r == SubSeq(t, n + 1, Len(t))
  <2>1. DeserializeSize(t) = IF ~Fits(t, n) \/ rv > SizeMax THEN Failed ELSE Got(rv, r)
    BY <1>4, <1>6, <1>9, SizeEnds
  <2>2. rv = x /\ r = rest
    BY <1>5, <1>8, <1>10
  <2> HIDE DEF rv, r
  <2> QED
    BY <1>1, <1>7, <2>1, <2>2
<1> QED
  BY <1>11 DEF t, s

LEMMA SizeCutOff ==
  ASSUME NEW x \in Nat, NEW t \in Seq(Nat), Len(t) < Len(SerializeSize(x)),
         \A i \in 1 .. Len(t) : t[i] = SerializeSize(x)[i]
  PROVE  DeserializeSize(t) = Failed
<1>1. Encodes(SerializeSize(x), x)
  BY Encoded
<1>2. \A i \in 1 .. Len(t) : t[i] >= Flag
  BY <1>1 DEF Encodes
<1> QED
  BY <1>2, SizeGoesOn

(* What is read as a size is the number that the bytes say. *)
LEMMA SizeIsNumber ==
  ASSUME NEW s \in Seq(Nat), DeserializeSize(s).ok
  PROVE  DeserializeSize(s).value = Number(s, Len(s) - Len(DeserializeSize(s).rest))
<1> DEFINE ends == {i \in 1 .. Len(s) : i <= Groups /\ s[i] < Flag}
<1>1. Failed.ok = FALSE
  BY DEF Failed
<1>2. \E i \in 1 .. Len(s) : i <= Groups /\ ~(s[i] >= Flag)
  BY <1>1, SizeGoesOn
<1>3. ends # {} /\ ends \subseteq Nat
  <2>1. \A i \in 1 .. Len(s) : s[i] \in Nat
    OBVIOUS
  <2> QED
    BY <1>2, <2>1, FlagPositive
<1>4. PICK n \in ends : \A j \in ends : ~(<<j, n>> \in OpToRel(<, Nat))
  BY <1>3, NatLessThanWellFounded, WFMin
<1>5. \A j \in ends : ~(j < n)
  BY <1>3, <1>4 DEF OpToRel
<1>6. n \in 1 .. Len(s) /\ n <= Groups /\ s[n] < Flag
  OBVIOUS
<1>7. \A i \in 1 .. n - 1 : s[i] >= Flag
  <2> SUFFICES ASSUME NEW i \in 1 .. n - 1 PROVE s[i] >= Flag
    OBVIOUS
  <2>1. i \in 1 .. Len(s) /\ i < n /\ i <= Groups
    BY <1>6, GroupsEnough
  <2>2. ~(s[i] < Flag)
    BY <1>5, <2>1
  <2>3. s[i] \in Nat
    BY <2>1
  <2> QED
    BY <2>2, <2>3, FlagPositive
<1> HIDE DEF ends
<1> DEFINE rv == Number(s, n) % 2 ^ RvBits
           rest == SubSeq(s, n + 1, Len(s))
<1>8. DeserializeSize(s) = IF ~Fits(s, n) \/ rv > SizeMax THEN Failed ELSE Got(rv, rest)
  BY <1>6, <1>7, SizeEnds
<1>9. Fits(s, n) /\ DeserializeSize(s) = Got(rv, rest)
  BY <1>1, <1>8
<1>10. rv = Number(s, n)
  BY <1>6, <1>9, FittingIsSmall, NumberStep, Limits
<1>11. Len(rest) = Len(s) - n
  BY <1>6
<1> HIDE DEF rv, rest
<1>12. DeserializeSize(s).value = rv /\ DeserializeSize(s).rest = rest
  BY <1>9 DEF Got
<1>13. Len(s) - Len(rest) = n
  BY <1>6, <1>11
<1> QED
  BY <1>10, <1>12, <1>13

LEMMA WholeSize == \A x \in 0 .. SizeMax : DeserializeSize(SerializeSize(x)) = Got(x, <<>>)
<1> SUFFICES ASSUME NEW x \in 0 .. SizeMax PROVE DeserializeSize(SerializeSize(x)) = Got(x, <<>>)
  OBVIOUS
<1>1. x \in Nat
  BY Limits
<1>2. SerializeSize(x) \in Seq(Nat) /\ <<>> \in Seq(Nat)
  BY <1>1, SerializeSizeType, EmptySeq
<1>3. SerializeSize(x) \o <<>> = SerializeSize(x)
  BY <1>2
<1> QED
  BY <1>2, <1>3, SizeReadBack

LEMMA StringType ==
  ASSUME NEW s \in Strings
  PROVE  s \in Seq(Nat) /\ Len(s) \in 0 .. SizeMax
<1>1. s \in Seq(0 .. 2 ^ (GroupBits + 1) - 1) /\ Len(s) < 2 ^ SizeBits
  BY SerializationAssumption
<1>2. 2 ^ SizeBits \in Nat
  BY FlagPositive, PowerIsNumber
<1>3. 0 .. 2 ^ (GroupBits + 1) - 1 \subseteq Nat
  OBVIOUS
<1>4. s \in Seq(Nat)
  <2> DEFINE B == 0 .. 2 ^ (GroupBits + 1) - 1
  <2>1. s \in Seq(B) /\ B \subseteq Nat
    BY <1>1, <1>3
  <2> HIDE DEF B
  <2> QED
    BY <2>1, SeqMonotonic
<1> QED
  BY <1>1, <1>2, <1>4 DEF SizeMax

LEMMA FoundType ==
  ASSUME NEW s \in Found
  PROVE  s \in Seq(Nat)
<1> DEFINE B == 0 .. 2 ^ (GroupBits + 1) - 1
<1>1. s \in Seq(B)
  BY SerializationAssumption
<1>2. B \subseteq Nat
  OBVIOUS
<1> HIDE DEF B
<1> QED
  BY <1>1, <1>2, SeqMonotonic

LEMMA StringReadBack ==
  ASSUME NEW s \in Strings, NEW memory \in BOOLEAN
  PROVE  DeserializeString(SerializeString(s), memory)
           = IF memory /\ Len(s) <= MaxLen /\ Len(s) < SizeMax THEN Got(s, <<>>) ELSE Failed
<1> DEFINE t == SerializeString(s)
           n == DeserializeSize(t)
<1>1. s \in Seq(Nat) /\ Len(s) \in 0 .. SizeMax /\ SizeMax \in Nat
  BY StringType, Limits
<1>2. n = Got(Len(s), s)
  BY <1>1, SizeReadBack DEF SerializeString
<1> HIDE DEF n
<1>3. n.ok /\ n.value = Len(s) /\ n.rest = s
  BY <1>2 DEF Got
<1>4. SubSeq(s, 1, Len(s)) = s /\ SubSeq(s, Len(s) + 1, Len(s)) = <<>>
  BY <1>1
<1>5. DeserializeString(t, memory) =
        IF \/ ~n.ok
           \/ n.value > MaxLen \/ n.value >= SizeMax \/ Len(n.rest) < n.value
           \/ ~memory
        THEN Failed
        ELSE Got(SubSeq(n.rest, 1, n.value), SubSeq(n.rest, n.value + 1, Len(n.rest)))
  BY DEF DeserializeString, n
<1>6. MaxLen \in Nat
  BY SerializationAssumption
<1> HIDE DEF t
<1>7. DeserializeString(t, memory)
        = IF memory /\ Len(s) <= MaxLen /\ Len(s) < SizeMax THEN Got(s, <<>>) ELSE Failed
  <2> DEFINE l == Len(s)
  <2>1. l \in Nat
    BY <1>1
  <2> HIDE DEF l
  <2>2. l > MaxLen \/ l >= SizeMax \/ l < l <=> ~(l <= MaxLen /\ l < SizeMax)
    BY <1>1, <1>6, <2>1
  <2> QED
    BY <1>3, <1>4, <1>5, <2>2 DEF l
<1> QED
  BY <1>7 DEF t

LEMMA StringCutOff ==
  ASSUME NEW s \in Strings, NEW memory, NEW k \in 0 .. Len(SerializeString(s)) - 1
  PROVE  DeserializeString(SubSeq(SerializeString(s), 1, k), memory) = Failed
<1> DEFINE z == SerializeSize(Len(s))
           t == z \o s
           u == SubSeq(t, 1, k)
<1>1. s \in Seq(Nat) /\ Len(s) \in 0 .. SizeMax /\ Len(s) \in Nat
  BY StringType, Limits
<1>2. z \in Seq(Nat)
  BY <1>1, SerializeSizeType
<1>3. k \in 0 .. Len(t) - 1
  BY DEF SerializeString
<1>4. CASE k < Len(z)
  <2>1. u \in Seq(Nat) /\ Len(u) = k /\ \A i \in 1 .. k : u[i] = z[i]
    <3> HIDE DEF z
    <3> QED
      BY <1>1, <1>2, <1>3, <1>4
  <2> HIDE DEF u
  <2>2. DeserializeSize(u) = Failed
    BY <1>1, <1>3, <1>4, <2>1, SizeCutOff
  <2>3. ~DeserializeSize(u).ok
    BY <2>2 DEF Failed
  <2>4. DeserializeString(u, memory) = Failed
    BY <2>3 DEF DeserializeString
  <2> QED
    BY <2>4 DEF u, t, SerializeString
<1>5. CASE ~(k < Len(z))
  <2> DEFINE r == SubSeq(s, 1, k - Len(z))
  <2>1. r \in Seq(Nat) /\ Len(r) = k - Len(z) /\ Len(r) < Len(s)
    <3> HIDE DEF z
    <3> QED
      BY <1>1, <1>2, <1>3, <1>5
  <2>2. u = z \o r
    <3> HIDE DEF z
    <3>4. t \in Seq(Nat) /\ Len(z) \in Nat /\ k \in Nat /\ k <= Len(t)
      BY <1>1, <1>2, <1>3
    <3>1. u \in Seq(Nat) /\ Len(u) = k /\ \A i \in 1 .. k : u[i] = t[i]
      <4> HIDE DEF t
      <4> QED
        BY <3>4
    <3>2. z \o r \in Seq(Nat) /\ Len(z \o r) = k
      BY <1>1, <1>2, <1>3, <1>5, <2>1
    <3>3. ASSUME NEW i \in 1 .. k PROVE t[i] = (z \o r)[i]
      <4>1. CASE i <= Len(z)
        BY <1>1, <1>2, <2>1, <4>1
      <4>2. CASE i > Len(z)
        <5>1. t[i] = s[i - Len(z)]
          BY <1>1, <1>2, <1>3, <4>2
        <5>2. (z \o r)[i] = r[i - Len(z)]
          BY <1>2, <1>5, <2>1, <4>2
        <5>3. r[i - Len(z)] = s[i - Len(z)]
          BY <1>1, <1>2, <1>3, <1>5, <2>1, <4>2
        <5> QED
          BY <5>1, <5>2, <5>3
      <4>3. i \in Nat
        BY <3>4
      <4> QED
        BY <3>4, <4>1, <4>2, <4>3
    <3> HIDE DEF u, t, r
    <3> QED
      BY <3>1, <3>2, <3>3, SeqEqual
  <2>3. DeserializeSize(u) = Got(Len(s), r)
    BY <1>1, <2>1, <2>2, SizeReadBack
  <2> HIDE DEF r
  <2> DEFINE n == DeserializeSize(u)
  <2>4. n.value = Len(s) /\ n.rest = r
    BY <2>3 DEF Got
  <2> HIDE DEF u
  <2>5. Len(n.rest) < n.value
    BY <2>1, <2>4
  <2>6. DeserializeString(u, memory) = Failed
    BY <2>5 DEF DeserializeString
  <2> QED
    BY <2>6 DEF u, t, SerializeString
<1> QED
  BY <1>4, <1>5

LEMMA AsSeq ==
  ASSUME NEW S, NEW n \in Nat, NEW f \in [1 .. n -> S]
  PROVE  f \in Seq(S) /\ Len(f) = n
OBVIOUS

LEMMA InFront ==
  ASSUME NEW S, NEW b \in Seq(S), NEW n \in Nat, Len(b) = n, NEW d \in Seq(S)
  PROVE  /\ b \o d \in Seq(S) /\ Len(b \o d) = n + Len(d) /\ Len(d) \in Nat
         /\ \A i \in 1 .. n : (b \o d)[i] = b[i]
         /\ SubSeq(b \o d, n + 1, Len(b \o d)) = d
<1> DEFINE s == b \o d
           t == SubSeq(s, n + 1, Len(s))
<1>1. s \in Seq(S) /\ Len(s) = n + Len(d) /\ Len(d) \in Nat
  OBVIOUS
<1>2. \A i \in 1 .. n : s[i] = b[i]
  OBVIOUS
<1>3. \A i \in 1 .. Len(d) : s[i + n] = d[i]
  OBVIOUS
<1> HIDE DEF s
<1>4. t \in Seq(S) /\ Len(t) = Len(d) /\ \A i \in 1 .. Len(d) : t[i] = s[i + n]
  BY <1>1
<1> HIDE DEF t
<1>5. t = d
  BY <1>3, <1>4, SeqEqual
<1> QED
  BY <1>1, <1>2, <1>5 DEF s, t

Octets == SUBSET (0 .. 7)

LEMMA WordReadBack ==
  ASSUME NEW x \in SUBSET Bits, NEW d \in Seq(Octets)
  PROVE  DeserializeU32(SerializeU32(x) \o d) = Got(x, d)
<1> DEFINE b == SerializeU32(x)
           s == b \o d
<1>1. b \in Seq(Octets) /\ Len(b) = 4
  <2>1. \A i \in 1 .. 4 : {k \in 0 .. 7 : k + 8 * (i - 1) \in x} \in Octets
    BY DEF Octets
  <2>2. b \in [1 .. 4 -> Octets]
    BY <2>1 DEF SerializeU32
  <2> HIDE DEF b
  <2> QED
    BY <2>2, AsSeq
<1>2. \A i \in 1 .. 4 : b[i] = {k \in 0 .. 7 : k + 8 * (i - 1) \in x}
  BY DEF SerializeU32
<1> HIDE DEF b
<1>0. PICK n \in Nat : n = 4
  OBVIOUS
<1>9. /\ s \in Seq(Octets) /\ Len(s) = n + Len(d) /\ Len(d) \in Nat
      /\ \A i \in 1 .. n : s[i] = b[i]
      /\ SubSeq(s, n + 1, Len(s)) = d
  <2>1. Len(b) = n
    BY <1>0, <1>1
  <2>2. b \in Seq(Octets)
    BY <1>1
  <2> QED
    BY <2>1, <2>2, InFront
<1> HIDE DEF s
<1>3. s \in Seq(Octets) /\ Len(s) = 4 + Len(d) /\ Len(d) \in Nat /\ \A i \in 1 .. 4 : s[i] = b[i]
  BY <1>0, <1>9
<1>4. SubSeq(s, 5, Len(s)) = d
  BY <1>0, <1>9
<1>5. {j \in Bits : j % 8 \in s[(j \div 8) + 1]} = x
  <2>1. ASSUME NEW j \in Bits
        PROVE  j % 8 \in s[(j \div 8) + 1] <=> j \in x
    <3> DEFINE q == j \div 8
               r == j % 8
    <3>1. q \in 0 .. 3 /\ r \in 0 .. 7 /\ j = r + 8 * q
      BY DEF Bits
    <3> HIDE DEF q, r
    <3>2. q + 1 \in 1 .. 4 /\ (q + 1) - 1 = q
      BY <3>1
    <3>3. s[q + 1] = {k \in 0 .. 7 : k + 8 * ((q + 1) - 1) \in x}
      BY <1>2, <1>3, <3>2
    <3>4. r \in s[q + 1] <=> r + 8 * q \in x
      BY <3>1, <3>2, <3>3
    <3> QED
      BY <3>1, <3>4 DEF q, r
  <2> QED
    BY <2>1
<1>6. ~(Len(s) < 4)
  BY <1>3
<1>7. DeserializeU32(s) = Got(x, d)
  BY <1>4, <1>5, <1>6 DEF DeserializeU32
<1> QED
  BY <1>7 DEF s, b

LEMMA DataReadBack ==
  ASSUME NEW d \in Data
  PROVE  DeserializeData(SerializeData(d)) = Got(d, <<>>)
<1> DEFINE x == Crc32Update({}, d)
<1>1. d \in Seq(Octets)
  BY SerializationAssumption DEF Octets
<1>2. x \in SUBSET Bits
  BY DEF Crc32Update
<1> HIDE DEF x
<1>3. DeserializeU32(SerializeData(d)) = Got(x, d)
  BY <1>1, <1>2, WordReadBack DEF SerializeData, x
<1> QED
  BY <1>3 DEF DeserializeData, Got, x

-----------------------------------------------------------------------------
(* Files: the program *)

WrittenAs(kind, item) == CASE kind = "size" -> SerializeSize(item)
                         [] kind = "string" -> SerializeString(item)
                         [] kind = "data" -> SerializeData(item)

ItemsOf(kind) == CASE kind = "size" -> 0 .. SizeMax
                   [] kind = "string" -> Strings
                   [] kind = "data" -> Data

ReadAs(kind, bytes, memory) ==
  CASE kind = "size" -> DeserializeSize(bytes)
    [] kind = "string" -> DeserializeString(bytes, memory)
    [] kind = "data" -> DeserializeData(bytes)

Kinds == {"size", "string", "data"}

(* How the bytes came there *)
Came(kind, item, bytes, fate) ==
  \/ fate = "whole" /\ item \in ItemsOf(kind) /\ bytes = WrittenAs(kind, item)
  \/ /\ fate = "cut off" /\ item \in ItemsOf(kind)
     /\ \E n \in 0 .. Len(WrittenAs(kind, item)) - 1 : bytes = SubSeq(WrittenAs(kind, item), 1, n)
  \/ fate = "found" /\ kind # "data" /\ bytes \in Found
  \/ fate = "changed" /\ kind = "data"

ReadOnce(kind, bytes, read) ==
  read = <<>> \/ \E memory \in BOOLEAN : read = <<ReadAs(kind, bytes, memory), memory>>

TapeOf(kind, item, bytes, fate, read) ==
  [kind |-> kind, item |-> item, bytes |-> bytes, fate |-> fate, read |-> read]

TapeInv ==
  \/ tape = [kind |-> "none"]
  \/ \E kind \in Kinds : \E item, bytes, fate, read :
       /\ tape = TapeOf(kind, item, bytes, fate, read)
       /\ Came(kind, item, bytes, fate)
       /\ ReadOnce(kind, bytes, read)

LEMMA TapeStep == TapeInv /\ [TapeNext]_tape => TapeInv'
<1> SUFFICES ASSUME TapeInv, [TapeNext]_tape PROVE TapeInv'
  OBVIOUS
<1>1. CASE tape' = tape
  BY <1>1 DEF TapeInv
<1>2. ASSUME NEW kind \in Kinds, NEW item, NEW bytes, NEW fate, Fresh(kind, item, bytes, fate),
             Came(kind, item, bytes, fate)
      PROVE  TapeInv'
  <2>1. tape' = TapeOf(kind, item, bytes, fate, <<>>)
    BY <1>2 DEF Fresh, TapeOf
  <2>2. ReadOnce(kind, bytes, <<>>)
    BY DEF ReadOnce
  <2> QED
    BY <1>2, <2>1, <2>2 DEF TapeInv
<1>3. ASSUME Write PROVE TapeInv'
  <2>1. ASSUME NEW x \in 0 .. SizeMax, Fresh("size", x, SerializeSize(x), "whole") PROVE TapeInv'
    <3>1. Came("size", x, SerializeSize(x), "whole")
      BY DEF Came, ItemsOf, WrittenAs
    <3> QED
      BY <1>2, <2>1, <3>1 DEF Kinds
  <2>2. ASSUME NEW s \in Strings, Fresh("string", s, SerializeString(s), "whole") PROVE TapeInv'
    <3>1. Came("string", s, SerializeString(s), "whole")
      BY DEF Came, ItemsOf, WrittenAs
    <3> QED
      BY <1>2, <2>2, <3>1 DEF Kinds
  <2>3. ASSUME NEW d \in Data, Fresh("data", d, SerializeData(d), "whole") PROVE TapeInv'
    <3>1. Came("data", d, SerializeData(d), "whole")
      BY DEF Came, ItemsOf, WrittenAs
    <3> QED
      BY <1>2, <2>3, <3>1 DEF Kinds
  <2> QED
    BY <1>3, <2>1, <2>2, <2>3 DEF Write
<1>4. ASSUME Find PROVE TapeInv'
  <2>1. PICK kind \in {"size", "string"}, s \in Found : Fresh(kind, <<>>, s, "found")
    BY <1>4 DEF Find
  <2>2. kind \in Kinds /\ Came(kind, <<>>, s, "found")
    BY <2>1 DEF Came, Kinds
  <2> QED
    BY <1>2, <2>1, <2>2
<1>5. CASE tape.kind = "none" /\ (Write \/ Find)
  BY <1>3, <1>4, <1>5
<1>6. CASE tape.kind # "none" /\ tape.read # <<>> /\ tape' = [kind |-> "none"]
  BY <1>6 DEF TapeInv
<1>7. ASSUME tape.kind # "none", tape.read = <<>>,
             (tape.fate = "whole" /\ (CutOff \/ Changed)) \/ ReadBack
      PROVE  TapeInv'
  <2>1. tape # [kind |-> "none"]
    BY <1>7
  <2>2. PICK kind, item, bytes, fate, read :
          /\ kind \in Kinds
          /\ tape = TapeOf(kind, item, bytes, fate, read)
          /\ Came(kind, item, bytes, fate)
          /\ ReadOnce(kind, bytes, read)
    BY <2>1 DEF TapeInv
  <2>3. tape.kind = kind /\ tape.item = item /\ tape.bytes = bytes /\ tape.fate = fate
        /\ read = <<>>
    BY <1>7, <2>2 DEF TapeOf
  <2>4. CASE fate = "whole" /\ CutOff
    <3>1. PICK n \in 0 .. Len(tape.bytes) - 1 :
            tape' = [tape EXCEPT !.bytes = SubSeq(@, 1, n), !.fate = "cut off"]
      BY <2>4 DEF CutOff
    <3>2. tape' = TapeOf(kind, item, SubSeq(bytes, 1, n), "cut off", <<>>)
      BY <2>2, <2>3, <3>1 DEF TapeOf
    <3>3. item \in ItemsOf(kind) /\ bytes = WrittenAs(kind, item)
      BY <2>2, <2>4 DEF Came
    <3>4. Came(kind, item, SubSeq(bytes, 1, n), "cut off")
      BY <2>3, <3>1, <3>3 DEF Came
    <3>5. ReadOnce(kind, SubSeq(bytes, 1, n), <<>>)
      BY DEF ReadOnce
    <3> QED
      BY <2>2, <3>2, <3>4, <3>5 DEF TapeInv
  <2>5. CASE fate = "whole" /\ Changed
    <3>1. PICK s \in Data :
            tape' = [tape EXCEPT !.bytes = SubSeq(@, 1, 4) \o s, !.fate = "changed"]
      BY <2>5 DEF Changed
    <3>2. kind = "data"
      BY <2>3, <2>5 DEF Changed
    <3> DEFINE b == SubSeq(bytes, 1, 4) \o s
    <3>3. tape' = TapeOf(kind, item, b, "changed", <<>>)
      BY <2>2, <2>3, <3>1 DEF TapeOf
    <3> HIDE DEF b
    <3>4. Came(kind, item, b, "changed") /\ ReadOnce(kind, b, <<>>)
      BY <3>2 DEF Came, ReadOnce
    <3> QED
      BY <2>2, <3>3, <3>4 DEF TapeInv
  <2>6. CASE ReadBack
    <3>1. PICK memory \in BOOLEAN : tape' = [tape EXCEPT !.read = <<Deserialized(memory), memory>>]
      BY <2>6 DEF ReadBack
    <3>2. Deserialized(memory) = ReadAs(kind, bytes, memory)
      BY <2>3 DEF Deserialized, ReadAs
    <3> DEFINE r == <<ReadAs(kind, bytes, memory), memory>>
    <3>3. tape' = [tape EXCEPT !.read = r]
      BY <3>1, <3>2
    <3>4. ReadOnce(kind, bytes, r)
      BY DEF ReadOnce
    <3> HIDE DEF r
    <3>5. tape' = TapeOf(kind, item, bytes, fate, r)
      BY <2>2, <3>3 DEF TapeOf
    <3> QED
      BY <2>2, <3>4, <3>5 DEF TapeInv
  <2> QED
    BY <1>7, <2>3, <2>4, <2>5, <2>6
<1>8. CASE TapeNext
  BY <1>5, <1>6, <1>7, <1>8 DEF TapeNext
<1> QED
  BY <1>1, <1>8

LEMMA SizesRead ==
  ASSUME NEW item, NEW bytes, NEW fate, Came("size", item, bytes, fate)
  PROVE  /\ fate = "whole" => DeserializeSize(bytes) = Got(item, <<>>)
         /\ fate = "cut off" => DeserializeSize(bytes) = Failed
         /\ bytes \in Seq(Nat)
<1> DEFINE w == SerializeSize(item)
<1>1. CASE fate \in {"whole", "cut off"}
  <2>1. item \in 0 .. SizeMax /\ item \in Nat
    <3>1. item \in 0 .. SizeMax
      BY <1>1 DEF Came, ItemsOf
    <3> QED
      BY <3>1, Limits
  <2>2. w \in Seq(Nat)
    BY <2>1, SerializeSizeType
  <2>3. CASE fate = "whole"
    BY <2>1, <2>2, <2>3, WholeSize DEF Came, WrittenAs
  <2>4. CASE fate = "cut off"
    <3>1. PICK n \in 0 .. Len(w) - 1 : bytes = SubSeq(w, 1, n)
      BY <2>4 DEF Came, WrittenAs
    <3>2. bytes \in Seq(Nat) /\ Len(bytes) = n /\ n < Len(w) /\ \A i \in 1 .. n : bytes[i] = w[i]
      <4> HIDE DEF w
      <4> QED
        BY <2>2, <3>1
    <3>3. DeserializeSize(bytes) = Failed
      BY <2>1, <3>2, SizeCutOff
    <3> QED
      BY <2>4, <3>2, <3>3
  <2> QED
    BY <1>1, <2>3, <2>4
<1>2. CASE fate \in {"found", "changed"}
  BY <1>2, FoundType DEF Came
<1> QED
  BY <1>1, <1>2 DEF Came

LEMMA TapeReadBack == TapeInv => FilesReadBack
<1> SUFFICES ASSUME TapeInv, tape.kind # "none", tape.read # <<>>
             PROVE  /\ tape.kind # "data" \/ tape.fate = "whole" => ReadAsWritten
                    /\ NothingShiftedOut
  BY DEF FilesReadBack, WasRead
<1>1. PICK kind, item, bytes, fate, read :
        /\ kind \in Kinds
        /\ tape = TapeOf(kind, item, bytes, fate, read)
        /\ Came(kind, item, bytes, fate)
        /\ ReadOnce(kind, bytes, read)
  <2>1. tape # [kind |-> "none"]
    OBVIOUS
  <2> QED
    BY <2>1 DEF TapeInv
<1>2. tape.kind = kind /\ tape.item = item /\ tape.bytes = bytes /\ tape.fate = fate /\ tape.read = read
  BY <1>1 DEF TapeOf
<1>3. PICK memory \in BOOLEAN : read = <<ReadAs(kind, bytes, memory), memory>>
  BY <1>1, <1>2 DEF ReadOnce
<1>4. read[1] = ReadAs(kind, bytes, memory) /\ read[2] = memory
  BY <1>3
<1> DEFINE r == ReadAs(kind, bytes, memory)
           acceptable == kind = "string" => memory /\ Len(item) <= MaxLen /\ Len(item) < SizeMax
<1>5. NothingShiftedOut
  <2> SUFFICES ASSUME kind = "size", r.ok
               PROVE  r.value = Number(bytes, Len(bytes) - Len(r.rest))
    BY <1>2, <1>4 DEF NothingShiftedOut
  <2>1. r = DeserializeSize(bytes)
    BY DEF ReadAs
  <2>2. bytes \in Seq(Nat)
    BY <1>1, SizesRead
  <2> QED
    BY <2>1, <2>2, SizeIsNumber
<1>6. fate = "whole" => r = IF acceptable THEN Got(item, <<>>) ELSE Failed
  <2> SUFFICES ASSUME fate = "whole" PROVE r = IF acceptable THEN Got(item, <<>>) ELSE Failed
    OBVIOUS
  <2>1. item \in ItemsOf(kind) /\ bytes = WrittenAs(kind, item)
    BY <1>1 DEF Came
  <2>2. CASE kind = "size"
    BY <1>1, <2>2, SizesRead DEF ReadAs
  <2>3. CASE kind = "string"
    <3>1. item \in Strings /\ bytes = SerializeString(item) /\ r = DeserializeString(bytes, memory)
      BY <2>1, <2>3 DEF ItemsOf, WrittenAs, ReadAs
    <3> QED
      BY <2>3, <3>1, StringReadBack
  <2>4. CASE kind = "data"
    <3>1. item \in Data /\ bytes = SerializeData(item) /\ r = DeserializeData(bytes)
      BY <2>1, <2>4 DEF ItemsOf, WrittenAs, ReadAs
    <3> QED
      BY <2>4, <3>1, DataReadBack
  <2> QED
    BY <1>1, <2>2, <2>3, <2>4 DEF Kinds
<1>7. kind # "data" /\ fate = "cut off" => r = Failed
  <2> SUFFICES ASSUME kind # "data", fate = "cut off" PROVE r = Failed
    OBVIOUS
  <2>1. CASE kind = "size"
    BY <1>1, <2>1, SizesRead DEF ReadAs
  <2>2. CASE kind = "string"
    <3>1. item \in Strings
      BY <1>1, <2>2 DEF Came, ItemsOf
    <3>2. PICK n \in 0 .. Len(SerializeString(item)) - 1 : bytes = SubSeq(SerializeString(item), 1, n)
      BY <1>1, <2>2 DEF Came, WrittenAs
    <3>3. r = DeserializeString(bytes, memory)
      BY <2>2 DEF ReadAs
    <3> QED
      BY <3>1, <3>2, <3>3, StringCutOff
  <2> QED
    BY <1>1, <2>1, <2>2 DEF Kinds
<1>8. kind # "data" => fate # "changed"
  BY <1>1 DEF Came
<1>9. kind # "data" \/ fate = "whole" => ReadAsWritten
  <2> HIDE DEF r, acceptable
  <2>1. ReadAsWritten <=> /\ fate = "whole" => r = IF acceptable THEN Got(item, <<>>) ELSE Failed
                          /\ fate \in {"cut off", "changed"} => r = Failed
    BY <1>2, <1>4 DEF ReadAsWritten, r, acceptable
  <2> QED
    BY <1>6, <1>7, <1>8, <2>1
<1> QED
  BY <1>2, <1>5, <1>9

(* Every size, string and data that serialize.h wrote is read as it was written (strings if
   the reader accepts the length and has memory), whatever the widths of the integers; a size or string cut off is not read, and no bytes are read as
   a number that they do not say: its reader's loop shifts nothing out. *)
THEOREM WrittenIsReadBack == TapeInit /\ [][TapeNext]_tape => []FilesReadBack
<1>1. TapeInit => TapeInv
  BY DEF TapeInit, TapeInv
<1> QED
  BY <1>1, TapeStep, TapeReadBack, PTL
=============================================================================
