---------------------------- MODULE PPoolProofs -----------------------------
(* What is proved of PPool, for any number of threads and variables, all sizes and every
   limit of memory: the steps of a call with the mutex held are one step of a pool. *)
EXTENDS PPool, TLAPS

GetLabels == {"getLock", "getLook", "getGrow", "getRelink", "getTake", "getPop", "getMark",
              "getReturn"}
PutLabels == {"putLock", "putLook", "putLink", "putHead", "putClear"}

-----------------------------------------------------------------------------
(* The inductive invariant *)

(* The mutex is held exactly inside; every call has a variable, and a get has it for
   itself; only a pool that is there is used. *)
CallsOK ==
  /\ status \in {"absent", "live", "destroyed"}
  /\ pc \in [Thread -> {"idle"} \cup GetLabels \cup PutLabels]
  /\ dst = [t \in Thread |-> dst[t]] /\ rv = [t \in Thread |-> rv[t]]
  /\ var = [v \in Var |-> var[v]]
  /\ lock \in Thread \cup {NULL}
  /\ \A t \in Thread : pc[t] \in Working <=> lock = t
  /\ \A t \in Thread : IF pc[t] = "idle" THEN dst[t] = NULL ELSE dst[t] \in Var /\ status = "live"
  /\ \A t, u \in Thread : pc[t] \in GetLabels /\ dst[u] = dst[t] => u = t

(* Blocks of sizes bs, a free list that starts at hd, and the next fields: a free entry
   is followed by another free one or by none, and no two by the same. *)
Store(bs, hd, nx) ==
  /\ bs \in Seq(Nat)
  /\ nx = [e \in DOMAIN nx |-> nx[e]]
  /\ \A e \in DOMAIN nx : \E b \in 1 .. Len(bs) : \E i \in 1 .. bs[b] : e = <<pool, b, i>>
  /\ hd # NULL => hd \in DOMAIN nx /\ nx[hd] # pool
  /\ \A e \in DOMAIN nx : nx[e] \in {NULL, pool} \cup DOMAIN nx
  /\ \A e \in DOMAIN nx : nx[e] \in DOMAIN nx => nx[e] # hd /\ nx[nx[e]] # pool
  /\ \A e, f \in DOMAIN nx : nx[e] = nx[f] /\ nx[e] \in DOMAIN nx => e = f

(* The memory is as the others see it, but for the head; a new block was added to what
   they see; either of the two, when the entry e is about to be handed out. *)
SameBut(hd) == blocks = snap.blocks /\ next = snap.next /\ stack = snap.stack /\ snap.head = hd

Size == Abs!NextSize(snap.blocks[Len(snap.blocks)])

Grown == LET b == Len(snap.blocks) + 1
         IN  /\ snap.head = NULL
             /\ Abs!CanInit(Size)
             /\ blocks = Append(snap.blocks, Size)
             /\ next = Abs!Extend(snap.next, Abs!Links(pool, b, Size))

Relinked(e) == /\ Grown
               /\ e = <<pool, Len(blocks), 1>>
               /\ stack = [i \in 1 .. Size |-> <<pool, Len(blocks), i>>]

Taking(e) == e # NULL /\ (SameBut(e) \/ Relinked(e))

(* What the thread in the mutex has done so far *)
Stage(t) ==
  /\ pc[t] \in {"getLook", "putLook"} => SameBut(head)
  /\ pc[t] = "getGrow" => SameBut(NULL) /\ head = NULL
  /\ pc[t] = "getRelink" => Grown
  /\ pc[t] = "getTake" => Taking(head)
  /\ pc[t] = "getPop" => Taking(rv[t]) /\ head = rv[t]
  /\ pc[t] = "getMark" => Taking(rv[t]) /\ head = next[rv[t]]
  /\ pc[t] \in {"putLink", "putHead", "putClear"} =>
       /\ rv[t] = var[dst[t]] /\ rv[t] # NULL /\ snap.next[rv[t]] = pool
       /\ blocks = snap.blocks /\ stack = snap.stack
       /\ head = IF pc[t] = "putClear" THEN rv[t] ELSE snap.head
       /\ next = IF pc[t] = "putLink" THEN snap.next
                 ELSE [snap.next EXCEPT ![rv[t]] = snap.head]

SnapOK ==
  /\ lock # NULL => /\ snap = [blocks |-> snap.blocks, head |-> snap.head,
                               next |-> snap.next, stack |-> snap.stack]
                    /\ Stage(lock)

(* What is seen is a pool, and every pointer is to an entry of it. *)
SeenOK ==
  /\ Store(Seen.blocks, Seen.head, Seen.next)
  /\ used \subseteq DOMAIN Seen.next
  /\ status # "destroyed" => /\ \A v \in Var : var[v] \in {NULL} \cup DOMAIN Seen.next
                             /\ \A t \in Thread : pc[t] = "getReturn" =>
                                  rv[t] \in {NULL} \cup DOMAIN Seen.next
  /\ status # "live" => blocks = <<>> /\ next = [e \in {} |-> NULL] /\ stack = <<>>
  /\ status = "live" => Seen.blocks # <<>>

PPoolInv == CallsOK /\ SnapOK /\ SeenOK
-----------------------------------------------------------------------------
(* The free list: an entry is handed out, given back; a block is added *)

LEMMA EntryShape ==
  ASSUME NEW bs \in Seq(Nat), NEW b \in 1 .. Len(bs), NEW i \in 1 .. bs[b]
  PROVE  <<pool, b, i>> \in {pool} \X Nat \X Nat /\ <<pool, b, i>> # NULL /\ <<pool, b, i>> # pool
<1>1. bs[b] \in Nat
  OBVIOUS
<1>2. <<pool, b, i>> \in {pool} \X Nat \X Nat
  BY <1>1
<1> QED
  BY <1>2, NullAssumption, PoolAssumption

LEMMA StoreSays ==
  ASSUME NEW bs, NEW hd, NEW nx, Store(bs, hd, nx), NEW e \in DOMAIN nx
  PROVE  e # NULL /\ e # pool
BY EntryShape DEF Store

LEMMA StorePop ==
  ASSUME NEW bs, NEW hd, NEW nx, Store(bs, hd, nx), hd # NULL
  PROVE  Store(bs, nx[hd], [nx EXCEPT ![hd] = pool])
<1> DEFINE nn == [nx EXCEPT ![hd] = pool]
<1>1. hd \in DOMAIN nx /\ nx[hd] # pool /\ nx = [e \in DOMAIN nx |-> nx[e]]
  BY DEF Store
<1>2. /\ DOMAIN nn = DOMAIN nx /\ nn[hd] = pool
      /\ \A e \in DOMAIN nx : e # hd => nn[e] = nx[e]
  BY <1>1
<1>3. nn = [e \in DOMAIN nn |-> nn[e]]
  BY <1>1
<1>4. \A e \in DOMAIN nx : e # NULL /\ e # pool
  BY StoreSays
<1> HIDE DEF nn
<1>5. \A e \in DOMAIN nn : nn[e] \in {NULL, pool} \cup DOMAIN nn
  BY <1>1, <1>2 DEF Store
<1>6. nx[hd] # NULL => nx[hd] \in DOMAIN nn /\ nn[nx[hd]] # pool
  BY <1>1, <1>2 DEF Store
<1>7. ASSUME NEW e \in DOMAIN nn, nn[e] \in DOMAIN nn
      PROVE  nn[e] # nx[hd] /\ nn[nn[e]] # pool
  BY <1>1, <1>2, <1>4, <1>7 DEF Store
<1>8. \A e, f \in DOMAIN nn : nn[e] = nn[f] /\ nn[e] \in DOMAIN nn => e = f
  BY <1>1, <1>2, <1>4 DEF Store
<1>9. bs \in Seq(Nat) /\ \A e \in DOMAIN nn : \E b \in 1 .. Len(bs) : \E i \in 1 .. bs[b] : e = <<pool, b, i>>
  BY <1>2 DEF Store
<1>10. Store(bs, nx[hd], nn)
  BY <1>3, <1>5, <1>6, <1>7, <1>8, <1>9 DEF Store
<1> QED
  BY <1>10 DEF nn

LEMMA StorePut ==
  ASSUME NEW bs, NEW hd, NEW nx, Store(bs, hd, nx), NEW x \in DOMAIN nx, nx[x] = pool
  PROVE  Store(bs, x, [nx EXCEPT ![x] = hd])
<1> DEFINE nn == [nx EXCEPT ![x] = hd]
<1>1. nx = [e \in DOMAIN nx |-> nx[e]]
  BY DEF Store
<1>2. /\ DOMAIN nn = DOMAIN nx /\ nn[x] = hd
      /\ \A e \in DOMAIN nx : e # x => nn[e] = nx[e]
  BY <1>1
<1>3. nn = [e \in DOMAIN nn |-> nn[e]]
  BY <1>1
<1>4. \A e \in DOMAIN nx : e # NULL /\ e # pool
  BY StoreSays
<1>5. hd # NULL => hd \in DOMAIN nx /\ nx[hd] # pool /\ hd # x
  BY DEF Store
<1> HIDE DEF nn
<1>6. \A e \in DOMAIN nn : nn[e] \in {NULL, pool} \cup DOMAIN nn
  BY <1>2, <1>5 DEF Store
<1>7. x # NULL => x \in DOMAIN nn /\ nn[x] # pool
  <2>1. NULL # pool
    BY NullAssumption
  <2> QED
    BY <1>2, <1>4, <1>5, <2>1
<1>8. ASSUME NEW e \in DOMAIN nn, nn[e] \in DOMAIN nn
      PROVE  nn[e] # x /\ nn[nn[e]] # pool
  <2>1. CASE e = x
    BY <1>2, <1>4, <1>5, <1>8, <2>1
  <2>2. CASE e # x
    BY <1>2, <1>8, <2>2 DEF Store
  <2> QED
    BY <2>1, <2>2
<1>9. ASSUME NEW e \in DOMAIN nn, NEW f \in DOMAIN nn, nn[e] = nn[f], nn[e] \in DOMAIN nn
      PROVE  e = f
  <2>1. \A g \in DOMAIN nx : nx[g] \in DOMAIN nx => nx[g] # hd
    BY DEF Store
  <2>2. CASE e # x /\ f # x
    BY <1>2, <1>9, <2>2 DEF Store
  <2> QED
    BY <1>2, <1>9, <2>1, <2>2
<1>10. bs \in Seq(Nat) /\ \A e \in DOMAIN nn : \E b \in 1 .. Len(bs) : \E i \in 1 .. bs[b] : e = <<pool, b, i>>
  BY <1>2 DEF Store
<1>11. Store(bs, x, nn)
  BY <1>3, <1>6, <1>7, <1>8, <1>9, <1>10 DEF Store
<1> QED
  BY <1>11 DEF nn

LEMMA StoreGrow ==
  ASSUME NEW bs, NEW nx, Store(bs, NULL, nx), NEW n \in Nat \ {0}
  PROVE  LET b == Len(bs) + 1
         IN  /\ Store(Append(bs, n), <<pool, b, 1>>, Abs!Extend(nx, Abs!Links(pool, b, n)))
             /\ DOMAIN nx \subseteq DOMAIN Abs!Extend(nx, Abs!Links(pool, b, n))
             /\ <<pool, b, 1>> \in DOMAIN Abs!Extend(nx, Abs!Links(pool, b, n))
<1> DEFINE b == Len(bs) + 1
           E(i) == <<pool, b, i>>
           nn == Abs!Extend(nx, Abs!Links(pool, b, n))
           bb == Append(bs, n)
<1>1. bs \in Seq(Nat) /\ Len(bs) \in Nat /\ b \in Nat /\ n \in Nat
  BY DEF Store
<1>2. bb \in Seq(Nat) /\ Len(bb) = b /\ bb[b] = n /\ \A c \in 1 .. Len(bs) : bb[c] = bs[c]
  BY <1>1
<1>3. \A e \in DOMAIN nx : e # NULL /\ e # pool /\ \A i : e # E(i)
  <2>1. ASSUME NEW e \in DOMAIN nx, NEW i PROVE e # E(i)
    <3>1. PICK c \in 1 .. Len(bs) : \E j \in 1 .. bs[c] : e = <<pool, c, j>>
      BY DEF Store
    <3>2. PICK j \in 1 .. bs[c] : e = <<pool, c, j>>
      BY <3>1
    <3>3. c # b
      BY <1>1
    <3> QED
      BY <3>2, <3>3
  <2> QED
    BY <2>1, StoreSays
<1>4. \A i \in 1 .. n : E(i) # NULL /\ E(i) # pool
  <2>1. ASSUME NEW i \in 1 .. n PROVE E(i) \in {pool} \X Nat \X Nat
    BY <1>1
  <2> QED
    BY <2>1, NullAssumption, PoolAssumption
<1>5. \A i, j : E(i) = E(j) => i = j
  OBVIOUS
<1>6. /\ nn = [e \in DOMAIN nn |-> nn[e]]
      /\ DOMAIN nn = DOMAIN nx \cup {E(i) : i \in 1 .. n}
      /\ \A e \in DOMAIN nx : nn[e] = nx[e]
      /\ \A i \in 1 .. n : nn[E(i)] = IF i < n THEN E(i + 1) ELSE NULL
  BY <1>3 DEF Abs!Extend, Abs!Links, Abs!Block
<1> HIDE DEF E, nn, bb, b
<1>7. ASSUME NEW e \in DOMAIN nn
      PROVE  e \in DOMAIN nx \/ \E i \in 1 .. n : e = E(i)
  BY <1>6
<1>8. 1 \in 1 .. n /\ \A i \in 1 .. n : i < n => i + 1 \in 1 .. n
  BY <1>1
<1>9. E(1) \in DOMAIN nn /\ nn[E(1)] # pool
  <2>1. NULL # pool
    BY NullAssumption
  <2> QED
    BY <1>4, <1>6, <1>8, <2>1
<1>10. \A e \in DOMAIN nn : nn[e] \in {NULL, pool} \cup DOMAIN nn
  <2>1. ASSUME NEW e \in DOMAIN nx PROVE nn[e] \in {NULL, pool} \cup DOMAIN nn
    BY <1>6 DEF Store
  <2>2. ASSUME NEW i \in 1 .. n PROVE nn[E(i)] \in {NULL, pool} \cup DOMAIN nn
    BY <1>6, <1>8
  <2> QED
    BY <1>7, <2>1, <2>2
<1>11. ASSUME NEW e \in DOMAIN nn, nn[e] \in DOMAIN nn
       PROVE  nn[e] # E(1) /\ nn[nn[e]] # pool
  <2>1. CASE e \in DOMAIN nx
    <3>1. nx[e] \in {NULL, pool} \cup DOMAIN nx
      BY <2>1 DEF Store
    <3>2. NULL \notin DOMAIN nn /\ pool \notin DOMAIN nn
      BY <1>3, <1>4, <1>7
    <3>3. nx[e] \in DOMAIN nx
      BY <1>6, <1>11, <2>1, <3>1, <3>2
    <3> QED
      BY <1>3, <1>6, <2>1, <3>3 DEF Store
  <2>2. ASSUME NEW i \in 1 .. n, e = E(i) PROVE nn[e] # E(1) /\ nn[nn[e]] # pool
    <3>1. NULL \notin DOMAIN nn /\ NULL # pool
      BY <1>3, <1>4, <1>7, NullAssumption
    <3>2. i < n /\ nn[e] = E(i + 1) /\ i + 1 \in 1 .. n
      BY <1>6, <1>8, <1>11, <2>2, <3>1
    <3>3. nn[E(i + 1)] \in {NULL} \cup {E(j) : j \in 1 .. n}
      BY <1>6, <1>8, <3>2
    <3>4. nn[E(i + 1)] # pool
      BY <1>4, <3>1, <3>3
    <3>5. E(i + 1) # E(1)
      BY <1>5, <3>2
    <3> QED
      BY <3>2, <3>4, <3>5
  <2> QED
    BY <1>7, <2>1, <2>2
<1>12. ASSUME NEW e \in DOMAIN nn, NEW f \in DOMAIN nn, nn[e] = nn[f], nn[e] \in DOMAIN nn
       PROVE  e = f
  <2>0. NULL \notin DOMAIN nn /\ pool \notin DOMAIN nn
    BY <1>3, <1>4, <1>7
  <2>1. ASSUME NEW x \in DOMAIN nx, nn[x] \in DOMAIN nn PROVE nn[x] = nx[x] /\ nx[x] \in DOMAIN nx
    BY <1>6, <2>0, <2>1 DEF Store
  <2>2. ASSUME NEW i \in 1 .. n, nn[E(i)] \in DOMAIN nn
        PROVE  nn[E(i)] = E(i + 1) /\ i + 1 \in 1 .. n
    BY <1>6, <1>8, <2>0, <2>2
  <2>3. CASE e \in DOMAIN nx /\ f \in DOMAIN nx
    BY <1>12, <2>1, <2>3 DEF Store
  <2>4. CASE e \in DOMAIN nx /\ \E i \in 1 .. n : f = E(i)
    BY <1>3, <1>12, <2>1, <2>2, <2>4
  <2>5. CASE f \in DOMAIN nx /\ \E i \in 1 .. n : e = E(i)
    BY <1>3, <1>12, <2>1, <2>2, <2>5
  <2>6. CASE (\E i \in 1 .. n : e = E(i)) /\ (\E i \in 1 .. n : f = E(i))
    <3>1. PICK i \in 1 .. n : e = E(i)
      BY <2>6
    <3>2. PICK j \in 1 .. n : f = E(j)
      BY <2>6
    <3>3. i + 1 = j + 1
      BY <1>5, <1>12, <2>2, <3>1, <3>2
    <3> QED
      BY <3>1, <3>2, <3>3
  <2> QED
    BY <1>7, <2>3, <2>4, <2>5, <2>6
<1>13. ASSUME NEW e \in DOMAIN nn
       PROVE  \E c \in 1 .. Len(bb) : \E i \in 1 .. bb[c] : e = <<pool, c, i>>
  <2>1. CASE e \in DOMAIN nx
    <3>1. PICK c \in 1 .. Len(bs) : \E j \in 1 .. bs[c] : e = <<pool, c, j>>
      BY <2>1 DEF Store
    <3>2. c \in 1 .. Len(bb) /\ bb[c] = bs[c]
      BY <1>1, <1>2 DEF b
    <3> QED
      BY <3>1, <3>2
  <2>2. ASSUME NEW i \in 1 .. n, e = E(i)
        PROVE  \E c \in 1 .. Len(bb) : \E j \in 1 .. bb[c] : e = <<pool, c, j>>
    <3>1. b \in 1 .. Len(bb) /\ bb[b] = n
      BY <1>1, <1>2 DEF b
    <3> QED
      BY <2>2, <3>1 DEF E
  <2> QED
    BY <1>7, <2>1, <2>2
<1>14. Store(bb, E(1), nn)
  BY <1>2, <1>6, <1>9, <1>10, <1>11, <1>12, <1>13 DEF Store
<1>15. DOMAIN nx \subseteq DOMAIN nn
  BY <1>6
<1> QED
  BY <1>9, <1>14, <1>15 DEF E, nn, bb, b

-----------------------------------------------------------------------------
(* Calls: the mutex, and the variables *)

LEMMA GoOn ==
  ASSUME CallsOK, NEW t \in Thread, NEW l \in GetLabels \cup PutLabels,
         pc' = [pc EXCEPT ![t] = l], pc[t] # "idle", pc[t] \in GetLabels <=> l \in GetLabels,
         status' = status, dst' = dst,
         var' = var, rv' = [u \in Thread |-> rv'[u]],
         lock' \in Thread \cup {NULL}, l \in Working <=> lock' = t,
         \A u \in Thread \ {t} : lock' = u <=> lock = u
  PROVE  CallsOK'
<1>1. /\ pc' \in [Thread -> {"idle"} \cup GetLabels \cup PutLabels]
      /\ pc'[t] = l /\ \A u \in Thread : u # t => pc'[u] = pc[u]
  BY DEF CallsOK
<1>2. \A u \in Thread : pc'[u] \in Working <=> lock' = u
  BY <1>1 DEF CallsOK
<1>3. "idle" \notin GetLabels \cup PutLabels
  BY DEF GetLabels, PutLabels
<1>4. \A u \in Thread : IF pc'[u] = "idle" THEN dst'[u] = NULL ELSE dst'[u] \in Var /\ status' = "live"
  BY <1>1, <1>3 DEF CallsOK
<1>5. \A u, w \in Thread : pc'[u] \in GetLabels /\ dst'[w] = dst'[u] => w = u
  BY <1>1 DEF CallsOK
<1> QED
  BY <1>1, <1>2, <1>4, <1>5 DEF CallsOK

LEMMA GoHome ==
  ASSUME CallsOK, NEW t \in Thread, pc' = [pc EXCEPT ![t] = "idle"],
         status' = status, dst' = [dst EXCEPT ![t] = NULL],
         var' = [v \in Var |-> var'[v]], rv' = [u \in Thread |-> rv'[u]],
         lock' \in Thread \cup {NULL}, lock' # t,
         \A u \in Thread \ {t} : lock' = u <=> lock = u
  PROVE  CallsOK'
<1>1. /\ pc' \in [Thread -> {"idle"} \cup GetLabels \cup PutLabels]
      /\ pc'[t] = "idle" /\ \A u \in Thread : u # t => pc'[u] = pc[u]
      /\ dst'[t] = NULL /\ \A u \in Thread : u # t => dst'[u] = dst[u]
      /\ dst' = [u \in Thread |-> dst'[u]]
  BY DEF CallsOK
<1>2. \A u \in Thread : pc'[u] \in Working <=> lock' = u
  BY <1>1 DEF CallsOK, Working
<1>3. "idle" \notin GetLabels \cup PutLabels
  BY DEF GetLabels, PutLabels
<1>4. \A u \in Thread : IF pc'[u] = "idle" THEN dst'[u] = NULL ELSE dst'[u] \in Var /\ status' = "live"
  BY <1>1 DEF CallsOK
<1>5. ASSUME NEW u \in Thread, NEW w \in Thread, pc'[u] \in GetLabels, dst'[w] = dst'[u] PROVE w = u
  <2>1. u # t /\ dst[u] \in Var /\ dst[u] # NULL
    BY <1>1, <1>3, <1>5, NullAssumption DEF CallsOK
  <2> QED
    BY <1>1, <1>5, <2>1 DEF CallsOK
<1> QED
  BY <1>1, <1>2, <1>4, <1>5 DEF CallsOK

LEMMA CallsStay ==
  ASSUME CallsOK, Next
  PROVE  CallsOK'
<1> USE DEF Goto, poolVars
<1>1. ASSUME NEW n \in InitSizes, Create(n) \/ CreateFails(n) PROVE CallsOK'
  BY <1>1 DEF Create, CreateFails, CallsOK
<1>2. CASE Destroy
  BY <1>2 DEF Destroy, CallsOK, Idle
<1>3. ASSUME NEW v \in Var, NEW w \in Var, Copy(v, w) PROVE CallsOK'
  BY <1>3 DEF Copy, CallsOK
<1>4. ASSUME NEW t \in Thread, NEW v \in Var, CallGet(t, v) \/ CallPut(t, v) PROVE CallsOK'
  <2> DEFINE l == pc'[t]
  <2>1. /\ pc[t] = "idle" /\ l \in {"getLock", "putLock"} /\ pc' = [pc EXCEPT ![t] = l]
        /\ status = "live" /\ dst' = [dst EXCEPT ![t] = v]
        /\ status' = status /\ var' = var /\ rv' = rv /\ lock' = lock
    BY <1>4 DEF CallGet, CallPut, CallsOK
  <2>2. /\ pc' \in [Thread -> {"idle"} \cup GetLabels \cup PutLabels]
        /\ \A u \in Thread : u # t => pc'[u] = pc[u]
        /\ dst'[t] = v /\ \A u \in Thread : u # t => dst'[u] = dst[u]
        /\ dst' = [u \in Thread |-> dst'[u]]
    BY <2>1 DEF CallsOK, GetLabels, PutLabels
  <2>3. \A u \in Thread : pc'[u] \in Working <=> lock' = u
    BY <2>1, <2>2 DEF CallsOK, Working
  <2>4. \A u \in Thread : IF pc'[u] = "idle" THEN dst'[u] = NULL ELSE dst'[u] \in Var /\ status' = "live"
    BY <2>1, <2>2 DEF CallsOK
  <2>5. ASSUME NEW u \in Thread, NEW w \in Thread, pc'[u] \in GetLabels, dst'[w] = dst'[u] PROVE w = u
    <3>1. CASE u # t /\ w # t
      BY <2>2, <2>5, <3>1 DEF CallsOK
    <3>2. CASE u # t /\ w = t
      <4>1. dst[u] = v /\ pc[u] \in GetLabels
        BY <2>2, <2>5, <3>2
      <4>2. u \in GetsInto(v)
        BY <4>1 DEF GetsInto, GetLabels
      <4> QED
        BY <1>4, <4>1, <4>2 DEF CallGet, CallPut
    <3>3. CASE u = t /\ w # t
      <4>1. dst[w] = v /\ CallGet(t, v)
        BY <1>4, <2>1, <2>2, <2>5, <3>3 DEF CallPut, GetLabels, CallsOK
      <4> QED
        BY <4>1 DEF CallGet
    <3> QED
      BY <3>1, <3>2, <3>3
  <2> QED
    BY <2>1, <2>2, <2>3, <2>4, <2>5 DEF CallsOK
<1>5. ASSUME NEW t \in Thread, Proceed(t) PROVE CallsOK'
  <2> USE DEF Lock, Unlock
  <2>0. pc[t] \in Working <=> lock = t
    BY DEF CallsOK
  <2>1. CASE GetLock(t) \/ PutLock(t)
    <3>1. /\ pc[t] \in {"getLock", "putLock"} /\ lock = NULL /\ lock' = t
          /\ pc' = [pc EXCEPT ![t] = IF pc[t] = "getLock" THEN "getLook" ELSE "putLook"]
          /\ status' = status /\ dst' = dst /\ var' = var /\ rv' = rv
      BY <2>1 DEF GetLock, PutLock
    <3>2. rv' = [u \in Thread |-> rv'[u]] /\ \A u \in Thread \ {t} : lock' = u <=> lock = u
      BY <3>1, NullAssumption DEF CallsOK
    <3> QED
      BY <3>1, <3>2, GoOn DEF GetLabels, PutLabels, Working
  <2>2. CASE GetLook(t) \/ GetGrow(t) \/ GetRelink(t) \/ GetTake(t) \/ GetPop(t)
             \/ PutLook(t) \/ PutLink(t) \/ PutHead(t)
    <3>1. /\ pc[t] \in Working
          /\ pc[t] \notin {"getMark", "putClear"} /\ lock' = lock /\ status' = status
          /\ dst' = dst /\ var' = var
      BY <2>2 DEF GetLook, GetGrow, GetRelink, GetTake, GetPop, PutLook, PutLink, PutHead, Working
    <3>2. rv' = [u \in Thread |-> rv'[u]]
      BY <2>2 DEF GetLook, GetGrow, GetRelink, GetTake, GetPop, PutLook, PutLink, PutHead, CallsOK
    <3>3. \E l \in Working : /\ pc' = [pc EXCEPT ![t] = l]
                             /\ pc[t] \in GetLabels <=> l \in GetLabels
      BY <2>2 DEF GetLook, GetGrow, GetRelink, GetTake, GetPop, PutLook, PutLink, PutHead,
         Working, GetLabels
    <3>4. Working \subseteq GetLabels \cup PutLabels /\ "idle" \notin Working
      BY DEF Working, GetLabels, PutLabels
    <3>5. lock = t /\ lock' \in Thread \cup {NULL}
      BY <2>0, <3>1 DEF CallsOK
    <3> QED
      BY <3>1, <3>2, <3>3, <3>4, <3>5, GoOn
  <2>3. CASE GetFails(t) \/ GetMark(t)
    <3>1. /\ pc[t] \in {"getGrow", "getMark"} /\ pc' = [pc EXCEPT ![t] = "getReturn"]
          /\ dst' = dst /\ var' = var /\ status' = status
          /\ lock' = IF lock = t THEN NULL ELSE lock
      BY <2>3 DEF GetFails, GetMark
    <3>2. rv' = [u \in Thread |-> rv'[u]]
      BY <2>3 DEF GetFails, GetMark, CallsOK
    <3>3. lock = t /\ lock' = NULL /\ NULL \notin Thread
      BY <2>0, <3>1, NullAssumption DEF Working
    <3> QED
      BY <3>1, <3>2, <3>3, GoOn DEF GetLabels, PutLabels, Working
  <2>4. CASE GetReturn(t)
    <3>1. /\ pc[t] = "getReturn" /\ pc' = [pc EXCEPT ![t] = "idle"] /\ status' = status
          /\ dst' = [dst EXCEPT ![t] = NULL] /\ lock' = lock /\ lock \in Thread \cup {NULL}
          /\ var' = [v \in Var |-> var'[v]] /\ rv' = [u \in Thread |-> rv'[u]]
      BY <2>4 DEF GetReturn, CallsOK
    <3>2. lock # t
      BY <2>0, <3>1 DEF Working
    <3> QED
      BY <3>1, <3>2, GoHome
  <2>5. CASE PutRefused(t) \/ PutClear(t)
    <3>1. /\ pc[t] \in {"putLook", "putClear"} /\ pc' = [pc EXCEPT ![t] = "idle"]
          /\ dst' = [dst EXCEPT ![t] = NULL] /\ status' = status
          /\ lock' = IF lock = t THEN NULL ELSE lock
      BY <2>5 DEF PutRefused, PutClear
    <3>2. rv' = [u \in Thread |-> rv'[u]] /\ var' = [v \in Var |-> var'[v]]
      BY <2>5 DEF PutRefused, PutClear, CallsOK
    <3>3. lock = t /\ lock' = NULL /\ NULL \notin Thread
      BY <2>0, <3>1, NullAssumption DEF Working
    <3> QED
      BY <3>1, <3>2, <3>3, GoHome
  <2> QED
    BY <1>5, <2>1, <2>2, <2>3, <2>4, <2>5 DEF Proceed
<1> QED
  BY <1>1, <1>2, <1>3, <1>4, <1>5 DEF Next

-----------------------------------------------------------------------------
(* What the others see *)

LEMMA SeenIs ==
  ASSUME CallsOK
  PROVE  /\ lock = NULL => Seen = Memory
         /\ lock # NULL => Seen = snap
BY DEF CallsOK, Seen, Hidden

LEMMA PointsAre ==
  ASSUME CallsOK, NEW v \in Var
  PROVE  /\ \A t \in Thread : pc[t] = "getReturn" /\ dst[t] = v => Points(v) = rv[t]
         /\ (\A t \in Thread : pc[t] = "getReturn" => dst[t] # v) => Points(v) = var[v]
<1>1. ASSUME NEW t \in Thread, pc[t] = "getReturn", dst[t] = v PROVE Points(v) = rv[t]
  <2>1. \A u \in Thread : dst[u] = v => u = t
    BY <1>1 DEF CallsOK, GetLabels
  <2>2. Holding(v) = {t}
    BY <1>1, <2>1 DEF Holding
  <2>3. (CHOOSE u \in {t} : TRUE) = t
    OBVIOUS
  <2> QED
    BY <2>2, <2>3 DEF Points
<1>2. (\A t \in Thread : pc[t] = "getReturn" => dst[t] # v) => Points(v) = var[v]
  BY DEF Holding, Points
<1> QED
  BY <1>1, <1>2

(* A pointer is seen to change only when it does, or when a get has its result. *)
LEMMA PointsStay ==
  ASSUME CallsOK, CallsOK', NEW v \in Var,
         \A t \in Thread : (pc'[t] = "getReturn" /\ dst'[t] = v) <=> (pc[t] = "getReturn" /\ dst[t] = v),
         \A t \in Thread : pc[t] = "getReturn" /\ dst[t] = v => rv'[t] = rv[t],
         (\A t \in Thread : pc[t] = "getReturn" => dst[t] # v) => var'[v] = var[v]
  PROVE  Points(v)' = Points(v)
<1>1. CASE \E t \in Thread : pc[t] = "getReturn" /\ dst[t] = v
  <2>1. PICK t \in Thread : pc[t] = "getReturn" /\ dst[t] = v
    BY <1>1
  <2>2. Points(v) = rv[t]
    BY <2>1, PointsAre
  <2>3. \A u \in Thread : dst'[u] = v => u = t
    BY <2>1 DEF CallsOK, GetLabels
  <2>4. Holding(v)' = {t}
    BY <2>1, <2>3 DEF Holding
  <2>5. (CHOOSE u \in {t} : TRUE) = t
    OBVIOUS
  <2>6. Points(v)' = rv'[t]
    BY <2>4, <2>5 DEF Points
  <2> QED
    BY <2>1, <2>2, <2>6
<1>2. CASE \A t \in Thread : pc[t] = "getReturn" => dst[t] # v
  <2>1. Holding(v) = {} /\ Holding(v)' = {}
    BY <1>2 DEF Holding
  <2> QED
    BY <1>2, <2>1 DEF Points
<1> QED
  BY <1>1, <1>2

(* A call that uses v is not followed by another thread's get into v. *)
LEMMA PutPoints ==
  ASSUME CallsOK, NEW t \in Thread, pc[t] \in PutLabels
  PROVE  /\ dst[t] \in Var
         /\ \A u \in Thread : pc[u] = "getReturn" => dst[u] # dst[t]
         /\ Points(dst[t]) = var[dst[t]]
<1>1. dst[t] \in Var
  BY DEF CallsOK, PutLabels
<1>2. \A u \in Thread : pc[u] = "getReturn" => dst[u] # dst[t]
  BY DEF CallsOK, GetLabels, PutLabels
<1> QED
  BY <1>1, <1>2, PointsAre

LEMMA AbsSame ==
  ASSUME status' = status, orphans' = orphans, used' = used, Seen' = Seen,
         \A v \in Var : Points(v)' = Points(v)
  PROVE  UNCHANGED Abs!poolVars
BY DEF Abs!poolVars

-----------------------------------------------------------------------------
(* Steps with the mutex held that nobody sees *)

Unseen(t) == GetLook(t) \/ GetGrow(t) \/ GetRelink(t) \/ GetTake(t) \/ GetPop(t)
             \/ PutLook(t) \/ PutLink(t) \/ PutHead(t)

LEMMA StageStays ==
  ASSUME PPoolInv, CallsOK', NEW t \in Thread, Unseen(t)
  PROVE  SnapOK'
<1> USE DEF Goto, poolVars
<1>1. /\ pc[t] \in Working /\ lock' = lock /\ snap' = snap /\ dst' = dst /\ var' = var
  BY DEF Unseen, GetLook, GetGrow, GetRelink, GetTake, GetPop, PutLook, PutLink, PutHead, Working
<1>2. lock = t /\ lock # NULL
  BY <1>1, NullAssumption DEF PPoolInv, CallsOK
<1>3. Stage(t) /\ Seen = snap /\ Store(snap.blocks, snap.head, snap.next)
  BY <1>2, SeenIs DEF PPoolInv, SnapOK, SeenOK
<1>4. pc \in [Thread -> {"idle"} \cup GetLabels \cup PutLabels] /\ rv = [u \in Thread |-> rv[u]]
  BY DEF PPoolInv, CallsOK
<1>5. Size' = Size
  BY <1>1 DEF Size
<1>0. snap = [blocks |-> snap.blocks, head |-> snap.head, next |-> snap.next, stack |-> snap.stack]
  BY <1>2 DEF PPoolInv, SnapOK
<1> SUFFICES Stage(t)'
  BY <1>0, <1>1, <1>2 DEF SnapOK
<1>6. CASE GetLook(t)
  BY <1>1, <1>3, <1>4, <1>6 DEF GetLook, Stage, SameBut, Taking
<1>7. CASE GetGrow(t)
  <2>1. SameBut(NULL)
    BY <1>3, <1>7 DEF GetGrow, Stage
  <2>2. Grown'
    BY <1>1, <1>5, <1>7, <2>1 DEF GetGrow, SameBut, Grown, NextSize, Size
  <2> QED
    BY <1>4, <1>7, <2>2 DEF GetGrow, Stage
<1>8. CASE GetRelink(t)
  <2>1. Grown /\ pc[t] = "getRelink" /\ pc'[t] = "getTake" /\ blocks' = blocks /\ next' = next
    BY <1>3, <1>4, <1>8 DEF GetRelink, Stage
  <2>2. Grown'
    BY <1>1, <1>5, <2>1 DEF Grown
  <2>3. snap.blocks \in Seq(Nat) /\ blocks = Append(snap.blocks, Size)
    BY <1>3, <2>1 DEF Store, Grown
  <2>4. blocks[Len(blocks)] = Size /\ Len(blocks) \in Nat
    <3>1. Len(snap.blocks) \in Nat /\ Len(blocks) = Len(snap.blocks) + 1
      BY <2>3
    <3> QED
      BY <2>3, <3>1
  <2>5. head' = <<pool, Len(blocks), 1>> /\ head' # NULL
    <3>1. <<pool, Len(blocks), 1>> \in {pool} \X Nat \X Nat
      BY <2>4
    <3> QED
      BY <1>8, <3>1, NullAssumption DEF GetRelink
  <2>6. Relinked(head)'
    BY <1>5, <1>8, <2>1, <2>2, <2>4, <2>5 DEF Relinked, GetRelink
  <2> QED
    BY <2>1, <2>5, <2>6 DEF Stage, Taking
<1>9. CASE GetTake(t) \/ GetPop(t)
  <2>1. \/ pc[t] = "getTake" /\ pc'[t] = "getPop" /\ rv'[t] = head /\ head' = head
        \/ pc[t] = "getPop" /\ pc'[t] = "getMark" /\ rv'[t] = rv[t] /\ head' = next[rv[t]]
    <3>1. CASE GetTake(t)
      BY <1>4, <3>1 DEF GetTake
    <3>2. CASE GetPop(t)
      BY <1>4, <3>2 DEF GetPop
    <3> QED
      BY <1>9, <3>1, <3>2
  <2>2. Taking(rv'[t])
    BY <1>3, <2>1 DEF Stage
  <2>3. blocks' = blocks /\ next' = next /\ stack' = stack
    BY <1>9 DEF GetTake, GetPop
  <2>4. Taking(rv[t])'
    BY <1>1, <1>5, <2>2, <2>3 DEF Taking, SameBut, Relinked, Grown
  <2> QED
    BY <1>3, <2>1, <2>3, <2>4 DEF Stage
<1>10. CASE PutLook(t)
  <2>1. /\ pc[t] = "putLook" /\ pc'[t] = "putLink" /\ rv'[t] = var[dst[t]]
        /\ var[dst[t]] # NULL /\ snap.next[var[dst[t]]] = pool
        /\ blocks' = blocks /\ head' = head /\ next' = next /\ stack' = stack
    BY <1>3, <1>4, <1>10 DEF PutLook, Abs!InUse
  <2> QED
    BY <1>1, <1>3, <2>1 DEF Stage, SameBut
<1>11. CASE PutLink(t)
  BY <1>1, <1>3, <1>4, <1>11 DEF PutLink, Stage
<1>12. CASE PutHead(t)
  BY <1>1, <1>3, <1>4, <1>12 DEF PutHead, Stage
<1> QED
  BY <1>6, <1>7, <1>8, <1>9, <1>10, <1>11, <1>12 DEF Unseen

LEMMA UnseenSteps ==
  ASSUME PPoolInv, CallsOK', NEW t \in Thread, Unseen(t)
  PROVE  SeenOK' /\ UNCHANGED Abs!poolVars
<1> USE DEF Goto, poolVars
<1>1. /\ pc[t] \in Working /\ lock' = lock /\ snap' = snap /\ dst' = dst /\ var' = var
      /\ status' = status /\ orphans' = orphans /\ used' = used
  BY DEF Unseen, GetLook, GetGrow, GetRelink, GetTake, GetPop, PutLook, PutLink, PutHead, Working
<1>2. /\ \A u \in Thread \ {t} : rv'[u] = rv[u] /\ pc'[u] = pc[u]
      /\ pc'[t] # "getReturn" /\ pc[t] # "getReturn"
  BY DEF PPoolInv, CallsOK, Unseen, GetLook, GetGrow, GetRelink, GetTake, GetPop, PutLook,
     PutLink, PutHead
<1>3. lock = t /\ lock # NULL /\ status = "live"
  BY <1>1, NullAssumption DEF PPoolInv, CallsOK, Working
<1>4. Seen' = Seen
  <2>1. Seen = snap
    BY <1>3, SeenIs DEF PPoolInv
  <2>2. Seen' = snap'
    BY <1>1, <1>3 DEF CallsOK, Seen, Hidden
  <2> QED
    BY <1>1, <2>1, <2>2
<1>5. \A v \in Var : Points(v)' = Points(v)
  BY <1>1, <1>2, PointsStay DEF PPoolInv
<1>6. SeenOK'
  BY <1>1, <1>2, <1>3, <1>4 DEF PPoolInv, SeenOK
<1> QED
  BY <1>1, <1>4, <1>5, <1>6, AbsSame

-----------------------------------------------------------------------------
(* Steps outside the mutex *)

(* The thread in the mutex is not disturbed. *)
LEMMA SnapStays ==
  ASSUME PPoolInv, lock' = lock, snap' = snap,
         UNCHANGED <<blocks, head, next, stack>>,
         lock # NULL => /\ pc'[lock] = pc[lock] /\ rv'[lock] = rv[lock] /\ dst'[lock] = dst[lock]
                        /\ pc[lock] \in PutLabels => var'[dst[lock]] = var[dst[lock]]
  PROVE  SnapOK'
<1>1. CASE lock # NULL
  <2>1. Stage(lock) /\ snap = [blocks |-> snap.blocks, head |-> snap.head, next |-> snap.next, stack |-> snap.stack]
    BY <1>1 DEF PPoolInv, SnapOK
  <2>2. Size' = Size
    BY DEF Size
  <2>3. \A e : Taking(e)' <=> Taking(e)
    BY <2>2 DEF Taking, SameBut, Relinked, Grown
  <2>4. (Grown' <=> Grown) /\ \A hd : SameBut(hd)' <=> SameBut(hd)
    BY <2>2 DEF SameBut, Grown
  <2>5. pc[lock] \in {"putLink", "putHead", "putClear"} => var'[dst[lock]] = var[dst[lock]]
    BY <1>1 DEF PutLabels
  <2>6. Taking(rv[lock])' <=> Taking(rv[lock])
    BY <1>1, <2>2 DEF Taking, SameBut, Relinked, Grown
  <2>7. Taking(head)' <=> Taking(head)
    BY <2>2 DEF Taking, SameBut, Relinked, Grown
  <2>8. SameBut(head)' <=> SameBut(head)
    BY DEF SameBut
  <2>9. Stage(lock)'
    BY <1>1, <2>1, <2>4, <2>5, <2>6, <2>7, <2>8 DEF Stage
  <2> QED
    BY <2>1, <2>9 DEF SnapOK
<1>2. CASE lock = NULL
  BY <1>2 DEF SnapOK
<1> QED
  BY <1>1, <1>2

LEMMA SeenStays ==
  ASSUME CallsOK, CallsOK', lock' = lock, snap' = snap,
         UNCHANGED <<blocks, head, next, stack>>
  PROVE  Seen' = Seen
BY DEF CallsOK, Seen, Hidden, Memory

LEMMA CallSteps ==
  ASSUME PPoolInv, CallsOK', NEW t \in Thread, NEW v \in Var, CallGet(t, v) \/ CallPut(t, v)
  PROVE  SnapOK' /\ SeenOK' /\ UNCHANGED Abs!poolVars
<1> USE DEF Goto, poolVars, PPoolInv
<1>1. /\ pc[t] = "idle" /\ pc'[t] \in {"getLock", "putLock"} /\ status = "live"
      /\ UNCHANGED <<poolVars, lock, rv, snap>>
      /\ \A u \in Thread \ {t} : pc'[u] = pc[u] /\ dst'[u] = dst[u]
  BY DEF CallGet, CallPut, CallsOK
<1>2. lock # t /\ (lock # NULL => lock \in Thread)
  BY <1>1 DEF CallsOK, Working
<1>3. SnapOK'
  BY <1>1, <1>2, SnapStays
<1>4. Seen' = Seen
  BY <1>1, SeenStays
<1>5. \A w \in Var : Points(w)' = Points(w)
  BY <1>1, PointsStay
<1>6. SeenOK'
  BY <1>1, <1>4 DEF SeenOK
<1> QED
  BY <1>1, <1>3, <1>4, <1>5, <1>6, AbsSame

LEMMA ReturnSteps ==
  ASSUME PPoolInv, CallsOK', NEW t \in Thread, GetReturn(t)
  PROVE  SnapOK' /\ SeenOK' /\ UNCHANGED Abs!poolVars
<1> USE DEF Goto, poolVars, PPoolInv
<1>1. /\ pc[t] = "getReturn" /\ pc'[t] = "idle" /\ status = "live" /\ dst[t] \in Var
      /\ UNCHANGED <<status, blocks, head, next, orphans, stack, used, lock, snap>>
      /\ \A u \in Thread \ {t} : pc'[u] = pc[u] /\ dst'[u] = dst[u] /\ rv'[u] = rv[u]
      /\ var'[dst[t]] = rv[t] /\ \A w \in Var : w # dst[t] => var'[w] = var[w]
      /\ dst'[t] = NULL
  BY DEF GetReturn, CallsOK
<1>2. \A u \in Thread : u # t => dst[u] # dst[t]
  BY <1>1 DEF CallsOK, GetLabels
<1>3. lock # t /\ (lock # NULL => lock \in Thread /\ dst[lock] \in Var)
  BY <1>1 DEF CallsOK, Working
<1>4. SnapOK'
  BY <1>1, <1>2, <1>3, SnapStays
<1>5. Seen' = Seen
  BY <1>1, SeenStays
<1>6. ASSUME NEW w \in Var PROVE Points(w)' = Points(w)
  <2>1. CASE w = dst[t]
    <3>1. \A u \in Thread : pc'[u] = "getReturn" => dst'[u] # w
      BY <1>1, <1>2, <2>1
    <3>2. Holding(w)' = {}
      BY <3>1 DEF Holding
    <3>3. Points(w)' = var'[w]
      BY <3>2 DEF Points
    <3>4. Points(w) = rv[t]
      BY <1>1, <2>1, PointsAre
    <3> QED
      BY <1>1, <2>1, <3>3, <3>4
  <2>2. CASE w # dst[t]
    <3>1. \A u \in Thread : (pc'[u] = "getReturn" /\ dst'[u] = w) <=> (pc[u] = "getReturn" /\ dst[u] = w)
      BY <1>1, <2>2
    <3> QED
      BY <1>1, <2>2, <3>1, PointsStay
  <2> QED
    BY <2>1, <2>2
<1>7. SeenOK'
  <2>1. \A w \in Var : var'[w] \in {NULL} \cup DOMAIN Seen.next
    BY <1>1 DEF SeenOK
  <2>2. \A u \in Thread : pc'[u] = "getReturn" => rv'[u] \in {NULL} \cup DOMAIN Seen.next
    BY <1>1 DEF SeenOK
  <2> QED
    BY <1>1, <1>5, <2>1, <2>2 DEF SeenOK
<1> QED
  BY <1>1, <1>4, <1>5, <1>6, <1>7, AbsSame

LEMMA LockSteps ==
  ASSUME PPoolInv, CallsOK', NEW t \in Thread, GetLock(t) \/ PutLock(t)
  PROVE  SnapOK' /\ SeenOK' /\ UNCHANGED Abs!poolVars
<1> USE DEF Goto, poolVars, PPoolInv
<1>1. /\ pc[t] \in {"getLock", "putLock"} /\ pc'[t] \in {"getLook", "putLook"} /\ status = "live"
      /\ UNCHANGED <<poolVars, dst, rv>> /\ lock = NULL /\ lock' = t /\ snap' = Memory
      /\ \A u \in Thread \ {t} : pc'[u] = pc[u]
  BY DEF GetLock, PutLock, Lock, CallsOK
<1>2. SnapOK'
  BY <1>1 DEF SnapOK, Stage, SameBut, Memory
<1>3. Seen' = Seen
  <2>1. Seen = Memory
    BY <1>1, SeenIs
  <2>2. Seen' = snap'
    <3>1. lock' # NULL
      BY <1>1, NullAssumption
    <3> QED
      BY <1>1, <3>1 DEF CallsOK, Seen, Hidden
  <2> QED
    BY <1>1, <2>1, <2>2
<1>4. \A w \in Var : Points(w)' = Points(w)
  BY <1>1, PointsStay
<1>5. SeenOK'
  BY <1>1, <1>3 DEF SeenOK
<1> QED
  BY <1>1, <1>2, <1>3, <1>4, <1>5, AbsSame

LEMMA CopySteps ==
  ASSUME PPoolInv, CallsOK', NEW v \in Var, NEW w \in Var, Copy(v, w)
  PROVE  SnapOK' /\ SeenOK' /\ Abs!Copy(v, w)
<1> USE DEF PPoolInv
<1>1. /\ UNCHANGED <<status, blocks, head, next, orphans, stack, used, lock, pc, dst, rv, snap>>
      /\ var' = [var EXCEPT ![w] = var[v]] /\ \A t \in Thread : dst[t] \notin {v, w}
      /\ var'[w] = var[v] /\ \A x \in Var : x # w => var'[x] = var[x]
  BY DEF Copy, CallsOK
<1>2. lock # NULL => lock \in Thread
  BY DEF CallsOK
<1>3. SnapOK'
  <2>1. lock # NULL /\ pc[lock] \in PutLabels => dst[lock] \in Var /\ dst[lock] # w
    BY <1>1, <1>2 DEF CallsOK, PutLabels
  <2> QED
    BY <1>1, <2>1, SnapStays
<1>4. Seen' = Seen
  BY <1>1, SeenStays
<1>5. Points(w)' = var[v] /\ Points(v) = var[v]
  <2>1. Holding(w)' = {} /\ Holding(v) = {}
    BY <1>1 DEF Holding
  <2> QED
    BY <1>1, <2>1 DEF Points
<1>6. \A x \in Var : x # w => Points(x)' = Points(x)
  BY <1>1, PointsStay
<1>7. SeenOK'
  BY <1>1, <1>4 DEF SeenOK
<1>8. Abs!Copy(v, w)
  BY <1>1, <1>4, <1>5, <1>6 DEF Abs!Copy
<1> QED
  BY <1>3, <1>7, <1>8

(* Nobody is in a call. *)
LEMMA QuietSeen ==
  ASSUME CallsOK, Idle
  PROVE  lock = NULL /\ Seen = Memory /\ \A v \in Var : Points(v) = var[v]
<1>1. lock = NULL
  BY DEF CallsOK, Idle, Working
<1>2. \A v \in Var : Points(v) = var[v]
  BY PointsAre DEF Idle
<1> QED
  BY <1>1, <1>2, SeenIs

LEMMA CreateSteps ==
  ASSUME PPoolInv, CallsOK', NEW n \in InitSizes, Create(n)
  PROVE  SnapOK' /\ SeenOK' /\ Abs!InitPool(pool, n)
<1> USE DEF PPoolInv
<1>1. /\ status = "absent" /\ status' = "live" /\ Abs!CanInit(n) /\ blocks' = <<n>>
      /\ head' = <<pool, 1, 1>> /\ next' = Abs!Links(pool, 1, n)
      /\ stack' = [i \in 1 .. n |-> <<pool, 1, i>>]
      /\ UNCHANGED <<var, orphans, used, lock, pc, dst, rv, snap>>
  BY DEF Create
<1>2. Idle
  BY <1>1 DEF CallsOK, Idle
<1>3. Idle'
  BY <1>1, <1>2 DEF Idle
<1>4. lock = NULL /\ Seen = Memory /\ \A v \in Var : Points(v) = var[v]
  BY <1>2, QuietSeen
<1>5. lock' = NULL /\ Seen' = Memory' /\ \A v \in Var : Points(v)' = var'[v]
  <2>1. lock' = NULL
    BY <1>1, <1>4
  <2>2. Seen' = Memory'
    BY <2>1 DEF Seen, Hidden
  <2>3. \A v : Holding(v)' = {}
    BY <1>3 DEF Holding, Idle
  <2>4. \A v \in Var : Points(v)' = var'[v]
    BY <2>3 DEF Points
  <2> QED
    BY <2>1, <2>2, <2>4
<1>6. n \in Nat \ {0}
  BY <1>1, SizeAssumption DEF Abs!CanInit
<1>7. blocks = <<>> /\ next = [e \in {} |-> NULL] /\ stack = <<>>
  BY <1>1 DEF SeenOK
<1>8. Seen'.blocks = <<n>> /\ Seen'.head = <<pool, 1, 1>>
      /\ Seen'.next = next' /\ Seen'.stack = stack'
  BY <1>1, <1>5 DEF Memory
<1>9. next' = Abs!Extend(next, Abs!Links(pool, 1, n))
  BY <1>1, <1>7 DEF Abs!Extend, Abs!Links
<1>10. Store(<<>>, NULL, next)
  BY <1>7 DEF Store
<1>11. Store(<<n>>, <<pool, 1, 1>>, next')
  <2>1. Len(<<>>) + 1 = 1 /\ Append(<<>>, n) = <<n>>
    OBVIOUS
  <2> QED
    BY <1>6, <1>9, <1>10, <2>1, StoreGrow
<1>12. used = {} /\ \A v \in Var : var[v] = NULL
  BY <1>1, <1>4, <1>7 DEF SeenOK, Memory
<1>13. SeenOK'
  BY <1>1, <1>3, <1>8, <1>11, <1>12 DEF SeenOK, Idle
<1>14. SnapOK'
  BY <1>5 DEF SnapOK
<1>15. Abs!InitPool(pool, n)
  <2>1. [p \in {pool} |-> Seen'.blocks] = [[p \in {pool} |-> Seen.blocks] EXCEPT ![pool] = <<n>>]
    BY <1>8
  <2>2. [p \in {pool} |-> Seen'.head] = [[p \in {pool} |-> Seen.head] EXCEPT ![pool] = <<pool, 1, 1>>]
    BY <1>8
  <2>3. [p \in {pool} |-> Seen'.stack]
          = [[p \in {pool} |-> Seen.stack] EXCEPT ![pool] = [i \in 1 .. n |-> <<pool, 1, i>>]]
    BY <1>1, <1>8
  <2>4. Seen.next = next
    BY <1>4 DEF Memory
  <2>5. Seen'.next = Abs!Extend(Seen.next, Abs!Links(pool, 1, n))
    BY <1>8, <1>9, <2>4
  <2>6. [p \in {pool} |-> status'] = [[p \in {pool} |-> status] EXCEPT ![pool] = "live"]
    BY <1>1
  <2>7. [v \in Var |-> Points(v)'] = [v \in Var |-> Points(v)]
    BY <1>1, <1>4, <1>5
  <2> QED
    BY <1>1, <2>1, <2>2, <2>3, <2>5, <2>6, <2>7 DEF Abs!InitPool
<1> QED
  BY <1>13, <1>14, <1>15

LEMMA CreateFailsSteps ==
  ASSUME PPoolInv, CallsOK', NEW n \in InitSizes, CreateFails(n)
  PROVE  SnapOK' /\ SeenOK' /\ Abs!InitPoolFails(pool, n)
<1> USE DEF PPoolInv
<1>1. /\ UNCHANGED <<status, blocks, head, next, var, stack, used, lock, pc, dst, rv, snap>>
      /\ status = "absent"
      /\ IF Abs!CanInit(n) THEN Abs!InitFails(NULL) ELSE UNCHANGED orphans
  BY DEF CreateFails
<1>2. Seen' = Seen
  BY <1>1, SeenStays
<1>3. \A v \in Var : Points(v)' = Points(v)
  BY <1>1, PointsStay
<1>4. SnapOK'
  BY <1>1, SnapStays
<1>5. SeenOK'
  BY <1>1, <1>2 DEF SeenOK
<1>6. Abs!InitPoolFails(pool, n)
  BY <1>1, <1>2, <1>3 DEF Abs!InitPoolFails
<1> QED
  BY <1>4, <1>5, <1>6

LEMMA DestroySteps ==
  ASSUME PPoolInv, CallsOK', Destroy
  PROVE  SnapOK' /\ SeenOK' /\ Abs!Destroy(pool)
<1> USE DEF PPoolInv
<1>1. /\ status = "live" /\ Idle /\ status' = "destroyed" /\ blocks' = <<>> /\ head' = NULL
      /\ next' = [e \in {} |-> NULL] /\ stack' = <<>> /\ used' = {}
      /\ UNCHANGED <<var, orphans, lock, pc, dst, rv, snap>>
  BY DEF Destroy
<1>2. Idle'
  BY <1>1 DEF Idle
<1>3. lock = NULL /\ Seen = Memory /\ \A v \in Var : Points(v) = var[v]
  BY <1>1, QuietSeen
<1>4. lock' = NULL /\ Seen' = Memory' /\ \A v \in Var : Points(v)' = var'[v]
  <2>1. lock' = NULL
    BY <1>1, <1>3
  <2>2. Seen' = Memory'
    BY <2>1 DEF Seen, Hidden
  <2>3. \A v : Holding(v)' = {}
    BY <1>2 DEF Holding, Idle
  <2>4. \A v \in Var : Points(v)' = var'[v]
    BY <2>3 DEF Points
  <2> QED
    BY <2>1, <2>2, <2>4
<1>5. Seen'.blocks = <<>> /\ Seen'.head = NULL /\ Seen'.next = [e \in {} |-> NULL]
      /\ Seen'.stack = <<>>
  BY <1>1, <1>4 DEF Memory
<1>6. Store(<<>>, NULL, [e \in {} |-> NULL])
  BY DEF Store
<1>7. SeenOK'
  BY <1>1, <1>5, <1>6 DEF SeenOK
<1>8. SnapOK'
  BY <1>4 DEF SnapOK
<1>9. DOMAIN Seen.next \subseteq Abs!Entries(pool)
  <2>1. ASSUME NEW e \in DOMAIN Seen.next PROVE e \in Abs!Entries(pool)
    <3>1. Seen.blocks \in Seq(Nat) /\ DOMAIN Seen.blocks = 1 .. Len(Seen.blocks)
      BY DEF SeenOK, Store
    <3>2. PICK b \in 1 .. Len(Seen.blocks) : \E i \in 1 .. Seen.blocks[b] : e = <<pool, b, i>>
      BY <2>1 DEF SeenOK, Store
    <3>3. e \in Abs!Block(pool, b, Seen.blocks[b])
      BY <3>2 DEF Abs!Block
    <3> QED
      BY <3>1, <3>2, <3>3 DEF Abs!Entries
  <2> QED
    BY <2>1
<1>10. Abs!Destroy(pool)
  <2>1. [p \in {pool} |-> Seen'.blocks] = [[p \in {pool} |-> Seen.blocks] EXCEPT ![pool] = <<>>]
    BY <1>5
  <2>2. [p \in {pool} |-> Seen'.head] = [[p \in {pool} |-> Seen.head] EXCEPT ![pool] = NULL]
    BY <1>5
  <2>3. [p \in {pool} |-> Seen'.stack] = [[p \in {pool} |-> Seen.stack] EXCEPT ![pool] = <<>>]
    BY <1>5
  <2>4. Seen'.next = [e \in DOMAIN Seen.next \ Abs!Entries(pool) |-> Seen.next[e]]
    BY <1>5, <1>9
  <2>5. used' = used \ Abs!Entries(pool)
    BY <1>1, <1>9 DEF SeenOK
  <2>6. [p \in {pool} |-> status'] = [[p \in {pool} |-> status] EXCEPT ![pool] = "destroyed"]
    BY <1>1
  <2>7. [v \in Var |-> Points(v)'] = [v \in Var |-> Points(v)]
    BY <1>1, <1>3, <1>4
  <2>8. [p \in {pool} |-> status][pool] = "live"
    BY <1>1
  <2> QED
    BY <1>1, <2>1, <2>2, <2>3, <2>4, <2>5, <2>6, <2>7, <2>8 DEF Abs!Destroy
<1> QED
  BY <1>7, <1>8, <1>10

-----------------------------------------------------------------------------
(* The last steps with the mutex held *)

(* The mutex is released, and all see the memory. *)
LEMMA Released ==
  ASSUME PPoolInv, CallsOK', NEW t \in Thread, pc[t] \in Working, Unlock(t)
  PROVE  /\ lock = t /\ lock # NULL /\ status = "live" /\ dst[t] \in Var /\ Stage(t)
         /\ Seen = snap /\ lock' = NULL /\ Seen' = Memory' /\ SnapOK'
         /\ snap.blocks \in Seq(Nat) /\ snap.blocks # <<>>
         /\ snap = [blocks |-> snap.blocks, head |-> snap.head, next |-> snap.next, stack |-> snap.stack]
<1> USE DEF PPoolInv
<1>1. lock = t /\ lock # NULL /\ status = "live" /\ dst[t] \in Var
  BY NullAssumption DEF CallsOK, Working
<1>2. Seen = snap
  BY <1>1, SeenIs
<1>3. lock' = NULL
  BY <1>1 DEF Unlock
<1>4. Seen' = Memory' /\ SnapOK'
  BY <1>3 DEF Seen, Hidden, SnapOK
<1> QED
  BY <1>1, <1>2, <1>3, <1>4 DEF SnapOK, SeenOK, Store

(* What a get is about to hand out: the head that is seen, or the first entry of a new
   block. *)
LEMMA TakingStore ==
  ASSUME PPoolInv, Seen = snap, snap.blocks \in Seq(Nat), snap.blocks # <<>>, NEW e, Taking(e)
  PROVE  Store(blocks, e, next) /\ DOMAIN snap.next \subseteq DOMAIN next /\ blocks # <<>>
<1>1. Store(snap.blocks, snap.head, snap.next)
  BY DEF PPoolInv, SeenOK
<1>2. CASE SameBut(e)
  BY <1>1, <1>2 DEF SameBut
<1>3. CASE Relinked(e)
  <2>1. snap.blocks[Len(snap.blocks)] \in Nat
    BY DEF Store
  <2>2. Size \in Nat \ {0}
    <3> DEFINE m == snap.blocks[Len(snap.blocks)]
    <3>1. m \div 2 \in Nat /\ ((m % 2) + 1) \div 2 \in Nat
      BY <2>1
    <3>2. Abs!NextSize(m) \in Nat
      BY <2>1, <3>1, SizeAssumption, SMTT(30) DEF Abs!NextSize
    <3> QED
      BY <1>3, <3>2, SMTT(30) DEF Relinked, Grown, Size, Abs!CanInit
  <2>3. Len(snap.blocks) \in Nat /\ Len(blocks) = Len(snap.blocks) + 1 /\ blocks # <<>>
    BY <1>3, <2>2 DEF Relinked, Grown
  <2> QED
    BY <1>1, <1>3, <2>2, <2>3, StoreGrow DEF Relinked, Grown
<1> QED
  BY <1>2, <1>3 DEF Taking

LEMMA MarkSteps ==
  ASSUME PPoolInv, CallsOK', NEW t \in Thread, GetMark(t)
  PROVE  SnapOK' /\ SeenOK' /\ (Abs!GetFree(pool, dst[t]) \/ Abs!GetGrow(pool, dst[t]))
<1> DEFINE e == rv[t]
<1>1. /\ pc[t] = "getMark" /\ pc'[t] = "getReturn" /\ Unlock(t)
      /\ next' = [next EXCEPT ![e] = pool] /\ stack' = Tail(stack) /\ used' = used \cup {e}
      /\ UNCHANGED <<status, blocks, head, var, orphans, dst, rv>>
      /\ \A u \in Thread \ {t} : pc'[u] = pc[u]
  BY DEF GetMark, Goto, PPoolInv, CallsOK
<1>2. /\ lock = t /\ lock # NULL /\ status = "live" /\ dst[t] \in Var /\ Stage(t)
      /\ Seen = snap /\ lock' = NULL /\ Seen' = Memory' /\ SnapOK'
      /\ snap.blocks \in Seq(Nat) /\ snap.blocks # <<>>
  BY <1>1, Released DEF Working
<1>3. Taking(e) /\ head = next[e] /\ e # NULL
  BY <1>1, <1>2 DEF Stage, Taking
<1>4. Store(blocks, e, next) /\ DOMAIN snap.next \subseteq DOMAIN next /\ blocks # <<>>
  BY <1>2, <1>3, TakingStore
<1>5. Seen'.blocks = blocks /\ Seen'.head = head /\ Seen'.next = next' /\ Seen'.stack = stack'
  BY <1>1, <1>2 DEF Memory
<1>6. e \in DOMAIN next /\ DOMAIN next' = DOMAIN next
  BY <1>1, <1>3, <1>4 DEF Store
<1>7. SeenOK'
  <2>1. Store(blocks, head, next')
    BY <1>1, <1>3, <1>4, StorePop
  <2>2. used' \subseteq DOMAIN next'
    BY <1>1, <1>2, <1>4, <1>6 DEF PPoolInv, SeenOK
  <2>3. \A v \in Var : var'[v] \in {NULL} \cup DOMAIN next'
    BY <1>1, <1>2, <1>4, <1>6 DEF PPoolInv, SeenOK
  <2>4. \A u \in Thread : pc'[u] = "getReturn" => rv'[u] \in {NULL} \cup DOMAIN next'
    BY <1>1, <1>2, <1>4, <1>6 DEF PPoolInv, SeenOK
  <2> QED
    BY <1>1, <1>2, <1>4, <1>5, <2>1, <2>2, <2>3, <2>4 DEF SeenOK
<1>8. [v \in Var |-> Points(v)'] = [[v \in Var |-> Points(v)] EXCEPT ![dst[t]] = e]
  <2>1. ASSUME NEW v \in Var, v = dst[t] PROVE Points(v)' = e
    <3>1. \A u \in Thread : dst'[u] = dst[t] => u = t
      BY <1>1 DEF CallsOK, GetLabels
    <3>2. {u \in Thread : pc'[u] = "getReturn" /\ dst'[u] = dst[t]} = {t}
      BY <1>1, <3>1
    <3>3. (CHOOSE u \in {t} : TRUE) = t
      OBVIOUS
    <3>4. Holding(v)' = {t}
      BY <1>1, <2>1, <3>2 DEF Holding
    <3>5. Points(v)' = rv'[t]
      BY <3>3, <3>4 DEF Points
    <3> QED
      BY <1>1, <3>5
  <2>2. ASSUME NEW v \in Var, v # dst[t] PROVE Points(v)' = Points(v)
    BY <1>1, <2>2, PointsStay DEF PPoolInv
  <2> QED
    BY <1>2, <2>1, <2>2
<1>9. CASE SameBut(e)
  <2>1. /\ Seen.blocks = blocks /\ Seen.next = next /\ Seen.stack = stack /\ Seen.head = e
    BY <1>2, <1>9 DEF SameBut
  <2>2. Abs!GetFree(pool, dst[t])
    BY <1>1, <1>2, <1>3, <1>5, <1>8, <2>1 DEF Abs!GetFree
  <2> QED
    BY <1>2, <1>7, <2>2
<1>10. CASE Relinked(e)
  <2> DEFINE b == Len(Seen.blocks) + 1
             n == Abs!NextSize(Seen.blocks[Len(Seen.blocks)])
  <2>1. /\ Seen.head = NULL /\ Abs!CanInit(n) /\ blocks = Append(Seen.blocks, n)
        /\ next = Abs!Extend(Seen.next, Abs!Links(pool, b, n)) /\ Len(blocks) = b
        /\ e = <<pool, b, 1>> /\ stack = [i \in 1 .. n |-> <<pool, b, i>>] /\ n \in Nat \ {0}
    <3>1. Seen.blocks[Len(Seen.blocks)] \in Nat
      BY <1>2
    <3>2. n \in Nat
      <4> DEFINE m == Seen.blocks[Len(Seen.blocks)]
      <4>1. m \div 2 \in Nat /\ ((m % 2) + 1) \div 2 \in Nat
        BY <3>1
      <4> QED
        BY <3>1, <4>1, SizeAssumption DEF Abs!NextSize
    <3> QED
      BY <1>2, <1>10, <3>2, SMTT(30) DEF Relinked, Grown, Size, Abs!CanInit
  <2>2. Tail(stack) = [i \in 1 .. n - 1 |-> <<pool, b, i + 1>>]
    <3> HIDE DEF b, n
    <3>1. n \in Nat \ {0} /\ stack = [i \in 1 .. n |-> <<pool, b, i>>]
      BY <2>1
    <3>2. Len(stack) = n
      BY <3>1
    <3> QED
      BY <3>1, <3>2
  <2>3. Abs!LastSize(pool) = Seen.blocks[Len(Seen.blocks)]
    BY DEF Abs!LastSize
  <2> HIDE DEF b, n
  <2>4. [p \in {pool} |-> Seen'.blocks] = [[p \in {pool} |-> Seen.blocks] EXCEPT ![pool] = Append(@, n)]
    BY <1>5, <2>1
  <2>5. [p \in {pool} |-> Seen'.head] = [[p \in {pool} |-> Seen.head] EXCEPT ![pool] = next[e]]
    BY <1>3, <1>5
  <2>6. [p \in {pool} |-> Seen'.stack] = [[p \in {pool} |-> Seen.stack] EXCEPT
                                            ![pool] = [i \in 1 .. n - 1 |-> <<pool, b, i + 1>>]]
    BY <1>1, <1>5, <2>2
  <2>7. Seen'.next = [next EXCEPT ![e] = pool]
    BY <1>1, <1>5
  <2>8. Abs!GetGrow(pool, dst[t])
    BY <1>1, <1>2, <1>8, <2>1, <2>3, <2>4, <2>5, <2>6, <2>7 DEF Abs!GetGrow, b, n
  <2> QED
    BY <1>2, <1>7, <2>8
<1> QED
  BY <1>3, <1>9, <1>10 DEF Taking

LEMMA FailSteps ==
  ASSUME PPoolInv, CallsOK', NEW t \in Thread, GetFails(t)
  PROVE  SnapOK' /\ SeenOK' /\ Abs!GetFails(pool, dst[t])
<1>1. /\ pc[t] = "getGrow" /\ pc'[t] = "getReturn" /\ Unlock(t) /\ rv'[t] = NULL
      /\ IF Abs!CanInit(NextSize) THEN Abs!InitFails(pool) ELSE UNCHANGED orphans
      /\ UNCHANGED <<status, blocks, head, next, var, stack, used, dst>>
      /\ \A u \in Thread \ {t} : pc'[u] = pc[u] /\ rv'[u] = rv[u]
  BY DEF GetFails, Goto, PPoolInv, CallsOK
<1>2. /\ lock = t /\ lock # NULL /\ status = "live" /\ dst[t] \in Var /\ Stage(t)
      /\ Seen = snap /\ lock' = NULL /\ Seen' = Memory' /\ SnapOK'
      /\ snap = [blocks |-> snap.blocks, head |-> snap.head, next |-> snap.next, stack |-> snap.stack]
  BY <1>1, Released DEF Working
<1>3. SameBut(NULL) /\ head = NULL
  BY <1>1, <1>2 DEF Stage
<1>4. Seen' = Seen /\ Seen.head = NULL /\ Seen.blocks = blocks
  BY <1>1, <1>2, <1>3 DEF Memory, SameBut
<1>5. SeenOK'
  BY <1>1, <1>2, <1>4 DEF PPoolInv, SeenOK
<1>6. [v \in Var |-> Points(v)'] = [[v \in Var |-> Points(v)] EXCEPT ![dst[t]] = NULL]
  <2>1. ASSUME NEW v \in Var, v = dst[t] PROVE Points(v)' = NULL
    <3>1. \A u \in Thread : dst'[u] = dst[t] => u = t
      BY <1>1 DEF CallsOK, PPoolInv, GetLabels
    <3>2. {u \in Thread : pc'[u] = "getReturn" /\ dst'[u] = dst[t]} = {t}
      BY <1>1, <3>1
    <3>3. (CHOOSE u \in {t} : TRUE) = t
      OBVIOUS
    <3>4. Holding(v)' = {t}
      BY <1>1, <2>1, <3>2 DEF Holding
    <3>5. Points(v)' = rv'[t]
      BY <3>3, <3>4 DEF Points
    <3> QED
      BY <1>1, <3>5
  <2>2. ASSUME NEW v \in Var, v # dst[t] PROVE Points(v)' = Points(v)
    BY <1>1, <2>2, PointsStay DEF PPoolInv
  <2> QED
    BY <1>2, <2>1, <2>2
<1>7. Abs!LastSize(pool) = blocks[Len(blocks)]
  BY <1>4 DEF Abs!LastSize
<1>8. Abs!GetFails(pool, dst[t])
  BY <1>1, <1>2, <1>4, <1>6, <1>7 DEF Abs!GetFails, NextSize
<1> QED
  BY <1>2, <1>5, <1>8

LEMMA RefuseSteps ==
  ASSUME PPoolInv, CallsOK', NEW t \in Thread, PutRefused(t)
  PROVE  SnapOK' /\ SeenOK' /\ Abs!PutRefused(pool, dst[t])
<1>1. /\ pc[t] = "putLook" /\ pc'[t] = "idle" /\ Unlock(t) /\ ~Abs!InUse(pool, var[dst[t]])
      /\ UNCHANGED <<poolVars, rv>>
      /\ \A u \in Thread \ {t} : pc'[u] = pc[u] /\ dst'[u] = dst[u]
  BY DEF PutRefused, Goto, PPoolInv, CallsOK
<1>2. /\ lock = t /\ lock # NULL /\ status = "live" /\ dst[t] \in Var /\ Stage(t)
      /\ Seen = snap /\ lock' = NULL /\ Seen' = Memory' /\ SnapOK'
      /\ snap = [blocks |-> snap.blocks, head |-> snap.head, next |-> snap.next, stack |-> snap.stack]
  BY <1>1, Released DEF Working
<1>3. Seen' = Seen
  BY <1>1, <1>2 DEF Memory, SameBut, Stage, poolVars
<1>4. SeenOK'
  BY <1>1, <1>2, <1>3 DEF PPoolInv, SeenOK, poolVars
<1>5. \A v \in Var : Points(v)' = Points(v)
  BY <1>1, PointsStay DEF PPoolInv, poolVars
<1>6. UNCHANGED Abs!poolVars
  BY <1>1, <1>3, <1>5, AbsSame DEF poolVars
<1>7. Points(dst[t]) = var[dst[t]]
  BY <1>1, PutPoints DEF PPoolInv, PutLabels
<1>8. var[dst[t]] \in {NULL} \cup DOMAIN Seen.next
  BY <1>2 DEF PPoolInv, SeenOK
<1>9. Abs!PutRefused(pool, dst[t])
  BY <1>1, <1>2, <1>6, <1>7, <1>8 DEF Abs!PutRefused, Abs!Usable
<1> QED
  BY <1>2, <1>4, <1>9

LEMMA ClearSteps ==
  ASSUME PPoolInv, CallsOK', NEW t \in Thread, PutClear(t)
  PROVE  SnapOK' /\ SeenOK' /\ Abs!Put(pool, dst[t])
<1> DEFINE e == rv[t]
<1>1. /\ pc[t] = "putClear" /\ pc'[t] = "idle" /\ Unlock(t)
      /\ var' = [var EXCEPT ![dst[t]] = NULL]
      /\ stack' = <<e>> \o stack /\ used' = used \ {e}
      /\ UNCHANGED <<status, blocks, head, next, orphans>>
      /\ \A u \in Thread \ {t} : pc'[u] = pc[u] /\ dst'[u] = dst[u] /\ rv'[u] = rv[u]
  BY DEF PutClear, Goto, PPoolInv, CallsOK
<1>2. /\ lock = t /\ lock # NULL /\ status = "live" /\ dst[t] \in Var /\ Stage(t)
      /\ Seen = snap /\ lock' = NULL /\ Seen' = Memory' /\ SnapOK'
      /\ snap.blocks # <<>>
  BY <1>1, Released DEF Working
<1>3. /\ e = var[dst[t]] /\ e # NULL /\ Seen.next[e] = pool
      /\ blocks = Seen.blocks /\ stack = Seen.stack /\ head = e
      /\ next = [Seen.next EXCEPT ![e] = Seen.head]
  BY <1>1, <1>2 DEF Stage
<1>4. e \in DOMAIN Seen.next /\ Store(Seen.blocks, Seen.head, Seen.next)
  BY <1>2, <1>3 DEF PPoolInv, SeenOK
<1>5. Seen'.blocks = blocks /\ Seen'.head = e /\ Seen'.next = next /\ Seen'.stack = stack'
  BY <1>1, <1>2, <1>3 DEF Memory
<1>6. Store(blocks, e, next) /\ DOMAIN next = DOMAIN Seen.next
  <2>1. Store(Seen.blocks, e, [Seen.next EXCEPT ![e] = Seen.head])
    BY <1>3, <1>4, StorePut
  <2> QED
    BY <1>3, <2>1
<1>7. var'[dst[t]] = NULL /\ \A v \in Var : v # dst[t] => var'[v] = var[v]
  BY <1>1, <1>2 DEF PPoolInv, CallsOK
<1>8. SeenOK'
  <2>1. used' \subseteq DOMAIN next
    BY <1>1, <1>6 DEF PPoolInv, SeenOK
  <2>2. \A v \in Var : var'[v] \in {NULL} \cup DOMAIN next
    BY <1>2, <1>6, <1>7 DEF PPoolInv, SeenOK
  <2>3. \A u \in Thread : pc'[u] = "getReturn" => rv'[u] \in {NULL} \cup DOMAIN next
    BY <1>1, <1>2, <1>6 DEF PPoolInv, SeenOK
  <2> QED
    BY <1>1, <1>2, <1>3, <1>5, <1>6, <2>1, <2>2, <2>3 DEF SeenOK
<1>9. Points(dst[t]) = e /\ \A u \in Thread : pc[u] = "getReturn" => dst[u] # dst[t]
  BY <1>1, <1>3, PutPoints DEF PPoolInv, PutLabels
<1>10. [v \in Var |-> Points(v)'] = [[v \in Var |-> Points(v)] EXCEPT ![dst[t]] = NULL]
  <2>1. ASSUME NEW v \in Var, v = dst[t] PROVE Points(v)' = NULL
    <3>1. \A u \in Thread : pc'[u] = "getReturn" => dst'[u] # v
      BY <1>1, <1>9, <2>1
    <3>2. Holding(v)' = {}
      BY <3>1 DEF Holding
    <3>3. Points(v)' = var'[v]
      BY <3>2 DEF Points
    <3> QED
      BY <1>7, <2>1, <3>3
  <2>2. ASSUME NEW v \in Var, v # dst[t] PROVE Points(v)' = Points(v)
    BY <1>1, <1>7, <2>2, PointsStay DEF PPoolInv
  <2> QED
    BY <1>2, <2>1, <2>2
<1>11. Abs!Put(pool, dst[t])
  <2>1. [p \in {pool} |-> Seen'.head] = [[p \in {pool} |-> Seen.head] EXCEPT ![pool] = e]
    BY <1>5
  <2>2. [p \in {pool} |-> Seen'.stack] = [[p \in {pool} |-> Seen.stack] EXCEPT ![pool] = <<e>> \o @]
    BY <1>1, <1>3, <1>5
  <2>3. [p \in {pool} |-> Seen'.blocks] = [p \in {pool} |-> Seen.blocks]
    BY <1>3, <1>5
  <2>4. Seen'.next = [Seen.next EXCEPT ![e] = Seen.head]
    BY <1>3, <1>5
  <2>5. [v \in Var |-> Points(v)][dst[t]] = e
    BY <1>2, <1>9
  <2>6. Abs!Usable(dst[t]) /\ Abs!InUse(pool, e)
    BY <1>3, <1>4, <2>5 DEF Abs!Usable, Abs!InUse
  <2> QED
    BY <1>1, <1>2, <1>10, <2>1, <2>2, <2>3, <2>4, <2>5, <2>6 DEF Abs!Put
<1> QED
  BY <1>2, <1>8, <1>11

-----------------------------------------------------------------------------
(* The theorems *)

LEMMA InitHolds == Init => PPoolInv /\ Abs!PoolInit
<1> SUFFICES ASSUME Init PROVE PPoolInv /\ Abs!PoolInit
  OBVIOUS
<1> USE DEF Init
<1>1. CallsOK
  BY NullAssumption DEF CallsOK, GetLabels, Working
<1>2. Idle
  BY DEF Idle
<1>3. Seen = Memory /\ \A v \in Var : Points(v) = var[v]
  BY <1>1, <1>2, QuietSeen
<1>4. /\ Seen.blocks = <<>> /\ Seen.head = NULL /\ Seen.next = [e \in {} |-> NULL]
      /\ Seen.stack = <<>>
  BY <1>3 DEF Memory
<1>5. Store(<<>>, NULL, [e \in {} |-> NULL])
  BY DEF Store
<1>6. SeenOK /\ SnapOK
  BY <1>4, <1>5 DEF SeenOK, SnapOK
<1>7. Abs!PoolInit
  BY <1>3, <1>4 DEF Abs!PoolInit
<1> QED
  BY <1>1, <1>6, <1>7 DEF PPoolInv

LEMMA StepKeeps ==
  ASSUME PPoolInv, [Next]_vars
  PROVE  PPoolInv' /\ [Abs!PoolNext]_(Abs!poolVars)
<1>1. CASE UNCHANGED vars
  <2> USE <1>1 DEF vars, poolVars
  <2>1. CallsOK' /\ Seen' = Seen
    BY DEF PPoolInv, CallsOK, Seen, Hidden, Memory
  <2>2. \A v : Points(v)' = Points(v)
    BY DEF Points, Holding
  <2>3. SnapOK'
    BY SnapStays
  <2>4. SeenOK'
    BY <2>1 DEF PPoolInv, SeenOK
  <2>5. UNCHANGED Abs!poolVars
    BY <2>1, <2>2, AbsSame
  <2> QED
    BY <2>1, <2>3, <2>4, <2>5 DEF PPoolInv
<1>2. CASE Next
  <2>1. CallsOK'
    BY <1>2, CallsStay DEF PPoolInv
  <2> SUFFICES SnapOK' /\ SeenOK' /\ [Abs!PoolNext]_(Abs!poolVars)
    BY <2>1 DEF PPoolInv
  <2>2. ASSUME NEW n \in InitSizes, Create(n) \/ CreateFails(n)
        PROVE  SnapOK' /\ SeenOK' /\ [Abs!PoolNext]_(Abs!poolVars)
    BY <2>1, <2>2, CreateSteps, CreateFailsSteps DEF Abs!PoolNext
  <2>3. CASE Destroy
    BY <2>1, <2>3, DestroySteps DEF Abs!PoolNext
  <2>4. ASSUME NEW t \in Thread, NEW v \in Var, CallGet(t, v) \/ CallPut(t, v)
        PROVE  SnapOK' /\ SeenOK' /\ [Abs!PoolNext]_(Abs!poolVars)
    BY <2>1, <2>4, CallSteps
  <2>5. ASSUME NEW v \in Var, NEW w \in Var, Copy(v, w)
        PROVE  SnapOK' /\ SeenOK' /\ [Abs!PoolNext]_(Abs!poolVars)
    BY <2>1, <2>5, CopySteps DEF Abs!PoolNext
  <2>6. ASSUME NEW t \in Thread, Proceed(t)
        PROVE  SnapOK' /\ SeenOK' /\ [Abs!PoolNext]_(Abs!poolVars)
    <3>1. CASE Unseen(t)
      BY <2>1, <3>1, StageStays, UnseenSteps
    <3>2. CASE GetLock(t) \/ PutLock(t) \/ GetReturn(t)
      BY <2>1, <3>2, LockSteps, ReturnSteps
    <3>3. CASE GetMark(t) \/ GetFails(t) \/ PutRefused(t) \/ PutClear(t)
      <4>1. pc[t] \in Working
        BY <3>3 DEF GetMark, GetFails, PutRefused, PutClear, Working
      <4>2. dst[t] \in Var
        BY <4>1 DEF PPoolInv, CallsOK, Working
      <4>3. Abs!GetFree(pool, dst[t]) \/ Abs!GetGrow(pool, dst[t]) \/ Abs!GetFails(pool, dst[t])
              \/ Abs!Put(pool, dst[t]) \/ Abs!PutRefused(pool, dst[t])
        BY <2>1, <3>3, MarkSteps, FailSteps, RefuseSteps, ClearSteps
      <4>4. Abs!PoolNext
        BY <4>2, <4>3 DEF Abs!PoolNext
      <4> QED
        BY <2>1, <3>3, <4>4, MarkSteps, FailSteps, RefuseSteps, ClearSteps
    <3> QED
      BY <2>6, <3>1, <3>2, <3>3 DEF Proceed, Unseen
  <2> QED
    BY <1>2, <2>2, <2>3, <2>4, <2>5, <2>6 DEF Next
<1> QED
  BY <1>1, <1>2

(* The invariant holds for all threads and variables, sizes and limits. *)
THEOREM Inductive == Spec => []PPoolInv
BY InitHolds, StepKeeps, PTL DEF Spec

(* The calls of any number of threads change the pool as if each were one step between
   its start and its return: the mutex makes the steps of pool_get and pool_put one. *)
THEOREM Refinement == Spec => ImplementsPool
BY InitHolds, StepKeeps, Inductive, PTL DEF Spec, ImplementsPool, Abs!PoolSpec


=============================================================================
