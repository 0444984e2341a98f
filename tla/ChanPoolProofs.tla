--------------------------- MODULE ChanPoolProofs ---------------------------
(* The TLAPS proofs about channels and about the pools of one thread, two parts that do
   not depend on each other.

   Chan, for every finite set of threads, every choice of the operations they call, every
   capacity and every bound on the sends: its invariants, and that it implements
   BoundedFIFO (every step of a thread is a step of the queue or changes nothing the
   queue's users can see).

   Pool, for any number of pools and pointer variables, all sizes and every limit of
   memory: the free list is a stack, no entry is lost, and one in use stays there. *)
EXTENDS ChanInv, Pool, FiniteSetTheorems, SequenceTheorems, TLAPS

-----------------------------------------------------------------------------
(* Type correctness *)

LEMMA InitTyping == Init => TypeOK
<1> SUFFICES ASSUME Init PROVE TypeOK
  OBVIOUS
<1>1. capacity \in Nat \ {0}
  BY CapacitiesAssumption DEF Init
<1>2. slots \in Nat /\ slots >= capacity
  BY <1>1 DEF Init, SlotCounts
<1>3. sent \in Seq(Value) /\ Len(sent) = head1 /\ calls \in 0 .. MaxSends
  BY MaxSendsAssumption DEF Init
<1> QED
  BY <1>1, <1>2, <1>3
     DEF Init, TypeOK, Labels, SendPC, RecvPC, SendOps, RecvOps, NoValue

(* The local steps write only the variables of thread t. *)
LEMMA CallTyping ==
  ASSUME TypeOK, NEW t \in Thread,
         \/ \E op \in SendOps : CallSend(t, op)
         \/ \E op \in RecvOps : CallRecv(t, op)
         \/ Close(t)
  PROVE  TypeOK'
<1> USE DEF TypeOK, Begin, SendOps, RecvOps, SendPC, RecvPC, Labels, NoValue, shape, counters
<1>1. ASSUME NEW op \in SendOps, CallSend(t, op) PROVE TypeOK'
  <2>1. calls + 1 \in Value /\ calls' \in 0 .. MaxSends
    BY <1>1, MaxSendsAssumption DEF CallSend, Value
  <2> QED BY <1>1, <2>1 DEF CallSend
<1>2. ASSUME NEW op \in RecvOps, CallRecv(t, op) PROVE TypeOK'
  BY <1>2 DEF CallRecv
<1>3. CASE Close(t)
  BY <1>3 DEF Close
<1> QED
  BY <1>1, <1>2, <1>3

LEMMA SendTyping ==
  ASSUME TypeOK, NEW t \in Thread,
         \/ SendLoadClosed(t) \/ SendLoadHead1(t) \/ SendLoadTail0(t)
         \/ SendClaim(t) \/ SendLoseClaim(t) \/ SendWrite(t) \/ SendPublish(t)
  PROVE  TypeOK'
<1> USE DEF TypeOK, Goto, Load, Return, SendOps, RecvOps, SendPC, RecvPC, Labels,
            NoValue, shape, counters, history
<1>1. CASE SendLoadClosed(t)
  <2>1. CASE Return(t, "CLOSED")
    BY <1>1, <2>1 DEF SendLoadClosed
  <2>2. CASE Goto(t, "sendHead1")
    BY <1>1, <2>2 DEF SendLoadClosed
  <2> QED
    BY <1>1, <2>1, <2>2 DEF SendLoadClosed
<1>2. CASE SendLoadHead1(t)
  BY <1>2 DEF SendLoadHead1
<1>3. CASE SendLoadTail0(t)
  <2>1. CASE Goto(t, "sendClaim")
    BY <1>3, <2>1 DEF SendLoadTail0
  <2>2. CASE Return(t, "FULL")
    BY <1>3, <2>2 DEF SendLoadTail0
  <2>3. CASE Load(t, "sendClosed", 0)
    BY <1>3, <2>3 DEF SendLoadTail0
  <2> QED
    BY <1>3, <2>1, <2>2, <2>3 DEF SendLoadTail0
<1>4. CASE SendClaim(t)
  <2>1. val[t] \in Value
    BY <1>4 DEF SendClaim
  <2>2. sent' \in Seq(Value) /\ Len(sent') = head1' /\ head1' \in Nat
    BY <1>4, <2>1 DEF SendClaim
  <2> QED
    BY <1>4, <2>2 DEF SendClaim
<1>5. CASE SendLoseClaim(t)
  BY <1>5 DEF SendLoseClaim
<1>6. CASE SendWrite(t)
  BY <1>6 DEF SendWrite
<1>7. CASE SendPublish(t)
  BY <1>7 DEF SendPublish
<1> QED
  BY <1>1, <1>2, <1>3, <1>4, <1>5, <1>6, <1>7

LEMMA SlotInRange == ASSUME TypeOK, NEW p \in Nat PROVE Slot(p) \in 0 .. slots - 1
BY DEF TypeOK, Slot

LEMMA RecvTyping ==
  ASSUME TypeOK, NEW t \in Thread,
         \/ RecvLoadTail1(t) \/ RecvLoadHead0(t) \/ RecvLoadClosed(t)
         \/ RecvLoadHead0Again(t) \/ RecvClaim(t) \/ RecvLoseClaim(t)
         \/ RecvRead(t) \/ RecvRelease(t)
  PROVE  TypeOK'
<1> USE DEF TypeOK, Goto, Load, Return, SendOps, RecvOps, SendPC, RecvPC, Labels,
            NoValue, shape, counters, history
<1>1. CASE RecvLoadTail1(t)
  BY <1>1 DEF RecvLoadTail1
<1>2. CASE RecvLoadHead0(t)
  <2>1. CASE Goto(t, "recvClosed")
    BY <1>2, <2>1 DEF RecvLoadHead0
  <2>2. CASE Goto(t, "recvClaim")
    BY <1>2, <2>2 DEF RecvLoadHead0
  <2> QED
    BY <1>2, <2>1, <2>2 DEF RecvLoadHead0
<1>3. CASE RecvLoadClosed(t)
  <2>1. CASE Goto(t, "recvAgain")
    BY <1>3, <2>1 DEF RecvLoadClosed
  <2>2. CASE Return(t, "EMPTY")
    BY <1>3, <2>2 DEF RecvLoadClosed
  <2>3. CASE Load(t, "recvTail1", 0)
    BY <1>3, <2>3 DEF RecvLoadClosed
  <2> QED
    BY <1>3, <2>1, <2>2, <2>3 DEF RecvLoadClosed
<1>4. CASE RecvLoadHead0Again(t)
  <2>1. CASE Return(t, "CLOSED")
    BY <1>4, <2>1 DEF RecvLoadHead0Again
  <2>2. CASE Load(t, "recvTail1", 0)
    BY <1>4, <2>2 DEF RecvLoadHead0Again
  <2> QED
    BY <1>4, <2>1, <2>2 DEF RecvLoadHead0Again
<1>5. CASE RecvClaim(t)
  BY <1>5 DEF RecvClaim
<1>6. CASE RecvLoseClaim(t)
  BY <1>6 DEF RecvLoseClaim
<1>7. CASE RecvRead(t)
  <2>1. data[Slot(pos[t])] \in Value \cup {NoValue}
    BY SlotInRange
  <2> QED
    BY <1>7, <2>1 DEF RecvRead
<1>8. CASE RecvRelease(t)
  BY <1>8 DEF RecvRelease
<1> QED
  BY <1>1, <1>2, <1>3, <1>4, <1>5, <1>6, <1>7, <1>8

LEMMA NextTyping == TypeOK /\ [Next]_vars => TypeOK'
<1> SUFFICES ASSUME TypeOK, [Next]_vars PROVE TypeOK'
  OBVIOUS
<1>1. CASE UNCHANGED vars
  BY <1>1 DEF TypeOK, vars, shape, counters, thread, history
<1>2. ASSUME NEW t \in Thread, Step(t) PROVE TypeOK'
  BY <1>2, CallTyping, SendTyping, RecvTyping DEF Step, Proceed
<1> QED
  BY <1>1, <1>2 DEF Next

\* Type correctness: every variable of the channel and of its threads keeps its
\* type, and the claims and their history stay in step.
THEOREM Typing == Spec => []TypeOK
BY InitTyping, NextTyping, PTL DEF Spec

-----------------------------------------------------------------------------
(* The order of the counters and the claims of the threads *)

LEMMA InitOrder == Init => OrderInv
<1> SUFFICES ASSUME Init PROVE OrderInv
  OBVIOUS
<1>1. capacity \in Nat \ {0}
  BY CapacitiesAssumption DEF Init
<1> QED
  BY <1>1 DEF Init, OrderInv, CounterOrder, ThreadInv, ClaimsDiffer, ClaimedSend, ClaimedRecv

(* A step of t that only moves t, to a place where it has no claim. *)
LEMMA OrderAside ==
  ASSUME TypeOK, OrderInv, NEW t \in Thread, UNCHANGED <<shape, counters>>,
         NEW l \in {"idle", "sendClosed", "sendHead1", "recvTail1"},
         pc' = [pc EXCEPT ![t] = l],
         UNCHANGED pos \/ pos' = [pos EXCEPT ![t] = 0]
  PROVE  OrderInv'
BY DEF TypeOK, OrderInv, CounterOrder, ThreadInv, ClaimsDiffer, ClaimedSend, ClaimedRecv,
       shape, counters

LEMMA SendOrder ==
  ASSUME TypeOK, OrderInv, NEW t \in Thread,
         \/ SendLoadClosed(t) \/ SendLoadHead1(t) \/ SendLoadTail0(t)
         \/ SendClaim(t) \/ SendLoseClaim(t) \/ SendWrite(t) \/ SendPublish(t)
  PROVE  OrderInv'
<1> USE DEF Goto, Load, Return
<1>1. CASE SendLoadClosed(t)
  BY <1>1, OrderAside DEF SendLoadClosed
<1>2. CASE SendLoadHead1(t)
  BY <1>2 DEF SendLoadHead1, TypeOK, OrderInv, CounterOrder, ThreadInv, ClaimsDiffer,
              ClaimedSend, ClaimedRecv, shape, counters
<1>3. CASE SendLoadTail0(t)
  <2>1. CASE pos[t] = tail0 + capacity
    BY <1>3, <2>1, OrderAside DEF SendLoadTail0
  <2>2. CASE pos[t] # tail0 + capacity
    <3>1. /\ pos[t] \in Nat /\ head1 \in Nat /\ tail0 \in Nat /\ capacity \in Nat
          /\ pos[t] <= head1 /\ head1 <= tail0 + capacity
      BY <1>3 DEF SendLoadTail0, TypeOK, OrderInv, CounterOrder, ThreadInv
    <3>2. pos[t] <= head1 /\ pos[t] < tail0 + capacity
      BY <2>2, <3>1
    <3>3. pc' = [pc EXCEPT ![t] = "sendClaim"] /\ UNCHANGED <<pos, shape, counters>>
      BY <1>3, <2>2 DEF SendLoadTail0
    <3> QED
      BY <3>2, <3>3 DEF TypeOK, OrderInv, CounterOrder, ThreadInv, ClaimsDiffer,
                        ClaimedSend, ClaimedRecv, shape, counters
  <2> QED
    BY <2>1, <2>2
<1>4. CASE SendClaim(t)
  BY <1>4 DEF SendClaim, TypeOK, OrderInv, CounterOrder, ThreadInv, ClaimsDiffer,
              ClaimedSend, ClaimedRecv, shape
<1>5. CASE SendLoseClaim(t)
  BY <1>5, OrderAside DEF SendLoseClaim
<1>6. CASE SendWrite(t)
  BY <1>6 DEF SendWrite, TypeOK, OrderInv, CounterOrder, ThreadInv, ClaimsDiffer,
              ClaimedSend, ClaimedRecv, shape, counters
<1>7. CASE SendPublish(t)
  BY <1>7 DEF SendPublish, TypeOK, OrderInv, CounterOrder, ThreadInv, ClaimsDiffer,
              ClaimedSend, ClaimedRecv, shape
<1> QED
  BY <1>1, <1>2, <1>3, <1>4, <1>5, <1>6, <1>7

LEMMA RecvOrder ==
  ASSUME TypeOK, OrderInv, NEW t \in Thread,
         \/ RecvLoadTail1(t) \/ RecvLoadHead0(t) \/ RecvLoadClosed(t)
         \/ RecvLoadHead0Again(t) \/ RecvClaim(t) \/ RecvLoseClaim(t)
         \/ RecvRead(t) \/ RecvRelease(t)
  PROVE  OrderInv'
<1> USE DEF Goto, Load, Return
<1>1. CASE RecvLoadTail1(t)
  BY <1>1 DEF RecvLoadTail1, TypeOK, OrderInv, CounterOrder, ThreadInv, ClaimsDiffer,
              ClaimedSend, ClaimedRecv, shape, counters
<1>2. CASE RecvLoadHead0(t)
  <2>1. /\ pos[t] \in Nat /\ tail1 \in Nat /\ head0 \in Nat
        /\ pos[t] <= tail1 /\ tail1 <= head0
    BY <1>2 DEF RecvLoadHead0, TypeOK, OrderInv, CounterOrder, ThreadInv
  <2>2. UNCHANGED <<pos, shape, counters>>
    BY <1>2 DEF RecvLoadHead0
  <2>3. CASE pc' = [pc EXCEPT ![t] = "recvClosed"]
    BY <2>1, <2>2, <2>3 DEF TypeOK, OrderInv, CounterOrder, ThreadInv, ClaimsDiffer,
                            ClaimedSend, ClaimedRecv, shape, counters
  <2>4. CASE pc' = [pc EXCEPT ![t] = "recvClaim"] /\ pos[t] < head0
    BY <2>1, <2>2, <2>4 DEF TypeOK, OrderInv, CounterOrder, ThreadInv, ClaimsDiffer,
                            ClaimedSend, ClaimedRecv, shape, counters
  <2> QED
    BY <1>2, <2>1, <2>3, <2>4 DEF RecvLoadHead0
<1>3. CASE RecvLoadClosed(t)
  <2>1. CASE closed
    BY <1>3, <2>1 DEF RecvLoadClosed, TypeOK, OrderInv, CounterOrder, ThreadInv,
                      ClaimsDiffer, ClaimedSend, ClaimedRecv, shape, counters
  <2>2. CASE ~closed
    BY <1>3, <2>2, OrderAside DEF RecvLoadClosed
  <2> QED
    BY <2>1, <2>2
<1>4. CASE RecvLoadHead0Again(t)
  BY <1>4, OrderAside DEF RecvLoadHead0Again
<1>5. CASE RecvClaim(t)
  BY <1>5 DEF RecvClaim, TypeOK, OrderInv, CounterOrder, ThreadInv, ClaimsDiffer,
              ClaimedSend, ClaimedRecv, shape
<1>6. CASE RecvLoseClaim(t)
  BY <1>6, OrderAside DEF RecvLoseClaim
<1>7. CASE RecvRead(t)
  BY <1>7 DEF RecvRead, TypeOK, OrderInv, CounterOrder, ThreadInv, ClaimsDiffer,
              ClaimedSend, ClaimedRecv, shape, counters
<1>8. CASE RecvRelease(t)
  BY <1>8 DEF RecvRelease, TypeOK, OrderInv, CounterOrder, ThreadInv, ClaimsDiffer,
              ClaimedSend, ClaimedRecv, shape
<1> QED
  BY <1>1, <1>2, <1>3, <1>4, <1>5, <1>6, <1>7, <1>8

LEMMA NextOrder == TypeOK /\ OrderInv /\ [Next]_vars => OrderInv'
<1> SUFFICES ASSUME TypeOK, OrderInv, [Next]_vars PROVE OrderInv'
  OBVIOUS
<1>1. CASE UNCHANGED vars
  BY <1>1 DEF OrderInv, CounterOrder, ThreadInv, ClaimsDiffer, ClaimedSend, ClaimedRecv,
              vars, shape, counters, thread
<1>2. ASSUME NEW t \in Thread, Step(t) PROVE OrderInv'
  <2>1. ASSUME NEW op \in SendOps, CallSend(t, op) PROVE OrderInv'
    BY <2>1, OrderAside DEF CallSend, Begin
  <2>2. ASSUME NEW op \in RecvOps, CallRecv(t, op) PROVE OrderInv'
    BY <2>2, OrderAside DEF CallRecv, Begin
  <2>3. CASE Close(t)
    BY <2>3 DEF Close, OrderInv, CounterOrder, ThreadInv, ClaimsDiffer, ClaimedSend,
                ClaimedRecv, shape, counters
  <2> QED
    BY <1>2, <2>1, <2>2, <2>3, SendOrder, RecvOrder DEF Step, Proceed
<1> QED
  BY <1>1, <1>2 DEF Next

\* The counters stay in the order the comment on CHAN states, and the channel
\* never holds more than capacity positions.
THEOREM Order == Spec => []CounterOrder
<1>1. Spec => []OrderInv
  BY Typing, InitOrder, NextOrder, PTL DEF Spec
<1>2. OrderInv => CounterOrder
  BY DEF OrderInv
<1> QED
  BY <1>1, <1>2, PTL

THEOREM OrderAndTypes == Spec => [](TypeOK /\ OrderInv)
<1>1. Spec => []OrderInv
  BY Typing, InitOrder, NextOrder, PTL DEF Spec
<1> QED
  BY <1>1, Typing, PTL

\* The assertions CS_ASSERT(tail1 <= head0) and CS_ASSERT(head1 <= tail0 +
\* capacity), made of counters read at different times, never fail.
THEOREM Asserts == Spec => []AssertsHold
<1>1. TypeOK /\ OrderInv => AssertsHold
  BY DEF TypeOK, OrderInv, CounterOrder, ThreadInv, AssertsHold
<1> QED
  BY <1>1, OrderAndTypes, PTL

-----------------------------------------------------------------------------
(* Slots *)

LEMMA DivMod ==
  ASSUME NEW s \in Nat \ {0}, NEW p \in Nat
  PROVE  /\ p = s * (p \div s) + (p % s)
         /\ p % s \in 0 .. s - 1
         /\ p \div s \in Nat
OBVIOUS

(* Positions less than a turn of the slot array apart have different slots. *)
LEMMA TurnDiffers ==
  ASSUME NEW s \in Nat \ {0}, NEW p \in Nat, NEW q \in Nat, p < q, q < p + s
  PROVE  p % s # q % s
<1> SUFFICES ASSUME p % s = q % s PROVE FALSE
  OBVIOUS
<1> DEFINE k == (q \div s) - (p \div s)
<1>1. k \in Int /\ q - p = s * k
  BY DivMod
<1>2. q - p > 0 /\ q - p < s
  OBVIOUS
<1> HIDE DEF k
<1>3. CASE k <= 0
  <2>1. s * k <= 0
    BY <1>3, <1>1
  <2> QED BY <2>1, <1>1, <1>2
<1>4. CASE k >= 1
  <2>1. s * k >= s
    BY <1>4, <1>1
  <2> QED BY <2>1, <1>1, <1>2
<1> QED BY <1>3, <1>4, <1>1

(* All positions in use, from tail0 to head1, have slots of their own. *)
LEMMA SlotsDiffer ==
  ASSUME TypeOK, CounterOrder, NEW p \in Nat, NEW q \in Nat, p # q,
         tail0 <= p, p < head1, tail0 <= q, q < head1
  PROVE  Slot(p) # Slot(q)
<1>1. slots \in Nat \ {0} /\ head1 <= tail0 + slots /\ tail0 \in Nat /\ head1 \in Nat
  BY DEF TypeOK, CounterOrder
<1>2. CASE p < q
  <2>1. q < p + slots
    BY <1>1
  <2>2. p % slots # q % slots
    BY <1>1, <1>2, <2>1, TurnDiffers
  <2> QED
    BY <2>2 DEF Slot
<1>3. CASE q < p
  <2>1. p < q + slots
    BY <1>1
  <2>2. q % slots # p % slots
    BY <1>1, <1>3, <2>1, TurnDiffers
  <2> QED
    BY <2>2 DEF Slot
<1> QED
  BY <1>2, <1>3

\* No two threads are ever about to access one slot at the same time, one of
\* them to write it: the plain accesses to data in trysend and tryrecv do not
\* race, for any number of threads.
THEOREM NoRace == Spec => []NoSlotClash
<1>1. ASSUME TypeOK, OrderInv PROVE NoSlotClash
  <2> SUFFICES ASSUME NEW t \in Thread, NEW u \in Thread, t # u,
                      Writing(t), Writing(u) \/ Reading(u)
               PROVE  Slot(pos[t]) # Slot(pos[u])
    BY DEF NoSlotClash
  <2>1. /\ pos[t] \in Nat /\ tail0 <= pos[t] /\ pos[t] < head1
        /\ pos[u] \in Nat /\ tail0 <= pos[u] /\ pos[u] < head1
        /\ pos[t] # pos[u]
    BY <1>1 DEF TypeOK, OrderInv, CounterOrder, ThreadInv, ClaimsDiffer, ClaimedSend,
                ClaimedRecv, Writing, Reading
  <2> QED
    BY <1>1, <2>1, SlotsDiffer DEF OrderInv
<1> QED
  BY <1>1, OrderAndTypes, PTL

-----------------------------------------------------------------------------
(* The data *)

LEMMA InitData == Init => DataInv
BY DEF Init, DataInv, ClaimedSend

(* A step that moves t to a place where it has no claim, and changes neither the
   slots, nor the claims, nor the values of the other threads. *)
LEMMA DataAside ==
  ASSUME TypeOK, DataInv, NEW t \in Thread, UNCHANGED <<shape, tail1, head0, data, sent>>,
         NEW l \in Labels \ {"sendWrite", "sendPublish", "recvRead", "recvRelease"},
         pc' = [pc EXCEPT ![t] = l],
         \A u \in Thread \ {t} : pos'[u] = pos[u] /\ val'[u] = val[u]
  PROVE  DataInv'
BY DEF TypeOK, DataInv, ClaimedSend, Slot, shape

LEMMA SendData ==
  ASSUME TypeOK, OrderInv, DataInv, NEW t \in Thread,
         \/ SendLoadClosed(t) \/ SendLoadHead1(t) \/ SendLoadTail0(t)
         \/ SendClaim(t) \/ SendLoseClaim(t) \/ SendWrite(t) \/ SendPublish(t)
  PROVE  DataInv'
<1> USE DEF Goto, Load, Return, counters
<1>0. /\ {"idle", "sendHead1", "sendTail0", "sendClaim", "sendClosed"} \subseteq
            Labels \ {"sendWrite", "sendPublish", "recvRead", "recvRelease"}
      /\ pc \in [Thread -> Labels] /\ pos \in [Thread -> Nat]
      /\ val \in [Thread -> Value \cup {NoValue}]
  BY DEF TypeOK, Labels, SendPC, RecvPC
<1>1. CASE SendLoadClosed(t)
  BY <1>0, <1>1, DataAside DEF SendLoadClosed
<1>2. CASE SendLoadHead1(t)
  BY <1>0, <1>2, DataAside DEF SendLoadHead1
<1>3. CASE SendLoadTail0(t)
  <2>1. /\ UNCHANGED <<shape, tail1, head0, data, sent>>
        /\ \A u \in Thread \ {t} : pos'[u] = pos[u] /\ val'[u] = val[u]
        /\ \E l \in {"idle", "sendClosed", "sendClaim"} : pc' = [pc EXCEPT ![t] = l]
    BY <1>0, <1>3 DEF SendLoadTail0
  <2> QED
    BY <1>0, <2>1, DataAside
<1>4. CASE SendClaim(t)
  <2>1. /\ head1 = pos[t] /\ Len(sent) = head1 /\ sent \in Seq(Value)
        /\ val[t] \in Value /\ sent' = Append(sent, val[t])
    BY <1>4 DEF SendClaim, TypeOK, SendPC
  <2>2. sent'[pos[t] + 1] = val[t]
    BY <2>1
  <2>3. \A p \in 0 .. head1 - 1 : sent'[p + 1] = sent[p + 1]
    BY <2>1
  <2>4. \A u \in Thread : ClaimedSend(u) \/ ClaimedRecv(u) => pos[u] \in 0 .. head1 - 1
    BY DEF OrderInv, CounterOrder, ThreadInv, TypeOK
  <2>5. tail1 .. head0 - 1 \subseteq 0 .. head1 - 1
    BY DEF OrderInv, CounterOrder, TypeOK
  <2>6. /\ pc' = [pc EXCEPT ![t] = "sendWrite"]
        /\ UNCHANGED <<pos, val, data, shape, tail1, head0>>
    BY <1>4 DEF SendClaim
  <2>7. \A p \in tail1' .. head0' - 1 : data'[Slot(p)'] = sent'[p + 1]
    BY <2>3, <2>5, <2>6 DEF DataInv, Slot, shape
  <2>8. ASSUME NEW u \in Thread, u # t
        PROVE  /\ ClaimedSend(u)' => val'[u] = sent'[pos'[u] + 1]
               /\ pc'[u] = "sendPublish" => data'[Slot(pos[u])'] = val'[u]
               /\ pc'[u] = "recvRead" => data'[Slot(pos[u])'] = sent'[pos'[u] + 1]
               /\ pc'[u] = "recvRelease" => val'[u] = sent'[pos'[u] + 1]
    BY <1>0, <2>3, <2>4, <2>6, <2>8 DEF DataInv, Slot, shape, ClaimedSend, ClaimedRecv
  <2> QED
    BY <1>0, <2>2, <2>6, <2>7, <2>8 DEF DataInv, ClaimedSend
<1>5. CASE SendLoseClaim(t)
  BY <1>0, <1>5, DataAside DEF SendLoseClaim
<1>6. CASE SendWrite(t)
  <2>1. /\ ClaimedSend(t) /\ pos[t] \in Nat /\ head0 <= pos[t] /\ pos[t] < head1
        /\ tail0 <= pos[t] /\ data \in [0 .. slots - 1 -> Value \cup {NoValue}]
    BY <1>6 DEF SendWrite, ClaimedSend, OrderInv, CounterOrder, ThreadInv, TypeOK
  <2>2. /\ pc' = [pc EXCEPT ![t] = "sendPublish"]
        /\ UNCHANGED <<pos, val, sent, shape, tail1, head0>>
        /\ data' = [data EXCEPT ![Slot(pos[t])] = val[t]]
    BY <1>6 DEF SendWrite
  <2>3. Slot(pos[t]) \in 0 .. slots - 1
    BY <2>1, SlotInRange
  <2>4. ASSUME NEW p \in Nat, p # pos[t], tail0 <= p, p < head1
        PROVE  data'[Slot(p)] = data[Slot(p)]
    BY <2>1, <2>2, <2>3, <2>4, SlotsDiffer, SlotInRange DEF OrderInv
  <2>5. \A p \in tail1' .. head0' - 1 : data'[Slot(p)'] = sent'[p + 1]
    <3>1. \A p \in tail1 .. head0 - 1 : p \in Nat /\ p # pos[t] /\ tail0 <= p /\ p < head1
      BY <2>1 DEF OrderInv, CounterOrder, TypeOK
    <3> QED
      BY <2>2, <2>4, <3>1 DEF DataInv, Slot, shape
  <2>6. ASSUME NEW u \in Thread, u # t
        PROVE  /\ ClaimedSend(u)' => val'[u] = sent'[pos'[u] + 1]
               /\ pc'[u] = "sendPublish" => data'[Slot(pos[u])'] = val'[u]
               /\ pc'[u] = "recvRead" => data'[Slot(pos[u])'] = sent'[pos'[u] + 1]
               /\ pc'[u] = "recvRelease" => val'[u] = sent'[pos'[u] + 1]
    <3>1. pc'[u] = pc[u] /\ pos[u] \in Nat
      BY <1>0, <2>2, <2>6
    <3>2. ClaimedSend(u) \/ ClaimedRecv(u)
             => pos[u] # pos[t] /\ tail0 <= pos[u] /\ pos[u] < head1
      BY <2>1, <2>6, <3>1 DEF OrderInv, CounterOrder, ThreadInv, ClaimsDiffer, TypeOK
    <3>3. ClaimedSend(u) \/ ClaimedRecv(u) => data'[Slot(pos[u])] = data[Slot(pos[u])]
      BY <2>4, <3>1, <3>2
    <3> QED
      BY <2>2, <3>1, <3>3 DEF DataInv, Slot, shape, ClaimedSend, ClaimedRecv
  <2>7. data'[Slot(pos[t])'] = val'[t] /\ pc'[t] = "sendPublish" /\ val'[t] = sent'[pos'[t] + 1]
    BY <1>0, <2>1, <2>2, <2>3 DEF DataInv, Slot, shape
  <2> QED
    BY <2>5, <2>6, <2>7 DEF DataInv
<1>7. CASE SendPublish(t)
  <2>1. /\ head0 = pos[t] /\ head0' = head0 + 1 /\ head0 \in Nat /\ tail1 \in Nat
        /\ data[Slot(head0)] = sent[head0 + 1]
    BY <1>7 DEF SendPublish, DataInv, ClaimedSend, TypeOK
  <2>2. /\ pc' = [pc EXCEPT ![t] = "idle"]
        /\ UNCHANGED <<data, sent, shape, tail1>>
        /\ \A u \in Thread \ {t} : pos'[u] = pos[u] /\ val'[u] = val[u]
    BY <1>0, <1>7 DEF SendPublish
  <2>3. \A p \in tail1' .. head0' - 1 : data'[Slot(p)'] = sent'[p + 1]
    BY <2>1, <2>2 DEF DataInv, Slot, shape
  <2> QED
    BY <1>0, <2>2, <2>3 DEF DataInv, Slot, shape, ClaimedSend
<1> QED
  BY <1>1, <1>2, <1>3, <1>4, <1>5, <1>6, <1>7

LEMMA RecvData ==
  ASSUME TypeOK, OrderInv, DataInv, NEW t \in Thread,
         \/ RecvLoadTail1(t) \/ RecvLoadHead0(t) \/ RecvLoadClosed(t)
         \/ RecvLoadHead0Again(t) \/ RecvClaim(t) \/ RecvLoseClaim(t)
         \/ RecvRead(t) \/ RecvRelease(t)
  PROVE  DataInv'
<1> USE DEF Goto, Load, Return, counters
<1> DEFINE Aside == {"idle", "recvTail1", "recvHead0", "recvClosed", "recvAgain", "recvClaim"}
<1>0. /\ Aside \subseteq Labels \ {"sendWrite", "sendPublish", "recvRead", "recvRelease"}
      /\ pc \in [Thread -> Labels] /\ pos \in [Thread -> Nat]
      /\ val \in [Thread -> Value \cup {NoValue}]
  BY DEF TypeOK, Labels, SendPC, RecvPC
<1>1. ASSUME UNCHANGED <<shape, tail1, head0, data, sent>>,
             \A u \in Thread \ {t} : pos'[u] = pos[u] /\ val'[u] = val[u],
             \E l \in Aside : pc' = [pc EXCEPT ![t] = l]
      PROVE  DataInv'
  BY <1>0, <1>1, DataAside
<1>2. CASE RecvLoadTail1(t)
  BY <1>0, <1>1, <1>2 DEF RecvLoadTail1
<1>3. CASE RecvLoadHead0(t)
  BY <1>0, <1>1, <1>3 DEF RecvLoadHead0
<1>4. CASE RecvLoadClosed(t)
  <2>1. /\ UNCHANGED <<shape, tail1, head0, data, sent>>
        /\ \A u \in Thread \ {t} : pos'[u] = pos[u] /\ val'[u] = val[u]
    BY <1>0, <1>4 DEF RecvLoadClosed
  <2>2. \E l \in Aside : pc' = [pc EXCEPT ![t] = l]
    BY <1>4 DEF RecvLoadClosed
  <2> QED
    BY <1>1, <2>1, <2>2
<1>5. CASE RecvLoadHead0Again(t)
  <2>1. /\ UNCHANGED <<shape, tail1, head0, data, sent>>
        /\ \A u \in Thread \ {t} : pos'[u] = pos[u] /\ val'[u] = val[u]
    BY <1>0, <1>5 DEF RecvLoadHead0Again
  <2>2. \E l \in Aside : pc' = [pc EXCEPT ![t] = l]
    BY <1>5 DEF RecvLoadHead0Again
  <2> QED
    BY <1>1, <2>1, <2>2
<1>6. CASE RecvClaim(t)
  <2>1. /\ tail1 = pos[t] /\ tail1' = tail1 + 1 /\ tail1 \in Nat /\ head0 \in Nat
        /\ pos[t] < head0
    BY <1>6 DEF RecvClaim, OrderInv, ThreadInv, TypeOK
  <2>2. data[Slot(pos[t])] = sent[pos[t] + 1]
    BY <2>1 DEF DataInv
  <2>3. pc' = [pc EXCEPT ![t] = "recvRead"] /\ UNCHANGED <<pos, val, data, sent, shape, head0>>
    BY <1>6 DEF RecvClaim
  <2>4. \A p \in tail1' .. head0' - 1 : data'[Slot(p)'] = sent'[p + 1]
    BY <2>1, <2>3 DEF DataInv, Slot, shape
  <2> QED
    BY <1>0, <2>2, <2>3, <2>4 DEF DataInv, Slot, shape, ClaimedSend
<1>7. CASE RecvLoseClaim(t)
  BY <1>0, <1>1, <1>7 DEF RecvLoseClaim
<1>8. CASE RecvRead(t)
  BY <1>0, <1>8 DEF RecvRead, DataInv, Slot, shape, ClaimedSend
<1>9. CASE RecvRelease(t)
  BY <1>0, <1>1, <1>9 DEF RecvRelease
<1> QED
  BY <1>2, <1>3, <1>4, <1>5, <1>6, <1>7, <1>8, <1>9

LEMMA NextData == TypeOK /\ OrderInv /\ DataInv /\ [Next]_vars => DataInv'
<1> SUFFICES ASSUME TypeOK, OrderInv, DataInv, [Next]_vars PROVE DataInv'
  OBVIOUS
<1>1. CASE UNCHANGED vars
  BY <1>1 DEF DataInv, ClaimedSend, Slot, vars, shape, counters, thread
<1>2. ASSUME NEW t \in Thread, Step(t) PROVE DataInv'
  <2>0. /\ pc \in [Thread -> Labels] /\ val \in [Thread -> Value \cup {NoValue}]
        /\ {"sendClosed", "recvTail1"} \subseteq
              Labels \ {"sendWrite", "sendPublish", "recvRead", "recvRelease"}
    BY DEF TypeOK, Labels, SendPC, RecvPC
  <2>1. ASSUME NEW op \in SendOps, CallSend(t, op) PROVE DataInv'
    BY <2>0, <2>1, DataAside DEF CallSend, Begin, counters
  <2>2. ASSUME NEW op \in RecvOps, CallRecv(t, op) PROVE DataInv'
    BY <2>0, <2>2, DataAside DEF CallRecv, Begin, counters
  <2>3. CASE Close(t)
    BY <2>3 DEF Close, DataInv, ClaimedSend, Slot, shape, counters
  <2> QED
    BY <1>2, <2>1, <2>2, <2>3, SendData, RecvData DEF Step, Proceed
<1> QED
  BY <1>1, <1>2 DEF Next

THEOREM Data == Spec => [](TypeOK /\ OrderInv /\ DataInv)
BY OrderAndTypes, InitData, NextData, PTL DEF Spec

\* Whatever the interleaving, a receiver reads and hands over the value of the
\* sender that claimed the same position.  The positions are handed out once each
\* (ClaimsDiffer), so no value is lost, received twice or mixed up.
THEOREM Delivery == Spec => []ReadsWhatWasSent
<1>1. DataInv => ReadsWhatWasSent
  BY DEF DataInv, ReadsWhatWasSent
<1> QED
  BY <1>1, Data, PTL

-----------------------------------------------------------------------------
(* Closing *)

LEMMA InitClose == Init => SenderInv /\ CloseInv
BY DEF Init, SenderInv, CloseInv, SendPC

(* A step of t that has no claim before and after, and changes no claim of the
   other threads. *)
LEMMA SenderAside ==
  ASSUME SenderInv, NEW t \in Thread, ~ClaimedSend(t), UNCHANGED <<head0, head1>>,
         \A u \in Thread \ {t} : pos'[u] = pos[u] /\ pc'[u] = pc[u]
  PROVE  SenderInv'
<1> SUFFICES ASSUME NEW p \in head0 .. head1 - 1
             PROVE  \E u \in Thread : ClaimedSend(u)' /\ pos'[u] = p
  BY DEF SenderInv
<1>1. PICK u \in Thread : ClaimedSend(u) /\ pos[u] = p
  BY DEF SenderInv
<1> QED
  BY <1>1 DEF ClaimedSend

LEMMA SendSender ==
  ASSUME TypeOK, SenderInv, NEW t \in Thread,
         SendClaim(t) \/ SendWrite(t) \/ SendPublish(t)
  PROVE  SenderInv'
<1> USE DEF Goto, Return, counters
<1>0. pc \in [Thread -> Labels] /\ pos \in [Thread -> Nat] /\ head0 \in Nat /\ head1 \in Nat
  BY DEF TypeOK
<1>1. CASE SendClaim(t)
  <2> SUFFICES ASSUME NEW p \in head0' .. head1' - 1
               PROVE  \E u \in Thread : ClaimedSend(u)' /\ pos'[u] = p
    BY DEF SenderInv
  <2>1. CASE p = pos[t]
    BY <1>0, <1>1, <2>1 DEF SendClaim, ClaimedSend
  <2>2. CASE p # pos[t]
    <3>1. p \in head0 .. head1 - 1
      BY <1>0, <1>1, <2>2 DEF SendClaim
    <3>2. PICK u \in Thread : ClaimedSend(u) /\ pos[u] = p
      BY <3>1 DEF SenderInv
    <3> QED
      BY <1>0, <1>1, <3>2 DEF SendClaim, ClaimedSend
  <2> QED BY <2>1, <2>2
<1>2. CASE SendWrite(t)
  BY <1>0, <1>2 DEF SendWrite, SenderInv, ClaimedSend
<1>3. CASE SendPublish(t)
  <2> SUFFICES ASSUME NEW p \in head0' .. head1' - 1
               PROVE  \E u \in Thread : ClaimedSend(u)' /\ pos'[u] = p
    BY DEF SenderInv
  <2>1. p \in head0 .. head1 - 1 /\ p # pos[t]
    BY <1>0, <1>3 DEF SendPublish
  <2>2. PICK u \in Thread : ClaimedSend(u) /\ pos[u] = p
    BY <2>1 DEF SenderInv
  <2> QED
    BY <1>0, <1>3, <2>1, <2>2 DEF SendPublish, ClaimedSend
<1> QED
  BY <1>1, <1>2, <1>3

(* A step of t keeps the closing invariant if it respects it itself. *)
LEMMA CloseAside ==
  ASSUME TypeOK, CloseInv, NEW t \in Thread, UNCHANGED <<closed, closeRaced>>,
         \A u \in Thread \ {t} : pc'[u] = pc[u] /\ ret'[u] = ret[u],
         /\ pc'[t] # "idle" => ret'[t] = "none"
         /\ pc'[t] = "recvAgain" => closed
         /\ closed /\ ~closeRaced /\ pc'[t] \in SendPC => pc'[t] = "sendClosed"
  PROVE  CloseInv'
BY DEF CloseInv

LEMMA SendClose ==
  ASSUME TypeOK, SenderInv, CloseInv, NEW t \in Thread,
         \/ SendLoadClosed(t) \/ SendLoadHead1(t) \/ SendLoadTail0(t)
         \/ SendClaim(t) \/ SendLoseClaim(t) \/ SendWrite(t) \/ SendPublish(t)
  PROVE  SenderInv' /\ CloseInv'
<1> USE DEF Goto, Load, Return, counters, history
<1>0. pc \in [Thread -> Labels] /\ pos \in [Thread -> Nat]
      /\ ret \in [Thread -> {"none", "SUCCESS", "FULL", "EMPTY", "CLOSED"}]
  BY DEF TypeOK
<1>1. /\ pc[t] \in SendPC
      /\ \E l \in {"idle"} \cup SendPC : pc' = [pc EXCEPT ![t] = l]
      /\ UNCHANGED <<closed, closeRaced>>
  BY DEF SendLoadClosed, SendLoadHead1, SendLoadTail0, SendClaim, SendLoseClaim, SendWrite,
         SendPublish, SendPC
<1>2. ret[t] = "none" /\ (closed /\ ~closeRaced => pc[t] = "sendClosed")
  BY <1>1 DEF CloseInv, SendPC
<1>3. closed /\ ~closeRaced => pc'[t] = "idle"
  BY <1>0, <1>2 DEF SendLoadClosed, SendLoadHead1, SendLoadTail0, SendClaim, SendLoseClaim,
                    SendWrite, SendPublish
<1>4. pc'[t] # "idle" => ret'[t] = "none"
  BY <1>0, <1>2 DEF SendLoadClosed, SendLoadHead1, SendLoadTail0, SendClaim, SendLoseClaim,
                    SendWrite, SendPublish
<1>5. \A u \in Thread \ {t} : pos'[u] = pos[u] /\ pc'[u] = pc[u] /\ ret'[u] = ret[u]
  BY <1>0 DEF SendLoadClosed, SendLoadHead1, SendLoadTail0, SendClaim, SendLoseClaim,
              SendWrite, SendPublish
<1>6. CloseInv'
  <2>1. pc'[t] # "recvAgain"
    BY <1>0, <1>1 DEF SendPC
  <2> QED
    BY <1>1, <1>3, <1>4, <1>5, <2>1, CloseAside DEF SendPC
<1>7. SenderInv'
  <2>1. CASE SendLoadClosed(t) \/ SendLoadHead1(t) \/ SendLoadTail0(t) \/ SendLoseClaim(t)
    <3>1. ~ClaimedSend(t) /\ UNCHANGED <<head0, head1>>
      BY <2>1 DEF SendLoadClosed, SendLoadHead1, SendLoadTail0, SendLoseClaim, ClaimedSend
    <3> QED
      BY <1>5, <3>1, SenderAside
  <2> QED
    BY <2>1, SendSender
<1> QED
  BY <1>6, <1>7

LEMMA RecvClose ==
  ASSUME TypeOK, SenderInv, CloseInv, NEW t \in Thread,
         \/ RecvLoadTail1(t) \/ RecvLoadHead0(t) \/ RecvLoadClosed(t)
         \/ RecvLoadHead0Again(t) \/ RecvClaim(t) \/ RecvLoseClaim(t)
         \/ RecvRead(t) \/ RecvRelease(t)
  PROVE  SenderInv' /\ CloseInv'
<1> USE DEF Goto, Load, Return, counters, history
<1>0. pc \in [Thread -> Labels] /\ pos \in [Thread -> Nat]
      /\ ret \in [Thread -> {"none", "SUCCESS", "FULL", "EMPTY", "CLOSED"}]
  BY DEF TypeOK
<1>1. pc[t] \in RecvPC /\ ~ClaimedSend(t)
  BY DEF RecvLoadTail1, RecvLoadHead0, RecvLoadClosed, RecvLoadHead0Again, RecvClaim,
         RecvLoseClaim, RecvRead, RecvRelease, RecvPC, ClaimedSend
<1>2. UNCHANGED <<head0, head1, closed, closeRaced>>
  BY DEF RecvLoadTail1, RecvLoadHead0, RecvLoadClosed, RecvLoadHead0Again, RecvClaim,
         RecvLoseClaim, RecvRead, RecvRelease
<1>3. \E l \in {"idle"} \cup RecvPC : pc' = [pc EXCEPT ![t] = l]
                                      /\ (l = "recvAgain" => closed)
  BY DEF RecvLoadTail1, RecvLoadHead0, RecvLoadClosed, RecvLoadHead0Again, RecvClaim,
         RecvLoseClaim, RecvRead, RecvRelease, RecvPC
<1>4. \A u \in Thread \ {t} : pos'[u] = pos[u] /\ pc'[u] = pc[u] /\ ret'[u] = ret[u]
  BY <1>0 DEF RecvLoadTail1, RecvLoadHead0, RecvLoadClosed, RecvLoadHead0Again, RecvClaim,
         RecvLoseClaim, RecvRead, RecvRelease
<1>5. pc'[t] \notin SendPC /\ (pc'[t] = "recvAgain" => closed)
  BY <1>0, <1>3 DEF SendPC, RecvPC
<1>6. pc'[t] # "idle" => ret'[t] = "none"
  <2>1. ret[t] = "none"
    BY <1>1 DEF CloseInv, RecvPC
  <2> QED
    BY <1>0, <2>1 DEF RecvLoadTail1, RecvLoadHead0, RecvLoadClosed, RecvLoadHead0Again,
                      RecvClaim, RecvLoseClaim, RecvRead, RecvRelease
<1> QED
  BY <1>1, <1>2, <1>4, <1>5, <1>6, SenderAside, CloseAside

LEMMA NextClose == TypeOK /\ SenderInv /\ CloseInv /\ [Next]_vars => SenderInv' /\ CloseInv'
<1> SUFFICES ASSUME TypeOK, SenderInv, CloseInv, [Next]_vars PROVE SenderInv' /\ CloseInv'
  OBVIOUS
<1>1. CASE UNCHANGED vars
  BY <1>1 DEF SenderInv, CloseInv, ClaimedSend, vars, counters, thread, history
<1>2. ASSUME NEW t \in Thread, Step(t) PROVE SenderInv' /\ CloseInv'
  <2>0. /\ pc \in [Thread -> Labels]
        /\ ret \in [Thread -> {"none", "SUCCESS", "FULL", "EMPTY", "CLOSED"}]
    BY DEF TypeOK
  <2>1. ASSUME pc[t] = "idle", NEW l \in {"sendClosed", "recvTail1"},
               pc' = [pc EXCEPT ![t] = l], ret' = [ret EXCEPT ![t] = "none"],
               UNCHANGED <<pos, counters, closed, closeRaced>>
        PROVE  SenderInv' /\ CloseInv'
    <3>1. ~ClaimedSend(t) /\ \A u \in Thread \ {t} : pos'[u] = pos[u] /\ pc'[u] = pc[u] /\ ret'[u] = ret[u]
      BY <2>0, <2>1 DEF ClaimedSend
    <3>2. pc'[t] = l /\ ret'[t] = "none"
      BY <2>0, <2>1
    <3> QED
      BY <2>1, <3>1, <3>2, SenderAside, CloseAside DEF counters, SendPC
  <2>2. ASSUME NEW op \in SendOps, CallSend(t, op) PROVE SenderInv' /\ CloseInv'
    BY <2>1, <2>2 DEF CallSend, Begin
  <2>3. ASSUME NEW op \in RecvOps, CallRecv(t, op) PROVE SenderInv' /\ CloseInv'
    BY <2>1, <2>3 DEF CallRecv, Begin
  <2>4. CASE Close(t)
    <3>1. SenderInv'
      BY <2>4 DEF Close, SenderInv, ClaimedSend, counters
    <3>2. /\ pc[t] = "idle" /\ pc' = pc /\ closed' = TRUE
          /\ \A u \in Thread \ {t} : ret'[u] = ret[u]
      BY <2>0, <2>4 DEF Close
    <3>3. ~closeRaced' => ~closeRaced /\ \A u \in Thread : closed \/ pc[u] \notin SendPC
      BY <2>4 DEF Close
    <3>4. closed \in BOOLEAN
      BY DEF TypeOK
    <3> QED
      BY <3>1, <3>2, <3>3, <3>4 DEF CloseInv
  <2> QED
    BY <1>2, <2>2, <2>3, <2>4, SendClose, RecvClose DEF Step, Proceed
<1> QED
  BY <1>1, <1>2 DEF Next

\* The inductive invariant as a whole.
THEOREM Invariance == Spec => []IndInv
<1>1. Spec => [](TypeOK /\ SenderInv /\ CloseInv)
  BY Typing, InitClose, NextClose, PTL DEF Spec
<1>2. TypeOK /\ OrderInv /\ DataInv /\ SenderInv /\ CloseInv => IndInv
  BY DEF IndInv
<1> QED
  BY <1>1, <1>2, Data, PTL

\* A receiver is told CHAN_CLOSED by an orderly closed channel only when every
\* value sent has been taken: the second look at head0 is enough.
THEOREM Drained == Spec => ClosedMeansDrained
<1>1. IndInv => TypeOK /\ OrderInv /\ SenderInv /\ CloseInv
  BY DEF IndInv
<1>2. ASSUME TypeOK, OrderInv, SenderInv, CloseInv, [Next]_vars,
             NEW t \in Thread, pc[t] \in RecvPC, ret'[t] = "CLOSED", ~closeRaced
      PROVE  tail1 = head1
  <2>1. /\ ret[t] = "none" /\ head0 \in Nat /\ head1 \in Nat /\ tail1 \in Nat
        /\ pc \in [Thread -> Labels] /\ ret \in [Thread -> {"none", "SUCCESS", "FULL", "EMPTY", "CLOSED"}]
    BY <1>2 DEF CloseInv, TypeOK, RecvPC
  <2>2. Step(t)
    <3>1. ASSUME NEW u \in Thread, Step(u), u # t PROVE ret'[t] = ret[t]
      BY <2>1, <3>1 DEF Step, Proceed, CallSend, CallRecv, Begin, Close, Goto, Load, Return,
         SendLoadClosed, SendLoadHead1, SendLoadTail0, SendClaim, SendLoseClaim, SendWrite,
         SendPublish, RecvLoadTail1, RecvLoadHead0, RecvLoadClosed, RecvLoadHead0Again,
         RecvClaim, RecvLoseClaim, RecvRead, RecvRelease
    <3>2. ~UNCHANGED vars
      BY <1>2, <2>1 DEF vars, thread
    <3> QED
      BY <1>2, <2>1, <3>1, <3>2 DEF Next
  <2>3. RecvLoadHead0Again(t) /\ Return(t, "CLOSED") /\ pos[t] = head0
    BY <1>2, <2>1, <2>2 DEF RecvPC, Step, Proceed, CallSend, CallRecv, Begin, Close, Goto,
       Load, Return,
       SendLoadClosed, SendLoadHead1, SendLoadTail0, SendClaim, SendLoseClaim, SendWrite,
       SendPublish, RecvLoadTail1, RecvLoadHead0, RecvLoadClosed, RecvLoadHead0Again,
       RecvClaim, RecvLoseClaim, RecvRead, RecvRelease
  <2>4. closed /\ pos[t] <= tail1 /\ tail1 <= head0 /\ head0 <= head1
    BY <1>2, <2>3 DEF RecvLoadHead0Again, CloseInv, OrderInv, CounterOrder, ThreadInv
  <2>5. \A u \in Thread : ~ClaimedSend(u)
    BY <1>2, <2>4 DEF CloseInv, ClaimedSend, SendPC
  <2>6. head0 = head1
    <3>1. ~(head0 < head1)
      BY <1>2, <2>1, <2>5 DEF SenderInv
    <3> QED
      BY <2>1, <2>4, <3>1
  <2> QED
    BY <2>1, <2>3, <2>4, <2>6, <1>2 DEF TypeOK
<1>3. TypeOK /\ OrderInv /\ SenderInv /\ CloseInv /\ [Next]_vars
        => [\A t \in Thread : pc[t] \in RecvPC /\ ret'[t] = "CLOSED" /\ ~closeRaced
                                => tail1 = head1]_vars
  BY <1>2
<1> QED
  BY <1>1, <1>3, Invariance, PTL DEF Spec, ClosedMeansDrained

-----------------------------------------------------------------------------
(* The receivers that hold room *)

(* A step of t that has no claim before, and changes no claim of the other threads. *)
LEMMA ReceiverAside ==
  ASSUME ReceiverInv, NEW t \in Thread, ~ClaimedRecv(t), UNCHANGED <<tail0, tail1>>,
         \A u \in Thread \ {t} : pos'[u] = pos[u] /\ pc'[u] = pc[u]
  PROVE  ReceiverInv'
<1> SUFFICES ASSUME NEW p \in tail0 .. tail1 - 1
             PROVE  \E u \in Thread : ClaimedRecv(u)' /\ pos'[u] = p
  BY DEF ReceiverInv
<1>1. PICK u \in Thread : ClaimedRecv(u) /\ pos[u] = p
  BY DEF ReceiverInv
<1> QED
  BY <1>1 DEF ClaimedRecv

LEMMA NextReceiver == TypeOK /\ ReceiverInv /\ [Next]_vars => ReceiverInv'
<1> SUFFICES ASSUME TypeOK, ReceiverInv, [Next]_vars PROVE ReceiverInv'
  OBVIOUS
<1> USE DEF Goto, Load, Return, counters
<1>0. pc \in [Thread -> Labels] /\ pos \in [Thread -> Nat] /\ tail0 \in Nat /\ tail1 \in Nat
  BY DEF TypeOK
<1>1. CASE UNCHANGED vars
  BY <1>1 DEF ReceiverInv, ClaimedRecv, vars, thread
<1>2. ASSUME NEW t \in Thread, Step(t) PROVE ReceiverInv'
  <2>1. CASE RecvClaim(t)
    <3> SUFFICES ASSUME NEW p \in tail0' .. tail1' - 1
                 PROVE  \E u \in Thread : ClaimedRecv(u)' /\ pos'[u] = p
      BY DEF ReceiverInv
    <3>1. CASE p = pos[t]
      BY <1>0, <2>1, <3>1 DEF RecvClaim, ClaimedRecv
    <3>2. CASE p # pos[t]
      <4>1. p \in tail0 .. tail1 - 1
        BY <1>0, <2>1, <3>2 DEF RecvClaim
      <4>2. PICK u \in Thread : ClaimedRecv(u) /\ pos[u] = p
        BY <4>1 DEF ReceiverInv
      <4> QED
        BY <1>0, <2>1, <4>2 DEF RecvClaim, ClaimedRecv
    <3> QED BY <3>1, <3>2
  <2>2. CASE RecvRead(t)
    BY <1>0, <2>2 DEF RecvRead, ReceiverInv, ClaimedRecv
  <2>3. CASE RecvRelease(t)
    <3> SUFFICES ASSUME NEW p \in tail0' .. tail1' - 1
                 PROVE  \E u \in Thread : ClaimedRecv(u)' /\ pos'[u] = p
      BY DEF ReceiverInv
    <3>1. p \in tail0 .. tail1 - 1 /\ p # pos[t]
      BY <1>0, <2>3 DEF RecvRelease
    <3>2. PICK u \in Thread : ClaimedRecv(u) /\ pos[u] = p
      BY <3>1 DEF ReceiverInv
    <3> QED
      BY <1>0, <2>3, <3>1, <3>2 DEF RecvRelease, ClaimedRecv
  <2>4. CASE ~(RecvClaim(t) \/ RecvRead(t) \/ RecvRelease(t))
    <3>1. /\ ~ClaimedRecv(t) /\ UNCHANGED <<tail0, tail1>>
          /\ \A u \in Thread \ {t} : pos'[u] = pos[u] /\ pc'[u] = pc[u]
      BY <1>0, <1>2, <2>4 DEF Step, Proceed, CallSend, CallRecv, Begin, Close,
         SendLoadClosed, SendLoadHead1, SendLoadTail0, SendClaim, SendLoseClaim, SendWrite,
         SendPublish, RecvLoadTail1, RecvLoadHead0, RecvLoadClosed, RecvLoadHead0Again,
         RecvLoseClaim, ClaimedRecv
    <3> QED
      BY <3>1, ReceiverAside
  <2> QED
    BY <2>1, <2>2, <2>3, <2>4
<1> QED
  BY <1>1, <1>2 DEF Next

-----------------------------------------------------------------------------
(* What a call knows of its value and of its start *)

(* A step of t keeps CallInv if it respects it itself. *)
LEMMA CallAside ==
  ASSUME CallInv, NEW t \in Thread, closed => closed',
         \A u \in Thread \ {t} : pc'[u] = pc[u] /\ val'[u] = val[u] /\ (u \in late' => u \in late),
         /\ pc'[t] \in RecvPC \ {"recvRelease"} => val'[t] = NoValue
         /\ t \in late' => closed' /\ (pc'[t] \in SendPC => pc'[t] = "sendClosed")
  PROVE  CallInv'
BY DEF CallInv

LEMMA NextCall == TypeOK /\ CallInv /\ [Next]_vars => CallInv'
<1> SUFFICES ASSUME TypeOK, CallInv, [Next]_vars PROVE CallInv'
  OBVIOUS
<1> USE DEF Goto, Load, Return, shape, history
<1>0. /\ pc \in [Thread -> Labels] /\ val \in [Thread -> Value \cup {NoValue}]
      /\ late \subseteq Thread /\ closed \in BOOLEAN
  BY DEF TypeOK
<1>1. CASE UNCHANGED vars
  BY <1>1 DEF CallInv, vars, thread
<1>2. ASSUME NEW t \in Thread, Step(t) PROVE CallInv'
  <2>1. \A u \in Thread \ {t} : pc'[u] = pc[u] /\ val'[u] = val[u] /\ (u \in late' => u \in late)
    BY <1>0, <1>2 DEF Step, Proceed, CallSend, CallRecv, Begin, Close,
       SendLoadClosed, SendLoadHead1, SendLoadTail0, SendClaim, SendLoseClaim, SendWrite,
       SendPublish, RecvLoadTail1, RecvLoadHead0, RecvLoadClosed, RecvLoadHead0Again,
       RecvLoseClaim, RecvClaim, RecvRead, RecvRelease
  <2>2. closed => closed'
    BY <1>2 DEF Step, Proceed, CallSend, CallRecv, Begin, Close,
       SendLoadClosed, SendLoadHead1, SendLoadTail0, SendClaim, SendLoseClaim, SendWrite,
       SendPublish, RecvLoadTail1, RecvLoadHead0, RecvLoadClosed, RecvLoadHead0Again,
       RecvLoseClaim, RecvClaim, RecvRead, RecvRelease
  <2>3. pc'[t] \in RecvPC \ {"recvRelease"} => val'[t] = NoValue
    BY <1>0, <1>2 DEF CallInv, RecvPC, Step, Proceed, CallSend, CallRecv, Begin, Close,
       SendLoadClosed, SendLoadHead1, SendLoadTail0, SendClaim, SendLoseClaim, SendWrite,
       SendPublish, RecvLoadTail1, RecvLoadHead0, RecvLoadClosed, RecvLoadHead0Again,
       RecvLoseClaim, RecvClaim, RecvRead, RecvRelease
  <2>4. t \in late' => closed' /\ (pc'[t] \in SendPC => pc'[t] = "sendClosed")
    BY <1>0, <1>2 DEF CallInv, SendPC, Step, Proceed, CallSend, CallRecv, Begin, Close,
       SendLoadClosed, SendLoadHead1, SendLoadTail0, SendClaim, SendLoseClaim, SendWrite,
       SendPublish, RecvLoadTail1, RecvLoadHead0, RecvLoadClosed, RecvLoadHead0Again,
       RecvLoseClaim, RecvClaim, RecvRead, RecvRelease
  <2> QED
    BY <2>1, <2>2, <2>3, <2>4, CallAside
<1> QED
  BY <1>1, <1>2 DEF Next

THEOREM RefineInvariance == Spec => []RefineInv
<1>1. Init => ReceiverInv /\ CallInv
  BY DEF Init, ReceiverInv, CallInv, RecvPC
<1>2. TypeOK /\ ReceiverInv /\ CallInv /\ [Next]_vars => ReceiverInv' /\ CallInv'
  BY NextReceiver, NextCall
<1>3. Spec => [](ReceiverInv /\ CallInv)
  BY <1>1, <1>2, Typing, PTL DEF Spec
<1>4. IndInv /\ ReceiverInv /\ CallInv => RefineInv
  BY DEF RefineInv
<1> QED
  BY <1>3, <1>4, Invariance, PTL

-----------------------------------------------------------------------------
(* The queue and the threads as BoundedFIFO sees them *)

Contents == SubSeq(sent, tail1 + 1, head0)
Args == [t \in Thread |-> Found(t)]

(* What the proofs below take from the invariant. *)
LEMMA Known ==
  ASSUME RefineInv
  PROVE  /\ TypeOK /\ CounterOrder /\ ThreadInv
         /\ head1 \in Nat /\ head0 \in Nat /\ tail1 \in Nat /\ tail0 \in Nat
         /\ capacity \in Nat \ {0}
         /\ pc \in [Thread -> Labels] /\ pos \in [Thread -> Nat]
         /\ val \in [Thread -> Value \cup {NoValue}]
         /\ call \in [Thread -> {"none"} \cup SendOps \cup RecvOps]
         /\ ret \in [Thread -> {"none", "SUCCESS", "FULL", "EMPTY", "CLOSED"}]
         /\ sent \in Seq(Value) /\ Len(sent) = head1
         /\ \A p \in Nat : p < head1 => sent[p + 1] \in Value
<1>1. TypeOK /\ CounterOrder /\ ThreadInv
  BY DEF RefineInv, IndInv, OrderInv
<1>2. sent \in Seq(Value) /\ Len(sent) = head1 /\ head1 \in Nat
  BY <1>1 DEF TypeOK
<1>3. \A p \in Nat : p < head1 => p + 1 \in 1 .. Len(sent)
  BY <1>2
<1>4. \A i \in 1 .. Len(sent) : sent[i] \in Value
  BY <1>2
<1> QED
  BY <1>1, <1>2, <1>3, <1>4 DEF TypeOK

LEMMA ContentsFacts ==
  ASSUME RefineInv
  PROVE  /\ Contents \in Seq(Value)
         /\ Len(Contents) = head0 - tail1
         /\ \A i \in 1 .. head0 - tail1 : Contents[i] = sent[tail1 + i]
         /\ (Contents = <<>>) <=> (tail1 = head0)
<1>1. /\ tail1 \in Nat /\ head0 \in Nat /\ head1 \in Nat /\ tail1 <= head0 /\ head0 <= head1
      /\ \A p \in Nat : p < head1 => sent[p + 1] \in Value
  BY Known DEF CounterOrder
<1>2. \A i \in tail1 + 1 .. head0 : sent[i] \in Value
  <2> SUFFICES ASSUME NEW i \in tail1 + 1 .. head0 PROVE sent[i] \in Value
    OBVIOUS
  <2>1. i - 1 \in Nat /\ i - 1 < head1 /\ (i - 1) + 1 = i
    BY <1>1
  <2> QED
    BY <1>1, <2>1
<1>3. /\ Contents \in Seq(Value)
      /\ Len(Contents) = IF tail1 + 1 <= head0 THEN head0 - (tail1 + 1) + 1 ELSE 0
      /\ \A i \in 1 .. head0 - (tail1 + 1) + 1 : Contents[i] = sent[(tail1 + 1) + i - 1]
  BY <1>1, <1>2, SubSeqProperties DEF Contents
<1>4. /\ Len(Contents) = head0 - tail1
      /\ \A i \in 1 .. head0 - tail1 : Contents[i] = sent[tail1 + i]
  BY <1>1, <1>3
<1>5. (Contents = <<>>) <=> (tail1 = head0)
  BY <1>1, <1>3, <1>4
<1> QED
  BY <1>3, <1>4, <1>5

(* A claim of another sender does not change what a receiver has found. *)
LEMMA FoundSame ==
  ASSUME RefineInv, NEW u \in Thread,
         pc'[u] = pc[u], pos'[u] = pos[u], val'[u] = val[u],
         sent' = sent \/ \E x : sent' = Append(sent, x)
  PROVE  Found(u)' = Found(u)
<1>1. pc[u] = "recvRead" => sent'[pos[u] + 1] = sent[pos[u] + 1]
  <2> SUFFICES ASSUME pc[u] = "recvRead", NEW x, sent' = Append(sent, x)
               PROVE  sent'[pos[u] + 1] = sent[pos[u] + 1]
    OBVIOUS
  <2>1. /\ pos[u] \in Nat /\ pos[u] < head1 /\ Len(sent) = head1 /\ head1 \in Nat
        /\ sent \in Seq(Value)
    BY Known DEF ThreadInv, ClaimedRecv, CounterOrder
  <2> QED
    BY <2>1
<1> QED
  BY <1>1 DEF Found

(* A step of t changes what t has found, and nothing else of that kind. *)
LEMMA ArgsStep ==
  ASSUME RefineInv, NEW t \in Thread, NEW f, Found(t)' = f,
         \A u \in Thread \ {t} : pc'[u] = pc[u] /\ pos'[u] = pos[u] /\ val'[u] = val[u],
         sent' = sent \/ \E x : sent' = Append(sent, x)
  PROVE  Args' = [Args EXCEPT ![t] = f]
<1>1. \A u \in Thread \ {t} : Found(u)' = Found(u)
  BY FoundSame
<1>2. Args' = [u \in Thread |-> Found(u)']
  BY DEF Args
<1>3. [Args EXCEPT ![t] = f] = [u \in Thread |-> IF u = t THEN f ELSE Found(u)]
  BY DEF Args
<1> QED
  BY <1>1, <1>2, <1>3

LEMMA ArgsAt == ASSUME NEW t \in Thread PROVE Args[t] = Found(t)
BY DEF Args

-----------------------------------------------------------------------------
(* The room that calls in progress hold *)

(* The operator of FiniteSets that BoundedFIFO uses is the one used here. *)
LEMMA SameCardinality == ASSUME NEW S PROVE Queue!Cardinality(S) = Cardinality(S)
BY DEF Queue!Cardinality, Cardinality

(* The positions claimed by senders and not yet published, and those taken by receivers
   and not yet released, each belong to a thread of its own. *)
LEMMA RoomHeld ==
  ASSUME RefineInv, NEW t \in Thread, ~ClaimedSend(t), ~ClaimedRecv(t)
  PROVE  Cardinality(Queue!HoldingRoom(t)) >= (tail1 - tail0) + (head1 - head0)
<1> DEFINE Taken == tail0 .. tail1 - 1
           Claimed == head0 .. head1 - 1
           Holds(u, p) == pos[u] = p /\ IF p \in Taken THEN ClaimedRecv(u) ELSE ClaimedSend(u)
           holder == [p \in Taken \cup Claimed |-> CHOOSE u \in Thread : Holds(u, p)]
<1>1. /\ tail0 \in Nat /\ tail1 \in Nat /\ head0 \in Nat /\ head1 \in Nat
      /\ tail0 <= tail1 /\ tail1 <= head0 /\ head0 <= head1
  BY Known DEF CounterOrder
<1>2. \A p \in Taken \cup Claimed : \E u \in Thread : Holds(u, p)
  <2>1. \A p \in Taken : \E u \in Thread : ClaimedRecv(u) /\ pos[u] = p
    BY DEF RefineInv, ReceiverInv
  <2>2. \A p \in Claimed : \E u \in Thread : ClaimedSend(u) /\ pos[u] = p
    BY DEF RefineInv, IndInv, SenderInv
  <2> QED
    BY <2>1, <2>2
<1>3. \A p \in Taken \cup Claimed : holder[p] \in Thread /\ Holds(holder[p], p)
  BY <1>2
<1>4. \A u \in Thread : ClaimedRecv(u) => call[u] \in RecvOps /\ Found(u) \in Value
  <2> SUFFICES ASSUME NEW u \in Thread, ClaimedRecv(u)
               PROVE  call[u] \in RecvOps /\ Found(u) \in Value
    OBVIOUS
  <2>1. call[u] \in RecvOps
    BY Known DEF TypeOK, ClaimedRecv, SendPC
  <2>2. pos[u] \in Nat /\ pos[u] < head1
    BY <1>1, Known DEF ThreadInv
  <2>3. sent[pos[u] + 1] \in Value
    BY <2>2, Known
  <2>4. pc[u] = "recvRelease" => val[u] = sent[pos[u] + 1]
    BY DEF RefineInv, IndInv, DataInv
  <2> QED
    BY <2>1, <2>3, <2>4 DEF Found, ClaimedRecv
<1>5. \A u \in Thread : ClaimedSend(u) => call[u] \in SendOps
  BY Known DEF TypeOK, ClaimedSend, SendPC
<1>6. \A u \in Thread \ {t} : ClaimedSend(u) \/ ClaimedRecv(u) => u \in Queue!HoldingRoom(t)
  BY <1>4, <1>5 DEF Queue!HoldingRoom, Queue!SendOps, Queue!RecvOps, SendOps, RecvOps
<1>7. holder \in Injection(Taken \cup Claimed, Queue!HoldingRoom(t))
  <2>1. ASSUME NEW p \in Taken \cup Claimed PROVE holder[p] \in Queue!HoldingRoom(t)
    <3>1. holder[p] \in Thread /\ (ClaimedSend(holder[p]) \/ ClaimedRecv(holder[p]))
      BY <1>3
    <3> HIDE DEF holder
    <3>2. holder[p] # t
      BY <3>1
    <3> QED
      BY <1>6, <3>1, <3>2
  <2>2. holder \in [Taken \cup Claimed -> Queue!HoldingRoom(t)]
    BY <2>1
  <2>3. \A p, q \in Taken \cup Claimed : holder[p] = holder[q] => p = q
    BY <1>3
  <2> HIDE DEF holder
  <2> QED
    BY <2>2, <2>3 DEF Injection, IsInjective
<1>8. IsFiniteSet(Queue!HoldingRoom(t))
  <2>1. Queue!HoldingRoom(t) \in SUBSET Thread
    BY DEF Queue!HoldingRoom
  <2> QED
    BY <2>1, ThreadAssumption, FS_Subset
<1>9. Cardinality(Taken \cup Claimed) = (tail1 - tail0) + (head1 - head0)
  <2>1. IsFiniteSet(Taken) /\ Cardinality(Taken) = tail1 - tail0
    <3>1. tail0 \in Int /\ tail1 - 1 \in Int
      BY <1>1
    <3>2. /\ IsFiniteSet(Taken)
          /\ Cardinality(Taken) = IF tail0 > tail1 - 1 THEN 0 ELSE tail1 - 1 - tail0 + 1
      BY <3>1, FS_Interval
    <3> QED
      BY <1>1, <3>2
  <2>2. IsFiniteSet(Claimed) /\ Cardinality(Claimed) = head1 - head0
    <3>1. head0 \in Int /\ head1 - 1 \in Int
      BY <1>1
    <3>2. /\ IsFiniteSet(Claimed)
          /\ Cardinality(Claimed) = IF head0 > head1 - 1 THEN 0 ELSE head1 - 1 - head0 + 1
      BY <3>1, FS_Interval
    <3> QED
      BY <1>1, <3>2
  <2>3. Taken \cap Claimed = {}
    BY <1>1
  <2>4. Cardinality(Taken \cap Claimed) = 0
    BY <2>3, FS_EmptySet
  <2>5. Cardinality(Taken \cup Claimed)
          = Cardinality(Taken) + Cardinality(Claimed) - Cardinality(Taken \cap Claimed)
    BY <2>1, <2>2, FS_Union
  <2> HIDE DEF Taken, Claimed
  <2> QED
    BY <1>1, <2>1, <2>2, <2>4, <2>5
<1> HIDE DEF Taken, Claimed, holder
<1>10. Cardinality(Taken \cup Claimed) <= Cardinality(Queue!HoldingRoom(t))
  BY <1>7, <1>8, FS_Injection
<1> QED
  <2>1. Cardinality(Queue!HoldingRoom(t)) \in Nat
    BY <1>8, FS_CardinalityType
  <2> QED
    BY <1>1, <1>9, <1>10, <2>1

-----------------------------------------------------------------------------
(* The steps *)

LEMMA ReturnMaps ==
  ASSUME RefineInv, NEW t \in Thread, NEW rc, Return(t, rc), UNCHANGED sent
  PROVE  Queue!Return(t, rc)
<1>1. Found(t)' = NoValue
  BY Known DEF Return, Found
<1>2. \A u \in Thread \ {t} : pc'[u] = pc[u] /\ pos'[u] = pos[u] /\ val'[u] = val[u]
  BY Known DEF Return
<1>3. Args' = [Args EXCEPT ![t] = NoValue]
  BY <1>1, <1>2, ArgsStep
<1> QED
  BY <1>3 DEF Return, shape, Args, Queue!Return

(* What a thread does between two effects nobody else can see. *)
LEMMA Unseen ==
  ASSUME RefineInv, NEW t \in Thread, UNCHANGED <<shape, closed, call, ret, late>>,
         \A u \in Thread \ {t} : pc'[u] = pc[u] /\ pos'[u] = pos[u] /\ val'[u] = val[u],
         sent' = sent \/ \E x : sent' = Append(sent, x),
         UNCHANGED Contents, Found(t)' = Found(t)
  PROVE  UNCHANGED Queue!vars
<1>1. Args' = [Args EXCEPT ![t] = Found(t)]
  BY ArgsStep
<1>2. Args' = Args
  BY <1>1 DEF Args
<1> QED
  BY <1>2 DEF shape, Args, Contents, Queue!vars

LEMMA ContentsSame ==
  ASSUME UNCHANGED <<sent, tail1, head0>> PROVE UNCHANGED Contents
BY DEF Contents

LEMMA CallMaps ==
  ASSUME RefineInv, NEW t \in Thread, NEW op, NEW l \in {"sendClosed", "recvTail1"}, NEW v,
         Begin(t, op, l, v)
  PROVE  Queue!Call(t, op, v)
<1>1. call[t] = "none"
  BY Known DEF Begin, TypeOK
<1>2. Found(t)' = v
  BY Known DEF Begin, Found
<1>3. \A u \in Thread \ {t} : pc'[u] = pc[u] /\ pos'[u] = pos[u] /\ val'[u] = val[u]
  BY Known DEF Begin
<1>4. Args' = [Args EXCEPT ![t] = v]
  BY <1>2, <1>3, ArgsStep DEF Begin
<1> QED
  BY <1>1, <1>4 DEF Begin, shape, counters, Args, Queue!Call

LEMMA SendMaps ==
  ASSUME RefineInv, NEW t \in Thread,
         \/ SendLoadClosed(t) \/ SendLoadHead1(t) \/ SendLoadTail0(t)
         \/ SendClaim(t) \/ SendLoseClaim(t) \/ SendWrite(t) \/ SendPublish(t)
  PROVE  \/ Queue!SendClosed(t) \/ Queue!Full(t) \/ Queue!Put(t)
         \/ UNCHANGED Queue!vars
<1>0. pc[t] \in SendPC /\ call[t] \in SendOps /\ Found(t) = val[t] /\ Args[t] = val[t]
  <2>1. pc[t] \in SendPC
    BY DEF SendLoadClosed, SendLoadHead1, SendLoadTail0, SendClaim, SendLoseClaim, SendWrite,
           SendPublish, SendPC
  <2> QED
    BY <2>1, Known, ArgsAt DEF TypeOK, Found, SendPC
<1>1. t \in late => pc[t] = "sendClosed"
  BY <1>0 DEF RefineInv, CallInv
<1>2. ASSUME Goto(t, "sendHead1") \/ Goto(t, "sendClaim") \/ Goto(t, "sendPublish")
             \/ Load(t, "sendTail0", head1) \/ Load(t, "sendClosed", 0),
             UNCHANGED <<closed, counters, sent>>
      PROVE  UNCHANGED Queue!vars
  <2>1. Found(t)' = val[t] /\ UNCHANGED <<shape, closed, call, ret, late>>
    BY <1>2, Known DEF Goto, Load, Found, history
  <2>2. \A u \in Thread \ {t} : pc'[u] = pc[u] /\ pos'[u] = pos[u] /\ val'[u] = val[u]
    BY <1>2, Known DEF Goto, Load
  <2> QED
    BY <1>0, <1>2, <2>1, <2>2, ContentsSame, Unseen DEF counters
<1>3. CASE SendLoadClosed(t)
  <2>1. CASE closed /\ Return(t, "CLOSED")
    BY <1>0, <1>3, <2>1, ReturnMaps DEF SendLoadClosed, counters, Queue!SendClosed,
       SendOps, Queue!SendOps
  <2> QED
    BY <1>2, <1>3, <2>1 DEF SendLoadClosed
<1>4. CASE SendLoadHead1(t)
  BY <1>2, <1>4 DEF SendLoadHead1
<1>5. CASE SendLoadTail0(t)
  <2>1. CASE pos[t] = tail0 + capacity /\ call[t] = "trysend" /\ Return(t, "FULL")
    <3>1. t \notin late
      BY <1>1, <1>5 DEF SendLoadTail0
    <3>2. Len(Contents) = head0 - tail1
      BY ContentsFacts
    <3>3. Cardinality(Queue!HoldingRoom(t)) >= (tail1 - tail0) + (head1 - head0)
      BY <1>5, RoomHeld DEF SendLoadTail0, ClaimedSend, ClaimedRecv
    <3>4. IsFiniteSet(Queue!HoldingRoom(t))
      <4>1. Queue!HoldingRoom(t) \in SUBSET Thread
        BY DEF Queue!HoldingRoom
      <4> QED
        BY <4>1, ThreadAssumption, FS_Subset
    <3>5. Cardinality(Queue!HoldingRoom(t)) \in Nat
      BY <3>4, FS_CardinalityType
    <3>6. head1 = tail0 + capacity
      BY <1>5, <2>1, Known DEF SendLoadTail0, ThreadInv, CounterOrder
    <3>7. Len(Contents) + Cardinality(Queue!HoldingRoom(t)) >= capacity
      BY <3>2, <3>3, <3>5, <3>6, Known, SMTT(30)
    <3>8. Queue!Return(t, "FULL") /\ UNCHANGED <<closed, Contents>>
      BY <1>5, <2>1, ReturnMaps, ContentsSame DEF SendLoadTail0, counters
    <3> QED
      <4>1. Len(SubSeq(sent, tail1 + 1, head0)) + Queue!Cardinality(Queue!HoldingRoom(t))
              >= capacity
        BY Zenon, <3>7, SameCardinality DEF Contents
      <4>2. UNCHANGED <<SubSeq(sent, tail1 + 1, head0), closed>>
        BY Zenon, <3>8 DEF Contents
      <4> QED
        BY Zenon, <2>1, <3>1, <3>8, <4>1, <4>2 DEF Queue!Full
  <2> QED
    BY <1>2, <1>5, <2>1 DEF SendLoadTail0
<1>6. CASE SendClaim(t)
  <2>1. /\ sent' = Append(sent, val[t]) /\ UNCHANGED <<tail1, head0, closed>>
        /\ sent \in Seq(Value) /\ Len(sent) = head1 /\ tail1 \in Nat
        /\ head0 \in Nat /\ head1 \in Nat /\ head0 <= head1 /\ val[t] \in Value
    BY <1>0, <1>6, Known DEF SendClaim, CounterOrder, TypeOK
  <2>2. SubSeq(sent', tail1 + 1, head0) = SubSeq(sent, tail1 + 1, head0)
    <3>1. \A i \in tail1 + 1 .. head0 : sent'[i] = sent[i]
      BY <2>1
    <3> QED
      BY <2>1, <3>1
  <2>3. UNCHANGED Contents
    BY <2>1, <2>2 DEF Contents
  <2>4. Found(t)' = val[t] /\ UNCHANGED <<shape, call, ret, late>>
    BY <1>6, Known DEF SendClaim, Goto, Found, history
  <2>5. \A u \in Thread \ {t} : pc'[u] = pc[u] /\ pos'[u] = pos[u] /\ val'[u] = val[u]
    BY <1>6, Known DEF SendClaim, Goto
  <2> QED
    BY <1>0, <2>1, <2>3, <2>4, <2>5, Unseen
<1>7. CASE SendLoseClaim(t)
  BY <1>2, <1>7 DEF SendLoseClaim
<1>8. CASE SendWrite(t)
  BY <1>2, <1>8 DEF SendWrite
<1>9. CASE SendPublish(t)
  <2>1. /\ head0 = pos[t] /\ head0' = head0 + 1 /\ UNCHANGED <<closed, tail1, sent>>
        /\ head0 \in Nat /\ tail1 \in Nat /\ head0 < head1 /\ head1 \in Nat
        /\ tail1 <= head0 /\ head1 <= tail1 + capacity /\ capacity \in Nat
    BY <1>9, Known DEF SendPublish, ThreadInv, ClaimedSend, CounterOrder
  <2>2. val[t] = sent[head0 + 1] /\ val[t] \in Value
    BY <1>0, <1>9, <2>1, Known DEF SendPublish, RefineInv, IndInv, DataInv, ClaimedSend, TypeOK
  <2>3. Contents' = Append(Contents, val[t])
    <3>1. head0 + 1 \in 1 .. Len(sent) /\ tail1 + 1 \in 1 .. Len(sent)
          /\ head0 + 1 \in tail1 + 1 .. Len(sent)
      BY <2>1, Known
    <3>2. SubSeq(sent, tail1 + 1, head0 + 1)
            = SubSeq(sent, tail1 + 1, (head0 + 1) - 1) \o <<sent[head0 + 1]>>
      BY <3>1, Known, SubSeqRecursiveSecond
    <3>3. (head0 + 1) - 1 = head0
      BY <2>1
    <3>4. Contents' = Contents \o <<val[t]>>
      BY <2>1, <2>2, <3>2, <3>3 DEF Contents
    <3> QED
      BY <2>2, <3>4, ContentsFacts
  <2>4. Len(Contents) < capacity
    BY <2>1, ContentsFacts
  <2>5. Queue!Return(t, "SUCCESS")
    BY <1>9, ReturnMaps DEF SendPublish
  <2>6. t \notin late
    BY <1>1, <1>9 DEF SendPublish
  <2> QED
    BY <1>0, <2>1, <2>3, <2>4, <2>5, <2>6
       DEF Queue!Put, Contents, Args, SendOps, Queue!SendOps
<1> QED
  BY <1>3, <1>4, <1>5, <1>6, <1>7, <1>8, <1>9

LEMMA RecvMaps ==
  ASSUME RefineInv, NEW t \in Thread,
         \/ RecvLoadTail1(t) \/ RecvLoadHead0(t) \/ RecvLoadClosed(t)
         \/ RecvLoadHead0Again(t) \/ RecvClaim(t) \/ RecvLoseClaim(t)
         \/ RecvRead(t) \/ RecvRelease(t)
  PROVE  \/ Queue!Take(t) \/ Queue!Deliver(t) \/ Queue!FindNothing(t) \/ Queue!Retry(t)
         \/ Queue!Empty(t) \/ Queue!RecvClosed(t)
         \/ UNCHANGED Queue!vars
<1> USE DEF SendOps, RecvOps, Queue!SendOps, Queue!RecvOps
<1>0. pc[t] \in RecvPC /\ call[t] \in RecvOps
  <2>1. pc[t] \in RecvPC
    BY DEF RecvLoadTail1, RecvLoadHead0, RecvLoadClosed, RecvLoadHead0Again, RecvClaim,
           RecvLoseClaim, RecvRead, RecvRelease, RecvPC
  <2> QED
    BY <2>1, Known DEF TypeOK, SendPC, RecvPC
<1>1. pc[t] # "recvRelease" => val[t] = NoValue
  BY <1>0 DEF RefineInv, CallInv
<1>2. \A u \in Thread \ {t} : pc'[u] = pc[u] /\ pos'[u] = pos[u] /\ val'[u] = val[u]
  BY Known DEF RecvLoadTail1, RecvLoadHead0, RecvLoadClosed, RecvLoadHead0Again, RecvClaim,
               RecvLoseClaim, RecvRead, RecvRelease, Goto, Load, Return
<1>3. sent' = sent /\ closed' = closed /\ capacity' = capacity /\ UNCHANGED shape
  BY DEF RecvLoadTail1, RecvLoadHead0, RecvLoadClosed, RecvLoadHead0Again, RecvClaim,
         RecvLoseClaim, RecvRead, RecvRelease, Goto, Load, Return, shape
<1>4. ASSUME NEW f, Found(t)' = f PROVE Args' = [Args EXCEPT ![t] = f]
  BY <1>2, <1>3, <1>4, ArgsStep
<1>5. Args[t] = Found(t)
  BY ArgsAt
<1>6. NoValue # -1 /\ NoValue \notin Value /\ -1 \notin Value
  BY DEF NoValue, Value
<1>7. ASSUME Found(t)' = Found(t), UNCHANGED <<counters, call, ret, late>>
      PROVE  UNCHANGED Queue!vars
  BY <1>2, <1>3, <1>7, ContentsSame, Unseen DEF counters
<1>8. ASSUME Found(t) = -1, Found(t)' = NoValue, UNCHANGED <<counters, call, ret, late>>
      PROVE  Queue!Retry(t)
  <2>1. Args' = [Args EXCEPT ![t] = NoValue] /\ UNCHANGED Contents
    BY <1>3, <1>4, <1>8, ContentsSame DEF counters
  <2> QED
    BY <1>0, <1>3, <1>5, <1>8, <2>1 DEF Queue!Retry, Args, Contents
<1>9. CASE RecvLoadTail1(t)
  <2>1. Found(t)' = Found(t) /\ UNCHANGED <<counters, call, ret, late>>
    BY <1>9, Known DEF RecvLoadTail1, Load, Found, history
  <2> QED
    BY <1>7, <2>1
<1>10. CASE RecvLoadHead0(t)
  <2>0. pc[t] = "recvHead0" /\ Found(t) = NoValue /\ UNCHANGED <<counters, call, ret, late>>
    BY <1>1, <1>10 DEF RecvLoadHead0, Goto, Load, Found, history
  <2>1. CASE pos[t] = head0 /\ Goto(t, "recvClosed")
    <3>1. Found(t)' = -1
      BY <2>1, Known DEF Goto, Found
    <3>2. Contents = <<>>
      BY <1>10, <2>1, Known, ContentsFacts DEF RecvLoadHead0, ThreadInv, CounterOrder
    <3>3. Args' = [Args EXCEPT ![t] = -1] /\ UNCHANGED Contents
      BY <1>3, <1>4, <2>0, <3>1, ContentsSame DEF counters
    <3> QED
      BY <1>0, <1>3, <1>5, <2>0, <3>2, <3>3 DEF Queue!FindNothing, Args, Contents
  <2>2. CASE Goto(t, "recvClaim")
    <3>1. Found(t)' = NoValue
      BY <1>1, <2>0, <2>2, Known DEF Goto, Found
    <3> QED
      BY <1>7, <2>0, <3>1
  <2> QED
    BY <1>10, <2>1, <2>2 DEF RecvLoadHead0
<1>11. CASE RecvLoadClosed(t)
  <2>0. pc[t] = "recvClosed" /\ Found(t) = -1 /\ UNCHANGED counters
    BY <1>11 DEF RecvLoadClosed, Found
  <2>1. CASE Goto(t, "recvAgain")
    <3>1. Found(t)' = -1 /\ UNCHANGED <<call, ret, late>>
      BY <2>1, Known DEF Goto, Found, history
    <3> QED
      BY <1>7, <2>0, <3>1
  <2>2. CASE call[t] = "tryrecv" /\ Return(t, "EMPTY")
    <3>1. Queue!Return(t, "EMPTY") /\ UNCHANGED Contents
      BY <1>3, <2>0, <2>2, ReturnMaps, ContentsSame DEF counters
    <3> QED
      BY <1>3, <1>5, <2>0, <2>2, <3>1 DEF Queue!Empty, Args, Contents
  <2>3. CASE Load(t, "recvTail1", 0)
    <3>1. Found(t)' = NoValue /\ UNCHANGED <<call, ret, late>>
      BY <1>1, <2>0, <2>3, Known DEF Load, Found, history
    <3> QED
      BY <1>8, <2>0, <3>1
  <2> QED
    BY <1>11, <2>1, <2>2, <2>3 DEF RecvLoadClosed
<1>12. CASE RecvLoadHead0Again(t)
  <2>0. pc[t] = "recvAgain" /\ Found(t) = -1 /\ UNCHANGED counters
    BY <1>12 DEF RecvLoadHead0Again, Found
  <2>1. CASE pos[t] = head0 /\ Return(t, "CLOSED")
    <3>1. Queue!Return(t, "CLOSED") /\ UNCHANGED Contents
      BY <1>3, <2>0, <2>1, ReturnMaps, ContentsSame DEF counters
    <3>2. Contents = <<>>
      BY <2>0, <2>1, Known, ContentsFacts DEF ThreadInv, CounterOrder
    <3>3. closed
      BY <2>0 DEF RefineInv, IndInv, CloseInv
    <3> QED
      BY <1>0, <1>3, <1>5, <2>0, <3>1, <3>2, <3>3 DEF Queue!RecvClosed, Args, Contents
  <2>2. CASE Load(t, "recvTail1", 0)
    <3>1. Found(t)' = NoValue /\ UNCHANGED <<call, ret, late>>
      BY <1>1, <2>0, <2>2, Known DEF Load, Found, history
    <3> QED
      BY <1>8, <2>0, <3>1
  <2> QED
    BY <1>12, <2>1, <2>2 DEF RecvLoadHead0Again
<1>13. CASE RecvClaim(t)
  <2>1. /\ pc[t] = "recvClaim" /\ tail1 = pos[t] /\ tail1' = tail1 + 1 /\ head0' = head0
        /\ tail1 \in Nat /\ head0 \in Nat /\ head1 \in Nat /\ tail1 < head0 /\ head0 <= head1
    BY <1>13, Known DEF RecvClaim, ThreadInv, CounterOrder
  <2>2. Found(t) = NoValue /\ UNCHANGED <<call, ret, late>>
    BY <1>1, <1>13, <2>1 DEF RecvClaim, Goto, Found, history
  <2>3. Found(t)' = sent[tail1 + 1]
    BY <1>3, <1>13, <2>1, Known DEF RecvClaim, Goto, Found
  <2>4. Contents # <<>>
    BY <2>1, ContentsFacts
  <2>5. Head(Contents) = sent[tail1 + 1] /\ Tail(Contents) = Contents'
    <3>1. tail1 + 1 \in 1 .. Len(sent) /\ head0 \in tail1 + 1 .. Len(sent) /\ sent \in Seq(Value)
      BY <2>1, Known
    <3>2. /\ Head(SubSeq(sent, tail1 + 1, head0)) = sent[tail1 + 1]
          /\ Tail(SubSeq(sent, tail1 + 1, head0)) = SubSeq(sent, (tail1 + 1) + 1, head0)
      BY <3>1, HeadTailOfSubSeq
    <3> QED
      BY <1>3, <2>1, <3>2 DEF Contents
  <2>6. Args' = [Args EXCEPT ![t] = Head(Contents)]
    BY <1>4, <2>3, <2>5
  <2> QED
    BY Zenon, <1>0, <1>3, <1>5, <2>2, <2>4, <2>5, <2>6 DEF Queue!Take, Args, Contents
<1>14. CASE RecvLoseClaim(t)
  <2>1. Found(t)' = Found(t) /\ UNCHANGED <<counters, call, ret, late>>
    BY <1>14, Known DEF RecvLoseClaim, Load, Found, history
  <2> QED
    BY <1>7, <2>1
<1>15. CASE RecvRead(t)
  <2>1. UNCHANGED <<counters, call, ret, late>> /\ pc[t] = "recvRead"
    BY <1>15 DEF RecvRead, history
  <2>2. data[Slot(pos[t])] = sent[pos[t] + 1]
    BY <2>1 DEF RefineInv, IndInv, DataInv
  <2>3. Found(t)' = Found(t)
    BY <1>15, <2>1, <2>2, Known DEF RecvRead, Found
  <2> QED
    BY <1>7, <2>1, <2>3
<1>16. CASE RecvRelease(t)
  <2>1. /\ pc[t] = "recvRelease" /\ Return(t, "SUCCESS") /\ UNCHANGED <<tail1, head0>>
        /\ Found(t) = val[t]
    BY <1>16 DEF RecvRelease, Found
  <2>2. val[t] \in Value
    <3>1. val[t] = sent[pos[t] + 1]
      BY <2>1 DEF RefineInv, IndInv, DataInv
    <3>2. pos[t] \in Nat /\ pos[t] < head1
      BY <2>1, Known DEF ThreadInv, ClaimedRecv, CounterOrder
    <3> QED
      BY <3>1, <3>2, Known
  <2>3. Queue!Return(t, "SUCCESS") /\ UNCHANGED Contents
    BY <1>3, <2>1, ReturnMaps, ContentsSame
  <2> QED
    BY <1>0, <1>3, <1>5, <2>1, <2>2, <2>3 DEF Queue!Deliver, Args, Contents
<1> QED
  BY <1>9, <1>10, <1>11, <1>12, <1>13, <1>14, <1>15, <1>16

LEMMA NextMaps == RefineInv /\ [Next]_vars => [Queue!Next]_(Queue!vars)
<1> SUFFICES ASSUME RefineInv, [Next]_vars PROVE Queue!Next \/ UNCHANGED Queue!vars
  OBVIOUS
<1>1. CASE UNCHANGED vars
  BY <1>1 DEF vars, shape, counters, thread, history, Found, Queue!vars
<1>2. ASSUME NEW t \in Thread, Step(t) PROVE Queue!Next \/ UNCHANGED Queue!vars
  <2>1. ASSUME NEW op \in SendOps, CallSend(t, op) PROVE Queue!Next
    <3>1. calls + 1 \in Value
      BY <2>1, Known, MaxSendsAssumption DEF CallSend, TypeOK, Value
    <3>2. Queue!Call(t, op, calls + 1)
      BY <2>1, CallMaps DEF CallSend
    <3> QED
      BY <3>1, <3>2 DEF Queue!Next, Queue!Step, SendOps, Queue!SendOps
  <2>2. ASSUME NEW op \in RecvOps, CallRecv(t, op) PROVE Queue!Next
    <3>1. Queue!Call(t, op, NoValue)
      BY <2>2, CallMaps DEF CallRecv
    <3> QED
      BY <3>1 DEF Queue!Next, Queue!Step, RecvOps, Queue!RecvOps
  <2>3. CASE Close(t)
    <3>1. call[t] = "none"
      BY <2>3, Known DEF Close, TypeOK
    <3>2. Queue!Close(t)
      BY <2>3, <3>1 DEF Close, shape, counters, Found, Queue!Close
    <3> QED
      BY <3>2 DEF Queue!Next, Queue!Step
  <2> QED
    BY <1>2, <2>1, <2>2, <2>3, SendMaps, RecvMaps DEF Step, Proceed, Queue!Next, Queue!Step
<1> QED
  BY <1>1, <1>2 DEF Next

LEMMA InitMaps == Init => Queue!Init
<1> SUFFICES ASSUME Init PROVE Queue!Init
  OBVIOUS
<1>1. SubSeq(sent, tail1 + 1, head0) = <<>>
  BY SubSeqEmpty DEF Init
<1>2. \A t \in Thread : Found(t) = NoValue
  BY DEF Init, Found
<1> QED
  BY <1>1, <1>2 DEF Init, Queue!Init

\* The channel implements the bounded FIFO queue: every call of send, trysend, recv
\* and tryrecv takes effect, and answers, as on a queue of at most capacity values, at
\* one moment between its start and its return.
THEOREM Refinement == Spec => ImplementsFIFO
<1>1. Spec => Queue!Init
  BY InitMaps DEF Spec
<1>2. RefineInv /\ [Next]_vars => [Queue!Next]_(Queue!vars)
  BY NextMaps
<1> QED
  BY <1>1, <1>2, RefineInvariance, PTL DEF Spec, ImplementsFIFO, Queue!Spec

-----------------------------------------------------------------------------
(* Pools: sizes of blocks *)

LEMMA Quotient ==
  ASSUME NEW m \in Nat, NEW n \in Nat \ {0}
  PROVE  m \div n \in Nat /\ n * (m \div n) <= m
OBVIOUS

(* A block of the largest size leaves some of SIZE_MAX. *)
LEMMA EntriesFit == MaxEntries \in Nat /\ (MaxEntries > 0 => MaxEntries < SizeMax)
<1>1. MaxEntries \in Nat /\ EntrySize * MaxEntries <= SizeMax
  BY SizeAssumption, Quotient DEF MaxEntries
<1>2. EntrySize * MaxEntries >= 2 * MaxEntries
  BY <1>1, SizeAssumption
<1> QED
  BY <1>1, <1>2, SizeAssumption

(* The next block is larger than the last one. *)
LEMMA Grows ==
  ASSUME NEW n \in 1 .. MaxEntries
  PROVE  NextSize(n) \in Nat /\ NextSize(n) > n
<1>1. n \in Nat /\ SizeMax \in Nat /\ n >= 1 /\ n < SizeMax
  BY EntriesFit, SizeAssumption
<1>2. (n \div 2) \in Nat /\ ((n % 2) + 1) \div 2 \in Nat
      /\ (n \div 2) + ((n % 2) + 1) \div 2 > 0
  BY <1>1
<1> QED
  BY <1>1, <1>2 DEF NextSize

-----------------------------------------------------------------------------
(* Entries *)

EntriesOf(p, sizes) == UNION {Block(p, b, sizes[b]) : b \in DOMAIN sizes}

LEMMA ElementIn == ASSUME NEW S, NEW s \in Seq(S), NEW i \in 1 .. Len(s) PROVE s[i] \in S
OBVIOUS

LEMMA EntriesShape ==
  ASSUME NEW p \in Pools, NEW sizes \in Seq(1 .. MaxEntries), NEW e \in EntriesOf(p, sizes)
  PROVE  /\ e[1] = p
         /\ e[2] \in DOMAIN sizes
         /\ e[3] \in 1 .. sizes[e[2]]
         /\ e = <<p, e[2], e[3]>>
         /\ e \in AllEntries
         /\ e \in Pools \X Nat \X Nat
<1>1. PICK b \in DOMAIN sizes : e \in Block(p, b, sizes[b])
  BY DEF EntriesOf
<1>2. PICK i \in 1 .. sizes[b] : e = <<p, b, i>>
  BY <1>1 DEF Block
<1>3. b \in Nat \ {0} /\ i \in Nat \ {0}
  BY <1>1, <1>2, EntriesFit
<1> QED
  BY <1>1, <1>2, <1>3 DEF AllEntries

LEMMA EntryIn ==
  ASSUME NEW p, NEW sizes, NEW b \in DOMAIN sizes, NEW i \in 1 .. sizes[b]
  PROVE  <<p, b, i>> \in EntriesOf(p, sizes)
BY DEF EntriesOf, Block

LEMMA EntriesSame == ASSUME NEW p PROVE Entries(p) = EntriesOf(p, blocks[p])
BY DEF Entries, EntriesOf

(* No entry is NULL or a pool. *)
LEMMA EntryIsNoPool ==
  ASSUME NEW e \in Pools \X Nat \X Nat PROVE e # NULL /\ e \notin Pools
BY NullAssumption, PoolAssumption

-----------------------------------------------------------------------------
(* One pool *)

(* What FreeListIsStack and FreeOrInUse say of pool p with blocks of these sizes, first
   free entry hd and stack st, when nx are the fields next and us the entries in use. *)
Sound(p, sizes, hd, nx, st, us) ==
  /\ st \in Seq(EntriesOf(p, sizes))
  /\ hd = IF st = <<>> THEN NULL ELSE st[1]
  /\ \A i \in 1 .. Len(st) : nx[st[i]] = IF i = Len(st) THEN NULL ELSE st[i + 1]
  /\ \A i, j \in 1 .. Len(st) : i # j => st[i] # st[j]
  /\ \A i \in 1 .. Len(st) : st[i] \notin us
  /\ \A e \in us : e[1] = p => e \in EntriesOf(p, sizes) /\ nx[e] = p
  /\ \A e \in EntriesOf(p, sizes) : e \in us \/ \E i \in 1 .. Len(st) : st[i] = e

LEMMA SoundFree ==
  ASSUME NEW p, NEW sizes, NEW hd, NEW nx, NEW st, NEW us, Sound(p, sizes, hd, nx, st, us)
  PROVE  /\ Len(st) \in Nat
         /\ \A i \in 1 .. Len(st) : st[i] \in EntriesOf(p, sizes)
BY DEF Sound

(* The entries of the pool are what counts. *)
LEMMA SoundSame ==
  ASSUME NEW p \in Pools, NEW sizes \in Seq(1 .. MaxEntries), NEW hd, NEW nx, NEW nx2,
         NEW st, NEW us, NEW us2,
         Sound(p, sizes, hd, nx, st, us),
         \A e \in EntriesOf(p, sizes) : nx2[e] = nx[e],
         \A e \in us \cup us2 : e[1] = p => (e \in us <=> e \in us2)
  PROVE  Sound(p, sizes, hd, nx2, st, us2)
<1>1. \A e \in EntriesOf(p, sizes) : e[1] = p
  BY EntriesShape
<1>2. \A i \in 1 .. Len(st) : st[i] \in EntriesOf(p, sizes)
  BY SoundFree
<1>3. \A i \in 1 .. Len(st) : nx2[st[i]] = IF i = Len(st) THEN NULL ELSE st[i + 1]
  BY <1>2 DEF Sound
<1>4. \A i \in 1 .. Len(st) : st[i] \notin us2
  BY <1>1, <1>2 DEF Sound
<1>5. \A e \in us2 : e[1] = p => e \in EntriesOf(p, sizes) /\ nx2[e] = p
  BY DEF Sound
<1>6. \A e \in EntriesOf(p, sizes) : e \in us2 \/ \E i \in 1 .. Len(st) : st[i] = e
  BY <1>1 DEF Sound
<1> QED
  BY <1>3, <1>4, <1>5, <1>6 DEF Sound

(* pool_get: the head of the list goes, marked with the pool. *)
LEMMA GetSound ==
  ASSUME NEW p \in Pools, NEW sizes \in Seq(1 .. MaxEntries), NEW hd, NEW nx, NEW st, NEW us,
         Sound(p, sizes, hd, nx, st, us), hd # NULL, hd \in DOMAIN nx
  PROVE  /\ hd \in EntriesOf(p, sizes) /\ hd \notin us
         /\ Sound(p, sizes, nx[hd], [nx EXCEPT ![hd] = p], Tail(st), us \cup {hd})
<1> DEFINE rest == Tail(st)
           n == Len(st) - 1
           nx2 == [nx EXCEPT ![hd] = p]
<1>1. st # <<>> /\ hd = st[1] /\ st \in Seq(EntriesOf(p, sizes))
  BY DEF Sound
<1>2. n \in Nat /\ Len(st) = n + 1 /\ hd \in EntriesOf(p, sizes) /\ hd \notin us
  BY <1>1 DEF Sound
<1>3. /\ rest \in Seq(EntriesOf(p, sizes))
      /\ Len(rest) = n
      /\ \A i \in 1 .. n : rest[i] = st[i + 1]
  BY <1>1
<1>4. /\ \A i \in 1 .. n + 1 : nx[st[i]] = IF i = n + 1 THEN NULL ELSE st[i + 1]
      /\ \A i, j \in 1 .. n + 1 : i # j => st[i] # st[j]
      /\ \A i \in 1 .. n + 1 : st[i] \notin us
  BY <1>2 DEF Sound
<1> HIDE DEF n, rest
<1>5. \A i \in 1 .. n : rest[i] # hd /\ rest[i] \notin us
  <2> SUFFICES ASSUME NEW i \in 1 .. n PROVE st[i + 1] # st[1] /\ st[i + 1] \notin us
    BY <1>1, <1>3
  <2> QED
    BY <1>2, <1>4
<1>6. nx[hd] = IF rest = <<>> THEN NULL ELSE rest[1]
  <2>1. CASE n = 0
    BY <1>1, <1>2, <1>3, <1>4, <2>1
  <2>2. CASE n # 0
    <3>1. nx[st[1]] = st[1 + 1] /\ rest[1] = st[1 + 1]
      BY <1>2, <1>3, <1>4, <2>2
    <3> QED
      BY <1>1, <1>2, <1>3, <2>2, <3>1
  <2> QED
    BY <2>1, <2>2
<1>7. \A i \in 1 .. n : nx2[rest[i]] = IF i = n THEN NULL ELSE rest[i + 1]
  <2> SUFFICES ASSUME NEW i \in 1 .. n
               PROVE  nx2[rest[i]] = IF i = n THEN NULL ELSE rest[i + 1]
    OBVIOUS
  <2>1. nx2[rest[i]] = nx[rest[i]]
    BY <1>5
  <2>2. nx[rest[i]] = IF i + 1 = n + 1 THEN NULL ELSE st[i + 1 + 1]
    BY <1>2, <1>3, <1>4
  <2>3. CASE i = n
    BY <2>1, <2>2, <2>3
  <2>4. CASE i # n
    <3>1. i + 1 \in 1 .. n
      BY <1>2, <2>4
    <3> QED
      BY <1>3, <2>1, <2>2, <2>4, <3>1
  <2> QED
    BY <2>3, <2>4
<1>8. \A e \in EntriesOf(p, sizes) : e \in us \cup {hd} \/ \E i \in 1 .. n : rest[i] = e
  <2> SUFFICES ASSUME NEW e \in EntriesOf(p, sizes), e \notin us, e # hd
               PROVE  \E i \in 1 .. n : rest[i] = e
    OBVIOUS
  <2>1. PICK i \in 1 .. n + 1 : st[i] = e
    BY <1>2 DEF Sound
  <2>2. i - 1 \in 1 .. n /\ rest[i - 1] = e
    BY <1>1, <1>2, <1>3, <2>1
  <2> QED
    BY <2>2
<1>9. \A i, j \in 1 .. n : i # j => rest[i] # rest[j]
  <2> SUFFICES ASSUME NEW i \in 1 .. n, NEW j \in 1 .. n, i # j PROVE st[i + 1] # st[j + 1]
    BY <1>3
  <2> QED
    BY <1>2, <1>4
<1>10. \A e \in us \cup {hd} : e[1] = p => e \in EntriesOf(p, sizes) /\ nx2[e] = p
  BY <1>2 DEF Sound
<1>11. \A i \in 1 .. n : rest[i] \notin us \cup {hd}
  BY <1>5
<1>12. Sound(p, sizes, nx[hd], nx2, rest, us \cup {hd})
  <2> HIDE DEF nx2
  <2> QED
    BY <1>3, <1>6, <1>7, <1>8, <1>9, <1>10, <1>11 DEF Sound
<1> QED
  BY <1>2, <1>12 DEF rest

(* pool_put: an entry in use becomes the head. *)
LEMMA PutSound ==
  ASSUME NEW p \in Pools, NEW sizes \in Seq(1 .. MaxEntries), NEW hd, NEW nx, NEW st, NEW us,
         Sound(p, sizes, hd, nx, st, us), NEW e \in us, e \in EntriesOf(p, sizes), e \in DOMAIN nx
  PROVE  Sound(p, sizes, e, [nx EXCEPT ![e] = hd], <<e>> \o st, us \ {e})
<1> DEFINE more == <<e>> \o st
           n == Len(st)
           nx2 == [nx EXCEPT ![e] = hd]
<1>1. st \in Seq(EntriesOf(p, sizes)) /\ n \in Nat /\ hd = IF n = 0 THEN NULL ELSE st[1]
  BY DEF Sound
<1>2. /\ more \in Seq(EntriesOf(p, sizes))
      /\ Len(more) = n + 1
      /\ more[1] = e
      /\ \A i \in 1 .. n : more[i + 1] = st[i]
  BY <1>1
<1>3. /\ \A i \in 1 .. n : nx[st[i]] = IF i = n THEN NULL ELSE st[i + 1]
      /\ \A i, j \in 1 .. n : i # j => st[i] # st[j]
      /\ \A i \in 1 .. n : st[i] \notin us
  BY DEF Sound
<1> HIDE DEF more, n
<1>4. \A i \in 1 .. n : st[i] # e
  BY <1>3
<1>5. \A i \in 1 .. n + 1 : i # 1 => i - 1 \in 1 .. n /\ more[i] = st[i - 1]
  <2> SUFFICES ASSUME NEW i \in 1 .. n + 1, i # 1 PROVE i - 1 \in 1 .. n /\ more[i] = st[i - 1]
    OBVIOUS
  <2>1. i - 1 \in 1 .. n /\ i = (i - 1) + 1
    BY <1>1
  <2> QED
    BY <1>2, <2>1
<1>6. \A i \in 1 .. n + 1 : nx2[more[i]] = IF i = n + 1 THEN NULL ELSE more[i + 1]
  <2> SUFFICES ASSUME NEW i \in 1 .. n + 1
               PROVE  nx2[more[i]] = IF i = n + 1 THEN NULL ELSE more[i + 1]
    OBVIOUS
  <2>1. CASE i = 1
    BY <1>1, <1>2, <2>1
  <2>2. CASE i # 1
    <3>1. i - 1 \in 1 .. n /\ more[i] = st[i - 1]
      BY <1>5, <2>2
    <3>2. nx2[more[i]] = IF i - 1 = n THEN NULL ELSE st[i - 1 + 1]
      BY <1>3, <1>4, <3>1
    <3>3. i # n + 1 => i \in 1 .. n /\ more[i + 1] = st[i] /\ i - 1 + 1 = i
      BY <1>1, <1>2
    <3> QED
      BY <1>1, <3>1, <3>2, <3>3
  <2> QED
    BY <2>1, <2>2
<1>7. \A d \in EntriesOf(p, sizes) : d \in us \ {e} \/ \E i \in 1 .. n + 1 : more[i] = d
  <2> SUFFICES ASSUME NEW d \in EntriesOf(p, sizes), d \notin us \/ d = e
               PROVE  \E i \in 1 .. n + 1 : more[i] = d
    OBVIOUS
  <2>1. CASE d = e
    BY <1>1, <1>2, <2>1
  <2>2. CASE d # e
    <3>1. PICK i \in 1 .. n : st[i] = d
      BY <2>2 DEF Sound, n
    <3>2. i + 1 \in 1 .. n + 1 /\ more[i + 1] = d
      BY <1>1, <1>2, <3>1
    <3> QED
      BY <3>2
  <2> QED
    BY <2>1, <2>2
<1>8. \A i, j \in 1 .. n + 1 : i # j => more[i] # more[j]
  <2> SUFFICES ASSUME NEW i \in 1 .. n + 1, NEW j \in 1 .. n + 1, i # j PROVE more[i] # more[j]
    OBVIOUS
  <2>1. CASE i = 1
    BY <1>2, <1>4, <1>5, <2>1
  <2>2. CASE j = 1
    BY <1>2, <1>4, <1>5, <2>2
  <2>3. CASE i # 1 /\ j # 1
    <3>1. i - 1 # j - 1
      BY <1>1
    <3> QED
      BY <1>3, <1>5, <2>3, <3>1
  <2> QED
    BY <2>1, <2>2, <2>3
<1>9. \A i \in 1 .. n + 1 : more[i] \notin us \ {e}
  BY <1>2, <1>3, <1>5
<1>10. \A d \in us \ {e} : d[1] = p => d \in EntriesOf(p, sizes) /\ nx2[d] = p
  BY DEF Sound
<1>11. e = IF more = <<>> THEN NULL ELSE more[1]
  BY <1>1, <1>2
<1>12. Sound(p, sizes, e, nx2, more, us \ {e})
  <2> HIDE DEF nx2
  <2> QED
    BY <1>2, <1>6, <1>7, <1>8, <1>9, <1>10, <1>11 DEF Sound
<1> QED
  BY <1>12 DEF more

(* The last block grows the pool: pool_init with no block yet, pool_get with no free
   entry left. *)
LEMMA AppendEntries ==
  ASSUME NEW p, NEW sizes \in Seq(1 .. MaxEntries), NEW n \in 1 .. MaxEntries
  PROVE  /\ EntriesOf(p, Append(sizes, n))
              = EntriesOf(p, sizes) \cup Block(p, Len(sizes) + 1, n)
         /\ EntriesOf(p, sizes) \cap Block(p, Len(sizes) + 1, n) = {}
<1>1. /\ DOMAIN Append(sizes, n) = DOMAIN sizes \cup {Len(sizes) + 1}
      /\ DOMAIN sizes = 1 .. Len(sizes)
      /\ Len(sizes) \in Nat
      /\ \A b \in DOMAIN sizes : Append(sizes, n)[b] = sizes[b]
      /\ Append(sizes, n)[Len(sizes) + 1] = n
  OBVIOUS
<1>2. EntriesOf(p, Append(sizes, n)) = EntriesOf(p, sizes) \cup Block(p, Len(sizes) + 1, n)
  BY <1>1, Zenon DEF EntriesOf
<1>3. \A e \in EntriesOf(p, sizes) : e[2] \in 1 .. Len(sizes)
  BY <1>1 DEF EntriesOf, Block
<1>4. \A e \in Block(p, Len(sizes) + 1, n) : e[2] = Len(sizes) + 1
  BY DEF Block
<1> QED
  BY <1>1, <1>2, <1>3, <1>4

LEMMA NewSound ==
  ASSUME NEW p \in Pools, NEW sizes \in Seq(1 .. MaxEntries), NEW nx, NEW us,
         NEW n \in 1 .. MaxEntries,
         Sound(p, sizes, NULL, nx, <<>>, us),
         EntriesOf(p, sizes) \subseteq DOMAIN nx
  PROVE  Sound(p, Append(sizes, n), <<p, Len(sizes) + 1, 1>>,
               Extend(nx, Links(p, Len(sizes) + 1, n)),
               [i \in 1 .. n |-> <<p, Len(sizes) + 1, i>>], us)
<1> DEFINE b == Len(sizes) + 1
           nx2 == Extend(nx, Links(p, b, n))
           st == [i \in 1 .. n |-> <<p, b, i>>]
           all == EntriesOf(p, Append(sizes, n))
<1>1. n \in Nat /\ n >= 1 /\ b \in Nat
  BY EntriesFit
<1>2. /\ all = EntriesOf(p, sizes) \cup Block(p, b, n)
      /\ EntriesOf(p, sizes) \cap Block(p, b, n) = {}
  BY AppendEntries
<1>3. \A i \in 1 .. n : <<p, b, i>> \in Block(p, b, n)
  BY DEF Block
<1>4. \A i \in 1 .. n : nx2[<<p, b, i>>] = IF i = n THEN NULL ELSE <<p, b, i + 1>>
  BY <1>1, <1>3 DEF Extend, Links
<1>5. \A e \in EntriesOf(p, sizes) : nx2[e] = nx[e]
  BY <1>2 DEF Extend, Links
<1>6. \A e \in us : e[1] = p => e \in EntriesOf(p, sizes) /\ nx[e] = p
  BY DEF Sound
<1>7. \A e \in EntriesOf(p, sizes) : e \in us
  BY DEF Sound
<1>8. \A e \in Block(p, b, n) : e[1] = p /\ \E i \in 1 .. n : <<p, b, i>> = e
  BY DEF Block
<1> HIDE DEF all, nx2, b
<1>9. st \in Seq(all) /\ Len(st) = n /\ \A i \in 1 .. n : st[i] = <<p, b, i>>
  BY <1>1, <1>2, <1>3
<1> HIDE DEF st
<1>10. <<p, b, 1>> = IF st = <<>> THEN NULL ELSE st[1]
  BY <1>1, <1>9
<1>11. \A i \in 1 .. n : nx2[st[i]] = IF i = n THEN NULL ELSE st[i + 1]
  <2> SUFFICES ASSUME NEW i \in 1 .. n
               PROVE  nx2[<<p, b, i>>] = IF i = n THEN NULL ELSE st[i + 1]
    BY <1>9
  <2>1. i # n => i + 1 \in 1 .. n
    BY <1>1
  <2> QED
    BY <1>4, <1>9, <2>1
<1>12. \A i, j \in 1 .. n : i # j => st[i] # st[j]
  BY <1>9
<1>13. \A i \in 1 .. n : st[i] \notin us
  <2> SUFFICES ASSUME NEW i \in 1 .. n, <<p, b, i>> \in us PROVE FALSE
    BY <1>9
  <2>1. <<p, b, i>> \in EntriesOf(p, sizes)
    BY <1>6
  <2> QED
    BY <1>2, <1>3, <2>1
<1>14. \A e \in us : e[1] = p => e \in all /\ nx2[e] = p
  BY <1>2, <1>5, <1>6
<1>15. \A e \in all : e \in us \/ \E i \in 1 .. n : st[i] = e
  <2> SUFFICES ASSUME NEW e \in Block(p, b, n) PROVE \E i \in 1 .. n : st[i] = e
    BY <1>2, <1>7
  <2>1. PICK i \in 1 .. n : <<p, b, i>> = e
    BY <1>8
  <2> QED
    BY <1>9, <2>1
<1>16. Sound(p, Append(sizes, n), <<p, b, 1>>, nx2, st, us)
  BY <1>9, <1>10, <1>11, <1>12, <1>13, <1>14, <1>15 DEF Sound, all
<1> QED
  BY <1>16 DEF b, nx2, st

(* A pool without an entry that is free has no head, and the other way round. *)
LEMMA NoHead ==
  ASSUME NEW p \in Pools, NEW sizes \in Seq(1 .. MaxEntries), NEW hd, NEW nx, NEW st, NEW us,
         Sound(p, sizes, hd, nx, st, us)
  PROVE  hd = NULL <=> st = <<>>
<1>1. CASE st = <<>>
  BY <1>1 DEF Sound
<1>2. CASE st # <<>>
  <2>1. Len(st) > 0 /\ hd = st[1]
    BY <1>2 DEF Sound
  <2>2. hd \in EntriesOf(p, sizes)
    BY <2>1, SoundFree
  <2> QED
    BY <1>2, <2>2, EntriesShape, EntryIsNoPool
<1> QED
  BY <1>1, <1>2

(* The field next of an entry never points out of its pool. *)
LEMMA NextStays ==
  ASSUME NEW p \in Pools, NEW sizes \in Seq(1 .. MaxEntries), NEW hd, NEW nx, NEW st, NEW us,
         Sound(p, sizes, hd, nx, st, us), NEW e \in EntriesOf(p, sizes)
  PROVE  nx[e] \in {NULL, p} \cup EntriesOf(p, sizes)
<1>1. CASE e \in us
  BY <1>1, EntriesShape DEF Sound
<1>2. CASE \E i \in 1 .. Len(st) : st[i] = e
  <2>1. PICK i \in 1 .. Len(st) : st[i] = e
    BY <1>2
  <2>2. nx[e] = IF i = Len(st) THEN NULL ELSE st[i + 1]
    BY <2>1 DEF Sound
  <2>3. i # Len(st) => i + 1 \in 1 .. Len(st)
    BY SoundFree
  <2> QED
    BY <2>2, <2>3, SoundFree
<1> QED
  BY <1>1, <1>2 DEF Sound

-----------------------------------------------------------------------------
(* The invariant *)

(* Every pool is as FreeListIsStack and FreeOrInUse say. *)
PoolInv == /\ PoolTypeOK
           /\ \A p \in Pools : Sound(p, blocks[p], head[p], next, stack[p], used)

(* Sound says what the two invariants say of each pool. *)
LEMMA SoundSays ==
  ASSUME PoolTypeOK
  PROVE  (\A p \in Pools : Sound(p, blocks[p], head[p], next, stack[p], used))
           => FreeListIsStack /\ FreeOrInUse
<1> SUFFICES ASSUME \A p \in Pools : Sound(p, blocks[p], head[p], next, stack[p], used)
             PROVE  FreeListIsStack /\ FreeOrInUse
  OBVIOUS
<1>1. FreeListIsStack
  <2> SUFFICES ASSUME NEW p \in Pools
               PROVE  /\ head[p] = IF stack[p] = <<>> THEN NULL ELSE stack[p][1]
                      /\ \A i \in DOMAIN stack[p] :
                           next[stack[p][i]] = IF i = Len(stack[p]) THEN NULL
                                                                    ELSE stack[p][i + 1]
    BY DEF FreeListIsStack
  <2>1. DOMAIN stack[p] = 1 .. Len(stack[p])
    BY DEF Sound
  <2> QED
    BY <2>1 DEF Sound
<1>2. FreeOrInUse
  <2> SUFFICES ASSUME NEW p \in Pools
               PROVE  LET s == stack[p]
                          free == {s[i] : i \in DOMAIN s}
                          mine == {e \in used : e[1] = p}
                      IN  /\ \A i, j \in DOMAIN s : i # j => s[i] # s[j]
                          /\ free \cap mine = {}
                          /\ free \cup mine = Entries(p)
                          /\ \A e \in mine : next[e] = p
    BY DEF FreeOrInUse
  <2> DEFINE s == stack[p]
             free == {s[i] : i \in DOMAIN s}
             mine == {e \in used : e[1] = p}
  <2>1. DOMAIN s = 1 .. Len(s) /\ blocks[p] \in Seq(1 .. MaxEntries)
    BY DEF Sound, PoolTypeOK
  <2>2. \A i, j \in DOMAIN s : i # j => s[i] # s[j]
    BY <2>1 DEF Sound
  <2>3. free \cap mine = {}
    BY <2>1 DEF Sound
  <2>4. free \subseteq Entries(p)
    BY <2>1, SoundFree, EntriesSame
  <2>5. mine \subseteq Entries(p)
    BY EntriesSame DEF Sound
  <2>6. Entries(p) \subseteq free \cup mine
    <3> SUFFICES ASSUME NEW e \in EntriesOf(p, blocks[p]) PROVE e \in free \cup mine
      BY EntriesSame
    <3>1. e[1] = p
      BY <2>1, EntriesShape
    <3>2. CASE e \in used
      BY <3>1, <3>2
    <3>3. CASE \E i \in 1 .. Len(s) : s[i] = e
      BY <2>1, <3>3
    <3> QED
      BY <3>2, <3>3 DEF Sound
  <2>7. \A e \in mine : next[e] = p
    BY DEF Sound
  <2> QED
    BY <2>2, <2>3, <2>4, <2>5, <2>6, <2>7
<1> QED
  BY <1>1, <1>2

(* What Sound and the blocks leave of PoolTypeOK to be shown. *)
LEMMA TypesFollow ==
  ASSUME NEW bl \in [Pools -> Seq(1 .. MaxEntries)], NEW hd, NEW nx, NEW st, NEW us,
         DOMAIN nx = UNION {EntriesOf(p, bl[p]) : p \in Pools},
         \A p \in Pools : Sound(p, bl[p], hd[p], nx, st[p], us)
  PROVE  /\ DOMAIN nx \subseteq AllEntries
         /\ \A e \in DOMAIN nx : nx[e] \in {NULL} \cup Pools \cup DOMAIN nx
         /\ \A p \in Pools : hd[p] \in {NULL} \cup DOMAIN nx
         /\ \A p \in Pools : st[p] \in Seq(DOMAIN nx)
<1>1. \A p \in Pools : EntriesOf(p, bl[p]) \subseteq DOMAIN nx /\ bl[p] \in Seq(1 .. MaxEntries)
  OBVIOUS
<1>2. ASSUME NEW e \in DOMAIN nx
      PROVE  e \in AllEntries /\ nx[e] \in {NULL} \cup Pools \cup DOMAIN nx
  <2>1. PICK p \in Pools : e \in EntriesOf(p, bl[p])
    OBVIOUS
  <2>2. Sound(p, bl[p], hd[p], nx, st[p], us)
    OBVIOUS
  <2>3. nx[e] \in {NULL, p} \cup EntriesOf(p, bl[p])
    BY <1>1, <2>1, <2>2, NextStays
  <2>4. e \in AllEntries
    BY <1>1, <2>1, EntriesShape
  <2> QED
    BY <1>1, <2>3, <2>4
<1>3. ASSUME NEW p \in Pools
      PROVE  hd[p] \in {NULL} \cup DOMAIN nx /\ st[p] \in Seq(DOMAIN nx)
  <2>1. Sound(p, bl[p], hd[p], nx, st[p], us)
    OBVIOUS
  <2>2. st[p] \in Seq(EntriesOf(p, bl[p]))
    BY <2>1 DEF Sound
  <2>3. st[p] \in Seq(DOMAIN nx)
    BY <1>1, <2>2
  <2>4. hd[p] = IF st[p] = <<>> THEN NULL ELSE st[p][1]
    BY <2>1 DEF Sound
  <2>5. st[p] # <<>> => st[p][1] \in DOMAIN nx
    BY <2>3
  <2> QED
    BY <2>3, <2>4, <2>5
<1> QED
  BY <1>2, <1>3

LEMMA InvFollows ==
  ASSUME status' \in [Pools -> {"absent", "live", "destroyed"}],
         blocks' \in [Pools -> Seq(1 .. MaxEntries)],
         \A p \in Pools : blocks'[p] # <<>> <=> status'[p] = "live",
         \A p \in Pools : \A b \in 1 .. Len(blocks'[p]) - 1 : blocks'[p][b] < blocks'[p][b + 1],
         DOMAIN next' = UNION {EntriesOf(p, blocks'[p]) : p \in Pools},
         head' = [p \in Pools |-> head'[p]],
         stack' = [p \in Pools |-> stack'[p]],
         var' \in [Var -> {NULL} \cup AllEntries],
         orphans' \in [Pools \cup {NULL} -> 0 .. MaxOrphans],
         used' \subseteq DOMAIN next',
         \A p \in Pools : Sound(p, blocks'[p], head'[p], next', stack'[p], used')
  PROVE  PoolInv'
<1>1. /\ \A e \in DOMAIN next' : next'[e] \in {NULL} \cup Pools \cup DOMAIN next'
      /\ \A p \in Pools : head'[p] \in {NULL} \cup DOMAIN next'
      /\ \A p \in Pools : stack'[p] \in Seq(DOMAIN next')
  BY TypesFollow
<1>2. head' \in [Pools -> {NULL} \cup DOMAIN next'] /\ stack' \in [Pools -> Seq(DOMAIN next')]
  BY <1>1
<1>3. DOMAIN next' = UNION {Entries(p)' : p \in Pools}
  BY DEF Entries, EntriesOf
<1>4. PoolTypeOK'
  BY <1>1, <1>2, <1>3 DEF PoolTypeOK, AllEntries
<1> QED
  BY <1>4 DEF PoolInv

(* What the proof of each step starts from. *)
LEMMA InvSays ==
  ASSUME PoolInv
  PROVE  /\ status \in [Pools -> {"absent", "live", "destroyed"}]
         /\ blocks \in [Pools -> Seq(1 .. MaxEntries)]
         /\ \A p \in Pools : blocks[p] # <<>> <=> status[p] = "live"
         /\ DOMAIN next = UNION {EntriesOf(p, blocks[p]) : p \in Pools}
         /\ \A p \in Pools : EntriesOf(p, blocks[p]) \subseteq DOMAIN next
         /\ DOMAIN next \subseteq AllEntries
         /\ var \in [Var -> {NULL} \cup AllEntries]
         /\ head = [p \in Pools |-> head[p]]
         /\ stack = [p \in Pools |-> stack[p]]
         /\ orphans \in [Pools \cup {NULL} -> 0 .. MaxOrphans]
         /\ used \subseteq DOMAIN next
<1>1. PoolTypeOK
  BY DEF PoolInv
<1>2. DOMAIN next = UNION {EntriesOf(p, blocks[p]) : p \in Pools}
  BY <1>1 DEF PoolTypeOK, Entries, EntriesOf
<1>3. DOMAIN next \subseteq AllEntries
  <2> SUFFICES ASSUME NEW e \in DOMAIN next PROVE e \in AllEntries
    OBVIOUS
  <2>1. PICK p \in Pools : e \in EntriesOf(p, blocks[p])
    BY <1>2
  <2>2. blocks[p] \in Seq(1 .. MaxEntries)
    BY <1>1 DEF PoolTypeOK
  <2> QED
    BY <2>1, <2>2, EntriesShape
<1> QED
  BY <1>1, <1>2, <1>3 DEF PoolTypeOK

(* Only an entry of the pool changes: the other pools stay as they are. *)
LEMMA OthersSound ==
  ASSUME PoolInv, NEW p \in Pools, NEW q \in Pools, p # q,
         blocks'[q] = blocks[q], head'[q] = head[q], stack'[q] = stack[q],
         \A e \in DOMAIN next : e[1] # p => next'[e] = next[e],
         \A e \in used \cup used' : e[1] # p => (e \in used <=> e \in used')
  PROVE  Sound(q, blocks'[q], head'[q], next', stack'[q], used')
<1>1. Sound(q, blocks[q], head[q], next, stack[q], used) /\ blocks[q] \in Seq(1 .. MaxEntries)
  BY DEF PoolInv, PoolTypeOK
<1>2. \A e \in EntriesOf(q, blocks[q]) : e[1] = q /\ e \in DOMAIN next
  BY <1>1, EntriesShape, InvSays
<1>3. \A e \in EntriesOf(q, blocks[q]) : next'[e] = next[e]
  BY <1>2
<1> QED
  BY <1>1, <1>3, SoundSame

(* The entries that all pools have. *)
LEMMA StaysSound ==
  ASSUME PoolInv, UNCHANGED <<status, blocks, head, next, stack, used>>,
         var' \in [Var -> {NULL} \cup AllEntries],
         orphans' \in [Pools \cup {NULL} -> 0 .. MaxOrphans]
  PROVE  PoolInv'
<1>1. \A p \in Pools : Sound(p, blocks'[p], head'[p], next', stack'[p], used')
  BY DEF PoolInv
<1>2. \A p \in Pools : \A b \in 1 .. Len(blocks'[p]) - 1 : blocks'[p][b] < blocks'[p][b + 1]
  BY DEF PoolInv, PoolTypeOK
<1>3. /\ head' = [p \in Pools |-> head'[p]] /\ stack' = [p \in Pools |-> stack'[p]]
      /\ DOMAIN next' = UNION {EntriesOf(p, blocks'[p]) : p \in Pools}
      /\ used' \subseteq DOMAIN next'
  BY InvSays
<1>4. /\ status' \in [Pools -> {"absent", "live", "destroyed"}]
      /\ blocks' \in [Pools -> Seq(1 .. MaxEntries)]
      /\ \A p \in Pools : blocks'[p] # <<>> <=> status'[p] = "live"
  BY InvSays
<1> QED
  BY <1>1, <1>2, <1>3, <1>4, InvFollows

LEMMA InitHolds == PoolInit => PoolInv
<1> SUFFICES ASSUME PoolInit PROVE PoolInv
  OBVIOUS
<1>1. \A p \in Pools : blocks[p] = <<>> /\ head[p] = NULL /\ stack[p] = <<>>
  BY DEF PoolInit
<1>2. \A p \in Pools : EntriesOf(p, <<>>) = {}
  BY DEF EntriesOf
<1>3. DOMAIN next = {} /\ used = {}
  BY DEF PoolInit
<1>4. ASSUME NEW p \in Pools PROVE Sound(p, blocks[p], head[p], next, stack[p], used)
  <2>1. Sound(p, <<>>, NULL, next, <<>>, {})
    BY <1>2 DEF Sound
  <2> QED
    BY <1>1, <1>3, <2>1
<1>5. PoolTypeOK
  <2>1. DOMAIN next = UNION {Entries(p) : p \in Pools}
    BY <1>1, <1>2, <1>3, EntriesSame
  <2>2. 0 \in 0 .. MaxOrphans
    BY SizeAssumption
  <2> QED
    BY <2>1, <2>2, <1>3 DEF PoolInit, PoolTypeOK
<1> QED
  BY <1>4, <1>5 DEF PoolInv

LEMMA InitPoolHolds ==
  ASSUME PoolInv, NEW p \in Pools, NEW n \in InitSizes, InitPool(p, n)
  PROVE  PoolInv'
<1>1. /\ status[p] = "absent" /\ blocks[p] = <<>>
      /\ n \in 1 .. MaxEntries /\ n \in Nat
      /\ Sound(p, blocks[p], head[p], next, stack[p], used)
  BY SizeAssumption, EntriesFit, InvSays DEF InitPool, CanInit, PoolInv
<1>2. /\ status' = [status EXCEPT ![p] = "live"]
      /\ blocks' = [blocks EXCEPT ![p] = <<n>>]
      /\ head' = [head EXCEPT ![p] = <<p, 1, 1>>]
      /\ next' = Extend(next, Links(p, 1, n))
      /\ stack' = [stack EXCEPT ![p] = [i \in 1 .. n |-> <<p, 1, i>>]]
      /\ UNCHANGED <<var, orphans, used>>
  BY DEF InitPool
<1>3. Append(<<>>, n) = <<n>> /\ Len(<<>>) + 1 = 1 /\ <<>> \in Seq(1 .. MaxEntries)
  BY <1>1
<1>4. stack[p] = <<>> /\ head[p] = NULL
  <2>1. EntriesOf(p, <<>>) = {}
    BY DEF EntriesOf
  <2>2. Len(stack[p]) = 0 /\ stack[p] \in Seq(EntriesOf(p, <<>>))
    BY <1>1, <2>1, SoundFree DEF Sound
  <2> QED
    BY <1>1, <2>2 DEF Sound
<1>5. Sound(p, <<n>>, <<p, 1, 1>>, next', [i \in 1 .. n |-> <<p, 1, i>>], used)
  BY <1>1, <1>2, <1>3, <1>4, NewSound, InvSays
<1>6. Block(p, 1, n) = EntriesOf(p, <<n>>)
  BY <1>3, <1>1, AppendEntries DEF EntriesOf
<1>7. \A e \in Block(p, 1, n) : e[1] = p
  BY DEF Block
<1>8. ASSUME NEW q \in Pools
      PROVE  Sound(q, blocks'[q], head'[q], next', stack'[q], used')
  <2>1. CASE q = p
    BY <1>2, <1>5, <2>1, InvSays
  <2>2. CASE q # p
    <3>1. \A e \in DOMAIN next : e[1] # p => next'[e] = next[e]
      BY <1>2, <1>7 DEF Extend, Links
    <3>2. blocks'[q] = blocks[q] /\ head'[q] = head[q] /\ stack'[q] = stack[q] /\ used' = used
      BY <1>2, <2>2, InvSays
    <3> QED
      BY <2>2, <3>1, <3>2, OthersSound
  <2> QED
    BY <2>1, <2>2
<1>9. DOMAIN next' = UNION {EntriesOf(q, blocks'[q]) : q \in Pools}
  <2>1. DOMAIN next' = DOMAIN next \cup Block(p, 1, n)
    BY <1>2 DEF Extend, Links
  <2>2. \A q \in Pools : EntriesOf(q, blocks'[q])
                           = IF q = p THEN Block(p, 1, n) ELSE EntriesOf(q, blocks[q])
    BY <1>2, <1>6, InvSays
  <2>3. EntriesOf(p, blocks[p]) = {}
    BY <1>1 DEF EntriesOf
  <2>4. DOMAIN next = UNION {EntriesOf(q, blocks[q]) : q \in Pools}
    BY InvSays
  <2> QED
    BY <2>1, <2>2, <2>3, <2>4
<1>10. \A q \in Pools : \A b \in 1 .. Len(blocks'[q]) - 1 : blocks'[q][b] < blocks'[q][b + 1]
  BY <1>2, InvSays DEF PoolInv, PoolTypeOK
<1>11. \A q \in Pools : blocks'[q] # <<>> <=> status'[q] = "live"
  BY <1>2, InvSays
<1>12. /\ status' \in [Pools -> {"absent", "live", "destroyed"}]
       /\ blocks' \in [Pools -> Seq(1 .. MaxEntries)]
  BY <1>1, <1>2, InvSays
<1>13. used' \subseteq DOMAIN next'
  BY <1>2, InvSays DEF Extend
<1>14. head' = [q \in Pools |-> head'[q]] /\ stack' = [q \in Pools |-> stack'[q]]
  BY <1>2, InvSays
<1>15. var' \in [Var -> {NULL} \cup AllEntries] /\ orphans' \in [Pools \cup {NULL} -> 0 .. MaxOrphans]
  BY <1>2, InvSays
<1> QED
  BY <1>8, <1>9, <1>10, <1>11, <1>12, <1>13, <1>14, <1>15, InvFollows

LEMMA GetFreeHolds ==
  ASSUME PoolInv, NEW p \in Pools, NEW v \in Var, GetFree(p, v)
  PROVE  PoolInv'
<1>1. /\ status[p] = "live" /\ head[p] # NULL
      /\ var' = [var EXCEPT ![v] = head[p]]
      /\ head' = [head EXCEPT ![p] = next[head[p]]]
      /\ next' = [next EXCEPT ![head[p]] = p]
      /\ stack' = [stack EXCEPT ![p] = Tail(stack[p])]
      /\ used' = used \cup {head[p]}
      /\ UNCHANGED <<status, blocks, orphans>>
  BY DEF GetFree
<1>2. Sound(p, blocks[p], head[p], next, stack[p], used) /\ blocks[p] \in Seq(1 .. MaxEntries)
  BY InvSays DEF PoolInv
<1>3. head[p] \in DOMAIN next
  BY <1>1 DEF PoolInv, PoolTypeOK
<1>4. /\ head[p] \in EntriesOf(p, blocks[p])
      /\ Sound(p, blocks[p], next[head[p]], next', Tail(stack[p]), used')
  BY <1>1, <1>2, <1>3, GetSound
<1>5. head[p][1] = p
  BY <1>2, <1>4, EntriesShape
<1>6. ASSUME NEW q \in Pools
      PROVE  Sound(q, blocks'[q], head'[q], next', stack'[q], used')
  <2>1. CASE q = p
    BY <1>1, <1>4, <2>1, InvSays
  <2>2. CASE q # p
    <3>1. blocks'[q] = blocks[q] /\ head'[q] = head[q] /\ stack'[q] = stack[q]
      BY <1>1, <2>2, InvSays
    <3>2. \A e \in DOMAIN next : e[1] # p => next'[e] = next[e]
      BY <1>1, <1>5
    <3>3. \A e \in used \cup used' : e[1] # p => (e \in used <=> e \in used')
      BY <1>1, <1>5
    <3> QED
      BY <2>2, <3>1, <3>2, <3>3, OthersSound
  <2> QED
    BY <2>1, <2>2
<1>7. DOMAIN next' = DOMAIN next
  BY <1>1
<1>8. DOMAIN next' = UNION {EntriesOf(q, blocks'[q]) : q \in Pools}
  BY <1>1, <1>7, InvSays
<1>9. used' \subseteq DOMAIN next' /\ var' \in [Var -> {NULL} \cup AllEntries]
  BY <1>1, <1>3, <1>7, InvSays
<1>10. head' = [q \in Pools |-> head'[q]] /\ stack' = [q \in Pools |-> stack'[q]]
  BY <1>1, InvSays
<1>11. \A q \in Pools : \A b \in 1 .. Len(blocks'[q]) - 1 : blocks'[q][b] < blocks'[q][b + 1]
  BY <1>1 DEF PoolInv, PoolTypeOK
<1> QED
  BY <1>1, <1>6, <1>8, <1>9, <1>10, <1>11, InvSays, InvFollows

LEMMA GetGrowHolds ==
  ASSUME PoolInv, NEW p \in Pools, NEW v \in Var, GetGrow(p, v)
  PROVE  PoolInv'
<1> DEFINE sizes == blocks[p]
           n == NextSize(LastSize(p))
           b == Len(sizes) + 1
           e == <<p, b, 1>>
           linked == Extend(next, Links(p, b, n))
           st == [i \in 1 .. n |-> <<p, b, i>>]
<1>1. /\ status[p] = "live" /\ head[p] = NULL /\ CanInit(n)
      /\ blocks' = [blocks EXCEPT ![p] = Append(sizes, n)]
      /\ var' = [var EXCEPT ![v] = e]
      /\ head' = [head EXCEPT ![p] = linked[e]]
      /\ next' = [linked EXCEPT ![e] = p]
      /\ stack' = [stack EXCEPT ![p] = [i \in 1 .. n - 1 |-> <<p, b, i + 1>>]]
      /\ used' = used \cup {e}
      /\ UNCHANGED <<status, orphans>>
  BY DEF GetGrow
<1>2. /\ Sound(p, sizes, NULL, next, stack[p], used)
      /\ sizes \in Seq(1 .. MaxEntries)
      /\ EntriesOf(p, sizes) \subseteq DOMAIN next
  BY <1>1, InvSays DEF PoolInv
<1>3. stack[p] = <<>>
  BY <1>2, NoHead
<1>4. Len(sizes) \in Nat \ {0} /\ LastSize(p) \in 1 .. MaxEntries
  <2>1. sizes # <<>>
    BY <1>1, InvSays
  <2>2. Len(sizes) \in Nat \ {0}
    BY <1>2, <2>1
  <2>3. Len(sizes) \in 1 .. Len(sizes)
    BY <2>2
  <2>4. sizes[Len(sizes)] \in 1 .. MaxEntries
    BY <1>2, <2>3, ElementIn
  <2> QED
    BY <2>2, <2>4 DEF LastSize
<1>5. n \in 1 .. MaxEntries /\ LastSize(p) < n /\ n \in Nat
  BY <1>1, <1>4, Grows, EntriesFit DEF CanInit
<1>6. Block(p, b, n) \subseteq DOMAIN linked /\ DOMAIN linked = DOMAIN next \cup Block(p, b, n)
  BY DEF Extend, Links
<1>7. e \in Block(p, b, n) /\ \A d \in Block(p, b, n) : d[1] = p
  BY <1>5 DEF Block
<1>8. Sound(p, Append(sizes, n), e, linked, st, used)
  BY <1>2, <1>3, <1>5, NewSound
<1>9. e \in Pools \X Nat \X Nat /\ e \in AllEntries
  BY <1>4 DEF AllEntries
<1>10. Append(sizes, n) \in Seq(1 .. MaxEntries)
  BY <1>2, <1>5
<1>11. Tail(st) = [i \in 1 .. n - 1 |-> <<p, b, i + 1>>]
  BY <1>5
<1> HIDE DEF n, b, e, linked, st
<1>12. Sound(p, Append(sizes, n), linked[e], next', Tail(st), used')
  BY <1>1, <1>6, <1>7, <1>8, <1>9, <1>10, EntryIsNoPool, GetSound
<1>13. \A d \in DOMAIN next : d \notin Block(p, b, n) => linked[d] = next[d]
  BY DEF linked, Extend, Links
<1>14. ASSUME NEW q \in Pools
       PROVE  Sound(q, blocks'[q], head'[q], next', stack'[q], used')
  <2>1. CASE q = p
    BY <1>1, <1>11, <1>12, <2>1, InvSays
  <2>2. CASE q # p
    <3>1. blocks'[q] = blocks[q] /\ head'[q] = head[q] /\ stack'[q] = stack[q]
      BY <1>1, <2>2, InvSays
    <3>2. \A d \in DOMAIN next : d[1] # p => next'[d] = next[d]
      BY <1>1, <1>6, <1>7, <1>13
    <3>3. \A d \in used \cup used' : d[1] # p => (d \in used <=> d \in used')
      BY <1>1, <1>7
    <3> QED
      BY <2>2, <3>1, <3>2, <3>3, OthersSound
  <2> QED
    BY <2>1, <2>2
<1>15. DOMAIN next' = DOMAIN next \cup Block(p, b, n)
  BY <1>1, <1>6
<1>16. DOMAIN next' = UNION {EntriesOf(q, blocks'[q]) : q \in Pools}
  <2>1. EntriesOf(p, Append(sizes, n)) = EntriesOf(p, sizes) \cup Block(p, b, n)
    BY <1>2, <1>5, AppendEntries DEF b
  <2>2. \A q \in Pools : EntriesOf(q, blocks'[q])
                           = IF q = p THEN EntriesOf(p, blocks[p]) \cup Block(p, b, n)
                                      ELSE EntriesOf(q, blocks[q])
    BY <1>1, <2>1, InvSays
  <2>3. DOMAIN next = UNION {EntriesOf(q, blocks[q]) : q \in Pools}
    BY InvSays
  <2> QED
    BY <1>15, <2>2, <2>3
<1>17. \A q \in Pools : \A i \in 1 .. Len(blocks'[q]) - 1 : blocks'[q][i] < blocks'[q][i + 1]
  <2> SUFFICES ASSUME NEW q \in Pools, NEW i \in 1 .. Len(blocks'[q]) - 1
               PROVE  blocks'[q][i] < blocks'[q][i + 1]
    OBVIOUS
  <2>1. CASE q # p
    BY <1>1, <2>1 DEF PoolInv, PoolTypeOK
  <2>2. CASE q = p
    <3>1. blocks'[q] = Append(sizes, n)
      BY <1>1, <2>2, InvSays
    <3>2. Len(Append(sizes, n)) = Len(sizes) + 1 /\ i \in 1 .. Len(sizes)
      BY <1>2, <3>1
    <3>3. CASE i = Len(sizes)
      BY <1>2, <1>4, <1>5, <3>1, <3>2, <3>3 DEF LastSize
    <3>4. CASE i # Len(sizes)
      <4>1. sizes[i] < sizes[i + 1]
        <5>1. i \in 1 .. Len(blocks[p]) - 1
          BY <1>4, <3>2, <3>4
        <5> QED
          BY <5>1 DEF PoolInv, PoolTypeOK
      <4> QED
        BY <1>2, <1>4, <3>1, <3>2, <3>4, <4>1
    <3> QED
      BY <3>3, <3>4
  <2> QED
    BY <2>1, <2>2
<1>18. \A q \in Pools : blocks'[q] # <<>> <=> status'[q] = "live"
  <2>1. Append(sizes, n) # <<>>
    <3>1. Len(Append(sizes, n)) = Len(sizes) + 1
      BY <1>2
    <3> QED
      BY <1>4, <3>1
  <2> QED
    BY <1>1, <2>1, InvSays
<1>19. blocks' \in [Pools -> Seq(1 .. MaxEntries)]
  BY <1>1, <1>10, InvSays
<1>20. used' \subseteq DOMAIN next' /\ var' \in [Var -> {NULL} \cup AllEntries]
  BY <1>1, <1>7, <1>9, <1>15, InvSays
<1>21. head' = [q \in Pools |-> head'[q]] /\ stack' = [q \in Pools |-> stack'[q]]
  BY <1>1, InvSays
<1> QED
  BY <1>1, <1>14, <1>16, <1>17, <1>18, <1>19, <1>20, <1>21, InvSays, InvFollows

LEMMA PutHolds ==
  ASSUME PoolInv, NEW p \in Pools, NEW v \in Var, Put(p, v)
  PROVE  PoolInv' /\ var[v][1] = p /\ var[v] \in used
<1> DEFINE e == var[v]
<1>1. /\ e # NULL /\ e \in DOMAIN next /\ next[e] = p
      /\ next' = [next EXCEPT ![e] = head[p]]
      /\ head' = [head EXCEPT ![p] = e]
      /\ var' = [var EXCEPT ![v] = NULL]
      /\ stack' = [stack EXCEPT ![p] = <<e>> \o stack[p]]
      /\ used' = used \ {e}
      /\ UNCHANGED <<status, blocks, orphans>>
  BY DEF Put, Usable, InUse
<1>2. PICK o \in Pools : e \in EntriesOf(o, blocks[o])
  BY <1>1, InvSays
<1>3. Sound(o, blocks[o], head[o], next, stack[o], used) /\ blocks[o] \in Seq(1 .. MaxEntries)
  BY InvSays DEF PoolInv
<1>4. e \in used /\ o = p /\ e[1] = p
  <2>1. e[1] = o
    BY <1>2, <1>3, EntriesShape
  <2>2. ASSUME NEW i \in 1 .. Len(stack[o]), stack[o][i] = e PROVE FALSE
    <3>1. next[e] = IF i = Len(stack[o]) THEN NULL ELSE stack[o][i + 1]
      BY <1>3, <2>2 DEF Sound
    <3>2. i # Len(stack[o]) => stack[o][i + 1] \in EntriesOf(o, blocks[o])
      BY <1>3, SoundFree
    <3> QED
      BY <1>1, <1>3, <3>1, <3>2, EntriesShape, EntryIsNoPool, NullAssumption
  <2>3. e \in used
    BY <1>2, <1>3, <2>2 DEF Sound
  <2> QED
    BY <1>1, <1>3, <2>1, <2>3 DEF Sound
<1>5. Sound(p, blocks[p], e, next', <<e>> \o stack[p], used')
  BY <1>1, <1>2, <1>3, <1>4, PutSound
<1>6. ASSUME NEW q \in Pools
      PROVE  Sound(q, blocks'[q], head'[q], next', stack'[q], used')
  <2>1. CASE q = p
    BY <1>1, <1>5, <2>1, InvSays
  <2>2. CASE q # p
    <3>1. blocks'[q] = blocks[q] /\ head'[q] = head[q] /\ stack'[q] = stack[q]
      BY <1>1, <2>2, InvSays
    <3>2. \A d \in DOMAIN next : d[1] # p => next'[d] = next[d]
      BY <1>1, <1>4
    <3>3. \A d \in used \cup used' : d[1] # p => (d \in used <=> d \in used')
      BY <1>1, <1>4
    <3> QED
      BY <2>2, <3>1, <3>2, <3>3, OthersSound
  <2> QED
    BY <2>1, <2>2
<1>7. DOMAIN next' = DOMAIN next
  BY <1>1
<1>8. DOMAIN next' = UNION {EntriesOf(q, blocks'[q]) : q \in Pools}
  BY <1>1, <1>7, InvSays
<1>9. used' \subseteq DOMAIN next' /\ var' \in [Var -> {NULL} \cup AllEntries]
  BY <1>1, <1>7, InvSays
<1>10. head' = [q \in Pools |-> head'[q]] /\ stack' = [q \in Pools |-> stack'[q]]
  BY <1>1, InvSays
<1>11. \A q \in Pools : \A b \in 1 .. Len(blocks'[q]) - 1 : blocks'[q][b] < blocks'[q][b + 1]
  BY <1>1 DEF PoolInv, PoolTypeOK
<1> QED
  BY <1>1, <1>4, <1>6, <1>8, <1>9, <1>10, <1>11, InvSays, InvFollows

LEMMA DestroyHolds ==
  ASSUME PoolInv, NEW p \in Pools, Destroy(p)
  PROVE  PoolInv' /\ \A e \in used \ used' : e[1] = p
<1>1. /\ status[p] = "live" /\ status' = [status EXCEPT ![p] = "destroyed"]
      /\ next' = [e \in DOMAIN next \ EntriesOf(p, blocks[p]) |-> next[e]]
      /\ blocks' = [blocks EXCEPT ![p] = <<>>]
      /\ head' = [head EXCEPT ![p] = NULL]
      /\ stack' = [stack EXCEPT ![p] = <<>>]
      /\ used' = used \ EntriesOf(p, blocks[p])
      /\ UNCHANGED <<var, orphans>>
  BY EntriesSame DEF Destroy
<1>2. \A q \in Pools : \A e \in EntriesOf(q, blocks[q]) : e[1] = q
  <2> SUFFICES ASSUME NEW q \in Pools PROVE \A e \in EntriesOf(q, blocks[q]) : e[1] = q
    OBVIOUS
  <2>1. blocks[q] \in Seq(1 .. MaxEntries)
    BY InvSays
  <2> QED
    BY <2>1, EntriesShape
<1>3. EntriesOf(p, <<>>) = {}
  BY DEF EntriesOf
<1>4. \A e \in used : e[1] = p => e \in EntriesOf(p, blocks[p])
  BY DEF PoolInv, Sound
<1>5. Sound(p, <<>>, NULL, next', <<>>, used')
  BY <1>1, <1>3, <1>4 DEF Sound
<1>6. ASSUME NEW q \in Pools
      PROVE  Sound(q, blocks'[q], head'[q], next', stack'[q], used')
  <2>1. CASE q = p
    BY <1>1, <1>5, <2>1, InvSays
  <2>2. CASE q # p
    <3>1. blocks'[q] = blocks[q] /\ head'[q] = head[q] /\ stack'[q] = stack[q]
      BY <1>1, <2>2, InvSays
    <3>2. \A d \in DOMAIN next : d[1] # p => next'[d] = next[d]
      BY <1>1, <1>2
    <3>3. \A d \in used \cup used' : d[1] # p => (d \in used <=> d \in used')
      BY <1>1, <1>2
    <3> QED
      BY <2>2, <3>1, <3>2, <3>3, OthersSound
  <2> QED
    BY <2>1, <2>2
<1>7. DOMAIN next' = UNION {EntriesOf(q, blocks'[q]) : q \in Pools}
  <2>1. DOMAIN next' = DOMAIN next \ EntriesOf(p, blocks[p])
    BY <1>1
  <2>2. \A q \in Pools : EntriesOf(q, blocks'[q]) = IF q = p THEN {} ELSE EntriesOf(q, blocks[q])
    BY <1>1, <1>3, InvSays
  <2>3. DOMAIN next = UNION {EntriesOf(q, blocks[q]) : q \in Pools}
    BY InvSays
  <2>4. \A q \in Pools : q # p => EntriesOf(q, blocks[q]) \cap EntriesOf(p, blocks[p]) = {}
    BY <1>2
  <2> QED
    BY <2>1, <2>2, <2>3, <2>4
<1>8. \A q \in Pools : \A b \in 1 .. Len(blocks'[q]) - 1 : blocks'[q][b] < blocks'[q][b + 1]
  <2> SUFFICES ASSUME NEW q \in Pools, NEW b \in 1 .. Len(blocks'[q]) - 1
               PROVE  blocks'[q][b] < blocks'[q][b + 1]
    OBVIOUS
  <2>1. CASE q = p
    <3>1. blocks'[q] = <<>>
      BY <1>1, <2>1, InvSays
    <3> QED
      BY <3>1
  <2>2. CASE q # p
    BY <1>1, <2>2 DEF PoolInv, PoolTypeOK
  <2> QED
    BY <2>1, <2>2
<1>9. \A q \in Pools : blocks'[q] # <<>> <=> status'[q] = "live"
  BY <1>1, InvSays
<1>10. /\ status' \in [Pools -> {"absent", "live", "destroyed"}]
       /\ blocks' \in [Pools -> Seq(1 .. MaxEntries)]
  BY <1>1, InvSays
<1>11. used' \subseteq DOMAIN next'
  BY <1>1, InvSays
<1>12. head' = [q \in Pools |-> head'[q]] /\ stack' = [q \in Pools |-> stack'[q]]
  BY <1>1, InvSays
<1>13. PoolInv'
  BY <1>1, <1>6, <1>7, <1>8, <1>9, <1>10, <1>11, <1>12, InvSays, InvFollows
<1> QED
  BY <1>1, <1>2, <1>13

(* A failed call leaves at most one more struct behind. *)
LEMMA OrphansCounted ==
  ASSUME PoolInv, NEW o \in Pools \cup {NULL}, InitFails(o) \/ UNCHANGED orphans
  PROVE  orphans' \in [Pools \cup {NULL} -> 0 .. MaxOrphans]
<1>1. orphans \in [Pools \cup {NULL} -> 0 .. MaxOrphans] /\ MaxOrphans \in Nat
  BY InvSays, SizeAssumption
<1>2. CASE UNCHANGED orphans
  BY <1>1, <1>2
<1>3. CASE orphans[o] < MaxOrphans /\ orphans' = [orphans EXCEPT ![o] = @ + 1]
  BY <1>1, <1>3
<1> QED
  BY <1>2, <1>3 DEF InitFails

-----------------------------------------------------------------------------
(* The theorems *)

LEMMA InvHolds == PoolInv /\ [PoolNext]_poolVars => PoolInv'
<1> SUFFICES ASSUME PoolInv, [PoolNext]_poolVars PROVE PoolInv'
  OBVIOUS
<1>1. ASSUME NEW p \in Pools, NEW n \in InitSizes, InitPool(p, n) PROVE PoolInv'
  BY <1>1, InitPoolHolds
<1>2. ASSUME NEW p \in Pools, NEW n \in InitSizes, InitPoolFails(p, n) PROVE PoolInv'
  BY <1>2, OrphansCounted, StaysSound, InvSays DEF InitPoolFails
<1>3. ASSUME NEW p \in Pools, NEW v \in Var, GetFree(p, v) PROVE PoolInv'
  BY <1>3, GetFreeHolds
<1>4. ASSUME NEW p \in Pools, NEW v \in Var, GetGrow(p, v) PROVE PoolInv'
  BY <1>4, GetGrowHolds
<1>5. ASSUME NEW p \in Pools, NEW v \in Var, GetFails(p, v) PROVE PoolInv'
  <2>1. orphans' \in [Pools \cup {NULL} -> 0 .. MaxOrphans]
    BY <1>5, OrphansCounted DEF GetFails
  <2>2. var' \in [Var -> {NULL} \cup AllEntries]
    BY <1>5, InvSays DEF GetFails
  <2> QED
    BY <1>5, <2>1, <2>2, StaysSound DEF GetFails
<1>6. ASSUME NEW p \in Pools, NEW v \in Var, Put(p, v) PROVE PoolInv'
  BY <1>6, PutHolds
<1>7. ASSUME NEW p \in Pools, Destroy(p) PROVE PoolInv'
  BY <1>7, DestroyHolds
<1>8. ASSUME NEW v \in Var, NEW w \in Var, Copy(v, w) PROVE PoolInv'
  <2>1. var' \in [Var -> {NULL} \cup AllEntries]
    BY <1>8, InvSays DEF Copy
  <2> QED
    BY <1>8, <2>1, StaysSound, InvSays DEF Copy
<1>9. CASE UNCHANGED poolVars
  BY <1>9, StaysSound, InvSays DEF poolVars
<1>10. ASSUME NEW p \in Pools, NEW v \in Var, PutRefused(p, v) PROVE PoolInv'
  BY <1>9, <1>10 DEF PutRefused
<1> QED
  BY <1>1, <1>2, <1>3, <1>4, <1>5, <1>6, <1>7, <1>8, <1>9, <1>10 DEF PoolNext

(* The invariant holds in every state the pools can reach. *)
THEOREM Inductive == PoolSpec => []PoolInv
<1>1. PoolInit => PoolInv
  BY InitHolds
<1>2. PoolInv /\ [PoolNext]_poolVars => PoolInv'
  BY InvHolds
<1> QED
  BY <1>1, <1>2, PTL DEF PoolSpec

(* The free list of every pool is the stack of its free entries, for all sizes and
   growth: pool_get hands out what pool_put took back last. *)
THEOREM ListIsStack == PoolSpec => []FreeListIsStack
<1>1. PoolInv => FreeListIsStack
  BY SoundSays DEF PoolInv
<1> QED
  BY <1>1, Inductive, PTL

(* No entry is lost or handed out twice: it is free, once, or in use and marked. *)
THEOREM NoEntryLost == PoolSpec => []FreeOrInUse
<1>1. PoolInv => FreeOrInUse
  BY SoundSays DEF PoolInv
<1> QED
  BY <1>1, Inductive, PTL

(* An entry in use stays so until a pointer to it is put into its own pool or that
   pool is destroyed, whatever the program does with other pointers. *)
THEOREM EntryKept == PoolSpec => UsedUntilPut
<1> DEFINE Kept == \A e \in used \ used' :
                     \/ status'[e[1]] = "destroyed"
                     \/ head'[e[1]] = e /\ \E v \in Var : var[v] = e /\ var'[v] = NULL
<1>1. PoolInv /\ [PoolNext]_poolVars => [Kept]_poolVars
  <2> SUFFICES ASSUME PoolInv, PoolNext, NEW e \in used \ used'
               PROVE  \/ status'[e[1]] = "destroyed"
                      \/ head'[e[1]] = e /\ \E v \in Var : var[v] = e /\ var'[v] = NULL
    BY DEF poolVars
  <2>1. ASSUME NEW p \in Pools, NEW v \in Var, Put(p, v)
        PROVE  head'[e[1]] = e /\ var[v] = e /\ var'[v] = NULL
    <3>1. e = var[v]
      BY <2>1 DEF Put
    <3>2. e[1] = p
      BY <2>1, <3>1, PutHolds
    <3> QED
      BY <2>1, <3>1, <3>2, InvSays DEF Put
  <2>2. ASSUME NEW p \in Pools, Destroy(p) PROVE status'[e[1]] = "destroyed"
    <3>1. e[1] = p
      BY <2>2, DestroyHolds
    <3>2. status' = [status EXCEPT ![p] = "destroyed"]
      BY <2>2 DEF Destroy
    <3> QED
      BY <3>1, <3>2, InvSays
  <2>3. (\E p \in Pools, v \in Var : Put(p, v)) \/ (\E p \in Pools : Destroy(p))
    BY DEF PoolNext, InitPool, InitPoolFails, GetFree, GetGrow, GetFails, PutRefused, Copy, poolVars
  <2> QED
    BY <2>1, <2>2, <2>3
<1> QED
  BY <1>1, Inductive, PTL DEF PoolSpec, UsedUntilPut

=============================================================================
