-------------------------------- MODULE Chan --------------------------------
(* The channel of src/include/chan.h: a bounded queue shared by any number of
   threads, without locks.  Each atomic load, exchange and compare-and-swap of
   the code is one action, so that the threads interleave between any two of
   them, and so are the plain read and write of a slot between them.

   The counters only grow.  A sender claims the position head1, writes its slot
   and publishes it by advancing head0; a receiver claims the position tail1,
   reads its slot and releases it by advancing tail0.

   The code's int64_t counters do not wrap in any execution of reasonable
   length: they are naturals here.  "p & mask" is p % slots, slots being a power
   of two.  A weak compare-and-swap may fail although the counter has the
   expected value: in the claims this is the disjunct that starts over, in the
   publish loops it changes nothing.  chan_wait and chan_backoff only pass time.

   sent, calls, late and closeRaced are history variables. *)
EXTENDS Integers, Sequences, FiniteSets

CONSTANTS Thread,      \* the threads that use the channel
          Ops,         \* Ops[t]: the operations thread t calls
          Capacities,  \* capacities passed to chan_init
          MaxSends     \* bound: calls of send and trysend

ASSUME ThreadAssumption == IsFiniteSet(Thread)
ASSUME CapacitiesAssumption == Capacities \subseteq Nat \ {0}
ASSUME MaxSendsAssumption == MaxSends \in Nat

Value == 1 .. MaxSends   \* the k-th send call sends k
NoValue == 0

VARIABLES capacity, slots, closed, head1, head0, tail1, tail0,  \* CHAN
          data,        \* the slot array
          pc,          \* pc[t]: where thread t is
          call,        \* call[t]: the function it is in
          pos,         \* pos[t]: its local head1 or tail1
          val,         \* val[t]: the value it sends or has received
          ret,         \* ret[t]: what its last call returned
          sent,        \* sent[p + 1]: the value of the sender that claimed p
          calls,       \* how many send calls have started
          late,        \* threads whose current call started on a closed channel
          closeRaced   \* was the channel closed while a send was in progress?

shape    == <<capacity, slots>>
counters == <<head1, head0, tail1, tail0>>
thread   == <<pc, call, pos, val, ret>>
history  == <<calls, late, closeRaced>>
vars     == <<shape, closed, counters, data, thread, sent, history>>

SendOps == {"send", "trysend"}
RecvOps == {"recv", "tryrecv"}
SendPC  == {"sendClosed", "sendHead1", "sendTail0", "sendClaim", "sendWrite", "sendPublish"}
RecvPC  == {"recvTail1", "recvHead0", "recvClosed", "recvAgain", "recvClaim", "recvRead",
            "recvRelease"}

IsPowerOfTwo(n) == \E k \in 0 .. n : n = 2 ^ k

\* Mutant: the rounding loop stops one short of the capacity.
SlotCountsShort(cap) == {n \in 1 .. cap : n >= cap - 1 /\ IsPowerOfTwo(n)}

(* The smallest power of two that is at least the capacity. *)
SlotCounts(cap) == {n \in cap .. 2 * cap - 1 : IsPowerOfTwo(n)}

(* chan_init: the slots are not initialized. *)
Init == /\ capacity \in Capacities
        /\ slots \in SlotCounts(capacity)
        /\ closed = FALSE
        /\ head1 = 0 /\ head0 = 0 /\ tail1 = 0 /\ tail0 = 0
        /\ data = [i \in 0 .. slots - 1 |-> NoValue]
        /\ pc = [t \in Thread |-> "idle"]
        /\ call = [t \in Thread |-> "none"]
        /\ pos = [t \in Thread |-> 0]
        /\ val = [t \in Thread |-> NoValue]
        /\ ret = [t \in Thread |-> "none"]
        /\ sent = <<>>
        /\ calls = 0
        /\ late = {}
        /\ closeRaced = FALSE

Slot(p) == p % slots

-----------------------------------------------------------------------------
(* Steps of a thread inside a call. *)

Goto(t, label) == /\ pc' = [pc EXCEPT ![t] = label]
                  /\ UNCHANGED <<call, pos, val, ret, shape, history>>

(* Load a counter into the local variable and go on. *)
Load(t, label, counter) == /\ pc' = [pc EXCEPT ![t] = label]
                           /\ pos' = [pos EXCEPT ![t] = counter]
                           /\ UNCHANGED <<call, val, ret, shape, history>>

Return(t, rc) == /\ pc' = [pc EXCEPT ![t] = "idle"]
                    /\ call' = [call EXCEPT ![t] = "none"]
                    /\ pos' = [pos EXCEPT ![t] = 0]
                    /\ val' = [val EXCEPT ![t] = NoValue]
                    /\ ret' = [ret EXCEPT ![t] = rc]
                    /\ late' = late \ {t}
                    /\ UNCHANGED <<shape, calls, closeRaced>>

Begin(t, op, label, v) == /\ pc[t] = "idle"
                          /\ pc' = [pc EXCEPT ![t] = label]
                          /\ call' = [call EXCEPT ![t] = op]
                          /\ val' = [val EXCEPT ![t] = v]
                          /\ ret' = [ret EXCEPT ![t] = "none"]
                          /\ late' = IF closed THEN late \cup {t} ELSE late
                          /\ UNCHANGED <<pos, shape, closed, counters, data, sent, closeRaced>>

-----------------------------------------------------------------------------
(* trysend, and send, which calls it until the answer is not CHAN_FULL. *)

CallSend(t, op) == /\ op \in Ops[t]
                   /\ calls < MaxSends
                   /\ calls' = calls + 1
                   /\ Begin(t, op, "sendClosed", calls + 1)

SendLoadClosed(t) == /\ pc[t] = "sendClosed"
                     /\ \/ closed /\ Return(t, "CLOSED")
                        \/ ~closed /\ Goto(t, "sendHead1")
                     /\ UNCHANGED <<closed, counters, data, sent>>

SendLoadHead1(t) == /\ pc[t] = "sendHead1"
                    /\ Load(t, "sendTail0", head1)
                    /\ UNCHANGED <<closed, counters, data, sent>>

\* Mutants: one position too many, one too few, room counted from the positions
\* claimed by receivers instead of those they have released.
SendLoadTail0Room(t, limit) ==
  /\ pc[t] = "sendTail0"
  /\ \/ pos[t] # limit /\ Goto(t, "sendClaim")
     \/ pos[t] = limit /\ call[t] = "trysend" /\ Return(t, "FULL")
     \/ pos[t] = limit /\ call[t] = "send" /\ Load(t, "sendClosed", 0)
  /\ UNCHANGED <<closed, counters, data, sent>>
SendLoadTail0More(t) == SendLoadTail0Room(t, tail0 + capacity + 1)
SendLoadTail0Fewer(t) == SendLoadTail0Room(t, tail0 + capacity - 1)
SendLoadTail1(t) == SendLoadTail0Room(t, tail1 + capacity)

SendLoadTail0(t) == /\ pc[t] = "sendTail0"
                    /\ \/ /\ pos[t] # tail0 + capacity
                          /\ Goto(t, "sendClaim")
                       \/ /\ pos[t] = tail0 + capacity
                          /\ call[t] = "trysend"
                          /\ Return(t, "FULL")
                       \/ /\ pos[t] = tail0 + capacity
                          /\ call[t] = "send"
                          /\ Load(t, "sendClosed", 0)
                    /\ UNCHANGED <<closed, counters, data, sent>>

\* Mutant: a fetch-and-add instead of the compare-and-swap.
SendClaimAdd(t) == /\ pc[t] = "sendClaim"
                   /\ head1' = head1 + 1
                   /\ sent' = Append(sent, val[t])
                   /\ Load(t, "sendWrite", head1)
                   /\ UNCHANGED <<closed, head0, tail1, tail0, data>>

SendClaim(t) == /\ pc[t] = "sendClaim"
                /\ head1 = pos[t]
                /\ head1' = pos[t] + 1
                /\ sent' = Append(sent, val[t])
                /\ Goto(t, "sendWrite")
                /\ UNCHANGED <<closed, head0, tail1, tail0, data>>

SendLoseClaim(t) == /\ pc[t] = "sendClaim"
                    /\ Load(t, "sendClosed", 0)
                    /\ UNCHANGED <<closed, counters, data, sent>>

SendWrite(t) == /\ pc[t] = "sendWrite"
                /\ data' = [data EXCEPT ![Slot(pos[t])] = val[t]]
                /\ Goto(t, "sendPublish")
                /\ UNCHANGED <<closed, counters, sent>>

\* Mutants: publish without waiting for the earlier senders; publish all
\* claimed positions at once.
SendPublishAdd(t) == /\ pc[t] = "sendPublish"
                     /\ head0' = head0 + 1
                     /\ Return(t, "SUCCESS")
                     /\ UNCHANGED <<closed, head1, tail1, tail0, data, sent>>
SendPublishAll(t) == /\ pc[t] = "sendPublish"
                     /\ head0 = pos[t]
                     /\ head0' = head1
                     /\ Return(t, "SUCCESS")
                     /\ UNCHANGED <<closed, head1, tail1, tail0, data, sent>>

SendPublish(t) == /\ pc[t] = "sendPublish"
                  /\ head0 = pos[t]
                  /\ head0' = pos[t] + 1
                  /\ Return(t, "SUCCESS")
                  /\ UNCHANGED <<closed, head1, tail1, tail0, data, sent>>

-----------------------------------------------------------------------------
(* tryrecv, and recv, which calls it until the answer is not CHAN_EMPTY. *)

CallRecv(t, op) == /\ op \in Ops[t]
                   /\ Begin(t, op, "recvTail1", NoValue)
                   /\ UNCHANGED calls

RecvLoadTail1(t) == /\ pc[t] = "recvTail1"
                    /\ Load(t, "recvHead0", tail1)
                    /\ UNCHANGED <<closed, counters, data, sent>>

\* Mutant: looks at the claimed positions instead of the published ones.
RecvLoadHead1(t) == /\ pc[t] = "recvHead0"
                    /\ \/ pos[t] = head1 /\ Goto(t, "recvClosed")
                       \/ pos[t] # head1 /\ Goto(t, "recvClaim")
                    /\ UNCHANGED <<closed, counters, data, sent>>

RecvLoadHead0(t) == /\ pc[t] = "recvHead0"
                    /\ \/ pos[t] = head0 /\ Goto(t, "recvClosed")
                       \/ pos[t] # head0 /\ Goto(t, "recvClaim")
                    /\ UNCHANGED <<closed, counters, data, sent>>

\* Mutants: CHAN_CLOSED without the second look at head0; a recv that keeps
\* waiting on a closed channel.
RecvLoadClosedOnce(t) == /\ pc[t] = "recvClosed"
                         /\ \/ closed /\ Return(t, "CLOSED")
                            \/ ~closed /\ call[t] = "tryrecv" /\ Return(t, "EMPTY")
                            \/ ~closed /\ call[t] = "recv" /\ Load(t, "recvTail1", 0)
                         /\ UNCHANGED <<closed, counters, data, sent>>
RecvIgnoresClosed(t) == /\ pc[t] = "recvClosed"
                        /\ \/ call[t] = "tryrecv" /\ Return(t, "EMPTY")
                           \/ call[t] = "recv" /\ Load(t, "recvTail1", 0)
                        /\ UNCHANGED <<closed, counters, data, sent>>

RecvLoadClosed(t) == /\ pc[t] = "recvClosed"
                     /\ \/ closed /\ Goto(t, "recvAgain")
                        \/ /\ ~closed
                           /\ call[t] = "tryrecv"
                           /\ Return(t, "EMPTY")
                        \/ /\ ~closed
                           /\ call[t] = "recv"
                           /\ Load(t, "recvTail1", 0)
                     /\ UNCHANGED <<closed, counters, data, sent>>

RecvLoadHead0Again(t) == /\ pc[t] = "recvAgain"
                         /\ \/ pos[t] = head0 /\ Return(t, "CLOSED")
                            \/ pos[t] # head0 /\ Load(t, "recvTail1", 0)
                         /\ UNCHANGED <<closed, counters, data, sent>>

RecvClaim(t) == /\ pc[t] = "recvClaim"
                /\ tail1 = pos[t]
                /\ tail1' = pos[t] + 1
                /\ Goto(t, "recvRead")
                /\ UNCHANGED <<closed, head1, head0, tail0, data, sent>>

RecvLoseClaim(t) == /\ pc[t] = "recvClaim"
                    /\ Load(t, "recvTail1", 0)
                    /\ UNCHANGED <<closed, counters, data, sent>>

RecvRead(t) == /\ pc[t] = "recvRead"
               /\ pc' = [pc EXCEPT ![t] = "recvRelease"]
               /\ val' = [val EXCEPT ![t] = data[Slot(pos[t])]]
               /\ UNCHANGED <<call, pos, ret, shape, history, closed, counters, data, sent>>

RecvRelease(t) == /\ pc[t] = "recvRelease"
                  /\ tail0 = pos[t]
                  /\ tail0' = pos[t] + 1
                  /\ Return(t, "SUCCESS")
                  /\ UNCHANGED <<closed, head1, head0, tail1, data, sent>>

-----------------------------------------------------------------------------
(* close: one atomic exchange.  Any thread may call it at any time; its contract
   (not while a send is in progress) is not assumed but remembered. *)
Close(t) == /\ "close" \in Ops[t]
            /\ pc[t] = "idle"
            /\ closed' = TRUE
            /\ ret' = [ret EXCEPT ![t] = IF closed THEN "CLOSED" ELSE "SUCCESS"]
            /\ closeRaced' = (closeRaced \/ \E u \in Thread : ~closed /\ pc[u] \in SendPC)
            /\ UNCHANGED <<pc, call, pos, val, shape, counters, data, sent, calls, late>>

(* The steps of a call after its start, but for the lost claims. *)
Proceed(t) ==
  \/ SendLoadClosed(t) \/ SendLoadHead1(t) \/ SendLoadTail0(t)
  \/ SendClaim(t) \/ SendWrite(t) \/ SendPublish(t)
  \/ RecvLoadTail1(t) \/ RecvLoadHead0(t) \/ RecvLoadClosed(t) \/ RecvLoadHead0Again(t)
  \/ RecvClaim(t) \/ RecvRead(t) \/ RecvRelease(t)

Step(t) == \/ \E op \in SendOps : CallSend(t, op)
           \/ \E op \in RecvOps : CallRecv(t, op)
           \/ Close(t)
           \/ Proceed(t)
           \/ SendLoseClaim(t) \/ RecvLoseClaim(t)

Next == \E t \in Thread : Step(t)

Spec == Init /\ [][Next]_vars
-----------------------------------------------------------------------------
(* Properties *)

Labels == {"idle"} \cup SendPC \cup RecvPC

\* Every variable has its type; the history of claims is as long as head1.
TypeOK == /\ capacity \in Nat \ {0}
          /\ slots \in Nat /\ slots >= capacity
          /\ closed \in BOOLEAN /\ closeRaced \in BOOLEAN
          /\ head1 \in Nat /\ head0 \in Nat /\ tail1 \in Nat /\ tail0 \in Nat
          /\ data \in [0 .. slots - 1 -> Value \cup {NoValue}]
          /\ pc \in [Thread -> Labels]
          /\ call \in [Thread -> {"none"} \cup SendOps \cup RecvOps]
          /\ \A t \in Thread : /\ (call[t] = "none") <=> (pc[t] = "idle")
                               /\ (call[t] \in SendOps) <=> (pc[t] \in SendPC)
          /\ pos \in [Thread -> Nat]
          /\ val \in [Thread -> Value \cup {NoValue}]
          /\ \A t \in Thread : pc[t] \in SendPC => val[t] \in Value
          /\ ret \in [Thread -> {"none", "SUCCESS", "FULL", "EMPTY", "CLOSED"}]
          /\ sent \in Seq(Value) /\ Len(sent) = head1
          /\ calls \in 0 .. MaxSends
          /\ late \subseteq Thread

\* The comment on CHAN (tail0 <= tail1 <= head0 <= head1), and the channel never
\* holds more than capacity positions, whatever the order of the claims and of
\* the publications.
CounterOrder == /\ tail0 <= tail1
                /\ tail1 <= head0
                /\ head0 <= head1
                /\ head1 <= tail0 + capacity

\* The two CS_ASSERTs of trysend and tryrecv compare a fresh counter with one
\* loaded earlier, which other threads may have advanced since: they hold.
AssertsHold == \A t \in Thread :
                  /\ pc[t] = "recvHead0" => pos[t] <= head0
                  /\ pc[t] = "sendTail0" => pos[t] <= tail0 + capacity

Writing(t) == pc[t] = "sendWrite"
Reading(t) == pc[t] = "recvRead"

\* No data race on a slot: while a thread is about to write a slot no other
\* thread is about to read or to write the same slot, although the accesses
\* themselves are not atomic.
NoSlotClash == \A t, u \in Thread :
                  t # u /\ Writing(t) /\ (Writing(u) \/ Reading(u))
                     => Slot(pos[t]) # Slot(pos[u])

\* A receiver that claimed a position finds in its slot, and then hands over,
\* the value that the sender of that position sent: nothing is lost, doubled or
\* torn when slots are reused.
ReadsWhatWasSent == \A t \in Thread :
                       /\ pc[t] = "recvRead" => data[Slot(pos[t])] = sent[pos[t] + 1]
                       /\ pc[t] = "recvRelease" => val[t] = sent[pos[t] + 1]

\* doc/chan.md, close: if no send was in progress when the channel was closed,
\* a receiver is told CHAN_CLOSED only when every value sent has been taken, even
\* if the last send landed between its first look at head0 and its look at
\* closed.
ClosedMeansDrained ==
  [][\A t \in Thread : pc[t] \in RecvPC /\ ret'[t] = "CLOSED" /\ ~closeRaced
                          => tail1 = head1]_vars

(* The channel implements the bounded FIFO queue: the queue is what is between
   tail1 and head0; a claimed receive has its value before it has read it, and
   one that saw tail1 = head0 has found nothing. *)
Found(t) == CASE pc[t] = "recvRead" -> sent[pos[t] + 1]
              [] pc[t] \in {"recvClosed", "recvAgain"} -> -1
              [] OTHER -> val[t]

Queue == INSTANCE BoundedFIFO WITH
           queue <- SubSeq(sent, tail1 + 1, head0),
           arg <- [t \in Thread |-> Found(t)],
           Nothing <- -1

\* Every call has the effect and the answer of the abstract queue at one moment
\* between its start and its return.
ImplementsFIFO == Queue!Spec

-----------------------------------------------------------------------------
(* Progress.  The scheduler runs every thread that can run, and a weak
   compare-and-swap on a counter nobody changes does not fail for ever. *)
Claim(t) == SendClaim(t) \/ RecvClaim(t)

Fairness == \A t \in Thread : /\ WF_vars(Proceed(t) \/ SendLoseClaim(t) \/ RecvLoseClaim(t))
                              /\ SF_vars(Claim(t))

FairSpec == Spec /\ Fairness

\* A sender that has claimed a position publishes it and returns, although it
\* has to wait for all senders of earlier positions; so do receivers.
ClaimsComplete ==
  \A t \in Thread : /\ (pc[t] \in {"sendWrite", "sendPublish"}) ~> (pc[t] = "idle")
                    /\ (pc[t] \in {"recvRead", "recvRelease"}) ~> (pc[t] = "idle")

\* Once the channel is closed, every call in progress returns, the blocking ones
\* included.
CloseReleasesAll == \A t \in Thread : (closed /\ pc[t] # "idle") ~> (pc[t] = "idle")

WantsToSend(t) == pc[t] \in SendPC \ {"sendWrite", "sendPublish"}
WantsToRecv(t) == pc[t] \in RecvPC \ {"recvRead", "recvRelease"}

\* No receiver stays without a value while there is one to take, and no sender
\* without a position while there is room: of several that compete, each lost
\* claim is another thread's success, and at most MaxSends claims succeed.
NobodyStarves ==
  \A t \in Thread : /\ []<>~(WantsToRecv(t) /\ tail1 < head0)
                    /\ []<>~(WantsToSend(t) /\ head1 < tail0 + capacity)

=============================================================================
