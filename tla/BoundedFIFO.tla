---------------------------- MODULE BoundedFIFO ----------------------------
(* What a channel (src/include/chan.h, doc/chan.md) promises to the threads
   that share it: a FIFO queue of at most capacity values.  A call starts, takes
   effect in one step at some moment before it returns, and returns.

   A successful send takes effect as it returns; a successful receive takes the
   head of the queue in one step (Take) and hands it over in another
   (Deliver); one that finds the queue empty (FindNothing) may answer CHAN_EMPTY
   later, or look again (Retry).  Two answers are weaker than those of a sequential queue:
   CHAN_FULL may also be answered when calls of other threads that are still in
   progress hold the remaining room, and a send that started before the channel
   was closed may still succeed or find it full; one that starts later is told that
   the channel is closed. *)
EXTENDS Naturals, Sequences, FiniteSets

CONSTANTS Thread,      \* the threads that use the channel
          Capacities,  \* the capacities a channel may be created with
          Value,       \* what can be sent
          NoValue,     \* "no value"
          Nothing      \* "there was nothing to receive"

VARIABLES capacity,    \* the most values the channel holds
          queue,       \* the values it holds, oldest first
          closed,      \* has it been closed?
          call,        \* call[t]: the operation t is executing, or "none"
          arg,         \* arg[t]: the value t is sending, or what it has found
          ret,         \* ret[t]: what t's last call returned
          late         \* threads whose current call started on a closed channel

vars == <<capacity, queue, closed, call, arg, ret, late>>

SendOps == {"send", "trysend"}
RecvOps == {"recv", "tryrecv"}

Init == /\ capacity \in Capacities
        /\ queue = <<>>
        /\ closed = FALSE
        /\ call = [t \in Thread |-> "none"]
        /\ arg = [t \in Thread |-> NoValue]
        /\ ret = [t \in Thread |-> "none"]
        /\ late = {}

Return(t, rc) == /\ call' = [call EXCEPT ![t] = "none"]
                    /\ ret' = [ret EXCEPT ![t] = rc]
                    /\ arg' = [arg EXCEPT ![t] = NoValue]
                    /\ late' = late \ {t}
                    /\ UNCHANGED capacity

(* Calls of other threads that may hold room: sends in progress, and receives
   that have taken a value and not yet handed it over. *)
HoldingRoom(t) == {u \in Thread \ {t} : \/ call[u] \in SendOps
                                        \/ call[u] \in RecvOps /\ arg[u] \in Value}

Call(t, op, v) == /\ call[t] = "none"
                  /\ call' = [call EXCEPT ![t] = op]
                  /\ arg' = [arg EXCEPT ![t] = v]
                  /\ ret' = [ret EXCEPT ![t] = "none"]
                  /\ late' = IF closed THEN late \cup {t} ELSE late
                  /\ UNCHANGED <<capacity, queue, closed>>

Put(t) == /\ call[t] \in SendOps
          /\ t \notin late
          /\ Len(queue) < capacity
          /\ queue' = Append(queue, arg[t])
          /\ Return(t, "SUCCESS")
          /\ UNCHANGED closed

Full(t) == /\ call[t] = "trysend"
           /\ t \notin late
           /\ Len(queue) + Cardinality(HoldingRoom(t)) >= capacity
           /\ Return(t, "FULL")
           /\ UNCHANGED <<queue, closed>>

SendClosed(t) == /\ call[t] \in SendOps
                 /\ closed
                 /\ Return(t, "CLOSED")
                 /\ UNCHANGED <<queue, closed>>

Take(t) == /\ call[t] \in RecvOps
           /\ arg[t] = NoValue
           /\ queue # <<>>
           /\ arg' = [arg EXCEPT ![t] = Head(queue)]
           /\ queue' = Tail(queue)
           /\ UNCHANGED <<capacity, closed, call, ret, late>>

Deliver(t) == /\ call[t] \in RecvOps
              /\ arg[t] \in Value
              /\ Return(t, "SUCCESS")
              /\ UNCHANGED <<queue, closed>>

FindNothing(t) == /\ call[t] \in RecvOps
                  /\ arg[t] = NoValue
                  /\ queue = <<>>
                  /\ arg' = [arg EXCEPT ![t] = Nothing]
                  /\ UNCHANGED <<capacity, queue, closed, call, ret, late>>

Retry(t) == /\ call[t] \in RecvOps
            /\ arg[t] = Nothing
            /\ arg' = [arg EXCEPT ![t] = NoValue]
            /\ UNCHANGED <<capacity, queue, closed, call, ret, late>>

Empty(t) == /\ call[t] = "tryrecv"
            /\ arg[t] = Nothing
            /\ Return(t, "EMPTY")
            /\ UNCHANGED <<queue, closed>>

RecvClosed(t) == /\ call[t] \in RecvOps
                 /\ arg[t] = Nothing
                 /\ closed
                 /\ queue = <<>>
                 /\ Return(t, "CLOSED")
                 /\ UNCHANGED <<queue, closed>>

Close(t) == /\ call[t] = "none"
            /\ closed' = TRUE
            /\ ret' = [ret EXCEPT ![t] = IF closed THEN "CLOSED" ELSE "SUCCESS"]
            /\ UNCHANGED <<capacity, queue, call, arg, late>>

Step(t) == \/ \E op \in SendOps, v \in Value : Call(t, op, v)
           \/ \E op \in RecvOps : Call(t, op, NoValue)
           \/ Put(t) \/ Full(t) \/ SendClosed(t)
           \/ Take(t) \/ Deliver(t) \/ FindNothing(t) \/ Retry(t) \/ Empty(t) \/ RecvClosed(t)
           \/ Close(t)

Next == \E t \in Thread : Step(t)

Spec == Init /\ [][Next]_vars
=============================================================================
