------------------------------ MODULE ChanInv -------------------------------
(* The inductive invariant of Chan: what each thread may rely on between two of
   its steps, although the other threads go on. *)
EXTENDS Chan

ClaimedSend(t) == pc[t] \in {"sendWrite", "sendPublish"}
ClaimedRecv(t) == pc[t] \in {"recvRead", "recvRelease"}

(* A claimed position is not yet published (released); a counter loaded earlier
   is a lower bound of what it is now, and the room or the value found then is
   still there unless the claim is going to fail. *)
ThreadInv ==
  \A t \in Thread :
    /\ ClaimedSend(t) => head0 <= pos[t] /\ pos[t] < head1
    /\ ClaimedRecv(t) => tail0 <= pos[t] /\ pos[t] < tail1
    /\ pc[t] = "sendTail0" => pos[t] <= head1
    /\ pc[t] = "sendClaim" => pos[t] <= head1 /\ pos[t] < tail0 + capacity
    /\ pc[t] \in {"recvHead0", "recvClosed", "recvAgain"} => pos[t] <= tail1
    /\ pc[t] = "recvClaim" => pos[t] <= tail1 /\ pos[t] < head0

(* No two threads claim one position. *)
ClaimsDiffer == \A t, u \in Thread :
                  /\ t # u /\ ClaimedSend(t) /\ ClaimedSend(u) => pos[t] # pos[u]
                  /\ t # u /\ ClaimedRecv(t) /\ ClaimedRecv(u) => pos[t] # pos[u]

OrderInv == CounterOrder /\ ThreadInv /\ ClaimsDiffer

(* The slots of the published positions, and of those being read, hold what was
   sent. *)
DataInv == /\ \A p \in tail1 .. head0 - 1 : data[Slot(p)] = sent[p + 1]
           /\ \A t \in Thread :
                /\ ClaimedSend(t) => val[t] = sent[pos[t] + 1]
                /\ pc[t] = "sendPublish" => data[Slot(pos[t])] = val[t]
                /\ pc[t] = "recvRead" => data[Slot(pos[t])] = sent[pos[t] + 1]
                /\ pc[t] = "recvRelease" => val[t] = sent[pos[t] + 1]

(* Every position claimed and not yet published has a sender that will publish
   it. *)
SenderInv == \A p \in head0 .. head1 - 1 : \E t \in Thread : ClaimedSend(t) /\ pos[t] = p

(* Once the channel is closed in due form no sender is past its look at closed. *)
CloseInv == \A t \in Thread :
              /\ pc[t] # "idle" => ret[t] = "none"
              /\ pc[t] = "recvAgain" => closed
              /\ closed /\ ~closeRaced /\ pc[t] \in SendPC => pc[t] = "sendClosed"

(* Every position taken and not yet released has a receiver that will release it. *)
ReceiverInv == \A p \in tail0 .. tail1 - 1 : \E t \in Thread : ClaimedRecv(t) /\ pos[t] = p

(* A receiver has no value before it has read one; a sender whose call started on a
   closed channel never gets past its look at closed. *)
CallInv == \A t \in Thread :
             /\ pc[t] \in RecvPC \ {"recvRelease"} => val[t] = NoValue
             /\ t \in late => closed /\ (pc[t] \in SendPC => pc[t] = "sendClosed")

IndInv == TypeOK /\ OrderInv /\ DataInv /\ SenderInv /\ CloseInv

(* What the refinement of BoundedFIFO needs as well. *)
RefineInv == IndInv /\ ReceiverInv /\ CallInv
=============================================================================
