----------------------------- MODULE MCChanFull -----------------------------
(* Chan with one more history variable, to confront the answers CHAN_EMPTY and
   CHAN_FULL that calls of different threads get. *)
EXTENDS MCChan

VARIABLE emptyAt   \* how many send calls had started, none of them still in
                   \* progress, when a tryrecv last answered CHAN_EMPTY; or -1

QuietEmptyAnswer == \E t \in Thread : /\ pc[t] = "recvClosed" /\ ret'[t] = "EMPTY"
                                      /\ \A u \in Thread : pc[u] \notin SendPC

FullInit == Init /\ emptyAt = -1
FullNext == Next /\ emptyAt' = IF QuietEmptyAnswer THEN calls ELSE emptyAt
FullSpec == FullInit /\ [][FullNext]_<<vars, emptyAt>>

\* doc/chan.md:88, :99: trysend answers CHAN_FULL if the channel is full, tryrecv
\* CHAN_EMPTY if it is empty.  So a channel that was just found empty, with no
\* send in progress, is not found full by the next send to start.
NotFullAfterEmpty ==
  [][\A t \in Thread : pc[t] = "sendTail0" /\ ret'[t] = "FULL"
                          => emptyAt # calls - 1]_<<vars, emptyAt>>
=============================================================================
