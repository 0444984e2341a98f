------------------------------- MODULE Select -------------------------------
(* select_one and select_option_done of src/include/chan.h, called in loops by
   several threads with several channels.  Module Chan has the counters of one
   channel; here a channel is the queue of its published values, and trysend and
   tryrecv claim a slot and hand it over in two steps.

   An array of cases belongs to the thread that passes it.  A thread that only
   sends or only receives is a thread with one case. *)
EXTENDS Integers, Sequences, FiniteSets

CONSTANTS Thread, Channel, NULL,
          Capacity,      \* Capacity[c]: the most values channel c holds
          Cases,         \* Cases[t]: the channels and types of the cases of thread t
          MaxSends       \* bound: values that a thread sends

CaseTypes == {"SEND", "RECV", "OMIT"}

ASSUME SelectAssumption ==
  /\ Capacity \in [Channel -> Nat \ {0}]
  /\ \A t \in Thread : Cases[t] \in Seq([c : Channel \cup {NULL}, type : CaseTypes])
  /\ MaxSends \in Nat
  /\ NULL \notin Thread \cup Channel \cup (Thread \X Nat)
  /\ IsFiniteSet(Thread)

VARIABLES queue,     \* queue[c]: the values in channel c
          closed,    \* closed[c]: whether it is closed
          type,      \* type[t][i]: the type of case i of thread t
          pc,        \* pc[t]: where thread t is
          left,      \* left[t]: the cases it has not come to yet
          cur,       \* cur[t]: the case it is trying
          omits,     \* omits[t]: whether all cases it came to were finished
          late,      \* late[t]: whether its trysend started on a closed channel
          val,       \* val[t]: the value it has taken out of a channel, or NULL
          ret,       \* ret[t]: what its last select_one returned
          sent,      \* sent[t]: history: how many values it has sent
          got,       \* history: the values received
          did,       \* did[t]: history: the cases its current or last call did
          given,     \* history: the cases finished by select_option_done
          raced,     \* history: the channels closed while a send was in progress
          alone      \* history: the thread whose current or last call nobody disturbed

chans == <<queue, closed>>
locals == <<type, pc, left, cur, omits, late, val, ret>>
history == <<sent, got, did, given, raced>>
vars == <<chans, locals, history, alone>>

Indexes(t) == DOMAIN Cases[t]
Chan(t) == Cases[t][cur[t]].c

(* Answers of select_one other than the index of a case.  Cases are numbered from 1
   here, so the answer num_select of the code is one more. *)
NoAnswer == 0
SELECT_DONE == -2
CHAN_ERROR == -1
NumSelect(t) == Len(Cases[t]) + 1

(* What a thread sends next: no value is sent twice. *)
NextValue(t) == <<t, sent[t] + 1>>

Init == /\ queue = [c \in Channel |-> <<>>]
        /\ closed = [c \in Channel |-> FALSE]
        /\ type = [t \in Thread |-> [i \in Indexes(t) |-> Cases[t][i].type]]
        /\ pc = [t \in Thread |-> "idle"]
        /\ left = [t \in Thread |-> {}]
        /\ cur = [t \in Thread |-> 0]
        /\ omits = [t \in Thread |-> TRUE]
        /\ late = [t \in Thread |-> FALSE]
        /\ val = [t \in Thread |-> NULL]
        /\ ret = [t \in Thread |-> NoAnswer]
        /\ sent = [t \in Thread |-> 0]
        /\ got = {}
        /\ did = [t \in Thread |-> <<>>]
        /\ given = {}
        /\ raced = {}
        /\ alone = NULL

Go(t, l) == pc' = [pc EXCEPT ![t] = l]

Return(t, rc) == /\ ret' = [ret EXCEPT ![t] = rc]
                 /\ left' = [left EXCEPT ![t] = {}]
                 /\ cur' = [cur EXCEPT ![t] = 0]
                 /\ omits' = [omits EXCEPT ![t] = TRUE]
                 /\ late' = [late EXCEPT ![t] = FALSE]

-----------------------------------------------------------------------------
(* select_one: the arguments, and the walk over the cases in random order *)

(* A case without a channel is refused, and a send without a value in the same way. *)
HasNullCase(t) == \E i \in Indexes(t) : type[t][i] # "OMIT" /\ Cases[t][i].c = NULL

(* The program has a value for every case that sends. *)
HasValues(t) == (\E i \in Indexes(t) : type[t][i] = "SEND") => sent[t] < MaxSends

Call(t) == /\ pc[t] = "idle"
           /\ HasValues(t)
           /\ ~HasNullCase(t)
           /\ left' = [left EXCEPT ![t] = Indexes(t)]
           /\ ret' = [ret EXCEPT ![t] = NoAnswer]
           /\ did' = [did EXCEPT ![t] = <<>>]
           /\ Go(t, "next")
           /\ UNCHANGED <<chans, type, cur, omits, late, val, sent, got, given, raced>>

CallRefused(t) == /\ pc[t] = "idle"
                  /\ HasNullCase(t)
                  /\ did' = [did EXCEPT ![t] = <<>>]
                  /\ Return(t, CHAN_ERROR)
                  /\ UNCHANGED <<chans, type, pc, val, sent, got, given, raced>>

(* Finished cases are skipped.  Only t changes their types, so skipping them is not a
   step of its own. *)
ToTry(t) == {i \in left[t] : type[t][i] # "OMIT"}

Try(t, i) == /\ pc[t] = "next"
             /\ i \in ToTry(t)
             /\ left' = [left EXCEPT ![t] = @ \ {i}]
             /\ cur' = [cur EXCEPT ![t] = i]
             /\ omits' = [omits EXCEPT ![t] = FALSE]
             /\ late' = [late EXCEPT ![t] = closed[Cases[t][i].c]]
             /\ Go(t, IF type[t][i] = "SEND" THEN "send" ELSE "recv")
             /\ UNCHANGED <<chans, type, val, ret, history>>

\* Mutant: finished cases are counted as tried.
FinishNone(t) == /\ pc[t] = "next"
                 /\ ToTry(t) = {}
                 /\ Return(t, NumSelect(t))
                 /\ Go(t, "idle")
                 /\ UNCHANGED <<chans, type, val, history>>

\* Mutant: the walk ends after the first case that is not ready.
FinishEarly(t) == /\ pc[t] = "next"
                  /\ left[t] # Indexes(t)
                  /\ Return(t, IF omits[t] THEN SELECT_DONE ELSE NumSelect(t))
                  /\ Go(t, "idle")
                  /\ UNCHANGED <<chans, type, val, history>>

Finish(t) == /\ pc[t] = "next"
             /\ ToTry(t) = {}
             /\ Return(t, IF omits[t] THEN SELECT_DONE ELSE NumSelect(t))
             /\ Go(t, "idle")
             /\ UNCHANGED <<chans, type, val, history>>

-----------------------------------------------------------------------------
(* trysend *)

(* Slots that are claimed by other threads and not yet published or released *)
Claimed(c) == {u \in Thread : pc[u] \in {"claimed", "taken"} /\ Chan(u) = c}
IsFull(c) == Len(queue[c]) + Cardinality(Claimed(c)) >= Capacity[c]

SendFull(t) == /\ pc[t] = "send"
               /\ ~late[t]
               /\ IsFull(Chan(t))
               /\ Go(t, "next")
               /\ UNCHANGED <<chans, type, left, cur, omits, late, val, ret, history>>

SendClaim(t) == /\ pc[t] = "send"
                /\ ~late[t]
                /\ ~IsFull(Chan(t))
                /\ Go(t, "claimed")
                /\ UNCHANGED <<chans, type, left, cur, omits, late, val, ret, history>>

(* A value arrives in t's channel: receivers that found nothing there before have
   missed it. *)
Arrives(t, l) ==
  pc' = [u \in Thread |-> IF u = t THEN l
                          ELSE IF pc[u] = "nothing" /\ Chan(u) = Chan(t) THEN "missed"
                          ELSE pc[u]]

\* Mutant: the loop goes on after a case that was done.
SendDoneGoesOn(t) == /\ pc[t] = "claimed"
                     /\ queue' = [queue EXCEPT ![Chan(t)] = Append(@, NextValue(t))]
                     /\ sent' = [sent EXCEPT ![t] = @ + 1]
                     /\ did' = [did EXCEPT ![t] = Append(@, cur[t])]
                     /\ Arrives(t, "next")
                     /\ UNCHANGED <<closed, type, left, cur, omits, late, val, ret, got, given, raced>>

SendDone(t) == /\ pc[t] = "claimed"
               /\ queue' = [queue EXCEPT ![Chan(t)] = Append(@, NextValue(t))]
               /\ sent' = [sent EXCEPT ![t] = @ + 1]
               /\ did' = [did EXCEPT ![t] = Append(@, cur[t])]
               /\ Return(t, cur[t])
               /\ Arrives(t, "idle")
               /\ UNCHANGED <<closed, type, val, got, given, raced>>

SendClosed(t) == /\ pc[t] = "send"
                 /\ closed[Chan(t)]
                 /\ type' = [type EXCEPT ![t][cur[t]] = "OMIT"]
                 /\ Go(t, "next")
                 /\ UNCHANGED <<chans, left, cur, omits, late, val, ret, history>>

-----------------------------------------------------------------------------
(* tryrecv *)

\* Mutant: the value stays in the channel.
RecvTakeCopy(t) == /\ pc[t] = "recv"
                   /\ queue[Chan(t)] # <<>>
                   /\ val' = [val EXCEPT ![t] = Head(queue[Chan(t)])]
                   /\ Go(t, "taken")
                   /\ UNCHANGED <<chans, type, left, cur, omits, late, ret, history>>

RecvTake(t) == /\ pc[t] = "recv"
               /\ queue[Chan(t)] # <<>>
               /\ val' = [val EXCEPT ![t] = Head(queue[Chan(t)])]
               /\ queue' = [queue EXCEPT ![Chan(t)] = Tail(@)]
               /\ Go(t, "taken")
               /\ UNCHANGED <<closed, type, left, cur, omits, late, ret, history>>

RecvDone(t) == /\ pc[t] = "taken"
               /\ got' = got \cup {val[t]}
               /\ val' = [val EXCEPT ![t] = NULL]
               /\ did' = [did EXCEPT ![t] = Append(@, cur[t])]
               /\ Return(t, cur[t])
               /\ Go(t, "idle")
               /\ UNCHANGED <<chans, type, sent, given, raced>>

(* tail1 = head0; what follows depends on closed and then on whether head0 has
   moved since *)
RecvFindNothing(t) == /\ pc[t] = "recv"
                      /\ queue[Chan(t)] = <<>>
                      /\ Go(t, "nothing")
                      /\ UNCHANGED <<chans, type, left, cur, omits, late, val, ret, history>>

RecvEmpty(t) == /\ pc[t] \in {"nothing", "missed"}
                /\ ~closed[Chan(t)]
                /\ Go(t, "next")
                /\ UNCHANGED <<chans, type, left, cur, omits, late, val, ret, history>>

RecvRetry(t) == /\ pc[t] = "missed"
                /\ closed[Chan(t)]
                /\ Go(t, "recv")
                /\ UNCHANGED <<chans, type, left, cur, omits, late, val, ret, history>>

\* Mutant: closed is believed without a second look at head0.
RecvClosedAtOnce(t) == /\ pc[t] \in {"nothing", "missed"}
                       /\ closed[Chan(t)]
                       /\ type' = [type EXCEPT ![t][cur[t]] = "OMIT"]
                       /\ Go(t, "next")
                       /\ UNCHANGED <<chans, left, cur, omits, late, val, ret, history>>

RecvClosed(t) == /\ pc[t] = "nothing"
                 /\ closed[Chan(t)]
                 /\ type' = [type EXCEPT ![t][cur[t]] = "OMIT"]
                 /\ Go(t, "next")
                 /\ UNCHANGED <<chans, left, cur, omits, late, val, ret, history>>

-----------------------------------------------------------------------------
(* select_option_done.  It answers CHAN_ERROR for a case without a channel, which is
   finished all the same. *)
OptionDone(t, i) ==
  LET c == Cases[t][i].c
  IN  /\ pc[t] = "idle"
      /\ type[t][i] # "OMIT"
      /\ type' = [type EXCEPT ![t][i] = "OMIT"]
      /\ closed' = [d \in Channel |-> closed[d] \/ d = c]
      /\ given' = given \cup {<<t, i>>}
      /\ raced' = IF \E u \in Thread : (pc[u] = "claimed" \/ (pc[u] = "send" /\ ~late[u])) /\ Chan(u) = c
                  THEN raced \cup {c} ELSE raced
      /\ UNCHANGED <<queue, pc, left, cur, omits, late, val, ret, sent, got, did>>

-----------------------------------------------------------------------------

(* A step of t disturbs the calls of all others. *)
Disturbs(t) == alone' = IF alone = t THEN t ELSE NULL

Start(t) == /\ Call(t)
            /\ alone' = IF \A u \in Thread \ {t} : pc[u] = "idle" THEN t ELSE NULL

Inside(t) == /\ \/ \E i \in Indexes(t) : Try(t, i)
                \/ Finish(t)
                \/ SendFull(t) \/ SendClaim(t) \/ SendDone(t) \/ SendClosed(t)
                \/ RecvTake(t) \/ RecvDone(t) \/ RecvFindNothing(t)
                \/ RecvEmpty(t) \/ RecvRetry(t) \/ RecvClosed(t)
             /\ Disturbs(t)

(* The caller finishes a case. *)
Give(t, i) == OptionDone(t, i) /\ Disturbs(t)

Next == \E t \in Thread : \/ Start(t) \/ Inside(t)
                          \/ CallRefused(t) /\ Disturbs(t)
                          \/ \E i \in Indexes(t) : Give(t, i)

(* The next step of a thread that calls select again until it answers SELECT_DONE and
   finishes the cases it has nothing left to send for. *)
Loop(t) == \/ Inside(t)
           \/ ret[t] # SELECT_DONE /\ Start(t)
           \/ ~HasValues(t) /\ \E i \in Indexes(t) : type[t][i] = "SEND" /\ Give(t, i)

(* Threads are scheduled. *)
Fairness == \A t \in Thread : WF_vars(Loop(t))

Spec == Init /\ [][Next]_vars /\ Fairness

-----------------------------------------------------------------------------
(* Properties *)

\* Every variable has its type, and no channel holds more than its capacity.
TypeOK ==
  /\ \A c \in Channel : Len(queue[c]) <= Capacity[c]
  /\ closed \in [Channel -> BOOLEAN]
  /\ \A t \in Thread : /\ type[t] \in [Indexes(t) -> CaseTypes]
                       /\ left[t] \subseteq Indexes(t)
                       /\ cur[t] \in Indexes(t) \cup {0}
                       /\ ret[t] \in {NoAnswer, SELECT_DONE, CHAN_ERROR} \cup 1 .. NumSelect(t)
                       /\ sent[t] \in 0 .. MaxSends
  /\ pc \in [Thread -> {"idle", "next", "send", "claimed", "recv", "taken", "nothing", "missed"}]
  /\ {omits, late} \subseteq [Thread -> BOOLEAN]
  /\ raced \subseteq Channel
  /\ alone \in Thread \cup {NULL}

\* A call does the case whose index it answers and no other, and none when it answers
\* that nothing was ready, that all is finished, or that an argument is bad; so a
\* caller that acts on the answer misses no value and sends none twice.
OneCaseDone == \A t \in Thread :
                 pc[t] = "idle" => did[t] = IF ret[t] \in Indexes(t) THEN <<ret[t]>> ELSE <<>>

\* Every value sent is in exactly one place: in a channel, taken by a thread that is
\* still in its call, or received; none is lost or doubled while threads try several
\* channels and channels are closed, and no channel is given more than it has room for.
NothingLost ==
  LET sends == {v \in Thread \X (1 .. MaxSends) : v[2] <= sent[v[1]]}
      inChannel(v) == UNION {{<<"chan", c, i>> : i \in {j \in DOMAIN queue[c] : queue[c][j] = v}} :
                               c \in Channel}
      taken(v) == {<<"taken", t, 0>> : t \in {u \in Thread : val[u] = v}}
      received(v) == IF v \in got THEN {<<"got", 0, 0>>} ELSE {}
  IN  /\ TypeOK
      /\ \A v \in sends : Cardinality(inChannel(v) \cup taken(v) \cup received(v)) = 1

\* What select has finished is over: the case's channel is closed, and if it was a
\* receive nothing is left in it and nothing will come, unless the channel was closed
\* while a value was being sent (doc/chan.md forbids that).
FinishedIsOver ==
  \A t \in Thread : \A i \in Indexes(t) :
    LET case == Cases[t][i]
    IN  type[t][i] = "OMIT" /\ case.type # "OMIT" /\ <<t, i>> \notin given =>
          /\ closed[case.c]
          /\ case.type = "RECV" /\ case.c \notin raced => queue[case.c] = <<>>

\* A call that nobody disturbed answers that nothing was ready only when nothing is:
\* every channel it sends to is full or closed, every one it receives from empty.
AloneFindsReady ==
  \A t \in Thread : alone = t /\ pc[t] = "idle" /\ ret[t] = NumSelect(t) =>
    \A i \in Indexes(t) :
      LET c == Cases[t][i].c
      IN  /\ type[t][i] = "SEND" => Len(queue[c]) = Capacity[c]
          /\ type[t][i] = "RECV" => queue[c] = <<>>

\* Loops of calls end: when no case lacks a channel and the threads finish the cases
\* they have nothing left to send for, every thread that calls select until it
\* answers SELECT_DONE gets that answer.
LoopsEnd == \A t \in Thread : (\A u \in Thread : ~HasNullCase(u)) ~> ret[t] = SELECT_DONE
=============================================================================
