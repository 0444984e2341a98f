---------------------------- MODULE SelectProofs ----------------------------
(* Theorems about Select, for every finite set of threads, all channels and capacities,
   all arrays of cases and every bound on the sends. *)
EXTENDS Select, FiniteSetTheorems, TLAPS

Labels == {"idle", "next", "send", "claimed", "recv", "taken", "nothing", "missed"}

-----------------------------------------------------------------------------
(* The inductive invariant *)

(* A thread: the case it tries is one it may try, it has done no case before it returns,
   and then the one it answers. *)
ThreadOK(t) ==
  /\ type[t] \in [Indexes(t) -> CaseTypes]
  /\ \A i \in Indexes(t) : type[t][i] \in {Cases[t][i].type, "OMIT"}
  /\ left[t] \subseteq Indexes(t)
  /\ cur[t] \in Indexes(t) \cup {0}
  /\ ret[t] \in {NoAnswer, SELECT_DONE, CHAN_ERROR} \cup 1 .. NumSelect(t)
  /\ sent[t] \in 0 .. MaxSends
  /\ pc[t] = "idle" => did[t] = IF ret[t] \in Indexes(t) THEN <<ret[t]>> ELSE <<>>
  /\ pc[t] # "idle" => did[t] = <<>> /\ HasValues(t) /\ ~HasNullCase(t)
  /\ pc[t] \notin {"idle", "next"} => cur[t] \in Indexes(t) /\ Chan(t) \in Channel
  /\ pc[t] \in {"send", "claimed"} => type[t][cur[t]] = "SEND"
  /\ pc[t] \in {"recv", "taken", "nothing", "missed"} => type[t][cur[t]] = "RECV"
  /\ (pc[t] = "taken") <=> (val[t] # NULL)

(* The variables are functions of the threads and channels. *)
Shape ==
  /\ queue = [c \in Channel |-> queue[c]]
  /\ closed \in [Channel -> BOOLEAN]
  /\ pc \in [Thread -> Labels]
  /\ omits \in [Thread -> BOOLEAN] /\ late \in [Thread -> BOOLEAN]
  /\ type = [t \in Thread |-> type[t]] /\ left = [t \in Thread |-> left[t]]
  /\ cur = [t \in Thread |-> cur[t]] /\ ret = [t \in Thread |-> ret[t]]
  /\ val = [t \in Thread |-> val[t]] /\ sent = [t \in Thread |-> sent[t]]
  /\ did = [t \in Thread |-> did[t]]
  /\ raced \subseteq Channel
  /\ alone \in Thread \cup {NULL}

Types == Shape /\ \A t \in Thread : ThreadOK(t)

(* The slots that are claimed, and not yet published or released, count. *)
Room == \A c \in Channel : Len(queue[c]) + Cardinality(Claimed(c)) <= Capacity[c]

(* The values sent so far, and where they are: in one channel at one place, taken by one
   thread, or received. *)
Sent == {v \in Thread \X (1 .. MaxSends) : v[2] <= sent[v[1]]}

Queued(v) == \E c \in Channel : \E i \in 1 .. Len(queue[c]) : queue[c][i] = v
Taken(v) == \E t \in Thread : val[t] = v

Places ==
  /\ \A c \in Channel : queue[c] \in Seq(Sent)
  /\ \A t \in Thread : val[t] \in Sent \cup {NULL}
  /\ got \subseteq Sent
  /\ \A v \in Sent : Queued(v) \/ Taken(v) \/ v \in got
  /\ \A v \in Sent : /\ ~(Queued(v) /\ Taken(v))
                     /\ ~(Queued(v) /\ v \in got)
                     /\ ~(Taken(v) /\ v \in got)
  /\ \A c, d \in Channel : \A i \in 1 .. Len(queue[c]), j \in 1 .. Len(queue[d]) :
       queue[c][i] = queue[d][j] => c = d /\ i = j
  /\ \A t, u \in Thread : val[t] = val[u] /\ val[t] # NULL => t = u

(* Case i of t was finished by select_one, not by the caller. *)
FinishedAlone(t, i) ==
  type[t][i] = "OMIT" /\ Cases[t][i].type # "OMIT" /\ <<t, i>> \notin given

(* A send that may still succeed on a closed channel was in progress when it was closed;
   who found nothing would still find nothing, or else has missed something. *)
Over ==
  /\ \A c \in Channel : closed[c] /\ c \notin raced =>
       \A u \in Thread : pc[u] \in {"send", "claimed"} /\ Chan(u) = c => pc[u] = "send" /\ late[u]
  /\ \A t \in Thread : pc[t] = "nothing" => queue[Chan(t)] = <<>>
  /\ \A t \in Thread : \A i \in Indexes(t) : FinishedAlone(t, i) => Cases[t][i].c \in Channel
  /\ FinishedIsOver

(* A case that is not ready: nothing can be sent or received. *)
NotReady(t, i) ==
  LET c == Cases[t][i].c
  IN  /\ type[t][i] = "SEND" => Len(queue[c]) = Capacity[c]
      /\ type[t][i] = "RECV" => queue[c] = <<>>

(* While nobody disturbs a call, all cases it has tried stay as it found them. *)
Alone ==
  \A t \in Thread : alone = t =>
    /\ \A u \in Thread \ {t} : pc[u] = "idle"
    /\ pc[t] # "missed"
    /\ pc[t] \notin {"idle", "taken"} =>
         \A i \in Indexes(t) \ left[t] : (pc[t] # "next" /\ i = cur[t]) \/ NotReady(t, i)
    /\ pc[t] = "idle" /\ ret[t] = NumSelect(t) => \A i \in Indexes(t) : NotReady(t, i)

SelectInv == Types /\ Room /\ Places /\ Over /\ Alone

-----------------------------------------------------------------------------
(* Types: what each thread knows of its call *)

LEMMA ElementIn ==
  ASSUME NEW S, NEW s \in Seq(S), NEW i \in 1 .. Len(s)
  PROVE  s[i] \in S
OBVIOUS

LEMMA CaseShape ==
  ASSUME NEW t \in Thread
  PROVE  /\ Indexes(t) = 1 .. Len(Cases[t]) /\ Len(Cases[t]) \in Nat
         /\ \A i \in Indexes(t) : /\ Cases[t][i].c \in Channel \cup {NULL}
                                  /\ Cases[t][i].type \in CaseTypes
         /\ NumSelect(t) \notin Indexes(t) /\ NoAnswer \notin Indexes(t)
         /\ SELECT_DONE \notin Indexes(t) /\ CHAN_ERROR \notin Indexes(t)
         /\ NumSelect(t) \in 1 .. NumSelect(t) /\ Indexes(t) \subseteq 1 .. NumSelect(t)
<1>1. Cases[t] \in Seq([c : Channel \cup {NULL}, type : CaseTypes])
  BY SelectAssumption
<1>2. Indexes(t) = 1 .. Len(Cases[t]) /\ Len(Cases[t]) \in Nat
  BY <1>1 DEF Indexes
<1>3. \A i \in Indexes(t) : Cases[t][i] \in [c : Channel \cup {NULL}, type : CaseTypes]
  BY <1>1, <1>2, ElementIn
<1> QED
  BY <1>2, <1>3 DEF NumSelect, NoAnswer, SELECT_DONE, CHAN_ERROR

(* Finishing a case refuses no argument that was accepted. *)
LEMMA ArgumentsStay ==
  ASSUME NEW t \in Thread, sent'[t] = sent[t],
         \A i \in Indexes(t) : type'[t][i] \in {type[t][i], "OMIT"}
  PROVE  (HasValues(t) => HasValues(t)') /\ (~HasNullCase(t) => ~HasNullCase(t)')
BY DEF HasValues, HasNullCase

(* A step of another thread: at most a value has arrived. *)
LEMMA OtherOK ==
  ASSUME NEW u \in Thread, ThreadOK(u),
         type'[u] = type[u], left'[u] = left[u], cur'[u] = cur[u], ret'[u] = ret[u],
         val'[u] = val[u], sent'[u] = sent[u], did'[u] = did[u],
         pc'[u] = pc[u] \/ (pc[u] = "nothing" /\ pc'[u] = "missed")
  PROVE  ThreadOK(u)'
<1>1. (HasValues(u) => HasValues(u)') /\ (~HasNullCase(u) => ~HasNullCase(u)')
  BY ArgumentsStay
<1>2. Chan(u)' = Chan(u)
  BY DEF Chan
<1> QED
  BY <1>1, <1>2 DEF ThreadOK

(* The step that t takes in Next, and what it leaves alone. *)
Act(t) ==
  \/ Call(t) \/ CallRefused(t) \/ (\E i \in Indexes(t) : Try(t, i)) \/ Finish(t)
  \/ SendFull(t) \/ SendClaim(t) \/ SendDone(t) \/ SendClosed(t)
  \/ RecvTake(t) \/ RecvDone(t) \/ RecvFindNothing(t)
  \/ RecvEmpty(t) \/ RecvRetry(t) \/ RecvClosed(t)
  \/ (\E i \in Indexes(t) : OptionDone(t, i))

LEMMA NextActs ==
  ASSUME Next, Shape
  PROVE  \E t \in Thread : /\ Act(t)
                           /\ \/ Call(t) /\ alone' = IF \A u \in Thread \ {t} : pc[u] = "idle"
                                                     THEN t ELSE NULL
                              \/ ~Call(t) /\ alone' = IF alone = t THEN t ELSE NULL
<1>1. PICK t \in Thread : \/ Start(t) \/ Inside(t)
                          \/ CallRefused(t) /\ Disturbs(t)
                          \/ \E i \in Indexes(t) : Give(t, i)
  BY DEF Next
<1>2. CASE Start(t)
  BY <1>2 DEF Start, Act
<1>3. CASE Inside(t)
  <2>1. ~Call(t)
    BY <1>3 DEF Inside, Call, Try, Finish, SendFull, SendClaim, SendDone, SendClosed,
       RecvTake, RecvDone, RecvFindNothing, RecvEmpty, RecvRetry, RecvClosed
  <2> QED
    BY <1>3, <2>1 DEF Inside, Act, Disturbs
<1>4. CASE CallRefused(t) /\ Disturbs(t)
  BY <1>4 DEF CallRefused, Call, Act, Disturbs
<1>5. CASE \E i \in Indexes(t) : Give(t, i)
  <2>1. PICK i \in Indexes(t) : OptionDone(t, i) /\ Disturbs(t)
    BY <1>5 DEF Give
  <2>2. ~Call(t)
    <3>1. pc'[t] = "idle"
      BY <2>1 DEF OptionDone
    <3> QED
      BY <3>1 DEF Call, Go, Shape
  <2> QED
    BY <2>1, <2>2 DEF Act, Disturbs
<1> QED
  BY <1>1, <1>2, <1>3, <1>4, <1>5

(* What a step of t never changes: the other threads, but for their place. *)
LEMMA Frame ==
  ASSUME Types, NEW t \in Thread, Act(t), NEW u \in Thread, u # t
  PROVE  /\ type'[u] = type[u] /\ left'[u] = left[u] /\ cur'[u] = cur[u] /\ ret'[u] = ret[u]
         /\ val'[u] = val[u] /\ sent'[u] = sent[u] /\ did'[u] = did[u] /\ late'[u] = late[u]
         /\ \/ pc'[u] = pc[u]
            \/ /\ pc[u] = "nothing" /\ pc'[u] = "missed"
               /\ SendDone(t) /\ Chan(u) = Chan(t)
<1> USE DEF Types, Shape, Go, Return, chans, history
<1>1. CASE Call(t)
  BY <1>1 DEF Call
<1>2. CASE CallRefused(t)
  BY <1>2 DEF CallRefused
<1>3. CASE \E i \in Indexes(t) : Try(t, i)
  BY <1>3 DEF Try
<1>4. CASE Finish(t)
  BY <1>4 DEF Finish
<1>5. CASE SendFull(t) \/ SendClaim(t)
  BY <1>5 DEF SendFull, SendClaim
<1>6. CASE SendDone(t)
  BY <1>6 DEF SendDone, Arrives
<1>7. CASE SendClosed(t) \/ RecvClosed(t)
  BY <1>7 DEF SendClosed, RecvClosed
<1>8. CASE RecvTake(t)
  BY <1>8 DEF RecvTake
<1>9. CASE RecvDone(t)
  BY <1>9 DEF RecvDone
<1>10. CASE RecvFindNothing(t) \/ RecvEmpty(t) \/ RecvRetry(t)
  BY <1>10 DEF RecvFindNothing, RecvEmpty, RecvRetry
<1>11. CASE \E i \in Indexes(t) : OptionDone(t, i)
  BY <1>11 DEF OptionDone
<1> QED
  BY <1>1, <1>2, <1>3, <1>4, <1>5, <1>6, <1>7, <1>8, <1>9, <1>10, <1>11 DEF Act

LEMMA ShapeStays ==
  ASSUME Types, NEW t \in Thread, Act(t), alone' \in Thread \cup {NULL}
  PROVE  Shape'
<1> USE DEF Types, Shape, Labels, Go, Return, chans, history
<1>1. CASE Call(t)
  BY <1>1 DEF Call
<1>2. CASE CallRefused(t)
  BY <1>2 DEF CallRefused
<1>3. CASE \E i \in Indexes(t) : Try(t, i)
  <2>1. PICK i \in Indexes(t) : Try(t, i)
    BY <1>3
  <2>2. Cases[t][i].c \in Channel
    <3>1. type[t][i] # "OMIT" /\ pc[t] = "next"
      BY <2>1 DEF Try, ToTry
    <3>2. ~HasNullCase(t)
      BY <3>1 DEF ThreadOK
    <3>3. Cases[t][i].c # NULL
      BY <3>1, <3>2 DEF HasNullCase
    <3> QED
      BY <3>3, CaseShape
  <2>3. closed[Cases[t][i].c] \in BOOLEAN
    BY <2>2
  <2> QED
    BY <2>1, <2>3 DEF Try
<1>4. CASE Finish(t)
  BY <1>4 DEF Finish
<1>5. CASE SendFull(t) \/ SendClaim(t)
  BY <1>5 DEF SendFull, SendClaim
<1>6. CASE SendDone(t)
  BY <1>6 DEF SendDone, Arrives
<1>7. CASE SendClosed(t) \/ RecvClosed(t)
  BY <1>7 DEF SendClosed, RecvClosed
<1>8. CASE RecvTake(t)
  BY <1>8 DEF RecvTake
<1>9. CASE RecvDone(t)
  BY <1>9 DEF RecvDone
<1>10. CASE RecvFindNothing(t) \/ RecvEmpty(t) \/ RecvRetry(t)
  BY <1>10 DEF RecvFindNothing, RecvEmpty, RecvRetry
<1>11. CASE \E i \in Indexes(t) : OptionDone(t, i)
  <2>1. PICK i \in Indexes(t) : OptionDone(t, i)
    BY <1>11
  <2>2. raced' \subseteq Channel
    <3>1. CASE \E u \in Thread : pc[u] \in {"send", "claimed"} /\ Chan(u) = Cases[t][i].c
      <4>1. PICK u \in Thread : pc[u] \in {"send", "claimed"} /\ Chan(u) = Cases[t][i].c
        BY <3>1
      <4>2. Chan(u) \in Channel
        BY <4>1 DEF ThreadOK
      <4>3. raced' \in {raced, raced \cup {Cases[t][i].c}}
        BY <2>1 DEF OptionDone
      <4> QED
        BY <4>1, <4>2, <4>3
    <3>2. CASE ~\E u \in Thread : pc[u] \in {"send", "claimed"} /\ Chan(u) = Cases[t][i].c
      BY <2>1, <3>2 DEF OptionDone
    <3> QED
      BY <3>1, <3>2
  <2> QED
    BY <2>1, <2>2 DEF OptionDone
<1> QED
  BY <1>1, <1>2, <1>3, <1>4, <1>5, <1>6, <1>7, <1>8, <1>9, <1>10, <1>11 DEF Act

LEMMA ThreadStays ==
  ASSUME Types, Places, NEW t \in Thread, Act(t)
  PROVE  ThreadOK(t)'
<1> USE DEF Go, Return, chans, history
<1>0. Shape /\ ThreadOK(t)
  BY DEF Types
<1>1. CASE Call(t)
  <2>1. /\ pc'[t] = "next" /\ left'[t] = Indexes(t) /\ ret'[t] = NoAnswer /\ did'[t] = <<>>
        /\ type'[t] = type[t] /\ cur'[t] = cur[t] /\ val'[t] = val[t] /\ sent'[t] = sent[t]
        /\ HasValues(t) /\ ~HasNullCase(t) /\ pc[t] = "idle"
    BY <1>0, <1>1 DEF Call, Shape
  <2>2. HasValues(t)' /\ ~HasNullCase(t)'
    BY <2>1, ArgumentsStay
  <2> QED
    BY <1>0, <2>1, <2>2 DEF ThreadOK
<1>2. CASE CallRefused(t)
  <2>1. /\ pc'[t] = "idle" /\ pc[t] = "idle" /\ left'[t] = {} /\ cur'[t] = 0
        /\ ret'[t] = CHAN_ERROR /\ did'[t] = <<>>
        /\ type'[t] = type[t] /\ val'[t] = val[t] /\ sent'[t] = sent[t]
    BY <1>0, <1>2 DEF CallRefused, Shape
  <2> QED
    BY <1>0, <2>1, CaseShape DEF ThreadOK
<1>3. ASSUME NEW i \in Indexes(t), Try(t, i) PROVE ThreadOK(t)'
  <2>1. /\ pc[t] = "next" /\ pc'[t] = IF type[t][i] = "SEND" THEN "send" ELSE "recv"
        /\ left'[t] = left[t] \ {i} /\ cur'[t] = i /\ type[t][i] # "OMIT"
        /\ ret'[t] = ret[t] /\ did'[t] = did[t]
        /\ type'[t] = type[t] /\ val'[t] = val[t] /\ sent'[t] = sent[t]
    BY <1>0, <1>3 DEF Try, ToTry, Shape
  <2>2. HasValues(t)' /\ ~HasNullCase(t)' /\ ~HasNullCase(t) /\ did[t] = <<>>
    BY <1>0, <2>1, ArgumentsStay DEF ThreadOK
  <2>3. Chan(t)' \in Channel
    BY <2>1, <2>2, CaseShape DEF Chan, HasNullCase
  <2>4. type[t][i] = "SEND" \/ type[t][i] = "RECV"
    BY <1>0, <2>1 DEF ThreadOK, CaseTypes
  <2> QED
    BY <1>0, <2>1, <2>2, <2>3, <2>4 DEF ThreadOK
<1>4. CASE Finish(t)
  <2>1. /\ pc[t] = "next" /\ pc'[t] = "idle" /\ left'[t] = {} /\ cur'[t] = 0
        /\ ret'[t] \in {SELECT_DONE, NumSelect(t)} /\ did'[t] = did[t]
        /\ type'[t] = type[t] /\ val'[t] = val[t] /\ sent'[t] = sent[t]
    BY <1>0, <1>4 DEF Finish, Shape
  <2>2. did[t] = <<>> /\ ret'[t] \notin Indexes(t)
    BY <1>0, <2>1, CaseShape DEF ThreadOK
  <2>3. ret'[t] \in {NoAnswer, SELECT_DONE, CHAN_ERROR} \cup 1 .. NumSelect(t)
    BY <2>1, CaseShape
  <2> QED
    BY <1>0, <2>1, <2>2, <2>3 DEF ThreadOK
(* A step inside the call that only goes on. *)
<1>5. ASSUME pc[t] # "idle", pc'[t] \in Labels \ {"idle"},
             left'[t] = left[t], cur'[t] = cur[t], ret'[t] = ret[t], did'[t] = did[t],
             type'[t] = type[t], sent'[t] = sent[t],
             pc'[t] \notin {"idle", "next"} => pc[t] \notin {"idle", "next"},
             pc'[t] \in {"send", "claimed"} => pc[t] \in {"send", "claimed"},
             pc'[t] \in {"recv", "taken", "nothing", "missed"}
               => pc[t] \in {"recv", "taken", "nothing", "missed"},
             (pc'[t] = "taken") <=> (val'[t] # NULL)
      PROVE  ThreadOK(t)'
  <2>1. HasValues(t)' /\ ~HasNullCase(t)'
    BY <1>0, <1>5, ArgumentsStay DEF ThreadOK
  <2>2. Chan(t)' = Chan(t)
    BY <1>5 DEF Chan
  <2> QED
    BY <1>0, <1>5, <2>1, <2>2 DEF ThreadOK
(* A step that finishes the case that is tried. *)
<1>6. ASSUME pc[t] \notin {"idle", "next", "taken"}, pc'[t] = "next",
             left'[t] = left[t], cur'[t] = cur[t], ret'[t] = ret[t], did'[t] = did[t],
             type' = [type EXCEPT ![t][cur[t]] = "OMIT"], sent'[t] = sent[t], val'[t] = val[t]
      PROVE  ThreadOK(t)'
  <2>0. cur[t] \in Indexes(t) /\ type[t] \in [Indexes(t) -> CaseTypes]
    BY <1>0, <1>6 DEF ThreadOK
  <2>1. type'[t] = [type[t] EXCEPT ![cur[t]] = "OMIT"]
    BY <1>0, <1>6 DEF Shape
  <2>2. \A i \in Indexes(t) : type'[t][i] \in {type[t][i], "OMIT"}
    BY <2>0, <2>1
  <2>3. type'[t] \in [Indexes(t) -> CaseTypes]
    BY <2>0, <2>1 DEF CaseTypes
  <2>4. HasValues(t)' /\ ~HasNullCase(t)'
    BY <1>0, <1>6, <2>2, ArgumentsStay DEF ThreadOK
  <2> QED
    BY <1>0, <1>6, <2>2, <2>3, <2>4 DEF ThreadOK
<1>7. CASE SendFull(t) \/ SendClaim(t) \/ RecvFindNothing(t) \/ RecvEmpty(t) \/ RecvRetry(t)
  <2>1. /\ left'[t] = left[t] /\ cur'[t] = cur[t] /\ ret'[t] = ret[t] /\ did'[t] = did[t]
        /\ type'[t] = type[t] /\ val'[t] = val[t] /\ sent'[t] = sent[t]
    BY <1>7 DEF SendFull, SendClaim, RecvFindNothing, RecvEmpty, RecvRetry
  <2>2. /\ pc[t] \in {"send", "recv", "nothing", "missed"}
        /\ pc'[t] = "next" \/ (pc[t] = "send" /\ pc'[t] = "claimed")
             \/ (pc[t] # "send" /\ pc'[t] \in {"recv", "nothing"})
    BY <1>0, <1>7 DEF SendFull, SendClaim, RecvFindNothing, RecvEmpty, RecvRetry, Shape
  <2>3. val[t] = NULL
    BY <1>0, <2>2 DEF ThreadOK
  <2> QED
    BY <1>5, <2>1, <2>2, <2>3 DEF Labels
<1>8. CASE SendDone(t) \/ RecvDone(t)
  <2>1. /\ pc[t] \in {"claimed", "taken"} /\ pc'[t] = "idle" /\ left'[t] = {} /\ cur'[t] = 0
        /\ ret'[t] = cur[t] /\ did'[t] = Append(did[t], cur[t]) /\ type'[t] = type[t]
        /\ val'[t] = IF pc[t] = "taken" THEN NULL ELSE val[t]
        /\ sent'[t] = IF pc[t] = "claimed" THEN sent[t] + 1 ELSE sent[t]
    BY <1>0, <1>8 DEF SendDone, RecvDone, Arrives, Shape
  <2>2. did[t] = <<>> /\ cur[t] \in Indexes(t) /\ Append(<<>>, cur[t]) = <<cur[t]>>
    BY <1>0, <2>1 DEF ThreadOK
  <2>3. sent'[t] \in 0 .. MaxSends
    <3>1. CASE pc[t] = "claimed"
      <4>1. HasValues(t) /\ type[t][cur[t]] = "SEND" /\ sent[t] \in 0 .. MaxSends
        BY <1>0, <3>1 DEF ThreadOK
      <4>2. sent[t] < MaxSends
        BY <2>2, <4>1 DEF HasValues
      <4> QED
        BY <2>1, <3>1, <4>1, <4>2, SelectAssumption
    <3> QED
      BY <1>0, <2>1, <3>1 DEF ThreadOK
  <2>4. ret'[t] \in 1 .. NumSelect(t)
    BY <2>1, <2>2, CaseShape
  <2>5. (pc'[t] = "taken") <=> (val'[t] # NULL)
    BY <1>0, <2>1 DEF ThreadOK
  <2> QED
    BY <1>0, <2>1, <2>2, <2>3, <2>4, <2>5 DEF ThreadOK
<1>9. CASE SendClosed(t) \/ RecvClosed(t)
  <2>1. /\ pc[t] \in {"send", "nothing"} /\ pc'[t] = "next" /\ left'[t] = left[t]
        /\ cur'[t] = cur[t] /\ ret'[t] = ret[t] /\ did'[t] = did[t]
        /\ type' = [type EXCEPT ![t][cur[t]] = "OMIT"] /\ sent'[t] = sent[t] /\ val'[t] = val[t]
    BY <1>0, <1>9 DEF SendClosed, RecvClosed, Shape
  <2> QED
    BY <1>6, <2>1
<1>10. CASE RecvTake(t)
  <2>1. /\ pc[t] = "recv" /\ pc'[t] = "taken" /\ left'[t] = left[t] /\ cur'[t] = cur[t]
        /\ ret'[t] = ret[t] /\ did'[t] = did[t] /\ type'[t] = type[t] /\ sent'[t] = sent[t]
        /\ val'[t] = Head(queue[Chan(t)])
    BY <1>0, <1>10 DEF RecvTake, Shape
  <2>2. val'[t] # NULL
    <3>1. queue[Chan(t)] \in Seq(Sent) /\ queue[Chan(t)] # <<>>
      BY <1>0, <1>10, <2>1 DEF RecvTake, Places, ThreadOK
    <3>2. Head(queue[Chan(t)]) \in Sent
      BY <3>1
    <3> QED
      BY <2>1, <3>2, SelectAssumption DEF Sent
  <2> QED
    BY <1>5, <2>1, <2>2 DEF Labels
<1>11. ASSUME NEW i \in Indexes(t), OptionDone(t, i) PROVE ThreadOK(t)'
  <2>1. /\ pc[t] = "idle" /\ pc'[t] = "idle" /\ left'[t] = left[t]
        /\ cur'[t] = cur[t] /\ ret'[t] = ret[t] /\ did'[t] = did[t]
        /\ type'[t] = [type[t] EXCEPT ![i] = "OMIT"] /\ sent'[t] = sent[t] /\ val'[t] = val[t]
    BY <1>0, <1>11 DEF OptionDone, Shape
  <2>2. type[t] \in [Indexes(t) -> CaseTypes]
    BY <1>0 DEF ThreadOK
  <2>3. /\ \A j \in Indexes(t) : type'[t][j] \in {type[t][j], "OMIT"}
        /\ type'[t] \in [Indexes(t) -> CaseTypes]
    BY <2>1, <2>2 DEF CaseTypes
  <2> QED
    BY <1>0, <2>1, <2>3 DEF ThreadOK
<1> QED
  BY <1>1, <1>2, <1>3, <1>4, <1>7, <1>8, <1>9, <1>10, <1>11 DEF Act
LEMMA TypesStay ==
  ASSUME Types, Places, NEW t \in Thread, Act(t), alone' \in Thread \cup {NULL}
  PROVE  Types'
<1>1. Shape'
  BY ShapeStays
<1>2. ThreadOK(t)'
  BY ThreadStays
<1>3. ASSUME NEW u \in Thread, u # t PROVE ThreadOK(u)'
  <2>1. ThreadOK(u)
    BY DEF Types
  <2> QED
    BY <1>3, <2>1, Frame, OtherOK
<1> QED
  BY <1>1, <1>2, <1>3 DEF Types

-----------------------------------------------------------------------------
(* Room: a slot is claimed, then published; or taken, then released *)

LEMMA ClaimedFinite ==
  ASSUME NEW c
  PROVE  IsFiniteSet(Claimed(c)) /\ Cardinality(Claimed(c)) \in Nat
<1>1. Claimed(c) \subseteq Thread
  BY DEF Claimed
<1>2. IsFiniteSet(Claimed(c))
  BY <1>1, SelectAssumption, FS_Subset
<1> QED
  BY <1>2, FS_CardinalityType

(* What a step of t does to the claims: the other threads keep theirs. *)
LEMMA ClaimsOf ==
  ASSUME Types, NEW t \in Thread, Act(t), NEW c
  PROVE  Claimed(c)' = (Claimed(c) \ {t}) \cup
                       (IF pc'[t] \in {"claimed", "taken"} /\ Chan(t)' = c THEN {t} ELSE {})
<1>1. ASSUME NEW u \in Thread, u # t
      PROVE  (pc'[u] \in {"claimed", "taken"} /\ Chan(u)' = c)
               <=> (pc[u] \in {"claimed", "taken"} /\ Chan(u) = c)
  BY <1>1, Frame DEF Chan
<1> QED
  BY <1>1 DEF Claimed

(* The step claims, releases, or does neither. *)
LEMMA RoomStays ==
  ASSUME Types, Room, Places, NEW t \in Thread, Act(t)
  PROVE  Room'
<1> USE DEF Go, Return, chans, history
<1>0. Shape /\ ThreadOK(t) /\ pc[t] \in Labels
  BY DEF Types, Shape
<1>1. SUFFICES ASSUME NEW c \in Channel
               PROVE  (Len(queue[c]) + Cardinality(Claimed(c)) <= Capacity[c])'
  BY DEF Room
<1>2. /\ Len(queue[c]) + Cardinality(Claimed(c)) <= Capacity[c] /\ Capacity[c] \in Nat
      /\ queue[c] \in Seq(Sent) /\ Len(queue[c]) \in Nat
  BY SelectAssumption DEF Room, Places
<1>3. IsFiniteSet(Claimed(c)) /\ Cardinality(Claimed(c)) \in Nat
  BY ClaimedFinite
<1>4. /\ t \in Claimed(c) <=> (pc[t] \in {"claimed", "taken"} /\ Chan(t) = c)
      /\ Claimed(c)' = (Claimed(c) \ {t}) \cup
                       (IF pc'[t] \in {"claimed", "taken"} /\ Chan(t)' = c THEN {t} ELSE {})
  BY ClaimsOf DEF Claimed
(* Neither t's claim nor the channel changes. *)
<1>5. ASSUME queue'[c] = queue[c],
             pc[t] \notin {"claimed", "taken"}, pc'[t] \notin {"claimed", "taken"}
      PROVE  (Len(queue[c]) + Cardinality(Claimed(c)) <= Capacity[c])'
  <2>1. Claimed(c)' = Claimed(c)
    BY <1>4, <1>5
  <2> QED
    BY <1>2, <1>5, <2>1
<1>6. CASE \/ Call(t) \/ CallRefused(t) \/ (\E i \in Indexes(t) : Try(t, i)) \/ Finish(t)
           \/ SendFull(t) \/ SendClosed(t) \/ RecvFindNothing(t) \/ RecvEmpty(t)
           \/ RecvRetry(t) \/ RecvClosed(t) \/ (\E i \in Indexes(t) : OptionDone(t, i))
  <2>1. queue' = queue
    BY <1>6 DEF Call, CallRefused, Try, Finish, SendFull, SendClosed, RecvFindNothing,
       RecvEmpty, RecvRetry, RecvClosed, OptionDone
  <2>2. pc[t] \notin {"claimed", "taken"}
    BY <1>6 DEF Call, CallRefused, Try, Finish, SendFull, SendClosed, RecvFindNothing,
       RecvEmpty, RecvRetry, RecvClosed, OptionDone
  <2>3. pc'[t] \notin {"claimed", "taken"}
    BY <1>0, <1>6 DEF Call, CallRefused, Try, Finish, SendFull, SendClosed, RecvFindNothing,
       RecvEmpty, RecvRetry, RecvClosed, OptionDone, Shape
  <2> QED
    BY <1>5, <2>1, <2>2, <2>3
<1>7. CASE SendClaim(t)
  <2>1. /\ pc[t] = "send" /\ pc'[t] = "claimed" /\ queue' = queue /\ ~IsFull(Chan(t))
        /\ Chan(t)' = Chan(t)
    BY <1>0, <1>7 DEF SendClaim, Shape, Chan
  <2>2. CASE Chan(t) = c
    <3>1. Claimed(c)' = Claimed(c) \cup {t} /\ t \notin Claimed(c)
      BY <1>4, <2>1, <2>2
    <3>2. Cardinality(Claimed(c) \cup {t}) = Cardinality(Claimed(c)) + 1
      BY <1>3, <3>1, FS_AddElement
    <3>3. Len(queue[c]) + Cardinality(Claimed(c)) < Capacity[c]
      BY <1>2, <1>3, <2>1, <2>2 DEF IsFull
    <3>4. Cardinality(Claimed(c))' = Cardinality(Claimed(c)) + 1
      BY <3>1, <3>2
    <3> QED
      BY <1>2, <1>3, <2>1, <3>3, <3>4
  <2>3. CASE Chan(t) # c
    <3>1. Claimed(c)' = Claimed(c)
      BY <1>4, <2>1, <2>3
    <3> QED
      BY <1>2, <2>1, <3>1
  <2> QED
    BY <2>2, <2>3
<1>8. CASE SendDone(t)
  <2>1. /\ pc[t] = "claimed" /\ pc'[t] = "idle" /\ Chan(t) \in Channel
        /\ queue'[c] = IF Chan(t) = c THEN Append(queue[c], NextValue(t)) ELSE queue[c]
    BY <1>0, <1>8 DEF SendDone, Arrives, Shape, ThreadOK
  <2>2. CASE Chan(t) = c
    <3>1. Claimed(c)' = Claimed(c) \ {t} /\ t \in Claimed(c)
      BY <1>4, <2>1, <2>2
    <3>2. Cardinality(Claimed(c) \ {t}) = Cardinality(Claimed(c)) - 1
      BY <1>3, <3>1, FS_RemoveElement
    <3>3. Len(queue'[c]) = Len(queue[c]) + 1
      BY <1>2, <2>1, <2>2
    <3>4. Cardinality(Claimed(c))' = Cardinality(Claimed(c)) - 1
      BY <3>1, <3>2
    <3> QED
      BY <1>2, <1>3, <3>3, <3>4
  <2>3. CASE Chan(t) # c
    <3>1. Claimed(c)' = Claimed(c)
      BY <1>4, <2>1, <2>3
    <3> QED
      BY <1>2, <2>1, <2>3, <3>1
  <2> QED
    BY <2>2, <2>3
<1>9. CASE RecvTake(t)
  <2>1. /\ pc[t] = "recv" /\ pc'[t] = "taken" /\ Chan(t) \in Channel /\ Chan(t)' = Chan(t)
        /\ queue[Chan(t)] # <<>>
        /\ queue'[c] = IF Chan(t) = c THEN Tail(queue[c]) ELSE queue[c]
    BY <1>0, <1>9 DEF RecvTake, Shape, ThreadOK, Chan
  <2>2. CASE Chan(t) = c
    <3>1. Claimed(c)' = Claimed(c) \cup {t} /\ t \notin Claimed(c)
      BY <1>4, <2>1, <2>2
    <3>2. Cardinality(Claimed(c) \cup {t}) = Cardinality(Claimed(c)) + 1
      BY <1>3, <3>1, FS_AddElement
    <3>3. Len(queue'[c]) = Len(queue[c]) - 1
      BY <1>2, <2>1, <2>2
    <3>4. Cardinality(Claimed(c))' = Cardinality(Claimed(c)) + 1
      BY <3>1, <3>2
    <3> QED
      BY <1>2, <1>3, <3>3, <3>4
  <2>3. CASE Chan(t) # c
    <3>1. Claimed(c)' = Claimed(c)
      BY <1>4, <2>1, <2>3
    <3> QED
      BY <1>2, <2>1, <2>3, <3>1
  <2> QED
    BY <2>2, <2>3
<1>10. CASE RecvDone(t)
  <2>1. pc[t] = "taken" /\ pc'[t] = "idle" /\ queue' = queue
    BY <1>0, <1>10 DEF RecvDone, Shape
  <2>2. Claimed(c)' = Claimed(c) \ {t}
    BY <1>4, <2>1
  <2>3. Claimed(c) \ {t} \subseteq Claimed(c)
    OBVIOUS
  <2>4. /\ IsFiniteSet(Claimed(c) \ {t})
        /\ Cardinality(Claimed(c) \ {t}) <= Cardinality(Claimed(c))
    BY ONLY <1>3, <2>3, FS_Subset
  <2>5. Cardinality(Claimed(c) \ {t}) \in Nat
    BY <2>4, FS_CardinalityType
  <2> QED
    BY <1>2, <1>3, <2>1, <2>2, <2>4, <2>5
<1> QED
  BY <1>6, <1>7, <1>8, <1>9, <1>10 DEF Act

-----------------------------------------------------------------------------
(* Places: a value enters a channel, is taken, and is received *)

LEMMA PlacesStay ==
  ASSUME Types, Places, NEW t \in Thread, Act(t)
  PROVE  Places'
<1> USE DEF Go, Return, chans, history
<1>0. Shape /\ ThreadOK(t)
  BY DEF Types
<1>1. NULL \notin Sent
  BY SelectAssumption DEF Sent
<1>2. /\ \A c \in Channel : queue[c] \in Seq(Sent) /\ Len(queue[c]) \in Nat
      /\ \A c \in Channel : \A i \in 1 .. Len(queue[c]) : queue[c][i] \in Sent
  <2>1. \A c \in Channel : queue[c] \in Seq(Sent)
    BY DEF Places
  <2> QED
    BY <2>1, ElementIn
<1>3. CASE UNCHANGED <<queue, val, got, sent>>
  <2>1. Sent' = Sent
    BY <1>3 DEF Sent
  <2>2. \A v : (Queued(v)' <=> Queued(v)) /\ (Taken(v)' <=> Taken(v))
    BY <1>3 DEF Queued, Taken
  <2> QED
    BY <1>3, <2>1, <2>2 DEF Places
<1>4. CASE SendDone(t)
  <2> DEFINE x == NextValue(t)
             d == Chan(t)
  <2>1. /\ d \in Channel /\ queue'[d] = Append(queue[d], x)
        /\ \A c \in Channel : c # d => queue'[c] = queue[c]
        /\ val' = val /\ got' = got
        /\ sent'[t] = sent[t] + 1 /\ \A u \in Thread : u # t => sent'[u] = sent[u]
    BY <1>0, <1>4 DEF SendDone, Shape, ThreadOK
  <2>2. sent[t] \in Nat /\ sent[t] < MaxSends /\ MaxSends \in Nat
    <3>1. HasValues(t) /\ type[t][cur[t]] = "SEND" /\ cur[t] \in Indexes(t) /\ sent[t] \in 0 .. MaxSends
      BY <1>0, <1>4 DEF ThreadOK, SendDone
    <3> QED
      BY <3>1, SelectAssumption DEF HasValues
  <2>3. x \notin Sent /\ x \in Thread \X (1 .. MaxSends)
    BY <2>2 DEF Sent, NextValue
  <2>4. Sent' = Sent \cup {x}
    <3>1. ASSUME NEW v \in Thread \X (1 .. MaxSends)
          PROVE  v[2] <= sent'[v[1]] <=> v[2] <= sent[v[1]] \/ v = x
      <4>1. CASE v[1] = t
        BY <2>1, <2>2, <4>1 DEF NextValue
      <4>2. CASE v[1] # t
        BY <2>1, <4>2 DEF NextValue
      <4> QED
        BY <4>1, <4>2
    <3> QED
      BY <2>3, <3>1 DEF Sent
  <2> HIDE DEF x
  <2>5. /\ Len(queue'[d]) = Len(queue[d]) + 1 /\ queue'[d][Len(queue[d]) + 1] = x
        /\ \A i \in 1 .. Len(queue[d]) : queue'[d][i] = queue[d][i]
        /\ queue'[d] \in Seq(Sent \cup {x})
    <3>1. queue[d] \in Seq(Sent \cup {x})
      BY <1>2, <2>1
    <3> QED
      BY <2>1, <3>1
  <2> HIDE DEF d
  <2>6. ASSUME NEW c \in Channel, NEW i \in 1 .. Len(queue'[c])
        PROVE  \/ i \in 1 .. Len(queue[c]) /\ queue'[c][i] = queue[c][i]
               \/ c = d /\ i = Len(queue[d]) + 1 /\ queue'[c][i] = x
    BY <1>2, <2>1, <2>5, SMTT(30)
  <2>7. ASSUME NEW v PROVE Queued(v)' <=> Queued(v) \/ v = x
    <3>1. Queued(v)' => Queued(v) \/ v = x
      BY <2>6 DEF Queued
    <3>2. ASSUME NEW c \in Channel, NEW i \in 1 .. Len(queue[c]) 
          PROVE  i \in 1 .. Len(queue'[c]) /\ queue'[c][i] = queue[c][i]
      BY <1>2, <2>1, <2>5, SMTT(30)
    <3>3. Queued(v) => Queued(v)'
      BY <3>2 DEF Queued
    <3>4. ASSUME v = x PROVE Queued(v)'
      <4>1. Len(queue[d]) + 1 \in 1 .. Len(queue'[d])
        BY <1>2, <2>1, <2>5
      <4>2. \E i \in 1 .. Len(queue'[d]) : queue'[d][i] = v
        BY <2>5, <3>4, <4>1
      <4> QED
        BY <2>1, <4>2 DEF Queued
    <3> QED
      BY <3>1, <3>3, <3>4
  <2>8. \A v : Taken(v)' <=> Taken(v)
    BY <2>1 DEF Taken
  <2>9. ~Queued(x) /\ ~Taken(x) /\ x \notin got
    <3>1. \A u \in Thread : val[u] \in Sent \cup {NULL}
      BY DEF Places
    <3>2. x # NULL
      BY <2>3, SelectAssumption
    <3> QED
      BY <1>2, <2>3, <3>1, <3>2 DEF Queued, Taken, Places
  <2>11. \A c \in Channel : queue'[c] \in Seq(Sent')
    <3>1. \A c \in Channel : queue[c] \in Seq(Sent \cup {x})
      BY <1>2
    <3> QED
      BY <2>1, <2>4, <2>5, <3>1
  <2>12. (\A u \in Thread : val'[u] \in Sent' \cup {NULL}) /\ got' \subseteq Sent'
    BY <2>1, <2>4 DEF Places
  <2>13. \A v \in Sent' : Queued(v)' \/ Taken(v)' \/ v \in got'
    BY <2>1, <2>4, <2>7, <2>8 DEF Places
  <2>14. \A v \in Sent' : /\ ~(Queued(v)' /\ Taken(v)')
                          /\ ~(Queued(v)' /\ v \in got')
                          /\ ~(Taken(v)' /\ v \in got')
    BY <2>1, <2>4, <2>7, <2>8, <2>9 DEF Places
  <2>15. ASSUME NEW c \in Channel, NEW e \in Channel, NEW i \in 1 .. Len(queue'[c]),
                NEW j \in 1 .. Len(queue'[e]), queue'[c][i] = queue'[e][j]
         PROVE  c = e /\ i = j
    <3>1. \A b \in Channel : \A k \in 1 .. Len(queue[b]) : queue[b][k] # x
      BY <2>9 DEF Queued
    <3>2. /\ \/ i \in 1 .. Len(queue[c]) /\ queue'[c][i] = queue[c][i]
             \/ c = d /\ i = Len(queue[d]) + 1 /\ queue'[c][i] = x
          /\ \/ j \in 1 .. Len(queue[e]) /\ queue'[e][j] = queue[e][j]
             \/ e = d /\ j = Len(queue[d]) + 1 /\ queue'[e][j] = x
      BY <2>6
    <3> QED
      BY <2>15, <3>1, <3>2 DEF Places
  <2>16. \A u, w \in Thread : val'[u] = val'[w] /\ val'[u] # NULL => u = w
    BY <2>1 DEF Places
  <2> QED
    BY <2>11, <2>12, <2>13, <2>14, <2>15, <2>16 DEF Places
<1>5. CASE RecvTake(t)
  <2> DEFINE d == Chan(t)
             x == Head(queue[d])
  <2>1. /\ d \in Channel /\ queue[d] # <<>> /\ queue'[d] = Tail(queue[d])
        /\ \A c \in Channel : c # d => queue'[c] = queue[c]
        /\ got' = got /\ sent' = sent /\ val[t] = NULL
        /\ val'[t] = x /\ \A u \in Thread : u # t => val'[u] = val[u]
    BY <1>0, <1>5 DEF RecvTake, Shape, ThreadOK
  <2> HIDE DEF d
  <2>2. /\ Len(queue[d]) \in Nat \ {0} /\ Len(queue'[d]) = Len(queue[d]) - 1
        /\ x = queue[d][1] /\ x \in Sent
        /\ \A i \in 1 .. Len(queue'[d]) : queue'[d][i] = queue[d][i + 1]
        /\ queue'[d] \in Seq(Sent)
    BY <1>2, <2>1
  <2> HIDE DEF x
  <2>3. Sent' = Sent
    BY <2>1 DEF Sent
  <2>4. \A c, e \in Channel : \A i \in 1 .. Len(queue[c]), j \in 1 .. Len(queue[e]) :
          queue[c][i] = queue[e][j] => c = e /\ i = j
    BY DEF Places
  <2>5. ASSUME NEW c \in Channel, NEW i \in 1 .. Len(queue'[c])
        PROVE  \/ c # d /\ i \in 1 .. Len(queue[c]) /\ queue'[c][i] = queue[c][i]
               \/ c = d /\ i + 1 \in 1 .. Len(queue[d]) /\ queue'[c][i] = queue[d][i + 1]
    <3>1. CASE c # d
      BY <2>1, <3>1
    <3>2. CASE c = d
      <4>1. i \in 1 .. Len(queue'[d])
        BY <3>2
      <4> QED
        BY <2>2, <3>2, <4>1
    <3> QED
      BY <3>1, <3>2
  <2>6. ASSUME NEW v PROVE Queued(v)' <=> Queued(v) /\ v # x
    <3>1. ASSUME Queued(v)' PROVE Queued(v) /\ v # x
      <4>0. PICK c \in Channel : \E i \in 1 .. Len(queue'[c]) : queue'[c][i] = v
        BY <3>1 DEF Queued
      <4>1. PICK i \in 1 .. Len(queue'[c]) : queue'[c][i] = v
        BY <4>0
      <4>2. 1 \in 1 .. Len(queue[d]) /\ i # 0 /\ i \in Nat
        BY <2>1, <2>2, <4>1
      <4>3. CASE c # d /\ i \in 1 .. Len(queue[c]) /\ queue'[c][i] = queue[c][i]
        BY <2>1, <2>2, <2>4, <4>1, <4>2, <4>3 DEF Queued
      <4>4. CASE c = d /\ i + 1 \in 1 .. Len(queue[d]) /\ queue'[c][i] = queue[d][i + 1]
        <5>1. Queued(v)
          BY <2>1, <4>1, <4>4 DEF Queued
        <5>2. i + 1 # 1
          BY <4>2
        <5>3. queue[d][i + 1] # queue[d][1]
          BY <2>1, <2>4, <4>2, <4>4, <5>2
        <5> QED
          BY <2>2, <4>1, <4>4, <5>1, <5>3
      <4> QED
        BY <2>5, <4>3, <4>4
    <3>2. ASSUME Queued(v), v # x PROVE Queued(v)'
      <4>0. PICK c \in Channel : \E i \in 1 .. Len(queue[c]) : queue[c][i] = v
        BY <3>2 DEF Queued
      <4>1. PICK i \in 1 .. Len(queue[c]) : queue[c][i] = v
        BY <4>0
      <4>2. CASE c # d
        BY <2>1, <4>1, <4>2 DEF Queued
      <4>3. CASE c = d
        <5>1. i - 1 \in 1 .. Len(queue'[d])
          BY <2>2, <3>2, <4>1, <4>3
        <5>2. (i - 1) + 1 = i
          OBVIOUS
        <5>3. queue'[d][i - 1] = v
          BY <2>2, <4>1, <4>3, <5>1, <5>2
        <5> QED
          BY <2>1, <5>1, <5>3 DEF Queued
      <4> QED
        BY <4>2, <4>3
    <3> QED
      BY <3>1, <3>2
  <2>7. \A v \in Sent : Taken(v)' <=> Taken(v) \/ v = x
    BY <1>1, <2>1 DEF Taken
  <2>8. Queued(x) /\ ~Taken(x) /\ x \notin got
    <3>1. Queued(x)
      <4>1. 1 \in 1 .. Len(queue[d])
        BY <2>2
      <4> QED
        BY <2>1, <2>2, <4>1 DEF Queued
    <3> QED
      BY <2>2, <3>1 DEF Places
  <2>11. \A c \in Channel : queue'[c] \in Seq(Sent')
    BY <1>2, <2>1, <2>2, <2>3
  <2>12. (\A u \in Thread : val'[u] \in Sent' \cup {NULL}) /\ got' \subseteq Sent'
    BY <2>1, <2>2, <2>3 DEF Places
  <2>13. \A v \in Sent' : Queued(v)' \/ Taken(v)' \/ v \in got'
    BY <2>1, <2>3, <2>6, <2>7 DEF Places
  <2>14. \A v \in Sent' : /\ ~(Queued(v)' /\ Taken(v)')
                          /\ ~(Queued(v)' /\ v \in got')
                          /\ ~(Taken(v)' /\ v \in got')
    BY <2>1, <2>3, <2>6, <2>7, <2>8 DEF Places
  <2>15. ASSUME NEW c \in Channel, NEW e \in Channel, NEW i \in 1 .. Len(queue'[c]),
                NEW j \in 1 .. Len(queue'[e]), queue'[c][i] = queue'[e][j]
         PROVE  c = e /\ i = j
    <3>1. /\ \/ c # d /\ i \in 1 .. Len(queue[c]) /\ queue'[c][i] = queue[c][i]
             \/ c = d /\ i + 1 \in 1 .. Len(queue[d]) /\ queue'[c][i] = queue[d][i + 1]
          /\ \/ e # d /\ j \in 1 .. Len(queue[e]) /\ queue'[e][j] = queue[e][j]
             \/ e = d /\ j + 1 \in 1 .. Len(queue[d]) /\ queue'[e][j] = queue[d][j + 1]
      BY <2>5
    <3>2. CASE c # d /\ e # d
      BY <2>4, <2>15, <3>1, <3>2
    <3>3. CASE c = d /\ e = d
      <4>1. /\ i + 1 \in 1 .. Len(queue[d]) /\ j + 1 \in 1 .. Len(queue[d])
            /\ queue[d][i + 1] = queue[d][j + 1]
        BY <2>15, <3>1, <3>3
      <4>2. i + 1 = j + 1
        BY <2>1, <2>4, <4>1
      <4> QED
        BY <3>3, <4>2
    <3>4. CASE c # d /\ e = d
      BY <2>1, <2>4, <2>15, <3>1, <3>4
    <3>5. CASE c = d /\ e # d
      BY <2>1, <2>4, <2>15, <3>1, <3>5
    <3> QED
      BY <3>2, <3>3, <3>4, <3>5
  <2>16. \A u, w \in Thread : val'[u] = val'[w] /\ val'[u] # NULL => u = w
    BY <2>1, <2>8 DEF Taken, Places
  <2> QED
    BY <2>11, <2>12, <2>13, <2>14, <2>15, <2>16 DEF Places
<1>6. CASE RecvDone(t)
  <2> DEFINE x == val[t]
  <2>1. /\ x # NULL /\ got' = got \cup {x} /\ sent' = sent /\ queue' = queue
        /\ val'[t] = NULL /\ \A u \in Thread : u # t => val'[u] = val[u]
    BY <1>0, <1>6 DEF RecvDone, Shape, ThreadOK
  <2>2. x \in Sent /\ Taken(x)
    BY <2>1 DEF Places, Taken
  <2> HIDE DEF x
  <2>3. Sent' = Sent
    BY <2>1 DEF Sent
  <2>4. \A v : Queued(v)' <=> Queued(v)
    BY <2>1 DEF Queued
  <2>5. \A u \in Thread : val[u] = x <=> u = t
    BY <2>1 DEF Places, x
  <2>6. \A v \in Sent : Taken(v)' <=> Taken(v) /\ v # x
    <3>1. x = val[t]
      BY DEF x
    <3> QED
      BY <1>1, <2>1, <2>5, <3>1 DEF Taken
  <2>12. (\A u \in Thread : val'[u] \in Sent' \cup {NULL}) /\ got' \subseteq Sent'
    BY <2>1, <2>2, <2>3 DEF Places
  <2>13. \A v \in Sent' : Queued(v)' \/ Taken(v)' \/ v \in got'
    BY <2>1, <2>3, <2>4, <2>6 DEF Places
  <2>14. \A v \in Sent' : /\ ~(Queued(v)' /\ Taken(v)')
                          /\ ~(Queued(v)' /\ v \in got')
                          /\ ~(Taken(v)' /\ v \in got')
    BY <2>1, <2>2, <2>3, <2>4, <2>6 DEF Places
  <2>15. /\ \A c \in Channel : queue'[c] \in Seq(Sent')
         /\ \A c, e \in Channel : \A i \in 1 .. Len(queue'[c]), j \in 1 .. Len(queue'[e]) :
              queue'[c][i] = queue'[e][j] => c = e /\ i = j
    BY <2>1, <2>3 DEF Places
  <2>16. \A u, w \in Thread : val'[u] = val'[w] /\ val'[u] # NULL => u = w
    BY <2>1 DEF Places
  <2> QED
    BY <2>12, <2>13, <2>14, <2>15, <2>16 DEF Places
<1>7. CASE \/ Call(t) \/ CallRefused(t) \/ (\E i \in Indexes(t) : Try(t, i)) \/ Finish(t)
           \/ SendFull(t) \/ SendClaim(t) \/ SendClosed(t) \/ RecvFindNothing(t)
           \/ RecvEmpty(t) \/ RecvRetry(t) \/ RecvClosed(t)
           \/ (\E i \in Indexes(t) : OptionDone(t, i))
  <2>1. UNCHANGED <<queue, val, got, sent>>
    BY <1>7 DEF Call, CallRefused, Try, Finish, SendFull, SendClaim, SendClosed,
       RecvFindNothing, RecvEmpty, RecvRetry, RecvClosed, OptionDone
  <2> QED
    BY <1>3, <2>1
<1> QED
  BY <1>4, <1>5, <1>6, <1>7 DEF Act

-----------------------------------------------------------------------------
(* Over: nothing is sent to a closed channel, unless it was closed during the send *)

LEMMA OverStays ==
  ASSUME Types, Over, NEW t \in Thread, Act(t)
  PROVE  Over'
<1> USE DEF Go, Return, chans, history
<1>0. Shape /\ ThreadOK(t)
  BY DEF Types
<1>1. ASSUME NEW c \in Channel, closed'[c], c \notin raced',
             NEW u \in Thread, pc'[u] \in {"send", "claimed"}, Chan(u)' = c
      PROVE  pc'[u] = "send" /\ late'[u]
  <2>1. CASE u # t
    <3>1. pc'[u] = pc[u] /\ late'[u] = late[u] /\ Chan(u)' = Chan(u)
      BY <1>1, <2>1, Frame DEF Chan
    <3>2. CASE closed'[c] = closed[c] /\ raced' = raced
      BY <1>1, <3>1, <3>2 DEF Over
    <3>3. ASSUME NEW i \in Indexes(t), OptionDone(t, i) PROVE pc'[u] = "send" /\ late'[u]
      <4>1. c \notin raced
        BY <1>1, <3>3 DEF OptionDone
      <4>2. CASE closed[c]
        BY <1>1, <3>1, <4>1, <4>2 DEF Over
      <4>3. CASE ~closed[c]
        <5>1. c = Cases[t][i].c
          BY <1>1, <3>3, <4>3 DEF OptionDone
        <5>2. ~\E w \in Thread : (pc[w] = "claimed" \/ (pc[w] = "send" /\ ~late[w])) /\ Chan(w) = c
          BY <1>1, <3>3, <5>1 DEF OptionDone
        <5> QED
          BY <1>1, <3>1, <5>2
      <4> QED
        BY <4>2, <4>3
    <3>4. (closed'[c] = closed[c] /\ raced' = raced) \/ \E i \in Indexes(t) : OptionDone(t, i)
      BY DEF Act, Call, CallRefused, Try, Finish, SendFull, SendClaim, SendDone, SendClosed,
         RecvTake, RecvDone, RecvFindNothing, RecvEmpty, RecvRetry, RecvClosed
    <3> QED
      BY <3>2, <3>3, <3>4
  <2>2. CASE u = t
    <3>1. ASSUME NEW i \in Indexes(t), Try(t, i) PROVE pc'[u] = "send" /\ late'[u]
      <4>1. Chan(t)' = Cases[t][i].c /\ closed' = closed
        BY <1>0, <3>1 DEF Try, Chan, Shape
      <4> QED
        BY <1>0, <1>1, <2>2, <3>1, <4>1 DEF Try, Shape
    <3>2. CASE SendClaim(t)
      <4>1. Chan(t)' = Chan(t) /\ closed' = closed /\ raced' = raced /\ pc[t] = "send" /\ ~late[t]
        BY <3>2 DEF SendClaim, Chan
      <4> QED
        BY <1>1, <2>2, <4>1 DEF Over
    <3>3. pc'[t] \in {"send", "claimed"} => SendClaim(t) \/ \E i \in Indexes(t) : Try(t, i)
      BY <1>0 DEF Act, Call, CallRefused, Finish, SendFull, SendDone, Arrives, SendClosed,
         RecvTake, RecvDone, RecvFindNothing, RecvEmpty, RecvRetry, RecvClosed, OptionDone, Shape
    <3> QED
      BY <1>1, <2>2, <3>1, <3>2, <3>3
  <2> QED
    BY <2>1, <2>2
(* What changes a queue *)
<1>2. \/ queue' = queue
      \/ /\ SendDone(t) /\ Chan(t) \in Channel
         /\ \A c : c # Chan(t) /\ c \in Channel => queue'[c] = queue[c]
      \/ /\ RecvTake(t) /\ Chan(t) \in Channel
         /\ \A c : c # Chan(t) /\ c \in Channel => queue'[c] = queue[c]
  <2>1. SendDone(t) \/ RecvTake(t) => Chan(t) \in Channel
    BY <1>0 DEF SendDone, RecvTake, ThreadOK
  <2>2. SendDone(t) \/ RecvTake(t) => \A c : c # Chan(t) /\ c \in Channel => queue'[c] = queue[c]
    BY <1>0 DEF SendDone, RecvTake, Shape
  <2>3. SendDone(t) \/ RecvTake(t) \/ queue' = queue
    BY DEF Act, Call, CallRefused, Try, Finish, SendFull, SendClaim, SendClosed,
       RecvDone, RecvFindNothing, RecvEmpty, RecvRetry, RecvClosed, OptionDone
  <2> QED
    BY <2>1, <2>2, <2>3
<1>3. ASSUME NEW u \in Thread, pc'[u] = "nothing" PROVE queue'[Chan(u)'] = <<>>
  <2>1. CASE u = t
    <3>1. RecvFindNothing(t)
      BY <1>0, <1>3, <2>1 DEF Act, Call, CallRefused, Try, Finish, SendFull, SendClaim, SendDone,
         Arrives, SendClosed, RecvTake, RecvDone, RecvEmpty, RecvRetry, RecvClosed, OptionDone, Shape
    <3> QED
      BY <2>1, <3>1 DEF RecvFindNothing, Chan
  <2>2. CASE u # t
    <3>1. pc[u] = "nothing" /\ pc'[u] = pc[u] /\ Chan(u)' = Chan(u)
      BY <1>3, <2>2, Frame DEF Chan
    <3>2. queue[Chan(u)] = <<>> /\ Chan(u) \in Channel
      BY <3>1 DEF Over, Types, ThreadOK
    <3>3. SendDone(t) => Chan(t) # Chan(u)
      BY <2>2, <3>1 DEF SendDone, Arrives
    <3>4. RecvTake(t) => Chan(t) # Chan(u)
      BY <3>2 DEF RecvTake
    <3> QED
      BY <1>2, <3>1, <3>2, <3>3, <3>4
  <2> QED
    BY <2>1, <2>2
<1>4. ASSUME NEW u \in Thread, NEW i \in Indexes(u), FinishedAlone(u, i)'
      PROVE  LET case == Cases[u][i]
             IN  /\ case.c \in Channel /\ closed'[case.c]
                 /\ case.type = "RECV" /\ case.c \notin raced' => queue'[case.c] = <<>>
  <2> DEFINE c == Cases[u][i].c
  <2>0. type'[u][i] = "OMIT" /\ Cases[u][i].type # "OMIT" /\ <<u, i>> \notin given'
    BY <1>4 DEF FinishedAlone
  <2>1. CASE type[u][i] = "OMIT"
    <3>1. <<u, i>> \notin given /\ raced \subseteq raced'
          /\ \A d \in Channel : closed[d] => closed'[d]
      BY <1>4, <2>0 DEF Act, Call, CallRefused, Try, Finish, SendFull, SendClaim, SendDone, SendClosed,
         RecvTake, RecvDone, RecvFindNothing, RecvEmpty, RecvRetry, RecvClosed, OptionDone
    <3>2. FinishedAlone(u, i)
      BY <2>0, <2>1, <3>1 DEF FinishedAlone
    <3>3. c \in Channel /\ closed[c]
          /\ (Cases[u][i].type = "RECV" /\ c \notin raced => queue[c] = <<>>)
      BY <3>2 DEF Over, FinishedIsOver, FinishedAlone
    <3>4. ASSUME Cases[u][i].type = "RECV", c \notin raced' PROVE queue'[c] = <<>>
      <4>1. c \notin raced /\ queue[c] = <<>>
        BY <3>1, <3>3, <3>4
      <4>2. SendDone(t) => Chan(t) # c
        BY <3>3, <4>1 DEF SendDone, Over
      <4>3. RecvTake(t) => Chan(t) # c
        BY <4>1 DEF RecvTake
      <4> QED
        BY <1>2, <3>3, <4>1, <4>2, <4>3
    <3> QED
      BY <3>1, <3>3, <3>4
  <2>2. CASE type[u][i] # "OMIT"
    <3>1. u = t
      BY <2>0, <2>2, Frame
    <3>2. SendClosed(t) \/ RecvClosed(t)
      <4>1. \A j \in Indexes(t) : OptionDone(t, j) => <<t, j>> \in given'
        BY DEF OptionDone
      <4>2. \A j \in Indexes(t) : OptionDone(t, j) => \A k : k # j => type'[t][k] = type[t][k]
        BY <1>0 DEF OptionDone, Shape
      <4>3. ~\E j \in Indexes(t) : OptionDone(t, j)
        BY <2>0, <2>2, <3>1, <4>1, <4>2
      <4> QED
        BY <2>0, <2>2, <3>1, <4>3 DEF Act, Call, CallRefused, Try, Finish, SendFull, SendClaim, SendDone,
           RecvTake, RecvDone, RecvFindNothing, RecvEmpty, RecvRetry
    <3>3. cur[t] = i /\ queue' = queue /\ closed' = closed /\ c = Chan(t) /\ closed[c] /\ c \in Channel
      <4>1. type' = [type EXCEPT ![t][cur[t]] = "OMIT"] /\ queue' = queue /\ closed' = closed
            /\ closed[Chan(t)] /\ Chan(t) \in Channel
        BY <1>0, <3>2 DEF SendClosed, RecvClosed, ThreadOK
      <4>2. cur[t] = i
        BY <1>0, <2>0, <2>2, <3>1, <4>1 DEF Shape
      <4> QED
        BY <3>1, <4>1, <4>2 DEF Chan
    <3>4. CASE SendClosed(t)
      <4>1. type[t][i] = "SEND" /\ type[t][i] \in {Cases[t][i].type, "OMIT"}
        BY <1>0, <3>1, <3>3, <3>4 DEF SendClosed, ThreadOK
      <4> QED
        BY <3>1, <3>3, <4>1
    <3>5. CASE RecvClosed(t)
      <4>1. queue[Chan(t)] = <<>>
        BY <3>5 DEF RecvClosed, Over
      <4> QED
        BY <3>1, <3>3, <4>1
    <3> QED
      BY <3>2, <3>4, <3>5
  <2> QED
    BY <2>1, <2>2
<1>5. \A u \in Thread : \A i \in Indexes(u) : FinishedAlone(u, i)' => Cases[u][i].c \in Channel
  BY <1>4
<1>6. FinishedIsOver'
  BY <1>4 DEF FinishedIsOver, FinishedAlone
<1> QED
  BY <1>1, <1>3, <1>5, <1>6 DEF Over

-----------------------------------------------------------------------------
(* Alone: a call that is not disturbed *)

(* A case that is not ready stays so while its channel does, and when it is finished. *)
LEMMA NotReadyStays ==
  ASSUME NEW t \in Thread, NEW i, NotReady(t, i), queue' = queue,
         type'[t][i] \in {type[t][i], "OMIT"}
  PROVE  NotReady(t, i)'
BY DEF NotReady

LEMMA AloneStays ==
  ASSUME Types, Room, Places, Over, Alone, NEW t \in Thread, Act(t),
         \/ Call(t) /\ alone' = IF \A u \in Thread \ {t} : pc[u] = "idle" THEN t ELSE NULL
         \/ ~Call(t) /\ alone' = IF alone = t THEN t ELSE NULL
  PROVE  Alone'
<1> USE DEF Go, Return, chans, history
<1>0. Shape /\ ThreadOK(t)
  BY DEF Types
<1> SUFFICES ASSUME alone' = t
             PROVE  /\ \A u \in Thread \ {t} : pc'[u] = "idle"
                    /\ pc'[t] # "missed"
                    /\ pc'[t] \notin {"idle", "taken"} =>
                         \A i \in Indexes(t) \ left'[t] : (pc'[t] # "next" /\ i = cur'[t]) \/ NotReady(t, i)'
                    /\ pc'[t] = "idle" /\ ret'[t] = NumSelect(t) => \A i \in Indexes(t) : NotReady(t, i)'
  <2>1. ASSUME NEW u \in Thread, alone' = u PROVE u = t
    BY <2>1, SelectAssumption
  <2> QED
    BY <2>1 DEF Alone
<1>1. \A u \in Thread \ {t} : pc[u] = "idle"
  BY SelectAssumption DEF Alone
<1>2. \A u \in Thread \ {t} : pc'[u] = "idle"
  BY <1>1, Frame
<1>3. NumSelect(t) \notin Indexes(t) /\ NumSelect(t) # CHAN_ERROR
  BY CaseShape DEF CHAN_ERROR
<1>4. CASE Call(t)
  BY <1>0, <1>2, <1>4 DEF Call, Shape
<1>5. CASE ~Call(t)
  <2>1. /\ alone = t
        /\ pc[t] # "missed"
        /\ pc[t] \notin {"idle", "taken"} =>
             \A i \in Indexes(t) \ left[t] : (pc[t] # "next" /\ i = cur[t]) \/ NotReady(t, i)
        /\ pc[t] = "idle" /\ ret[t] = NumSelect(t) => \A i \in Indexes(t) : NotReady(t, i)
    BY <1>5, SelectAssumption DEF Alone
  <2>2. CASE CallRefused(t)
    BY <1>0, <1>2, <1>3, <2>2 DEF CallRefused, Shape
  <2>3. ASSUME NEW i \in Indexes(t), Try(t, i)
        PROVE  /\ pc'[t] \in {"send", "recv"}
               /\ \A j \in Indexes(t) \ left'[t] : j = cur'[t] \/ NotReady(t, j)'
    <3>1. /\ pc'[t] \in {"send", "recv"} /\ pc[t] = "next" /\ left'[t] = left[t] \ {i}
          /\ cur'[t] = i /\ queue' = queue /\ type' = type
      BY <1>0, <2>3 DEF Try, Shape
    <3>2. \A j \in Indexes(t) \ left[t] : NotReady(t, j)
      BY <2>1, <3>1
    <3>3. \A j \in Indexes(t) \ left[t] : NotReady(t, j)'
      BY <3>1, <3>2, NotReadyStays
    <3> QED
      BY <3>1, <3>3
  <2>4. CASE Finish(t)
    <3>1. /\ pc'[t] = "idle" /\ pc[t] = "next" /\ ToTry(t) = {} /\ queue' = queue /\ type' = type
      BY <1>0, <2>4 DEF Finish, Shape
    <3>2. ASSUME NEW i \in Indexes(t) PROVE NotReady(t, i)
      <4>1. CASE i \in left[t]
        BY <3>1, <4>1 DEF ToTry, NotReady
      <4>2. CASE i \notin left[t]
        BY <2>1, <3>1, <4>2
      <4> QED
        BY <4>1, <4>2
    <3>3. \A i \in Indexes(t) : NotReady(t, i)'
      BY <3>1, <3>2, NotReadyStays
    <3> QED
      BY <1>2, <3>1, <3>3
  (* The case that was tried is not ready. *)
  <2>5. ASSUME pc[t] \notin {"idle", "next", "taken"}, pc'[t] = "next", queue' = queue,
               left'[t] = left[t],
               \A i \in Indexes(t) : i = cur[t] => NotReady(t, i)',
               \A i \in Indexes(t) : type'[t][i] \in {type[t][i], "OMIT"}
        PROVE  /\ pc'[t] # "missed"
               /\ \A i \in Indexes(t) \ left'[t] : NotReady(t, i)'
    BY <2>1, <2>5, NotReadyStays
  <2>6. CASE SendFull(t)
    <3>1. /\ pc[t] = "send" /\ pc'[t] = "next" /\ queue' = queue /\ type' = type
          /\ left' = left /\ IsFull(Chan(t)) /\ Chan(t) \in Channel /\ type[t][cur[t]] = "SEND"
      BY <1>0, <2>6 DEF SendFull, Shape, ThreadOK
    <3>2. Claimed(Chan(t)) = {}
      BY <1>1, <3>1 DEF Claimed
    <3>3. Cardinality(Claimed(Chan(t))) = 0
      BY <3>2, FS_EmptySet
    <3>4. Len(queue[Chan(t)]) = Capacity[Chan(t)]
      <4>1. /\ Len(queue[Chan(t)]) + 0 <= Capacity[Chan(t)]
            /\ Len(queue[Chan(t)]) + 0 >= Capacity[Chan(t)]
        BY <3>1, <3>3 DEF Room, IsFull
      <4> DEFINE len == Len(queue[Chan(t)])
      <4>2. len \in Nat
        <5>1. queue[Chan(t)] \in Seq(Sent)
          BY <3>1 DEF Places
        <5> QED
          BY <5>1
      <4>3. Capacity[Chan(t)] \in Nat
        BY <3>1, SelectAssumption
      <4> HIDE DEF len
      <4> QED
        BY <4>1, <4>2, <4>3 DEF len
    <3>5. \A i \in Indexes(t) : i = cur[t] => NotReady(t, i)'
      BY <3>1, <3>4 DEF NotReady, Chan
    <3> QED
      BY <1>2, <2>5, <3>1, <3>5
  <2>7. CASE SendClaim(t) \/ RecvFindNothing(t)
    <3>1. /\ pc[t] \in {"send", "recv"} /\ pc'[t] \in {"claimed", "nothing"}
          /\ queue' = queue /\ type' = type /\ left' = left /\ cur' = cur
      BY <1>0, <2>7 DEF SendClaim, RecvFindNothing, Shape
    <3>2. \A i \in Indexes(t) \ left[t] : i = cur[t] \/ NotReady(t, i)
      BY <2>1, <3>1
    <3>3. \A i \in Indexes(t) \ left'[t] : i = cur'[t] \/ NotReady(t, i)'
      BY <3>1, <3>2, NotReadyStays
    <3> QED
      BY <1>2, <3>1, <3>3
  <2>8. CASE SendDone(t) \/ RecvDone(t)
    <3>1. pc'[t] = "idle" /\ ret'[t] = cur[t] /\ cur[t] \in Indexes(t)
      BY <1>0, <2>8 DEF SendDone, RecvDone, Arrives, Shape, ThreadOK
    <3> QED
      BY <1>2, <1>3, <3>1
  <2>9. CASE SendClosed(t) \/ RecvClosed(t)
    <3>1. /\ pc[t] \in {"send", "nothing"} /\ pc'[t] = "next" /\ queue' = queue /\ left' = left
          /\ cur[t] \in Indexes(t) /\ type' = [type EXCEPT ![t][cur[t]] = "OMIT"]
      BY <1>0, <2>9 DEF SendClosed, RecvClosed, Shape, ThreadOK
    <3>2. type[t] \in [Indexes(t) -> CaseTypes]
      BY <1>0 DEF ThreadOK
    <3>3. type'[t] = [type[t] EXCEPT ![cur[t]] = "OMIT"]
      BY <1>0, <3>1 DEF Shape
    <3>4. type'[t][cur[t]] = "OMIT" /\ \A i \in Indexes(t) : type'[t][i] \in {type[t][i], "OMIT"}
      BY <3>1, <3>2, <3>3
    <3>5. \A i \in Indexes(t) : i = cur[t] => NotReady(t, i)'
      BY <3>4 DEF NotReady
    <3> QED
      BY <1>2, <2>5, <3>1, <3>4, <3>5
  <2>10. CASE RecvTake(t)
    <3>1. pc'[t] = "taken"
      BY <1>0, <2>10 DEF RecvTake, Shape
    <3> QED
      BY <1>2, <3>1
  <2>11. CASE RecvEmpty(t)
    <3>1. /\ pc[t] = "nothing" /\ pc'[t] = "next" /\ queue' = queue /\ type' = type
          /\ left' = left /\ type[t][cur[t]] = "RECV"
      BY <1>0, <2>1, <2>11 DEF RecvEmpty, Shape, ThreadOK
    <3>2. queue[Chan(t)] = <<>>
      BY <3>1 DEF Over
    <3>3. \A i \in Indexes(t) : i = cur[t] => NotReady(t, i)'
      BY <3>1, <3>2 DEF NotReady, Chan
    <3> QED
      BY <1>2, <2>5, <3>1, <3>3
  <2>12. CASE RecvRetry(t)
    BY <2>1, <2>12 DEF RecvRetry
  <2>13. ASSUME NEW i \in Indexes(t), OptionDone(t, i)
         PROVE  /\ pc'[t] = "idle"
                /\ ret'[t] = NumSelect(t) => \A j \in Indexes(t) : NotReady(t, j)'
    <3>1. /\ pc[t] = "idle" /\ pc'[t] = "idle" /\ ret' = ret /\ queue' = queue
          /\ type'[t] = [type[t] EXCEPT ![i] = "OMIT"]
      BY <1>0, <2>13 DEF OptionDone, Shape
    <3>2. type[t] \in [Indexes(t) -> CaseTypes]
      BY <1>0 DEF ThreadOK
    <3>3. \A j \in Indexes(t) : type'[t][j] \in {type[t][j], "OMIT"}
      BY <3>1, <3>2
    <3> QED
      BY <2>1, <3>1, <3>3, NotReadyStays
  <2> QED
    BY <1>2, <1>5, <2>2, <2>3, <2>4, <2>6, <2>7, <2>8, <2>9, <2>10, <2>11, <2>12, <2>13 DEF Act
<1> QED
  BY <1>4, <1>5

-----------------------------------------------------------------------------
(* The theorems *)

LEMMA InitHolds ==
  ASSUME Init
  PROVE  SelectInv
<1> USE DEF Init
<1>1. Shape
  BY DEF Shape, Labels
<1>2. ASSUME NEW t \in Thread PROVE ThreadOK(t)
  <2>1. \A i \in Indexes(t) : Cases[t][i].type \in CaseTypes
    BY CaseShape
  <2>2. type[t] \in [Indexes(t) -> CaseTypes]
        /\ \A i \in Indexes(t) : type[t][i] = Cases[t][i].type
    BY <2>1
  <2>3. 0 \in 0 .. MaxSends /\ NoAnswer \notin Indexes(t) /\ ret[t] = NoAnswer
    BY CaseShape, SelectAssumption
  <2> QED
    BY <2>2, <2>3 DEF ThreadOK
<1>3. Room
  <2>1. ASSUME NEW c \in Channel PROVE Len(queue[c]) + Cardinality(Claimed(c)) <= Capacity[c]
    <3>1. Claimed(c) = {}
      BY DEF Claimed
    <3>2. Cardinality(Claimed(c)) = 0
      BY <3>1, FS_EmptySet
    <3>3. Capacity[c] \in Nat /\ Len(queue[c]) = 0
      BY SelectAssumption
    <3> QED
      BY <3>2, <3>3
  <2> QED
    BY <2>1 DEF Room
<1>4. Places
  <2>1. Sent = {}
    BY DEF Sent
  <2>2. \A c \in Channel : queue[c] = <<>> /\ Len(queue[c]) = 0
    OBVIOUS
  <2> QED
    BY <2>1, <2>2 DEF Places
<1>5. \A t \in Thread : \A i \in Indexes(t) : type[t][i] = Cases[t][i].type
  OBVIOUS
<1>6. Over
  BY <1>5 DEF Over, FinishedAlone, FinishedIsOver
<1>7. Alone
  BY SelectAssumption DEF Alone
<1> QED
  BY <1>1, <1>2, <1>3, <1>4, <1>6, <1>7 DEF SelectInv, Types

LEMMA StepKeeps ==
  ASSUME SelectInv, [Next]_vars
  PROVE  SelectInv'
<1>1. CASE Next
  <2>1. PICK t \in Thread : /\ Act(t)
                            /\ \/ Call(t) /\ alone' = IF \A u \in Thread \ {t} : pc[u] = "idle"
                                                      THEN t ELSE NULL
                               \/ ~Call(t) /\ alone' = IF alone = t THEN t ELSE NULL
    BY <1>1, NextActs DEF SelectInv, Types
  <2>2. alone' \in Thread \cup {NULL}
    BY <2>1
  <2> QED
    BY <2>1, <2>2, TypesStay, RoomStays, PlacesStay, OverStays, AloneStays DEF SelectInv
<1>2. CASE UNCHANGED vars
  <2> USE <1>2 DEF vars, chans, locals, history
  <2>1. Sent' = Sent /\ (\A c : Claimed(c)' = Claimed(c)) /\ (\A t : Chan(t)' = Chan(t))
    BY DEF Sent, Claimed, Chan
  <2>2. \A t : (HasValues(t)' <=> HasValues(t)) /\ (HasNullCase(t)' <=> HasNullCase(t))
    BY DEF HasValues, HasNullCase
  <2>3. Types'
    BY <2>1, <2>2 DEF SelectInv, Types, Shape, ThreadOK
  <2>4. Room'
    BY <2>1 DEF SelectInv, Room
  <2>5. Places'
    <3>1. \A v : (Queued(v)' <=> Queued(v)) /\ (Taken(v)' <=> Taken(v))
      BY DEF Queued, Taken
    <3> QED
      BY <2>1, <3>1 DEF SelectInv, Places
  <2>6. Over'
    BY <2>1 DEF SelectInv, Over, FinishedAlone, FinishedIsOver
  <2>7. Alone'
    BY DEF SelectInv, Alone, NotReady
  <2> QED
    BY <2>3, <2>4, <2>5, <2>6, <2>7 DEF SelectInv
<1> QED
  BY <1>1, <1>2

(* The invariant holds for all threads, channels, cases and bounds. *)
THEOREM Inductive == Spec => []SelectInv
BY InitHolds, StepKeeps, PTL DEF Spec

(* Every value sent is in one set of places, which has one element. *)
LEMMA PlacesHaveOne ==
  ASSUME SelectInv
  PROVE  NothingLost
<1>1. TypeOK
  <2>1. ASSUME NEW c \in Channel PROVE Len(queue[c]) <= Capacity[c]
    <3>1. queue[c] \in Seq(Sent)
      BY DEF SelectInv, Places
    <3>2. Len(queue[c]) \in Nat /\ Cardinality(Claimed(c)) \in Nat /\ Capacity[c] \in Nat
          /\ Len(queue[c]) + Cardinality(Claimed(c)) <= Capacity[c]
      BY <3>1, ClaimedFinite, SelectAssumption DEF SelectInv, Room
    <3> QED
      BY <3>2
  <2>2. \A t \in Thread : ThreadOK(t)
    BY DEF SelectInv, Types
  <2> QED
    BY <2>1, <2>2 DEF SelectInv, Types, Shape, Labels, TypeOK, ThreadOK
<1> DEFINE inChannel(v) == UNION {{<<"chan", c, i>> : i \in {j \in DOMAIN queue[c] : queue[c][j] = v}} :
                                    c \in Channel}
           taken(v) == {<<"taken", t, 0>> : t \in {u \in Thread : val[u] = v}}
           received(v) == IF v \in got THEN {<<"got", 0, 0>>} ELSE {}
<1>2. ASSUME NEW v \in Sent
      PROVE  Cardinality(inChannel(v) \cup taken(v) \cup received(v)) = 1
  <2>0. Places /\ v # NULL
    BY SelectAssumption DEF SelectInv, Sent
  <2>1. /\ \A x : x \in inChannel(v) <=>
                    \E c \in Channel : \E i \in DOMAIN queue[c] : queue[c][i] = v /\ x = <<"chan", c, i>>
        /\ \A x : x \in taken(v) <=> \E t \in Thread : val[t] = v /\ x = <<"taken", t, 0>>
    OBVIOUS
  <2>2. \A c \in Channel : DOMAIN queue[c] = 1 .. Len(queue[c])
    <3>1. \A c \in Channel : queue[c] \in Seq(Sent)
      BY <2>0 DEF Places
    <3> QED
      BY <3>1
  <2> HIDE DEF inChannel, taken
  <2>3. Queued(v) => \E x : inChannel(v) = {x}
    <3> SUFFICES ASSUME Queued(v) PROVE \E x : inChannel(v) = {x}
      OBVIOUS
    <3>0. PICK c \in Channel : \E i \in 1 .. Len(queue[c]) : queue[c][i] = v
      BY DEF Queued
    <3>1. PICK i \in 1 .. Len(queue[c]) : queue[c][i] = v
      BY <3>0
    <3>2. \A d \in Channel : \A j \in 1 .. Len(queue[d]) : queue[d][j] = v => d = c /\ j = i
      BY <2>0, <3>1 DEF Places
    <3>3. inChannel(v) = {<<"chan", c, i>>}
      BY <2>1, <2>2, <3>1, <3>2
    <3> QED
      BY <3>3
  <2>4. ~Queued(v) => inChannel(v) = {}
    BY <2>1, <2>2 DEF Queued
  <2>5. Taken(v) => \E x : taken(v) = {x}
    <3> SUFFICES ASSUME Taken(v) PROVE \E x : taken(v) = {x}
      OBVIOUS
    <3>1. PICK t \in Thread : val[t] = v
      BY DEF Taken
    <3>2. \A u \in Thread : val[u] = v => u = t
      BY <2>0, <3>1 DEF Places
    <3>3. taken(v) = {<<"taken", t, 0>>}
      BY <2>1, <3>1, <3>2
    <3> QED
      BY <3>3
  <2>6. ~Taken(v) => taken(v) = {}
    BY <2>1 DEF Taken
  <2>7. \E x : inChannel(v) \cup taken(v) \cup received(v) = {x}
    <3>1. /\ Queued(v) \/ Taken(v) \/ v \in got
          /\ ~(Queued(v) /\ Taken(v))
          /\ ~(Queued(v) /\ v \in got)
          /\ ~(Taken(v) /\ v \in got)
      BY <2>0 DEF Places
    <3>2. CASE Queued(v)
      BY <2>3, <2>6, <3>1, <3>2
    <3>3. CASE Taken(v)
      BY <2>4, <2>5, <3>1, <3>3
    <3>4. CASE v \in got
      BY <2>4, <2>6, <3>1, <3>4
    <3> QED
      BY <3>1, <3>2, <3>3, <3>4
  <2> QED
    BY <2>7, FS_Singleton
<1> QED
  BY <1>1, <1>2 DEF NothingLost, Sent

(* A call does the case whose index it answers and no other: select_one never does two
   things, and never one that it does not report. *)
THEOREM CallsDoOneCase == Spec => []OneCaseDone
<1>1. SelectInv => OneCaseDone
  BY DEF SelectInv, Types, ThreadOK, OneCaseDone
<1> QED
  BY <1>1, Inductive, PTL

(* Every value sent is in one place, whatever channels the threads try and whenever those
   are closed, and no channel is given more values than it has room for. *)
THEOREM EveryValueKept == Spec => []NothingLost
BY PlacesHaveOne, Inductive, PTL

(* A case that select_one finished is over: its channel is closed, and a channel that it
   received from is empty for good, unless it was closed while a value was being sent. *)
THEOREM OverForGood == Spec => []FinishedIsOver
<1>1. SelectInv => FinishedIsOver
  BY DEF SelectInv, Over
<1> QED
  BY <1>1, Inductive, PTL

(* A call that nobody disturbed answers that nothing was ready only when nothing is. *)
THEOREM UndisturbedFindsReady == Spec => []AloneFindsReady
<1>1. SelectInv => AloneFindsReady
  BY DEF SelectInv, Alone, NotReady, AloneFindsReady
<1> QED
  BY <1>1, Inductive, PTL


=============================================================================
