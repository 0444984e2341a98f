----------------------------- MODULE MCContainers -----------------------------
(* The components with one thread and no part in common, each on its own: the first
   state chooses one, and only it moves. *)
EXTENDS LinkedList, Array, PQueue, IntervalProgram, Serialization

CONSTANTS FineFinite, FineInf, FineOne, Pi2n, Pi2d, Pi2, Turns
VARIABLES which, turn

(* sin and cos need smaller steps than the rest of interval.h. *)
Fine == INSTANCE IntervalTurns WITH Finite <- FineFinite, Inf <- FineInf, One <- FineOne

vars == <<which, listVars, arrayVars, queueVars, calc, turn, tape>>

MCInit == /\ which \in {"list", "array", "pqueue", "interval", "turns", "files"}
          /\ ListInit /\ ArrayInit /\ QueueInit /\ IntervalInit /\ Fine!TurnsInit /\ TapeInit

MCNext ==
  /\ UNCHANGED which
  /\ \/ which = "list" /\ ListNext /\ UNCHANGED <<arrayVars, queueVars, calc, turn, tape>>
     \/ which = "array" /\ ArrayNext /\ UNCHANGED <<listVars, queueVars, calc, turn, tape>>
     \/ which = "pqueue" /\ QueueNext /\ UNCHANGED <<listVars, arrayVars, calc, turn, tape>>
     \/ which = "interval" /\ IntervalNext /\ UNCHANGED <<listVars, arrayVars, queueVars, turn, tape>>
     \/ which = "turns" /\ Fine!TurnsNext /\ UNCHANGED <<listVars, arrayVars, queueVars, calc, tape>>
     \/ which = "files" /\ TapeNext /\ UNCHANGED <<listVars, arrayVars, queueVars, calc, turn>>

MCSpec == MCInit /\ [][MCNext]_vars

\* What the last call answered is no part of the state.
MCView == <<which, list, node, it, array, file, queue, calc, turn, tape>>

(* Every extremum in an interval is noticed, and none that is not next to it. *)
ExtremaSeen == Fine!ExtremaSeen

-----------------------------------------------------------------------------
MCRecords(keys) == {[key |-> k, value |-> 1] : k \in keys} \cup {[key |-> 1, value |-> 2]}
MCTwoKeys == MCRecords({1, 2})
MCThreeKeys == MCRecords({1, 2, 3})

MCNodes == 1 .. 4

MCConvert(v) == [v EXCEPT !.key = 3 - @, !.value = 1]
MCJoin(u, v) == IF u.key > v.key THEN u ELSE v

(* Larger ones are looked at with the order of comp.h and without a null value. *)
MCBound ==
  /\ list # NULL => list.comp = 1 \/ list.size <= 2
  /\ array # NULL => /\ array.size <= 5
                     /\ array.size > 2 => array.comp = 1 /\ array.null = NULL
                     /\ file # NULL => /\ array.size <= 2 /\ array.front = 0
                                       /\ Contents(array) = file.crc
                                       /\ array.comp = 1 /\ array.null = NULL
  /\ queue # NULL => /\ Len(queue.data) <= 6
                     /\ Len(queue.data) > 2 => queue.comp = 1 /\ queue.value_free

(* 0.5, 1 and 2, and the zeros, with infinities beyond *)
MCFinite == {0, 4, 8, 16, -4, -8, -16}
MCInf == 1000
MCPoints == {0} \cup UNION {{x, -x} : x \in {1, 2, 4, 6, 8, 12, 16, 20}}
MCInts == -3 .. 3
MCExponents == -3 .. 5
MCSome == {Invalid, Range(-4, 4), Range(4, 8), Range(-16, -8), Range(0, Inf),
           Range(-Inf, -16), Range(8, 8), Range(0, 0), Range(-8, 16)}
MCTerms == UNION {[1 .. n -> {Invalid, Range(4, 8), Range(16, 16), Range(-16, -4),
                              Range(-Inf, 0), Range(8, Inf)}] : n \in 0 .. 4}

(* Steps of 1/16 at most, up to 56; pi / 2 as 22/14, and the double below it, 24/16 *)
MCFinePositive == {1, 2, 3} \cup {m * 2^k : m \in 4 .. 7, k \in 0 .. 7}
MCFineFinite == {0} \cup MCFinePositive \cup {-x : x \in MCFinePositive}
MCFineInf == 10000000
MCTurns == -20 .. 20

(* Sizes of 4 bits, read into 5 bits by groups of 2: the third has room for one bit. *)
MCStrings == UNION {[1 .. n -> {1, 6}] : n \in 0 .. 5}
MCFound == UNION {[1 .. n -> {0, 1, 2, 4, 5, 7}] : n \in 0 .. 4}
MCData == UNION {[1 .. n -> {{}, {0}, {7}, 0 .. 7}] : n \in 0 .. 3}
=============================================================================
