------------------------------- MODULE PQueue -------------------------------
(* The priority queue of src/include/pqueue.h in a program with one thread: each call
   is one step.  An entry is a key with a value; data is the used part of the array. *)
EXTENDS Heap

CONSTANTS QueueEntries,
          QueueOrder,          \* the order that comp.h has for the keys, or NULL
          QueueMinCapacity,    \* CS_MIN_CAPACITY of an entry
          QueueMaxSlots        \* how many entries fit in SIZE_MAX bytes

QueueStructs == [data : Seq(QueueEntries), capacity : Nat, comp : {1, -1, NULL},
                 value_free : BOOLEAN]

\* No struct and no bag of entries is NULL.
ASSUME QueueAssumption == /\ QueueOrder \in {1, -1, NULL}
                          /\ QueueMinCapacity \in Nat \ {0} /\ QueueMaxSlots \in Nat
                          /\ \A e \in QueueEntries : e.key \in Int
                          /\ NULL \notin QueueStructs
                          /\ \A E \in SUBSET QueueEntries : NULL \notin [E -> Nat]

VARIABLES queue,        \* the struct, or NULL
          queueReply    \* the last call, its result, and the entries whose values it freed

queueVars == <<queue, queueReply>>

QueueReply(call, result, freed) == [call |-> call, result |-> result, freed |-> freed]

EmptyQueue == [data |-> <<>>, capacity |-> QueueMinCapacity, comp |-> QueueOrder,
               value_free |-> FALSE]

QueueInit == queue = NULL /\ queueReply = QueueReply(<<"none">>, 0, <<>>)

(* pqueue_init, without and with memory *)
CreateQueue == /\ queue = NULL
               /\ queue' \in {NULL, EmptyQueue}
               /\ queueReply' = QueueReply(<<"init">>, queue' # NULL, <<>>)

SetQueueComp(o) ==
  LET refused == o = NULL \/ queue.data # <<>>
  IN  /\ queue' = IF refused THEN queue ELSE [queue EXCEPT !.comp = o]
      /\ queueReply' = QueueReply(<<"set_comp", o>>, IF refused THEN -1 ELSE 0, <<>>)

SetValueFree(b) == /\ queue' = [queue EXCEPT !.value_free = b]
                   /\ queueReply' = QueueReply(<<"set_value_free", b>>, 0, <<>>)

DestroyQueue == /\ queue' = NULL
                /\ queueReply' = QueueReply(<<"destroy">>, 0,
                                            IF queue.value_free THEN queue.data ELSE <<>>)

(* What push can do to a queue: grow if the array is full, let a hole rise from the new
   last slot.  Empty when the array can be no larger. *)
Pushed(q, e) ==
  LET capacity == IF q.capacity = 0 THEN 1 ELSE 2 * q.capacity
      risen == [q EXCEPT !.data = SiftUp(q.comp, q.data, e)]
  IN  IF Len(q.data) < q.capacity THEN {risen}
      ELSE IF q.capacity > QueueMaxSlots \div 2 THEN {}
      ELSE {[risen EXCEPT !.capacity = capacity]}

Popped(q) == [q EXCEPT !.data = WithoutTop(q.comp, q.data)]

Push(e) ==
  \/ /\ queue.comp = NULL \/ Len(queue.data) = queue.capacity
     /\ queueReply' = QueueReply(<<"push", e>>, -1, <<>>)
     /\ UNCHANGED queue
  \/ /\ queue.comp # NULL
     /\ queue' \in Pushed(queue, e)
     /\ queueReply' = QueueReply(<<"push", e>>, 0, <<>>)

Top == IF queue.data = <<>> THEN NULL ELSE queue.data[1]

PopQueue == /\ queue' = IF queue.data = <<>> THEN queue ELSE Popped(queue)
            /\ queueReply' = QueueReply(<<"pop">>, Top, <<>>)

Ask(call, result) == queueReply' = QueueReply(call, result, <<>>) /\ UNCHANGED queue

Peek == Ask(<<"peek">>, Top)
QueueSize == Ask(<<"size">>, Len(queue.data))
QueueIsEmpty == Ask(<<"is_empty">>, queue.data = <<>>)

QueueNext ==
  \/ CreateQueue
  \/ /\ queue # NULL
     /\ \/ \E o \in {1, -1, NULL} : SetQueueComp(o)
        \/ \E b \in BOOLEAN : SetValueFree(b)
        \/ DestroyQueue
        \/ \E e \in QueueEntries : Push(e)
        \/ PopQueue
        \/ Peek
        \/ QueueSize
        \/ QueueIsEmpty

QueueSpec == QueueInit /\ [][QueueNext]_queueVars

-----------------------------------------------------------------------------
BagOf(s) == [e \in {s[i] : i \in DOMAIN s} |-> Cardinality({i \in DOMAIN s : s[i] = e})]

AbstractQueue == INSTANCE PriorityBag WITH
  Entries <- QueueEntries,
  bag <- IF queue = NULL THEN NULL ELSE BagOf(queue.data),
  top <- IF queue = NULL \/ queue.data = <<>> THEN NULL ELSE queue.data[1],
  order <- IF queue = NULL THEN NULL ELSE queue.comp,
  frees <- queue # NULL /\ queue.value_free,
  reply <- [queueReply EXCEPT !.freed = BagOf(@)]

(* Whatever was pushed and popped before, pop and peek give an entry that no other has
   to precede, pop removes one occurrence of it, push adds one or fails without effect,
   and destroy frees the value of every entry that is left, once. *)
ImplementsBag == AbstractQueue!Spec
=============================================================================
