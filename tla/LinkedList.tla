----------------------------- MODULE LinkedList -----------------------------
(* The doubly linked list of src/include/linked_list.h and one iterator of its
   caller, in a program with one thread: each call is one step.

   A node is named by the number that stands for its address.  The iterator is a plain
   pointer: the program forgets it when another call frees its node. *)
EXTENDS Ordering

CONSTANTS ListNodes,      \* numbers
          ListValues,
          ListOrder       \* the order that comp.h has for the values, or NULL

Pointers == ListNodes \cup {NULL}

Records == [data : ListValues, next : Pointers, prev : Pointers]
ListStructs == [head : Pointers, tail : Pointers, size : Nat, comp : {1, -1, NULL}]

ASSUME ListAssumption ==
  /\ ListNodes \subseteq Nat /\ IsFiniteSet(ListNodes)
  /\ \A v \in ListValues : v.key \in Int
  /\ ListOrder \in {1, -1, NULL}
  /\ NULL \notin ListNodes /\ NULL \notin ListValues
  /\ NULL \notin Records /\ NULL \notin ListStructs /\ NULL \notin Seq(ListValues)

VARIABLES list,       \* the struct, or NULL
          node,       \* node[n]: the fields of an allocated node, or NULL
          it,         \* the iterator, NULL at no entry
          listReply   \* the last call and its result

listVars == <<list, node, it, listReply>>

Node(d, next, prev) == [data |-> d, next |-> next, prev |-> prev]

Free == {n \in ListNodes : node[n] = NULL}

ListReply(call, result) == [call |-> call, result |-> result]

(* The fields next and prev of every node; NULL leads nowhere, nor does a freed node. *)
Succ == [n \in Pointers |-> IF n \in ListNodes \ Free THEN node[n].next ELSE NULL]
Pred == [n \in Pointers |-> IF n \in ListNodes \ Free THEN node[n].prev ELSE NULL]

(* Where a loop that starts at n and follows the pointers to is after i turns *)
Steps(n, to) == LET At[i \in Nat] == IF i = 0 THEN n ELSE to[At[i - 1]] IN At

(* The nodes that it meets; one more than there are when they form a cycle *)
Chain(n, to) ==
  LET at == Steps(n, to)
      len == Cardinality({i \in 0 .. Cardinality(ListNodes) : at[i] # NULL})
  IN  [i \in 1 .. len |-> at[i - 1]]

Nodes(chain) == {chain[i] : i \in DOMAIN chain}

Forget(n) == it' = IF it = n THEN NULL ELSE it

-----------------------------------------------------------------------------
ListInit == /\ list = NULL
            /\ node = [n \in ListNodes |-> NULL]
            /\ it = NULL
            /\ listReply = ListReply(<<"none">>, 0)

(* llist_init, without and with memory *)
CreateList ==
  /\ list = NULL
  /\ list' \in {NULL, [head |-> NULL, tail |-> NULL, size |-> 0, comp |-> ListOrder]}
  /\ listReply' = ListReply(<<"init">>, list' # NULL)
  /\ UNCHANGED <<node, it>>

SetListComp(o) ==
  /\ list' = [list EXCEPT !.comp = o]
  /\ listReply' = ListReply(<<"set_comp", o>>, 0)
  /\ UNCHANGED <<node, it>>

(* llist_destroy frees what it meets from the head on. *)
DestroyList ==
  LET met == Nodes(Chain(list.head, Succ))
  IN  /\ list' = NULL
      /\ node' = [n \in ListNodes |-> IF n \in met THEN NULL ELSE node[n]]
      /\ it' = NULL
      /\ listReply' = ListReply(<<"destroy">>, 0)

(* What a call with a malloc does without memory: nothing. *)
NoMemory(call) == listReply' = ListReply(<<call>>, -1) /\ UNCHANGED <<list, node, it>>

AddStart(d, n) ==
  /\ IF list.head = NULL
     THEN /\ node' = [node EXCEPT ![n] = Node(d, list.head, NULL)]
          /\ list' = [list EXCEPT !.head = n, !.tail = n, !.size = 1]
     ELSE /\ node' = [node EXCEPT ![n] = Node(d, list.head, NULL), ![list.head].prev = n]
          /\ list' = [list EXCEPT !.head = n, !.size = @ + 1]
  /\ listReply' = ListReply(<<"add_start", d>>, 0)
  /\ UNCHANGED it

AddEnd(d, n) ==
  /\ IF list.tail = NULL
     THEN /\ node' = [node EXCEPT ![n] = Node(d, NULL, list.tail)]
          /\ list' = [list EXCEPT !.head = n, !.tail = n, !.size = 1]
     ELSE /\ node' = [node EXCEPT ![n] = Node(d, NULL, list.tail), ![list.tail].next = n]
          /\ list' = [list EXCEPT !.tail = n, !.size = @ + 1]
  /\ listReply' = ListReply(<<"add_end", d>>, 0)
  /\ UNCHANGED it

(* A node that the program allocated *)
AddNode(d, n) ==
  /\ IF list.head = NULL
     THEN /\ node' = [node EXCEPT ![n] = Node(d, NULL, NULL)]
          /\ list' = [list EXCEPT !.head = n, !.tail = n, !.size = 1]
     ELSE /\ node' = [node EXCEPT ![n] = Node(d, NULL, list.tail), ![list.tail].next = n]
          /\ list' = [list EXCEPT !.tail = n, !.size = @ + 1]
  /\ listReply' = ListReply(<<"add_node", d>>, 0)
  /\ UNCHANGED it

RemoveStart ==
  IF list.head = NULL
  THEN listReply' = ListReply(<<"remove_start">>, NULL) /\ UNCHANGED <<list, node, it>>
  ELSE LET n == list.head
           next == node[n].next
       IN  /\ list' = [list EXCEPT !.head = next, !.tail = IF next = NULL THEN NULL ELSE @,
                                   !.size = @ - 1]
           /\ node' = [m \in ListNodes |-> IF m = n THEN NULL
                                           ELSE IF m = next THEN [node[m] EXCEPT !.prev = NULL]
                                           ELSE node[m]]
           /\ Forget(n)
           /\ listReply' = ListReply(<<"remove_start">>, node[n].data)

RemoveEnd ==
  IF list.head = NULL
  THEN listReply' = ListReply(<<"remove_end">>, NULL) /\ UNCHANGED <<list, node, it>>
  ELSE LET n == list.tail
           prev == node[n].prev
       IN  /\ list' = [list EXCEPT !.tail = prev, !.head = IF prev = NULL THEN NULL ELSE @,
                                   !.size = @ - 1]
           /\ node' = [m \in ListNodes |-> IF m = n THEN NULL
                                           ELSE IF m = prev THEN [node[m] EXCEPT !.next = NULL]
                                           ELSE node[m]]
           /\ Forget(n)
           /\ listReply' = ListReply(<<"remove_end">>, node[n].data)

ListSize == listReply' = ListReply(<<"size">>, list.size) /\ UNCHANGED <<list, node, it>>

-----------------------------------------------------------------------------
(* Walking *)

MoveTo(call, n) == /\ it' = n
                   /\ listReply' = ListReply(<<call>>, IF n = NULL THEN NULL ELSE node[n].data)
                   /\ UNCHANGED <<list, node>>

First == MoveTo("first", list.head)
LastEntry == MoveTo("last", list.tail)
NextEntry == MoveTo("next", IF it = NULL THEN NULL ELSE node[it].next)
PrevEntry == MoveTo("prev", IF it = NULL THEN NULL ELSE node[it].prev)

-----------------------------------------------------------------------------
(* Changing the list at the iterator *)

\* Mutant: the node behind keeps its pointer to the freed one.
UnlinkKeepsPrev(n) ==
  LET next == node[n].next
      prev == node[n].prev
  IN  /\ list' = [list EXCEPT !.head = IF prev = NULL THEN next ELSE @,
                              !.tail = IF next = NULL THEN prev ELSE @,
                              !.size = @ - 1]
      /\ node' = [m \in ListNodes |-> IF m = n THEN NULL
                                      ELSE IF m = prev THEN [node[m] EXCEPT !.next = next]
                                      ELSE node[m]]

Unlink(n) ==
  LET next == node[n].next
      prev == node[n].prev
  IN  /\ list' = [list EXCEPT !.head = IF prev = NULL THEN next ELSE @,
                              !.tail = IF next = NULL THEN prev ELSE @,
                              !.size = @ - 1]
      /\ node' = [m \in ListNodes |-> IF m = n THEN NULL
                                      ELSE IF m = prev THEN [node[m] EXCEPT !.next = next]
                                      ELSE IF m = next THEN [node[m] EXCEPT !.prev = prev]
                                      ELSE node[m]]

(* remove_forward (to is Succ) and remove_backwards (to is Pred) *)
RemoveHere(call, to) ==
  IF it = NULL
  THEN listReply' = ListReply(<<call>>, NULL) /\ UNCHANGED <<list, node, it>>
  ELSE /\ Unlink(it)
       /\ it' = to[it]
       /\ listReply' = ListReply(<<call>>, node[it].data)

InsertBefore(d, n) ==
  LET prev == node[it].prev
  IN  /\ it # NULL
      /\ node' = [m \in ListNodes |-> IF m = n THEN Node(d, it, prev)
                                      ELSE IF m = it THEN [node[m] EXCEPT !.prev = n]
                                      ELSE IF m = prev THEN [node[m] EXCEPT !.next = n]
                                      ELSE node[m]]
      /\ list' = [list EXCEPT !.head = IF prev = NULL THEN n ELSE @, !.size = @ + 1]
      /\ it' = n
      /\ listReply' = ListReply(<<"insert_before", d>>, 0)

InsertAfter(d, n) ==
  LET next == node[it].next
  IN  /\ it # NULL
      /\ node' = [m \in ListNodes |-> IF m = n THEN Node(d, next, it)
                                      ELSE IF m = it THEN [node[m] EXCEPT !.next = n]
                                      ELSE IF m = next THEN [node[m] EXCEPT !.prev = n]
                                      ELSE node[m]]
      /\ list' = [list EXCEPT !.tail = IF next = NULL THEN n ELSE @, !.size = @ + 1]
      /\ it' = n
      /\ listReply' = ListReply(<<"insert_after", d>>, 0)

-----------------------------------------------------------------------------
(* Sorting.  The operators return the pointers to the next nodes, with the first node
   of the chain they made.  In MergeNodes, NULL stands for the node head on its stack;
   Turn[k] is where its loop is after k turns. *)

\* Mutant: of equal entries the one from the right goes first.
MergeNodesUnstable(succ, left, right) ==
  LET Turn[k \in 0 .. Cardinality(ListNodes)] ==
        IF k = 0 THEN [succ |-> succ, x |-> left, y |-> right, tail |-> NULL]
        ELSE LET m == Turn[k - 1]
                 less == Compare(list.comp, node[m.y].data, node[m.x].data) <= 0
             IN  IF m.x = NULL \/ m.y = NULL THEN m
                 ELSE IF less
                 THEN [m EXCEPT !.succ[m.tail] = m.y, !.y = m.succ[m.y], !.tail = m.y]
                 ELSE [m EXCEPT !.succ[m.tail] = m.x, !.x = m.succ[m.x], !.tail = m.x]
      end == Turn[Cardinality(ListNodes)]
      joined == [end.succ EXCEPT ![end.tail] = IF end.x # NULL THEN end.x ELSE end.y]
  IN  [succ |-> joined, first |-> joined[NULL]]

MergeNodes(succ, left, right) ==
  LET Turn[k \in 0 .. Cardinality(ListNodes)] ==
        IF k = 0 THEN [succ |-> succ, x |-> left, y |-> right, tail |-> NULL]
        ELSE LET m == Turn[k - 1]
                 less == Compare(list.comp, node[m.y].data, node[m.x].data) < 0
             IN  IF m.x = NULL \/ m.y = NULL THEN m
                 ELSE IF less
                 THEN [m EXCEPT !.succ[m.tail] = m.y, !.y = m.succ[m.y], !.tail = m.y]
                 ELSE [m EXCEPT !.succ[m.tail] = m.x, !.x = m.succ[m.x], !.tail = m.x]
      end == Turn[Cardinality(ListNodes)]
      joined == [end.succ EXCEPT ![end.tail] = IF end.x # NULL THEN end.x ELSE end.y]
  IN  [succ |-> joined, first |-> joined[NULL]]

(* msort_nodes on len nodes from first: cut behind the first half, sort both, merge. *)
MSortNodes(first, len) ==
  LET Sort[a \in [Pointers -> Pointers] \X Pointers \X Nat] ==
        LET half == a[3] \div 2
            mid == Steps(a[2], a[1])[half - 1]
            left == Sort[<<[a[1] EXCEPT ![mid] = NULL], a[2], half>>]
            right == Sort[<<left.succ, a[1][mid], a[3] - half>>]
        IN  IF a[3] < 2 THEN [succ |-> a[1], first |-> a[2]]
            ELSE MergeNodes(right.succ, left.first, right.first)
  IN  Sort[<<Succ, first, len>>]

(* The fields prev are set again in a walk over the sorted list. *)
MSort ==
  LET sorted == MSortNodes(list.head, list.size)
      prev(n) == LET before == {m \in ListNodes \ Free : sorted.succ[m] = n}
                 IN  IF before = {} THEN NULL ELSE CHOOSE m \in before : TRUE
  IN  /\ listReply' = ListReply(<<"msort">>, IF list.comp = NULL THEN -1 ELSE 0)
      /\ IF list.comp = NULL \/ list.size < 2 THEN UNCHANGED <<list, node>>
         ELSE /\ node' = [n \in ListNodes |->
                            IF n \in Free THEN NULL
                            ELSE [node[n] EXCEPT !.next = sorted.succ[n], !.prev = prev(n)]]
              /\ list' = [list EXCEPT !.head = sorted.first,
                                      !.tail = CHOOSE n \in ListNodes \ Free : sorted.succ[n] = NULL]
      /\ UNCHANGED it

-----------------------------------------------------------------------------
(* The calls with a new node; malloc gives the free one with the smallest address. *)
ListGrows(d) ==
  /\ Free # {}
  /\ LET n == CHOOSE n \in Free : \A m \in Free : n <= m
     IN  \/ AddStart(d, n)
         \/ AddEnd(d, n)
         \/ AddNode(d, n)
         \/ InsertBefore(d, n)
         \/ InsertAfter(d, n)

ListNext ==
  \/ CreateList
  \/ /\ list # NULL
     /\ \/ \E o \in {1, -1, NULL} : SetListComp(o)
        \/ DestroyList
        \/ \E d \in ListValues : ListGrows(d)
        \/ \E call \in {"add_start", "add_end", "insert_before", "insert_after"} : NoMemory(call)
        \/ RemoveStart
        \/ RemoveEnd
        \/ ListSize
        \/ First
        \/ LastEntry
        \/ NextEntry
        \/ PrevEntry
        \/ RemoveHere("remove_forward", Succ)
        \/ RemoveHere("remove_backwards", Pred)
        \/ MSort

ListSpec == ListInit /\ [][ListNext]_listVars

-----------------------------------------------------------------------------
(* The list is the same in both directions from end to end, holds every node that is
   in memory, and the iterator is at one of them.  Four functions of the code edit
   these pointers independently. *)
ListLinked ==
  LET forward == IF list = NULL THEN <<>> ELSE Chain(list.head, Succ)
  IN  /\ IF list = NULL THEN it = NULL
         ELSE /\ Chain(list.tail, Pred) = [i \in DOMAIN forward |-> forward[Len(forward) + 1 - i]]
              /\ list.size = Len(forward)
      /\ Cardinality(Nodes(forward)) = Len(forward)
      /\ Nodes(forward) = ListNodes \ Free
      /\ it \in Nodes(forward) \cup {NULL}

Entries == LET chain == Chain(list.head, Succ)
           IN  [i \in DOMAIN chain |-> node[chain[i]].data]

Place == CHOOSE i \in DOMAIN Entries : Chain(list.head, Succ)[i] = it

AbstractList == INSTANCE ValueList WITH
  Values <- ListValues,
  values <- IF list = NULL THEN NULL ELSE Entries,
  place <- IF it = NULL THEN 0 ELSE Place,
  order <- IF list = NULL THEN NULL ELSE list.comp,
  reply <- listReply

(* Every call changes the sequence of entries and the iterator's place in it as its
   name says, and gives its answer; sorting is stable and keeps the iterator at its
   entry. *)
ImplementsValueList == AbstractList!Spec
=============================================================================
