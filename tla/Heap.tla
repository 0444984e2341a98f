-------------------------------- MODULE Heap --------------------------------
(* Binary heaps in sequences, as src/include/pqueue.h and the heap functions of
   src/include/array.h keep them.  The code counts slots from 0, sequences from 1. *)
EXTENDS Ordering

Parent(i) == i \div 2
LeftChild(i) == 2 * i

IsHeap(order, h) == \A i \in 2 .. Len(h) : Compare(order, h[i], h[Parent(i)]) <= 0

(* A hole goes up from a new last slot, past every ancestor smaller than e. *)
SiftUp(order, h, e) ==
  LET Up[i \in 1 .. Len(h) + 1] ==
        IF i = 1 THEN [Append(h, e) EXCEPT ![i] = e]
        ELSE IF Compare(order, e, h[Parent(i)]) <= 0 THEN [Append(h, e) EXCEPT ![i] = e]
        ELSE [Up[Parent(i)] EXCEPT ![i] = h[Parent(i)]]
  IN  Up[Len(h) + 1]

LargerChild(order, h, i) ==
  LET left == LeftChild(i)
  IN  IF left < Len(h) /\ Compare(order, h[left + 1], h[left]) > 0 THEN left + 1 ELSE left

\* Mutant: the hole goes down on the left without a look at the other child.
SiftDownLeft(order, h, e, pos) ==
  LET Down[i \in 1 .. Len(h)] ==
        IF LeftChild(i) > Len(h) THEN [h EXCEPT ![i] = e]
        ELSE IF Compare(order, h[LeftChild(i)], e) <= 0 THEN [h EXCEPT ![i] = e]
        ELSE [Down[LeftChild(i)] EXCEPT ![i] = h[LeftChild(i)]]
  IN  Down[pos]

(* A hole goes down from pos toward the larger child until e fits. *)
SiftDown(order, h, e, pos) ==
  LET Down[i \in 1 .. Len(h)] ==
        LET child == LargerChild(order, h, i)
        IN  IF LeftChild(i) > Len(h) THEN [h EXCEPT ![i] = e]
            ELSE IF Compare(order, h[child], e) <= 0 THEN [h EXCEPT ![i] = e]
            ELSE [Down[child] EXCEPT ![i] = h[child]]
  IN  Down[pos]

(* Without the top: the last entry sifts down from there. *)
WithoutTop(order, h) ==
  LET n == Len(h) - 1
  IN  IF n = 0 THEN <<>> ELSE SiftDown(order, SubSeq(h, 1, n), h[n + 1], 1)
=============================================================================
