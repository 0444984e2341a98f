---------------------------- MODULE ValueSequence ----------------------------
(* What the array of src/include/array.h promises: a sequence, room for so many
   entries without another allocation, an order, and a value to stand for no entry.
   Calls that fail change none of the entries. *)
EXTENDS Heap

CONSTANTS Values,
          Indexes,               \* numbers that the program passes
          Convert(_), Join(_, _)

VARIABLES values,    \* the entries, or NULL when there is no array
          room, order, null,
          saved,     \* the entries that were written to the file, NULL before that
          reply

vars == <<values, room, order, null, saved, reply>>

Reply(call, result) == reply'.call = call /\ reply' = [call |-> call, result |-> result]

Answer(call, result) == Reply(call, result) /\ UNCHANGED <<values, room, order, null>>

Init == /\ values = NULL /\ room = 0 /\ order = NULL /\ null = NULL /\ saved = NULL
        /\ reply = [call |-> <<"none">>, result |-> 0]

(* A call without answer turns the entries into s, within the room there is. *)
Become(call, s) == /\ Reply(call, 0)
                   /\ values' = s
                   /\ UNCHANGED <<room, order, null>>

New(call, s) == \/ Answer(call, FALSE)
                \/ /\ Reply(call, TRUE)
                   /\ values' = s /\ room' >= Len(s)
                   /\ order' \in {1, -1, NULL} /\ null' \in Values \cup {NULL}

Destroy == Reply(<<"destroy">>, 0) /\ values' = NULL /\ room' = 0 /\ order' = NULL /\ null' = NULL

DeepSlice(left, right, f) ==
  LET call == <<"deep_slice", left, right, f>>
      slice == [i \in 1 .. right - left |-> IF f THEN Convert(values[left + i]) ELSE values[left + i]]
  IN  \/ Answer(call, NULL)
      \/ /\ left <= right /\ right <= Len(values)
         /\ Reply(call, slice)
         /\ \/ values' = slice /\ room' >= Len(slice)
            \/ UNCHANGED <<values, room>>
         /\ UNCHANGED <<order, null>>

SetComp(o) == \/ values # <<>> /\ Answer(<<"set_comp", o>>, -1)
              \/ /\ \/ values = <<>> /\ Reply(<<"set_comp", o>>, 0)
                    \/ Reply(<<"force_set_comp", o>>, 0)
                 /\ order' = o
                 /\ UNCHANGED <<values, room, null>>

SetNullValue(v) == Reply(<<"set_null_value", v>>, 0) /\ null' = v /\ UNCHANGED <<values, room, order>>

Sort == \/ order # NULL /\ Become(<<"sort">>, StablySorted(order, values))
        \/ Answer(<<"sort">>, -1)

(* The places of the entries equal to v, counted from 0 *)
Below(v) == Cardinality({i \in DOMAIN values : Compare(order, values[i], v) < 0})
NotAbove(v) == Cardinality({i \in DOMAIN values : Compare(order, values[i], v) <= 0})
Places(v) == {i \in 0 .. Len(values) - 1 : Compare(order, values[i + 1], v) = 0}

Search(v) ==
  \/ Answer(<<"index", v>>, IF Places(v) = {} THEN -1
                            ELSE CHOOSE i \in Places(v) : \A j \in Places(v) : i <= j)
  \/ Answer(<<"bisect_upper", v>>, NotAbove(v) - 1)
  \/ Answer(<<"bisect_lower", v>>, Below(v))
  \/ \E i \in IF Places(v) = {} THEN {-1} ELSE Places(v) : Answer(<<"bisect", v>>, i)

(* Join over all entries up to the n-th from the left, after init *)
Joined(s, init) == LET To[n \in 0 .. Len(s)] == IF n = 0 THEN init ELSE Join(To[n - 1], s[n])
                   IN  To

Get(i) == Answer(<<"get", i>>, IF i < Len(values) THEN values[i + 1] ELSE null)

Set(i, v) == IF i < Len(values) THEN Become(<<"set", v, i>>, [values EXCEPT ![i + 1] = v])
             ELSE Answer(<<"set", v, i>>, -1)

Pop(call, s, taken) == /\ Reply(call, values[1 + taken])
                       /\ values' = s
                       /\ UNCHANGED <<order, null>>

Pops == \/ values = <<>> /\ \E call \in {"pop", "pop_first", "heappop"} : Answer(<<call>>, null)
        \/ /\ values # <<>>
           /\ \/ /\ Pop(<<"pop">>, SubSeq(values, 1, Len(values) - 1), Len(values) - 1)
                 /\ UNCHANGED room
              \/ /\ Pop(<<"pop_first">>, Tail(values), 0)
                 /\ room' = room - 1
              \/ /\ Pop(<<"heappop">>, values', 0)
                 /\ SameEntries(values, Append(values', values[1]))
                 /\ IsHeap(order, values) => IsHeap(order, values')
                 /\ UNCHANGED room

(* A new entry: the call fails at most when there is no room left. *)
Append1(v) == \/ Len(values) = room /\ Answer(<<"append", v>>, -1)
              \/ /\ Reply(<<"append", v>>, 0)
                 /\ values' = Append(values, v) /\ room' >= room
                 /\ UNCHANGED <<order, null>>

HeapPush(v) == \/ /\ order = NULL \/ Len(values) = room
                  /\ Answer(<<"heappush", v>>, -1)
               \/ /\ Reply(<<"heappush", v>>, 0)
                  /\ SameEntries(values', Append(values, v)) /\ room' >= room
                  /\ IsHeap(order, values) => IsHeap(order, values')
                  /\ UNCHANGED <<order, null>>

Reserve(n) == /\ \/ room < n /\ Reply(<<"reserve", n>>, -1)
                 \/ Reply(<<"reserve", n>>, 0) /\ room' >= n
              /\ room' >= room
              /\ UNCHANGED <<values, order, null>>

Heapify == \/ order = NULL /\ Answer(<<"heapify">>, -1)
           \/ /\ Reply(<<"heapify">>, 0)
              /\ SameEntries(values, values') /\ IsHeap(order, values')
              /\ UNCHANGED <<room, order, null>>

Folds == LET rest == Joined(Tail(values), values[1])
         IN  \/ Answer(<<"fold">>, rest[Len(values) - 1])
             \/ Become(<<"scan">>, [i \in DOMAIN values |-> rest[i - 1]])

Call == \/ Destroy \/ Sort \/ Pops \/ Heapify
        \/ \E left, right \in 0 .. Len(values) + 1, f \in BOOLEAN : DeepSlice(left, right, f)
        \/ \E o \in {1, -1} : SetComp(o)
        \/ \E i \in 0 .. Len(values) : Get(i)
        \/ Answer(<<"size">>, Len(values)) \/ Answer(<<"capacity">>, room)
        \/ IF values = <<>> THEN Become(<<"scan">>, <<>>) ELSE Folds
        \/ Become(<<"map">>, [i \in DOMAIN values |-> Convert(values[i])])
        \/ \E n \in Indexes : Reserve(n)
        \/ \E v \in Values :
             \/ SetNullValue(v) \/ Append1(v) \/ HeapPush(v) \/ Search(v)
             \/ \E i \in 0 .. Len(values) : Set(i, v)
             \/ Answer(<<"fold2", v>>, Joined(values, v)[Len(values)])

(* A file that could not be written may hold the entries nevertheless. *)
Serialize == /\ \/ reply' = [call |-> <<"serialize">>, result |-> -1] /\ saved' \in {saved, values}
                \/ reply' = [call |-> <<"serialize">>, result |-> 0] /\ saved' = values
             /\ UNCHANGED <<values, room, order, null>>

Deserialize == New(<<"deserialize">>, IF saved = NULL THEN <<>> ELSE saved)

Next == \/ values # NULL /\ Serialize
        \/ values # NULL /\ Call /\ UNCHANGED saved
        \/ /\ values = NULL /\ UNCHANGED saved
           /\ \/ New(<<"init">>, <<>>)
              \/ Deserialize /\ (saved = NULL => values' = NULL)
              \/ \E n \in Indexes, v \in Values : New(<<"init2", n, v>>, [i \in 1 .. n |-> v])

Spec == Init /\ [][Next]_vars
=============================================================================
