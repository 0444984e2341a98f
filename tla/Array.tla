-------------------------------- MODULE Array --------------------------------
(* The growable array of src/include/array.h in a program with one thread: each call
   is one step.  mem is the allocated block; the entries are in the slots front + 1 to
   front + size of it, and what other slots hold is JUNK, never to be read. *)
EXTENDS Heap

CONSTANTS ArrayValues, JUNK,
          ArrayOrder,        \* the order that comp.h has for the values, or NULL
          ArrayNull,         \* default_null_value, or NULL
          MinCapacity,       \* CS_MIN_CAPACITY of the type
          MaxSlots,          \* how many values fit in SIZE_MAX bytes
          InsertionMax,      \* the longest range that is sorted by insertion
          Convert(_),        \* the functions that the program passes to deep_slice, map,
          Join(_, _)         \* fold, fold2 and scan

ArrayStructs == [mem : Seq(ArrayValues \cup {JUNK}), front : Nat, size : Nat, capacity : Nat,
                 comp : {1, -1, NULL}, null : ArrayValues \cup {NULL}]
Files == [header : BOOLEAN, size : Nat, crc : Seq(ArrayValues), data : Seq(ArrayValues)]

\* No struct, file or sequence of entries is NULL.
ASSUME ArrayAssumption == /\ ArrayOrder \in {1, -1, NULL}
                          /\ ArrayNull \in ArrayValues \cup {NULL}
                          /\ MinCapacity \in Nat \ {0} /\ MaxSlots \in Nat
                          /\ MinCapacity <= MaxSlots
                          /\ InsertionMax \in Nat \ {0}
                          /\ \A v \in ArrayValues : v.key \in Int /\ Convert(v) \in ArrayValues
                          /\ \A u, v \in ArrayValues : Join(u, v) \in ArrayValues
                          /\ JUNK \notin ArrayValues
                          /\ NULL \notin ArrayStructs \cup Files \cup Seq(ArrayValues)

VARIABLES array,        \* the struct and its block, or NULL
          file,         \* what is on disk, or NULL
          arrayReply    \* the last call and its result

arrayVars == <<array, file, arrayReply>>

Room(n) == [i \in 1 .. n |-> JUNK]

Slots(n) == IF n > 0 THEN n ELSE 1

Contents(a) == SubSeq(a.mem, a.front + 1, a.front + a.size)

(* array_alloc, with memory *)
Alloc(capacity, size) ==
  [mem |-> Room(Slots(capacity)), front |-> 0, size |-> size, capacity |-> capacity,
   comp |-> NULL, null |-> NULL]

(* The block with s in the slots after the first n, and junk elsewhere *)
Filled(mem, n, s) ==
  [i \in DOMAIN mem |-> IF i - n \in DOMAIN s THEN s[i - n] ELSE JUNK]

WithContents(a, s) == [a EXCEPT !.mem = Filled(a.mem, a.front, s)]

ArrayReply(call, result) == [call |-> call, result |-> result]

Answer(call, result) == arrayReply' = ArrayReply(call, result) /\ UNCHANGED array

Change(a, call) == array' = a /\ arrayReply' = ArrayReply(call, 0)

-----------------------------------------------------------------------------
(* Making arrays *)

ArrayInit == array = NULL /\ file = NULL /\ arrayReply = ArrayReply(<<"none">>, 0)

NewArray(call, a) == /\ array' \in {NULL, a}
                     /\ arrayReply' = ArrayReply(call, array' # NULL)

SetDefaults(a) == [a EXCEPT !.comp = ArrayOrder, !.null = ArrayNull]

InitArray == NewArray(<<"init">>, SetDefaults(Alloc(MinCapacity, 0)))

Init2(n, v) ==
  IF n > MaxSlots THEN Answer(<<"init2", n, v>>, FALSE)
  ELSE NewArray(<<"init2", n, v>>, SetDefaults(WithContents(Alloc(n, n), [i \in 1 .. n |-> v])))

(* The new array of deep_slice; its entries are converted if f. *)
Sliced(left, right, f) ==
  LET a == [Alloc(right - left, right - left) EXCEPT !.comp = array.comp, !.null = array.null]
      s == SubSeq(Contents(array), left + 1, right)
  IN  WithContents(a, IF f THEN [i \in DOMAIN s |-> Convert(s[i])] ELSE s)

(* deep_slice, and slice, clone and deep_clone by it.  The program goes on with one of
   the two arrays and destroys the other. *)
DeepSlice(left, right, f) ==
  LET call == <<"deep_slice", left, right, f>>
  IN  IF right < left \/ right > array.size THEN Answer(call, NULL)
      ELSE \/ Answer(call, NULL)
           \/ /\ array' \in {array, Sliced(left, right, f)}
              /\ arrayReply' = ArrayReply(call, Contents(Sliced(left, right, f)))

DestroyArray == array' = NULL /\ arrayReply' = ArrayReply(<<"destroy">>, 0)

(* set_comp may not, force_set_comp may change the order of an array with entries. *)
SetArrayComp(o) ==
  \/ IF array.size > 0 THEN Answer(<<"set_comp", o>>, -1)
     ELSE Change([array EXCEPT !.comp = o], <<"set_comp", o>>)
  \/ Change([array EXCEPT !.comp = o], <<"force_set_comp", o>>)

SetNullValue(v) == Change([array EXCEPT !.null = v], <<"set_null_value", v>>)

-----------------------------------------------------------------------------
(* Sorting *)

(* Insertion sort of a range: each entry goes left past the larger ones. *)
InsertionSorted(order, v) ==
  LET Insert[n \in 0 .. Len(v)] ==
        IF n = 0 THEN <<>>
        ELSE LET s == Insert[n - 1]
                 Place[j \in 1 .. n] ==
                   IF j = 1 THEN 1
                   ELSE IF Compare(order, v[n], s[j - 1]) < 0 THEN Place[j - 1] ELSE j
             IN  SubSeq(s, 1, Place[n] - 1) \o <<v[n]>> \o SubSeq(s, Place[n], n - 1)
  IN  Insert[Len(v)]

(* The merge of the sorted halves of v into v itself.  Only the left half is copied to
   tmp: Merge[k] is where the loops are with k slots written, entry i of tmp and entry j
   of v being next. *)
Merged(order, v, half) ==
  LET tmp == SubSeq(v, 1, half)
      Merge[k \in 0 .. Len(v)] ==
        IF k = 0 THEN [v |-> v, i |-> 1, j |-> half + 1]
        ELSE LET m == Merge[k - 1]
             IN  IF m.i > half THEN m
                 ELSE IF m.j <= Len(v) /\ Compare(order, m.v[m.j], tmp[m.i]) < 0
                 THEN [m EXCEPT !.v[k] = m.v[m.j], !.j = @ + 1]
                 ELSE [m EXCEPT !.v[k] = tmp[m.i], !.i = @ + 1]
  IN  Merge[Len(v)].v

SortedRange(order, range) ==
  LET Sort[v \in Seq(ArrayValues)] ==
        LET half == Len(v) \div 2
            left == Sort[SubSeq(v, 1, half)]
            right == Sort[SubSeq(v, half + 1, Len(v))]
        IN  IF Len(v) <= InsertionMax THEN InsertionSorted(order, v)
            ELSE IF Compare(order, left[half], right[1]) <= 0 THEN left \o right
            ELSE Merged(order, left \o right, half)
  IN  Sort[range]

SortArray ==
  IF array.comp = NULL THEN Answer(<<"sort">>, -1)
  ELSE IF array.size < 2 THEN Answer(<<"sort">>, 0)
  ELSE \/ Answer(<<"sort">>, -1)
       \/ Change(WithContents(array, SortedRange(array.comp, Contents(array))), <<"sort">>)

-----------------------------------------------------------------------------
(* Reading.  Indexes count from 0.  The searches and folds assert what their guards
   say here; bisect assumes a sorted array. *)

(* The loop of the bisections: lo and hi close in until they are neighbours, and what is
   in the set low stays below them. *)
Bisected(low, size) ==
  LET Narrow[p \in (-1 .. size) \X (-1 .. size)] ==
        LET lo == p[1]
            hi == p[2]
            mid == lo + (hi - lo) \div 2
        IN  IF hi - lo <= 1 THEN p
            ELSE IF mid \in low THEN Narrow[<<mid, hi>>] ELSE Narrow[<<lo, mid>>]
  IN  Narrow[<<-1, size>>]

Against(i, v) == Compare(array.comp, Contents(array)[i + 1], v)

Places == 0 .. array.size - 1

BisectUpper(v) == Bisected({i \in Places : Against(i, v) <= 0}, array.size)[1]
BisectLower(v) == Bisected({i \in Places : Against(i, v) < 0}, array.size)[2]

(* bisect stops as soon as it hits an entry equal to v. *)
Bisect(v) ==
  LET Narrow[p \in (-1 .. array.size) \X (-1 .. array.size)] ==
        LET lo == p[1]
            hi == p[2]
            mid == lo + (hi - lo) \div 2
        IN  IF hi - lo <= 1 THEN -1
            ELSE IF Against(mid, v) = 0 THEN mid
            ELSE IF Against(mid, v) > 0 THEN Narrow[<<lo, mid>>] ELSE Narrow[<<mid, hi>>]
  IN  Narrow[<<-1, array.size>>]

IndexOf(v) ==
  LET From[i \in 0 .. array.size] == IF i = array.size THEN -1
                                     ELSE IF Against(i, v) = 0 THEN i ELSE From[i + 1]
  IN  From[0]

Search(v) == /\ array.comp # NULL
             /\ \/ Answer(<<"index", v>>, IndexOf(v))
                \/ /\ Sorted(array.comp, Contents(array))
                   /\ \/ Answer(<<"bisect", v>>, Bisect(v))
                      \/ Answer(<<"bisect_upper", v>>, BisectUpper(v))
                      \/ Answer(<<"bisect_lower", v>>, BisectLower(v))

Folded(s, init) == LET Fold[n \in 0 .. Len(s)] == IF n = 0 THEN init ELSE Join(Fold[n - 1], s[n])
                   IN  Fold[Len(s)]

Fold == LET s == Contents(array)
        IN  /\ array.size > 0
            /\ Answer(<<"fold">>, Folded(Tail(s), s[1]))

Fold2(v) == Answer(<<"fold2", v>>, Folded(Contents(array), v))

Get(i) == /\ i < array.size \/ array.null # NULL
          /\ Answer(<<"get", i>>, IF i < array.size THEN Contents(array)[i + 1] ELSE array.null)

Size == Answer(<<"size">>, array.size)
Capacity == Answer(<<"capacity">>, array.capacity)

-----------------------------------------------------------------------------
(* Changing entries *)

Map == LET s == Contents(array)
       IN  Change(WithContents(array, [i \in DOMAIN s |-> Convert(s[i])]), <<"map">>)

Scan == LET s == Contents(array)
            New[i \in DOMAIN s] == IF i = 1 THEN s[1] ELSE Join(New[i - 1], s[i])
        IN  Change(WithContents(array, [i \in DOMAIN s |-> New[i]]), <<"scan">>)

Set(i, v) == IF i >= array.size THEN Answer(<<"set", v, i>>, -1)
             ELSE Change([array EXCEPT !.mem[array.front + i + 1] = v], <<"set", v, i>>)

(* The three pops of an empty array, which assert that it has a null value *)
PopNothing(call) == array.size = 0 /\ array.null # NULL /\ Answer(call, array.null)

Shrunk(mem) == [array EXCEPT !.mem = mem, !.size = @ - 1]

Pop == \/ PopNothing(<<"pop">>)
       \/ /\ array.size > 0
          /\ array' = Shrunk([array.mem EXCEPT ![array.front + array.size] = JUNK])
          /\ arrayReply' = ArrayReply(<<"pop">>, array.mem[array.front + array.size])

PopFirst == \/ PopNothing(<<"pop_first">>)
            \/ /\ array.size > 0
               /\ array' = [Shrunk([array.mem EXCEPT ![array.front + 1] = JUNK])
                              EXCEPT !.capacity = @ - 1, !.front = @ + 1]
               /\ arrayReply' = ArrayReply(<<"pop_first">>, array.mem[array.front + 1])

-----------------------------------------------------------------------------
(* Room *)

\* Mutant: the entries stay where they were in the block.
SlidPointerOnly(a) == [a EXCEPT !.front = 0, !.capacity = @ + a.front]

(* memmove of the entries to the start of the block *)
Slid(a) == [a EXCEPT !.mem = Filled(a.mem, 0, Contents(a)), !.front = 0, !.capacity = @ + a.front]

(* realloc to n slots *)
Moved(mem, n) == [i \in 1 .. n |-> IF i \in DOMAIN mem THEN mem[i] ELSE JUNK]

\* Mutant: the slots in front are not counted.
GrownByCapacity(a) == LET capacity == IF a.capacity = 0 THEN 1 ELSE 2 * a.capacity
                      IN  [a EXCEPT !.mem = Moved(a.mem, capacity), !.capacity = capacity]

Grown(a) == LET capacity == IF a.capacity = 0 THEN 1 ELSE 2 * a.capacity
            IN  [a EXCEPT !.mem = Moved(a.mem, a.front + capacity), !.capacity = capacity]

(* What append may find itself with when it writes; none when it fails. *)
WithRoom(a) ==
  IF a.size < a.capacity THEN {a}
  ELSE IF a.front > 0 /\ a.front >= a.size THEN {Slid(a)}
  ELSE IF a.capacity > MaxSlots \div 2 \/ Grown(a).capacity > MaxSlots - a.front THEN {}
  ELSE {Grown(a)}

Appended(a, v) == [a EXCEPT !.mem[a.front + a.size + 1] = v, !.size = @ + 1]

\* Only a call that has to allocate may fail.
Append1(v) == \/ /\ array.size = array.capacity /\ (array.front = 0 \/ array.front < array.size)
                 /\ Answer(<<"append", v>>, -1)
              \/ \E a \in WithRoom(array) : Change(Appended(a, v), <<"append", v>>)

(* reserve: the entries have moved to the start of the block even when memory is short. *)
Reserve(n) ==
  LET slid == Slid(array)
      call == <<"reserve", n>>
  IN  IF n <= array.capacity THEN Answer(call, 0)
      ELSE IF n > MaxSlots THEN Answer(call, -1)
      ELSE IF n <= slid.capacity THEN Change(slid, call)
      ELSE \/ array' = slid /\ arrayReply' = ArrayReply(call, -1)
           \/ Change([slid EXCEPT !.mem = Moved(slid.mem, n), !.capacity = n], call)

-----------------------------------------------------------------------------
(* The array as a heap *)

HeapPush(v) ==
  LET call == <<"heappush", v>>
  IN  IF array.comp = NULL THEN Answer(call, -1)
      ELSE \/ /\ array.size = array.capacity /\ (array.front = 0 \/ array.front < array.size)
              /\ Answer(call, -1)
           \/ \E a \in WithRoom(array) :
                Change(WithContents(Appended(a, v), SiftUp(array.comp, Contents(array), v)), call)

HeapPop ==
  \/ PopNothing(<<"heappop">>)
  \/ /\ array.size > 0 /\ array.comp # NULL
     /\ array' = Shrunk(Filled(array.mem, array.front, WithoutTop(array.comp, Contents(array))))
     /\ arrayReply' = ArrayReply(<<"heappop">>, Contents(array)[1])

(* Every entry with a child sifts down, the last first. *)
Heapified(order, h) ==
  LET From[i \in 1 .. Len(h) + 1] ==
        IF LeftChild(i) > Len(h) THEN h
        ELSE LET g == From[i + 1] IN SiftDown(order, g, g[i], i)
  IN  From[1]

Heapify == IF array.comp = NULL THEN Answer(<<"heapify">>, -1)
           ELSE Change(WithContents(array, Heapified(array.comp, Contents(array))), <<"heapify">>)

-----------------------------------------------------------------------------
(* Files.  header is whether everything in front of the entries is there, with the
   format, the prefix and the size of an entry that the reader expects; size is the
   number of entries that it announces; crc stands for the checksum of the entries
   by the entries themselves: what differs has another checksum. *)

Written(header, n) ==
  [header |-> header, size |-> array.size, crc |-> Contents(array),
   data |-> SubSeq(Contents(array), 1, n)]

(* Opening fails; or something fails later, at the latest in closing; or all is well. *)
Serialize ==
  /\ UNCHANGED array
  /\ \/ /\ UNCHANGED file
        /\ arrayReply' = ArrayReply(<<"serialize">>, -1)
     \/ /\ file' \in {Written(FALSE, 0)} \cup {Written(TRUE, n) : n \in 0 .. array.size}
        /\ arrayReply' = ArrayReply(<<"serialize">>, -1)
     \/ /\ file' = Written(TRUE, array.size)
        /\ arrayReply' = ArrayReply(<<"serialize">>, 0)

(* A complete file changes on its way to the reader. *)
Damage ==
  /\ file # NULL /\ file.data = file.crc /\ file.size = Len(file.data)
  /\ \/ \E n \in 0 .. MaxSlots + 1 : file' = [file EXCEPT !.size = n]
     \/ \E i \in DOMAIN file.data, v \in ArrayValues : file' = [file EXCEPT !.data[i] = v]
  /\ UNCHANGED <<array, arrayReply>>

(* The size that the file announces is only believed if the file is that long. *)
Intact == /\ file.header
          /\ file.size <= MaxSlots /\ file.size <= Len(file.data)
          /\ SubSeq(file.data, 1, file.size) = file.crc

Deserialize ==
  LET fresh == IF file.size = 0 THEN Alloc(MinCapacity, 0) ELSE Alloc(file.size, file.size)
      full == WithContents(fresh, SubSeq(file.data, 1, file.size))
  IN  /\ UNCHANGED file
      /\ \/ Answer(<<"deserialize">>, FALSE)
         \/ /\ file # NULL /\ Intact
            /\ array' = SetDefaults(full)
            /\ arrayReply' = ArrayReply(<<"deserialize">>, TRUE)

-----------------------------------------------------------------------------
Indexes == 0 .. MaxSlots + 1      \* numbers that the program passes

ArrayCalls(v) == \/ SetNullValue(v)
                 \/ Search(v)
                 \/ Fold2(v)
                 \/ \E i \in 0 .. array.size : Set(i, v)
                 \/ Append1(v)
                 \/ HeapPush(v)

ArrayNext ==
  \/ array = NULL /\ InitArray /\ UNCHANGED file
  \/ array = NULL /\ UNCHANGED file /\ \E n \in Indexes, v \in ArrayValues : Init2(n, v)
  \/ array = NULL /\ Deserialize
  \/ array # NULL /\ Serialize
  \/ Damage
  \/ /\ array # NULL /\ UNCHANGED file
     /\ \/ \E left, right \in 0 .. array.size + 1, f \in BOOLEAN : DeepSlice(left, right, f)
        \/ DestroyArray
        \/ \E o \in {1, -1} : SetArrayComp(o)
        \/ SortArray
        \/ Fold
        \/ \E i \in 0 .. array.size : Get(i)
        \/ Size
        \/ Capacity
        \/ Map
        \/ Scan
        \/ Pop
        \/ PopFirst
        \/ \E n \in Indexes : Reserve(n)
        \/ HeapPop
        \/ Heapify
        \/ \E v \in ArrayValues : ArrayCalls(v)

ArraySpec == ArrayInit /\ [][ArrayNext]_arrayVars
-----------------------------------------------------------------------------
(* The block is as long as front and capacity say, and only slots of entries are read:
   pops move the front, slides and reallocations move the entries. *)
EntriesInBlock ==
  array # NULL =>
    /\ array.size <= array.capacity
    /\ array.front + array.capacity <= Len(array.mem) /\ array.capacity <= MaxSlots
    /\ \A i \in DOMAIN array.mem :
         (array.mem[i] = JUNK) <=> i \notin array.front + 1 .. array.front + array.size

AbstractArray == INSTANCE ValueSequence WITH
  Values <- ArrayValues,
  values <- IF array = NULL THEN NULL ELSE Contents(array),
  room <- IF array = NULL THEN 0 ELSE array.capacity,
  order <- IF array = NULL THEN NULL ELSE array.comp,
  null <- IF array = NULL THEN NULL ELSE array.null,
  saved <- IF file = NULL THEN NULL ELSE file.crc,
  reply <- arrayReply

(* Every call changes the sequence of entries as its name says and gives its answer;
   sorting is stable, searches find the first and last places, heap calls keep a heap,
   room that was reserved is there, a call that fails changes no entry, and what is
   read from a file is what was last written there or nothing, whatever part of it
   arrived. *)
ImplementsSequence == AbstractArray!Spec
=============================================================================
