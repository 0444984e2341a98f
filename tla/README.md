# Verification of c-struct

c-struct is a library of generic containers for C11, each one a header that is
included with a type and a prefix.  This directory holds TLA+ modules that model
its components, TLC configurations that model-check them, and proofs that TLAPS
checks.  Paths below are relative to the repository.

## The system and its parts

| component | file | state | operations | what is hard |
|---|---|---|---|---|
| channel | `include/chan.h` | slot array; counters head1, head0, tail1, tail0; closed | init, trysend, tryrecv, send, recv, close, destroy | lock-free, any number of threads; in-order publication; close against the last send |
| select | `include/chan.h` | the caller's array of cases | one, option_done | several channels, each changed by other threads meanwhile; cases finished for good |
| pool | `include/pool.h` | chain of blocks, one free list through all of them | init, get, put, destroy | two meanings of one field; misuse by copied pointers; failing mallocs |
| thread-safe pool | `include/ppool.h` | a pool and a mutex | the same | atomicity of put's read and write of the caller's variable |
| hash table | `include/hash_table.h` | open-addressed array with tombstones, size, used, pool of nodes | put, atomic update, get, remove, iteration, clone, set_hash | probing through tombstones, reuse of tombstones, rehash when memory is short |
| thread-safe hash table | `include/phash_table.h` | the same and a read-write lock | the same | hash computed before the lock, sizes read without it |
| tree | `include/tree.h` | AVL tree with parent pointers, heights and sizes | insert, delete, rank queries, iterators | rebalancing, rank bookkeeping |
| linked list | `include/linked_list.h` | doubly linked nodes, head, tail, size; the caller's iterator | add, remove, walk, remove and insert at the iterator, sort | pointers in both directions edited by ten functions; a sort that relinks one direction first; the iterator's entry |
| array | `include/array.h` | block with a moving front, size, capacity, order, null value | append, pops, reserve, slices, sort, bisection, folds, heap operations, serialization | sliding or growing; failing allocations halfway; in-place merge; files that end early or lie about their size |
| priority queue | `include/pqueue.h` | binary heap in a growing block | push, pop, peek, size | heap order at the edge of the heap; growth that fails |
| intervals | `include/interval.h` | none: pairs of doubles and a flag | arithmetic, powers, elementary functions | directed rounding, infinities times 0, divisors around 0, extrema found with a rounded pi |
| serialization | `include/serialize.h` | bytes in a file | sizes, strings, checksums, written and read | bits that do not fit, files that end early |
| option, any, comparison and hash helpers | `include/option.h`, `any.h`, `comp.h`, `hash.h`, `cs_*.h`, `*_hook.h` | values | small pure functions | order and hash of NaN and -0.0 |

The hash tables keep their nodes in a pool and so does the tree's user code in
the demos; the thread-safe variants put one lock around the plain ones; intervals
use a priority queue to add many terms; arrays write their files with the functions of
`serialize.h`; all containers share the comparison and hash hooks.  Only the channel,
the thread-safe pool and the thread-safe hash table have callers in several threads.

## Modules

| module | what it is |
|---|---|
| `Chan` | the channel: one action per atomic load, compare-and-swap, slot read and slot write of `chan.h`; its properties |
| `BoundedFIFO` | what a channel promises: a bounded FIFO queue, each call taking effect in one step |
| `ChanInv` | the inductive invariant of `Chan` |
| `MCChan`, `MCChanFull` | instances of `Chan` for TLC; the second adds a history variable for one run |
| `Pool`, `MCPool` | pools of `pool.h`, each call one step |
| `ChanPoolProofs` | the TLAPS proofs of the invariants of `Chan`, that it implements `BoundedFIFO`, and of what `Pool` promises (two parts that do not depend on each other) |
| `Select`, `MCSelect` | select over several channels: threads that call `select_one` in loops |
| `SelectProofs` | the TLAPS proofs about `Select` |
| `PPool`, `MCPPool` | the thread-safe pool: each call several steps and a mutex; it implements `Pool` |
| `PPoolProofs` | the TLAPS proof that it does |
| `KeyValueMap` | what both hash tables promise: a map, each call one step |
| `ProbeTable` | the open addressing both share: probing, placing, rebuilding |
| `ProbeProofs` | lemmas, with their TLAPS proofs, about probing, rebuilding, and the entries of a table as a map |
| `HashTable`, `MCHashTable` | the hash table of one thread, each call one step |
| `HashProofs` | the TLAPS proofs about `HashTable`: its invariants, and that it implements `KeyValueMap` |
| `PHashTable`, `MCPHashTable` | the thread-safe hash table: calls of several steps, a read-write lock |
| `PHashProofs` | the TLAPS proofs about `PHashTable`: its lock, its slots, and that it implements `KeyValueMap` |
| `OrderedMap` | what the tree promises: a map in the order of its keys, with ranks |
| `Tree`, `MCTree` | the tree with its pointers, heights and sizes, each call one step |
| `Ordering` | comparison functions, and what sorting by one means |
| `ValueList` | what the linked list promises: a sequence with a place in it |
| `LinkedList` | the list: nodes and their pointers, one iterator |
| `Heap` | the sifting that priority queue and array share |
| `ValueSequence` | what the array promises: a sequence with room, and what a file keeps of it |
| `Array` | the array: its block, front, size and capacity, and the file it is written to |
| `PriorityBag` | what the priority queue promises: a bag with a largest entry on top |
| `PQueue` | the priority queue: the heap in its block |
| `Interval` | the doubles, directed rounding, and the functions of `interval.h` as operators |
| `IntervalProgram` | calls of these functions, and the exact results they have to enclose |
| `IntervalTurns` | how sin and cos find out whether an interval contains an extremum |
| `Serialization` | the functions of `serialize.h`, and files that are whole, cut off or changed |
| `ContainerProofs` | the TLAPS proofs about array, priority queue and serialization: heaps, sorting, searching, what both containers implement, and that files are read as they were written |
| `ListProofs` | the TLAPS proofs about the list: its links, its merge sort, and that it implements `ValueList` |
| `MCContainers` | list, array, queue, intervals and files for TLC, each on its own |

Operators whose comment starts with "Mutant" are plausible bugs, each in place of
one definition of the model: every property below is violated when the model has
that bug.

### Chan

Variables have the names of the code's fields; `pc[t]` is where thread t is inside
a call, `pos[t]` its local `head1` or `tail1`, `val[t]` its value.  `sendHead1` to
`sendPublish` and `recvTail1` to `recvRelease` are the statements of `trysend` and
`tryrecv` (see the map in `PROJECT.json`).  All atomics of the code are sequentially
consistent, so the steps of the threads interleave.  A weak compare-and-swap may
fail for no reason: `SendLoseClaim` and `RecvLoseClaim` are always possible.  A
failed attempt to publish changes nothing and is a stuttering step.  The slots are
written and read by plain accesses of their own steps, so that `NoSlotClash` (no
data race) means something.

`closeRaced` remembers whether close was called while a send was in progress, which
`doc/chan.md` forbids.  The model allows it, and properties that need the rule say
so.

| run | shows | bounds |
|---|---|---|
| `chan_safety` | types, counter order, assertions, no slot clash, delivery, nothing left behind after CHAN_CLOSED, refinement of `BoundedFIFO` | three threads: one sends, one receives, one does both and closes; capacities 1 and 2; three sends |
| `chan_progress` | claims complete, close releases everybody, nobody starves | the same threads with blocking calls, two sends |
| `chan_full` | a disagreement with the documentation (below) | capacity 1, two sends |

Three sends on one or two slots reuse every slot; with three threads two senders or
two receivers can be inside their claims at once while the third is anywhere else.
The values sent are the numbers of the calls, so a lost, doubled or misplaced value
is visible.  Fairness: the operating system runs every thread (weak fairness of
`Proceed` and the lost claims), and a thread that tries the same claim for ever
succeeds if it could infinitely often (strong fairness of `Claim`: weak
compare-and-swap does not fail for ever).  Starvation of one thread by others that
send and receive for ever is possible in the code and is excluded here by the bound
on the sends.

**Finding** (`chan_full`).  `trysend` counts a slot as occupied until its receiver
has released it, `tryrecv` finds a channel empty when all published positions are
claimed.  So a channel that just answered CHAN_EMPTY can answer CHAN_FULL to the
next send.  `BoundedFIFO` states what does hold: CHAN_FULL only if the values and
the calls of other threads in progress together fill the channel.

### What is proved about Chan

In `ChanPoolProofs`, for every finite set of threads, every assignment of operations, every set of
capacities and every bound: `Typing`, `Order`, `Asserts`, `NoRace`, `Delivery`,
`Drained`, `Invariance`, and `Refinement`: the channel implements
`BoundedFIFO`.  The assumptions in `Chan`: capacities are positive, the bound is a
natural number, and there are finitely many threads (`BoundedFIFO` counts those that
are inside a call; the invariants do not use it).

`CounterOrder` is not inductive: that `head1` does not run past `tail0 + capacity`
depends on what a sender may conclude from counters it loaded before others moved
them.  `ChanInv` says it: a counter loaded earlier is a lower bound of the present
one, the room seen then is still there unless head1 has moved (and then the claim
fails), claimed positions are between head0 and head1 (tail0 and tail1) and differ
between threads.  From it `Order` and `Asserts` follow.  `TurnDiffers` shows that
positions less than a turn apart have different slots, hence `NoRace`.  `DataInv`
(published slots hold what was sent) is preserved because no step writes a slot in
use, hence `Delivery`.  `SenderInv` (every unpublished position has a sender) and
`CloseInv` give `Drained`.

For the refinement the queue is `sent` between tail1 and head0: a send takes effect when
it publishes, a receive when it claims.  An answer is given where the code gives it, and
the queue must justify it there.  CHAN_FULL needs `ReceiverInv`: every position between
tail0 and tail1 has a receiver inside a call, as those between head0 and head1 have a
sender (`SenderInv`), so values and calls in progress together fill the channel; that
is a statement about cardinalities, proved with the injection from the positions to the
calls that `ClaimsDiffer` gives.  CHAN_CLOSED for a receiver needs that closed is read before
head0 is read again (`recvAgain`), and `CallInv`, that a receiver has no value
before it has read one and that a sender that came late stops at its look at closed.
`RefineInvariance` proves these two with `IndInv`.

Model-checked only: all liveness.

### Select

`type` is the array of cases that a thread passes; `pc`, `left`, `cur` and `omits`
are where its `select_one` is, the cases that the random permutation has not
reached (any order is possible), the one being tried and `all_omits`.  Skipping a
finished case is not a step: only its owner changes it.  A channel is the queue of
its published values and a closed flag.  A send first claims a slot (`SendClaim`) or
finds claimed, published and unreleased slots to fill the capacity (`SendFull`),
which is what `head1 == tail0 + capacity` says; a receive takes the head and
releases the slot later.  "missed" stands for a second look at `head0` that finds it
moved.  `OptionDone` closes the channel of a case at any time between calls.

| run | shows | bounds |
|---|---|---|
| `select` | the answer is the one case done (`OneCaseDone`), no value is lost or doubled, a case that select finished has nothing to come, an undisturbed call finds what is ready, loops end | two senders on one channel, one of them on a second channel too, a receiver on both with a case that has no channel; capacity 1, one value per sender |

The smallest channels make every send and receive conflict.  `LoopsEnd` assumes that
threads are scheduled, that they call select again, and that they finish the cases
for which they have no more values, as `doc/chan.md` and `demo/chan_demo6.c` do.  It
does not assume that any order of cases is fair.  `FinishedIsOver` leaves out
channels closed during a send (`raced`), which `doc/chan.md` forbids; everything
else is checked with such closes too.  No claim is made about several cases ready at
once, or about a call that other threads disturb: it may find nothing ready although
some channel was ready at each moment.

### What is proved about Select

For all finite sets of threads, all channels, capacities, cases and bounds:
`CallsDoOneCase`, `EveryValueKept`, `OverForGood` and `UndisturbedFindsReady` (the four
invariants of the run).  `SelectAssumption` says that NULL is no thread, channel or
value, and that there are finitely many threads (claims are counted).  `SelectInv`, the
inductive invariant, has a part for each:

- `Types` says what a thread knows at each place of its call: which case it is trying,
  that it has done none so far, that `all_omits` is what it says.
- `Room`: values and claims together fit a channel.  `Places`: every value sent is queued, taken
  or received, in exactly one way, and at one place of one queue.  `NothingLost` counts
  values instead, and follows by the cardinality of a disjoint union.
- `Over`: a send still under way on a closed channel that nobody closed too early will find it
  closed; a receiver that found nothing still has an empty queue before it, or has
  missed something.  Only with these is `FinishedIsOver` kept by the step that finishes
  a case.
- `Alone`: while nobody disturbs a call, every case it has tried is as it was.

Model-checked only: `LoopsEnd`, which is liveness.

### Pool and PPool

An entry is a triple of pool, block and index instead of an address; `next` is a
function on the entries in memory.  The program is a set of pointer variables into
which `get` stores and which `put` reads and clears; `Copy` lets it keep copies, so
double puts, stale puts and puts to the wrong pool all happen.  `InitFails` is the
error path of `pool_init` after the first malloc.  The history variable `stack` is
the abstract stack of free entries: `FreeListIsStack` ties the linked list to it.
The sizes are those of `cs_pool_next_size` with a small SIZE_MAX, so the code's own
check ends the growth: blocks of 1, 2 and 3 entries, the fourth refused.

In `PPool` the body of a call is split at every write.  `snap` holds the pool as it
was when the mutex was taken, which is what other threads may assume until the call's
last write; under this mapping every call is one step of `Pool`
(`ImplementsPool`).  `CallsReturn` assumes that the scheduler runs every thread and
that a mutex released again and again is eventually granted to each waiting thread.

| run | shows | bounds |
|---|---|---|
| `pool` | the free list is a stack, every entry is free or in use in its own pool, blocks grow, an entry stays in use until it is put | two pools, two pointers, first blocks of 0 to 4 entries, three blocks |
| `pool_leak` | a disagreement with the documentation (below) | the same |
| `ppool` | calls are steps of `Pool`, and return | two threads that both use two pointers, a pool of at most one entry that grows once |

### What is proved about Pool and PPool

For every set of pools and variables, first sizes, entry size of two bytes or more (an
entry holds at least a pointer) and size limit; the assumptions say, besides, that NULL and
a pool are no entries.

`ChanPoolProofs`: `ListIsStack` and `NoEntryLost` (the two invariants), and `EntryKept` (the
action property `UsedUntilPut`).  The two invariants are inductive together with the
types, as `Sound` puts them for one pool: a free list without repetition that starts at
`head`, is linked by `next`, has all free entries, and whose entries are in the pool's
own blocks; the others point to their pool.  The proof has a lemma for each way in which
a list changes (an entry is handed out or comes back, a block is added, whose entries
are linked in order), and one that other pools' lists are not touched.

`PPoolProofs`: `Refinement`, each step of `PPool` is a step of `Pool` or none that can be seen.  `CallsOK`:
the mutex is held exactly by the thread that is inside.  `SnapOK`: between the
writes of a call the memory differs from the snapshot by just the writes made so far
(`Stage`), so that the last one makes the whole change of the call at once.  `SeenOK`: the
pool that the others may assume is sound (`Store`): the head and whatever follows a free
entry are free, and no two entries are followed by the same one, so that a get leaves a
free entry or none as the head; and every pointer of the program is to an entry in memory.
`Store` does not speak of the order of the list, which this refinement does not need.

Model-checked only: `CallsReturn`, which is liveness.  `TypeOK` of both is part of the
invariants.

**Finding** (`pool_leak`).  When the second malloc of `pool_init` fails the struct
allocated by the first is lost, and when this happens in a `get` that grows the
pool, `destroy` does not free everything.

### Hash tables

A table is the record of the struct's fields; a slot holds NULL, the marker DELETED
or a node.  Hashes are given numbers (the result of the hash function and its
mixing), so keys collide as the instance says: fully, in base and step, or in the
base alone.  `End`, `Target` and `Place` are the probe loops as "the first slot on
the way with ...".  A loop without an end cannot be expressed by a step, so it is a
property: `ProbesEnd` says every way meets an empty slot.

`HashTable` has every call of `hash_table.h`, each allocation failing or not; a walk
from `first` to the last `next` is one step, for the table must not change during it.
`PHashTable` splits a call: the hash is computed (`Start`), the lock taken, the slot
found, read, changed, the table rebuilt, the lock released; `size` reads without the
lock.  Each return statement has a release of its own (`UnlockPut` to `UnlockSet`), and
`HeldInside` has to hold after every one of them.  A keyed call on a table without a hash
function, which returns before it takes the lock, is left out: the table has one from the start.  `set_hash` may come at any moment; `misused` remembers that it took effect
during other calls, and only then the table may stop being a map
(`phash_table.h` says to call it before the table is shared).

| run | shows | bounds |
|---|---|---|
| `hash` | fields agree with slots, probing ends, at most three quarters of the slots used unless memory failed, the table is a map, and a walk meets each entry once | four keys, two hash functions, tables of 8 and 16 slots |
| `phash` | the same for two threads; no call leaves without the lock's release; what was found stays while the lock is held | three calls after one of three histories: a small table, one whose next entry rebuilds it, one whose rebuild failed |

Tables have at least 16 slots in the code and 8 here: shift, mask and capacity still
change together when a table grows or is rebuilt in the same size, and both happen.
`Bound` in `MCHashTable` stops at six used slots of sixteen, where no rebuild is
near.  `View` leaves out the reply, which no action reads.  In `phash` keys are
chosen by slot: three fall on markers, two on empty slots, two share a hash and one
has the same way.  The update function of the run adds modulo 9, so that the values stay
few.

`HeldInside` is used in place of liveness: a thread holds the lock exactly while it
is between its first and last locked step, every step inside is enabled, and so a
lock is always given back.  Whether a waiting writer gets its turn depends on the
platform's read-write lock; the code assumes nothing and neither does the model.

A rebuild that failed is tried again by the next `put` that stores a new entry.  Once failed
rebuilds have left a single empty slot, a `put` of a new key that would take it is refused before it
comes to a rebuild (`PutRefused`), also when memory is back; `doc/hash_table.md:131` says so.

### What is proved about the hash tables

Everything that the runs check of both, for all keys, values, hash functions, expected
sizes, histories and (in `PHashTable`) threads and calls.  The assumptions: the smallest
capacity is 2^n for some n of 3 to 62, the empty slot and the marker differ from each other and
from every node, and the update functions and the function for `apply` give values.

`ProbeProofs` is about one table.
- A way with an odd step through 2^n slots meets each slot (`ProbeMeetsAll`): an odd
  number divides no power of two, by induction on n, so the first 2^n places of the way
  differ, and there are no more slots.
- `SoundTable` says that the counters agree with the slots and one slot at least is empty.
  It is kept by inserting, removing, changing values and rebuilding.  A new capacity holds
  the entries in three quarters of its slots: for the capacities of `init` that follows from
  the two roundings and from capacities being divisible by four.
- `Filed` says that each entry is where probing for its key ends (no empty slot and no
  entry for the same key before it on its way) and has the hash of its key.  A removal leaves
  a marker so that it stays true, an insertion goes to the first free slot of the way of a
  key that has no entry, and a rebuilding places the entries one after the other
  (`PlaceAllInPlace`, by induction on the slots of the old table).  For each of these there is a
  lemma that says what becomes of the contents (`InsertedFiled`, `RemovedFiled`,
  `ChangedFiled`, `RefilledFiled`, `RebuiltFiled`).

`HashProofs`: `EveryProbeEnds`, `LoadIsBounded` and `TableIsMap`.  The invariants, in this
order, are `HashInv` (`SoundTable`, and the load unless a rebuild failed) and `MapInv` (and
`Filed`; without a hash function there are no entries).  That `ImplementsMap` holds then is
`FoundIs`: the entry at which probing for a key ends is the only one that the map finds for it.

`PHashProofs`: `Held` (`HeldInside`), `Changes` (a table changes only while its writer is
the only thread inside), `Found`, `SlotIsKept` and `PTableIsMap`.  `LockInv` is `HeldInside`
with the types of the lock's variables, and inductive because a thread that takes the lock
for writing finds it free.  `ModeInv` adds that readers are in `get` and a writer is not, so
that none of the steps that change the table (`ChangingStep`) is made by a reader, and hence
that whoever changes it is alone (`ChangerAlone`).  `PInv` has the sound table and what each
thread found.  `FiledInv`, as long as `set_hash` kept to its rule: `Filed`, every hash that a
thread computed is the one the table gives its key now, and a thread about to insert knows
that its key is absent.  These make the step at which a call takes effect a step of the map;
the rebuilding after it cannot be seen.

`NoTable` in `HashTable` stands for a null pointer to a table; it is a record so that no
table can be equal to it.

### Tree

Nodes are named by their keys (there is at most one for a key), so pointers are
keys.  The recursion down to a key is the sequence `Way`; rotations, heights and
sizes on the way back up are folds over it.  `Turn`, `Rotate` and `Balance` keep the
code's order: parents are set by one function and filled in by another, sometimes
by the caller.  A descending order is the mirror image of an ascending one.

| run | shows | bounds |
|---|---|---|
| `tree` | links, balance, sizes and heights after every call; post-order walks meet children first; all answers are those of `OrderedMap` | every tree of keys 1 to 6, and removals from one tree of twelve keys |

The height that a call answers is one that a balanced tree of so many entries can have,
which are the bounds of `doc/tree.md:150`.

Six keys give all single and double rotations on insertion and removal, with two
levels above them.  A removal that rotates at two levels needs a tree as sparse as
a balanced tree can be; the smallest have twelve keys, and a history builds one.
`Bound` follows what becomes of it down to ten keys.  Different keys that compare
equal are left out.

### List, array and priority queue

All three are used by one thread, so each call is one step; what a test hardly
reaches is how the calls before it left pointers, front and capacity.  An abstract
specification of each has the calls with their answers on a plain sequence or bag,
and the refinements (`ImplementsValueList`, `ImplementsSequence`, `ImplementsBag`)
compare every answer and every effect with it.  Every allocation may fail.

`LinkedList`: a node is a number for its address, freed nodes lose their fields and
are allocated again, lowest address first.  The iterator is a pointer of the caller;
the model forgets it when another call frees its node, which is where the code says
it must not be used.  `Succ` and `Pred` are the fields of all nodes as functions, and
`Chain` what a loop that follows one of them meets.  The merge sort runs on the `next`
pointers as in the code (`MergeNodes` turn by turn, `MSortNodes` by recursion) and sets
`prev` and `tail` afterwards.  `ListLinked` says that both directions agree.

`Array`: `mem` is the block with JUNK in the slots that hold no entry; `append`
slides the entries to the front of the block, or grows it, or fails; `reserve` may
fail after it has slid.  `EntriesInBlock` ties front, size and capacity to the block
and would see an entry read from JUNK.  A file is what `array_serialize` wrote, up to
the point where writing failed, or a complete one of which the announced size or an
entry was changed (`Damage`).  The checksum is represented by the entries themselves;
what the real one detects is checked in `Serialization`.  Reading may fail at any time
for lack of memory.  Heap functions of the array use the sifting of `pqueue.h`'s
model, `Heap`.

`PQueue`: the block as a sequence; destroying the queue reports which values it
freed.

| run | shows | bounds |
|---|---|---|
| `containers` | the three above; intervals and files (below) | lists of up to 4 nodes with two keys, one of them in two entries that compare equal; arrays of up to 5 entries in 6 slots; queues of up to 6 entries with three keys; larger ones only with the usual order and without a null value, files only of up to 2 entries in arrays that are not slid |

Four nodes have entries with two neighbours on both sides of the iterator, and the
merge sort splits them twice.  The code sorts ranges of up to 16 entries by insertion
and merges longer ones; here `InsertionMax` is 2, so arrays of 5 entries are merged
twice, in halves of different length.  Six entries give the heap an inner node with one
child and one with two.  One run holds all of these: the first state chooses a
component, and only this one moves, so the state space is their sum.

### What is proved about array, priority queue, list and files

`ContainerProofs`: `QueueIsBag`, `EntriesStayInBlock`, `ArrayIsSequence` and, about files,
`WrittenIsReadBack` (below), for all
entries, both orders and none, all capacities, limits of memory and thresholds of the
insertion sort, and all functions for `map` and the folds that give entries.  `ListProofs`:
`ListStaysLinked` and `ListIsSequence`, for all entries, every finite set of nodes,
either order and none.  The assumptions besides: the key of an entry is an integer; NULL is no
struct, file, sequence, bag, node or record; JUNK is no entry; the least capacity of an
array fits in memory.

Recursion.  What sifting, sorting, merging and searching compute is written with
recursive functions.  `Recursion` shows that a recursion whose calls lower a measure
(`Founded`) defines a function; what it computes is then proved by induction, with a set
of numbers for the induction hypothesis (`NatInduced`, `MeasureInduced`).

Heaps (array and queue).  Sifting moves a hole: `Risen` and `Sunk` say where the heap
may be out of order while it moves, and that the entries, counted with the one that is
held, stay the same (`SiftUpSound`, `SiftDownSound`).  A heap has a largest entry on top
(`HeapTop`), and heapify makes one from its last inner node up (`HeapifiedSound`).  `QueueInv`, the
invariant of the queue, is that it is a heap by its comparison function whenever it has one.

Sorting (array and list).  `SortsTo(S, w, n, s, t, pos)`: t is s stably sorted by the
weights w, and pos says where each entry went.  Insertion, and merging in the middle of its
loop (`Placed`, `MergeAt`), are steps towards it, and the recursion halves
(`SortedRangeSound`).  Weights replace the comparison, either way round
(`CompareWeights`).  That pos is the rank by which the abstract specifications sort is
`SortsByRank`: the bag of entries is the same, and earlier ones of equal weight stay first.

Array.  `ArrayInv` is that some sequence s is in the block (`Block`): the slots behind the
front hold s, all others JUNK, size is its length, and front and capacity end within the
block and within memory.  It is an invariant with s a witness only, so each call has a lemma that
names the sequence it leaves, whichever of the moves of the block it makes
(`BlockWithRoom`).  A bisection closes in on the first or last place (`BisectedSound`).

List.  `Linked(l, nd, c, v, o)`: the nodes c, all different, hold the values v in this
order, each with both neighbours or NULL, head and tail are its ends, and every other
node is free.  The invariant is that there are such c and v, with the iterator at one
place of c or none (`ListAt`).  A call inserts a node into c or takes one out
(`LinkedInserted`, `LinkedRemoved`), which the code does in different ways at the ends and
between two nodes.  For the sort, `Links` says what has become of two chains after some turns of
the merge loop: the nodes taken are linked in the merged order, the rest of both
chains is as it was, and so are all nodes outside them (`NodeTurnSound`).  So a half is
not changed by sorting the other one (`HalvesMerged`, `NodeSorterSound`), and the walk that sets
`prev` makes the chain a list again (`MSortRelinks`).

Files.  `WrittenIsReadBack` is `FilesReadBack` for all widths of groups, of `rv` and of size_t
(at most as wide as `rv`), all strings, data and bytes that the reader finds; assumed is
that they are made of bytes and that lengths of strings fit in a size_t.  What the
library does not say of powers of two is proved first (`PowerMonotone`, `Division`,
`WeightSteps`).  `Encodes` says what a size looks like in bytes: only the last one is without
flag, the last is not 0 if there are several, and they stand for the number; writing gives that,
by induction on the size (`Encoded`).  Bytes that stand for a number which fits in `rv` pass the
reader's two tests (`EncodedFits`), and bytes that pass them stand for a number that
fits, so that nothing is shifted out of it (`FittingIsSmall`).  Every proper prefix of a size
has flags only and is refused (`SizeCutOff`).  The invariant, `TapeInv`, says where the
bytes in the file come from.

### Intervals

A double is an integer, the number of a common unit, and there are few of them: 0, 0.5,
1, 2 and their negatives, and infinities.  Every operation is computed exactly and
rounded once in the direction that the code has set, to infinity past the last double;
NaN comes from the operations that give it in IEEE 754.  So every rounding, overflow and
0 times infinity of the code happens among a few values.  `IntervalProgram` calls every
function with all intervals, or some for three and more arguments, and compares the
result with the exact results (as fractions) for the numbers inside the arguments,
which are looked at between the doubles and beyond the largest, too: `Encloses` (nothing
is left out), and `Tight`: invalid only where nothing is defined, for finite ends
(`ValidIfDefined`), and one rounding away at most (`Narrow`).  -0.0 is not distinguished from 0.0.
`add_many` takes its terms in the order of its queue (`Heap`).

`IntervalTurns` is about sin and cos: whether an interval contains an extremum is
decided by quotients by M_PI_2, which is not pi / 2.  Here pi / 2 is 22/14, M_PI_2 the
double below it, and doubles have three bits from 1/16 to 56.  `ExtremaSeen`: an
extremum in the interval is always noticed, even at its end, and none that is more than
three doubles away is.  The values at the ends come from the math library and are left
out.

### Files

`Serialization` has the functions of `serialize.h`.  A program writes a size, a string,
or data with a checksum, and reads it, whole, cut off anywhere, or with other data of
the same length; or it reads sizes and strings from any bytes.  `FilesReadBack`: what is
whole is read as it was written, of a size or string that is cut off nothing is, and the size
read is the number that the bytes stand for.  `DamageSeen`: data that were cut off
or changed are not believed, and the checksum is the one of IEEE 802.3, defined as the
remainder of a division of polynomials, in one piece and in two.  Sizes have 4 bits
here, read into 5 bits in groups of 2, so that the last group has room for one bit, as
the tenth byte of the code has, and a value may fit in `rv` but not in a size_t.  The
checksum has its 32 bits and its real table.

## Plan

1. Done: channel with proofs, select, pool, thread-safe pool, hash table,
   thread-safe hash table, tree; then list, array, priority queue, intervals,
   serialization, and iteration of the hash table.
2. Done: proofs of the invariants and the refinement of the channel; of the invariants of
   select and of the pool; of the refinement of the thread-safe pool; of the invariants and the
   refinement of both hash tables, of array and list, of the refinement of the priority
   queue, and of the formats of files.
3. Left for proofs: the tree.

What stays with TLC, and why: liveness (`ClaimsComplete`, `CloseReleasesAll`,
`NobodyStarves`, `LoopsEnd`, `CallsReturn`), which needs ENABLED.  The tree (`Linked`,
`Balanced`, `ChildrenFirst`, `ImplementsOrderedMap`): its properties hold on the way from a
leaf to the root, where sizes and heights are sums over subtrees; the lemmas on recursion
and induction that the containers use would do for it, and it has not been done.  What the checksum
sees (`DamageSeen`): that no damage passes is false of data of any length, so it is checked over
data of a few bytes, whose checksums differ.  The intervals (`Encloses`,
`Tight`, `ExtremaSeen`), which are checked over all doubles of a small
instance.

Abstract specifications: `BoundedFIFO` (implemented by `Chan`), `Pool` (by
`PPool`), `KeyValueMap` (by both hash tables), `OrderedMap` (by `Tree`), `ValueList`
(by `LinkedList`), `ValueSequence` (by `Array`), `PriorityBag` (by `PQueue`).

## Not modelled

Of `interval.h`: exp, erf, log and the powers with a real exponent made of them, and the
values of sin and cos at the ends, which enclose if the math library is accurate to one
unit in the last place; saving and restoring the rounding mode; printing.  Destroying a
channel or a thread-safe hash table, which must not overlap with any call.  Several
iterators on one list, where each must avoid the nodes that the others remove.  The
numbers behind the random order of select, and hash functions.  Comparison and hash
functions and the small values of `option.h` and `any.h`, which have no behaviour over
time; the models take an order of the keys and their hashes as given.  Calls with NULL
for a container return an error before they touch anything and are left out.  All
atomics of `chan.h` are sequentially consistent, so no weaker memory order is
modelled.  Counters of 64 bits are numbers without a limit.

Only model-checked: everything but the theorems about `Chan`, `Select`, `Pool`, `PPool`,
`HashTable`, `PHashTable`, `Array`, `PQueue`, `LinkedList` and `Serialization` listed above;
all liveness in particular.
