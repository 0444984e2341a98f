-------------------------------- MODULE Pool --------------------------------
(* The pools of src/include/pool.h: storage for objects of one type, handed out
   and taken back one at a time.  A pool is a chain of blocks of entries; the free
   entries of all its blocks form one list, which starts at head in the first
   block.  The next field of an entry has two meanings: the next free entry while
   it is free, the pool it belongs to while it is in use.

   Pools are used here by a program with a few pointer variables.  It may copy a
   pointer, give it back twice or give it to the wrong pool; it does not use what
   a destroyed pool handed out (undefined in C).  Any malloc may fail.

   An entry is the i-th of block b of pool p, <<p, b, i>>.  NULL stands for the
   null pointer.  stack and used are history variables. *)
EXTENDS Integers, Sequences, FiniteSets

CONSTANTS Pools,       \* the pools the program may create
          Var,         \* its pointer variables
          InitSizes,   \* the sizes it passes to pool_init
          NULL,
          SizeMax,     \* SIZE_MAX
          EntrySize,   \* sizeof(ENTRY), of an object and a pointer
          MaxOrphans   \* bound: failures of the second malloc of pool_init

ASSUME SizeAssumption == /\ InitSizes \subseteq Nat
                         /\ SizeMax \in Nat
                         /\ EntrySize \in Nat \ {0, 1}
                         /\ MaxOrphans \in Nat
ASSUME NullAssumption == NULL \notin Pools \cup (Pools \X Nat \X Nat)
ASSUME PoolAssumption == Pools \cap (Pools \X Nat \X Nat) = {}

VARIABLES status,    \* status[p]: "absent", "live" or "destroyed"
          blocks,    \* blocks[p]: the pool_size of each block, first to last
          head,      \* head[p]: the first free entry
          next,      \* next[e]: for every entry in memory
          var,       \* var[v]: what the program's variable v points to
          orphans,   \* orphans[p]: the structs left behind by failed attempts to grow
                     \* p; orphans[NULL]: by failed attempts to create a pool
          stack,     \* stack[p]: the free entries, the next to be handed out first
          used       \* the entries handed out and not given back

poolVars == <<status, blocks, head, next, var, orphans, stack, used>>

MaxEntries == SizeMax \div EntrySize

(* cs_pool_next_size: n times 3/2, rounded up, without overflow. *)
NextSize(n) == LET grow == (n \div 2) + ((n % 2) + 1) \div 2
               IN  IF grow > SizeMax - n THEN SizeMax ELSE n + grow

Block(p, b, n) == {<<p, b, i>> : i \in 1 .. n}

Entries(p) == UNION {Block(p, b, blocks[p][b]) : b \in DOMAIN blocks[p]}

(* The free list of a new block. *)
Links(p, b, n) == [e \in Block(p, b, n) |-> IF e[3] < n THEN <<p, b, e[3] + 1>> ELSE NULL]

Extend(f, g) == [e \in DOMAIN f \cup DOMAIN g |-> IF e \in DOMAIN g THEN g[e] ELSE f[e]]

PoolInit == /\ status = [p \in Pools |-> "absent"]
            /\ blocks = [p \in Pools |-> <<>>]
            /\ head = [p \in Pools |-> NULL]
            /\ next = [e \in {} |-> NULL]
            /\ var = [v \in Var |-> NULL]
            /\ orphans = [o \in Pools \cup {NULL} |-> 0]
            /\ stack = [p \in Pools |-> <<>>]
            /\ used = {}

-----------------------------------------------------------------------------
(* pool_init, as called by the program and, for a further block, by pool_get.
   The first malloc failing changes nothing; when the second one fails, the pool
   struct stays allocated. *)

CanInit(n) == n # 0 /\ n <= MaxEntries

InitFails(o) == \/ UNCHANGED orphans
                \/ /\ orphans[o] < MaxOrphans
                   /\ orphans' = [orphans EXCEPT ![o] = @ + 1]

InitPool(p, n) ==
  /\ status[p] = "absent"
  /\ CanInit(n)
  /\ status' = [status EXCEPT ![p] = "live"]
  /\ blocks' = [blocks EXCEPT ![p] = <<n>>]
  /\ head' = [head EXCEPT ![p] = <<p, 1, 1>>]
  /\ next' = Extend(next, Links(p, 1, n))
  /\ stack' = [stack EXCEPT ![p] = [i \in 1 .. n |-> <<p, 1, i>>]]
  /\ UNCHANGED <<var, orphans, used>>

InitPoolFails(p, n) ==
  /\ status[p] = "absent"
  /\ IF CanInit(n) THEN InitFails(NULL) ELSE UNCHANGED orphans
  /\ UNCHANGED <<status, blocks, head, next, var, stack, used>>

-----------------------------------------------------------------------------
(* pool_get *)

LastSize(p) == blocks[p][Len(blocks[p])]

\* Mutant: the entry is not marked as in use.
GetFreeUnmarked(p, v) ==
  /\ status[p] = "live"
  /\ head[p] # NULL
  /\ var' = [var EXCEPT ![v] = head[p]]
  /\ head' = [head EXCEPT ![p] = next[head[p]]]
  /\ stack' = [stack EXCEPT ![p] = Tail(stack[p])]
  /\ used' = used \cup {head[p]}
  /\ UNCHANGED <<status, blocks, next, orphans>>

GetFree(p, v) ==
  /\ status[p] = "live"
  /\ head[p] # NULL
  /\ var' = [var EXCEPT ![v] = head[p]]
  /\ head' = [head EXCEPT ![p] = next[head[p]]]
  /\ next' = [next EXCEPT ![head[p]] = p]
  /\ stack' = [stack EXCEPT ![p] = Tail(stack[p])]
  /\ used' = used \cup {head[p]}
  /\ UNCHANGED <<status, blocks, orphans>>

\* Mutant: the rest of the new block is not linked to the pool's list.
GetGrowLosesRest(p, v) ==
  LET n == NextSize(LastSize(p))
      b == Len(blocks[p]) + 1
      e == <<p, b, 1>>
  IN  /\ status[p] = "live"
      /\ head[p] = NULL
      /\ CanInit(n)
      /\ blocks' = [blocks EXCEPT ![p] = Append(@, n)]
      /\ var' = [var EXCEPT ![v] = e]
      /\ next' = [Extend(next, Links(p, b, n)) EXCEPT ![e] = p]
      /\ stack' = [stack EXCEPT ![p] = [i \in 1 .. n - 1 |-> <<p, b, i + 1>>]]
      /\ used' = used \cup {e}
      /\ UNCHANGED <<status, head, orphans>>

(* The new block's own head is cleared: it is no longer used. *)
GetGrow(p, v) ==
  LET n == NextSize(LastSize(p))
      b == Len(blocks[p]) + 1
      e == <<p, b, 1>>
      linked == Extend(next, Links(p, b, n))
  IN  /\ status[p] = "live"
      /\ head[p] = NULL
      /\ CanInit(n)
      /\ blocks' = [blocks EXCEPT ![p] = Append(@, n)]
      /\ var' = [var EXCEPT ![v] = e]
      /\ head' = [head EXCEPT ![p] = linked[e]]
      /\ next' = [linked EXCEPT ![e] = p]
      /\ stack' = [stack EXCEPT ![p] = [i \in 1 .. n - 1 |-> <<p, b, i + 1>>]]
      /\ used' = used \cup {e}
      /\ UNCHANGED <<status, orphans>>

GetFails(p, v) ==
  /\ status[p] = "live"
  /\ head[p] = NULL
  /\ IF CanInit(NextSize(LastSize(p))) THEN InitFails(p) ELSE UNCHANGED orphans
  /\ var' = [var EXCEPT ![v] = NULL]
  /\ UNCHANGED <<status, blocks, head, next, stack, used>>

-----------------------------------------------------------------------------
(* pool_put.  The variable must be NULL or point into memory that is there. *)

Usable(v) == var[v] = NULL \/ var[v] \in DOMAIN next

\* Mutant: any entry in use is taken back, whatever pool it is from.
InUseAnywhere(p, e) == e # NULL /\ next[e] \in Pools

InUse(p, e) == e # NULL /\ next[e] = p

Put(p, v) ==
  /\ status[p] = "live"
  /\ Usable(v)
  /\ InUse(p, var[v])
  /\ next' = [next EXCEPT ![var[v]] = head[p]]
  /\ head' = [head EXCEPT ![p] = var[v]]
  /\ var' = [var EXCEPT ![v] = NULL]
  /\ stack' = [stack EXCEPT ![p] = <<var[v]>> \o @]
  /\ used' = used \ {var[v]}
  /\ UNCHANGED <<status, blocks, orphans>>

PutRefused(p, v) ==
  /\ status[p] = "live"
  /\ Usable(v)
  /\ ~InUse(p, var[v])
  /\ UNCHANGED poolVars

(* pool_destroy frees every block of the chain and its struct. *)
Destroy(p) ==
  /\ status[p] = "live"
  /\ status' = [status EXCEPT ![p] = "destroyed"]
  /\ next' = [e \in DOMAIN next \ Entries(p) |-> next[e]]
  /\ blocks' = [blocks EXCEPT ![p] = <<>>]
  /\ head' = [head EXCEPT ![p] = NULL]
  /\ stack' = [stack EXCEPT ![p] = <<>>]
  /\ used' = used \ Entries(p)
  /\ UNCHANGED <<var, orphans>>

(* The program copies a pointer to another variable. *)
Copy(v, w) == /\ var' = [var EXCEPT ![w] = var[v]]
              /\ UNCHANGED <<status, blocks, head, next, orphans, stack, used>>

PoolNext == \/ \E p \in Pools, n \in InitSizes : InitPool(p, n) \/ InitPoolFails(p, n)
            \/ \E p \in Pools, v \in Var : \/ GetFree(p, v) \/ GetGrow(p, v) \/ GetFails(p, v)
                                           \/ Put(p, v) \/ PutRefused(p, v)
            \/ \E p \in Pools : Destroy(p)
            \/ \E v, w \in Var : Copy(v, w)

PoolSpec == PoolInit /\ [][PoolNext]_poolVars

-----------------------------------------------------------------------------
(* Properties *)

AllEntries == Pools \X (Nat \ {0}) \X (Nat \ {0})

\* Every variable has its type, the entries in memory are those of the blocks of
\* the live pools, every block could be allocated, and each is larger than the one
\* before it, so a pool needs few blocks.
PoolTypeOK == /\ status \in [Pools -> {"absent", "live", "destroyed"}]
              /\ blocks \in [Pools -> Seq(1 .. MaxEntries)]
              /\ \A p \in Pools : blocks[p] # <<>> <=> status[p] = "live"
              /\ \A p \in Pools : \A b \in 1 .. Len(blocks[p]) - 1 :
                   blocks[p][b] < blocks[p][b + 1]
              /\ DOMAIN next = UNION {Entries(p) : p \in Pools}
              /\ \A e \in DOMAIN next : next[e] \in {NULL} \cup Pools \cup DOMAIN next
              /\ head \in [Pools -> {NULL} \cup DOMAIN next]
              /\ var \in [Var -> {NULL} \cup AllEntries]
              /\ orphans \in [Pools \cup {NULL} -> 0 .. MaxOrphans]
              /\ stack \in [Pools -> Seq(DOMAIN next)]
              /\ used \subseteq DOMAIN next

\* The list that starts at head is the stack of the free entries: what was given
\* back last is handed out first, through all growth and across blocks.
FreeListIsStack ==
  \A p \in Pools :
     LET s == stack[p]
     IN  /\ head[p] = IF s = <<>> THEN NULL ELSE s[1]
         /\ \A i \in DOMAIN s : next[s[i]] = IF i = Len(s) THEN NULL ELSE s[i + 1]

\* Every entry in memory is either free, once in the list of its own pool, or in
\* use and marked with its own pool; so no entry is lost while its pool lives.
FreeOrInUse ==
  /\ PoolTypeOK
  /\ \A p \in Pools :
       LET s == stack[p]
           free == {s[i] : i \in DOMAIN s}
           mine == {e \in used : e[1] = p}
       IN  /\ \A i, j \in DOMAIN s : i # j => s[i] # s[j]
           /\ free \cap mine = {}
           /\ free \cup mine = Entries(p)
           /\ \A e \in mine : next[e] = p

\* An entry in use stays in use, in place, through all growth and all misuse of
\* other pointers, until a pointer to it is put back, into its own pool, or that
\* pool is destroyed.
UsedUntilPut ==
  [][\A e \in used \ used' :
       \/ status'[e[1]] = "destroyed"
       \/ head'[e[1]] = e /\ \E v \in Var : var[v] = e /\ var'[v] = NULL]_poolVars

\* pool.h:203 (doc/ppool.md:6: everything is freed at once by destroy): nothing
\* that was allocated for a pool is left when it has been destroyed.
EverythingFreed == \A p \in Pools : status[p] = "destroyed" => orphans[p] = 0
=============================================================================
