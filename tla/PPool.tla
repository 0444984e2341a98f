------------------------------- MODULE PPool --------------------------------
(* The pool that threads share, src/include/ppool.h: a pool of pool.h and one
   mutex.  Here the body of a get or a put is several steps, one for each write to
   memory that other threads can see, taken with the mutex held.  What this shows
   is that those steps together are the single step of module Pool.

   The program obeys C: no thread uses a variable that a get of another thread is
   about to set, and none copies one during a call with it.  Several threads may
   put the same variable, or copies of it, at once.  destroy is called when no
   other call is in progress.

   snap, stack and used are history variables. *)
EXTENDS Integers, Sequences, FiniteSets

CONSTANTS Thread, Var, InitSizes, NULL, SizeMax, EntrySize, MaxOrphans,
          pool   \* the pool

ASSUME SizeAssumption == /\ InitSizes \subseteq Nat
                         /\ SizeMax \in Nat
                         /\ EntrySize \in Nat \ {0, 1}
                         /\ MaxOrphans \in Nat
ASSUME PoolAssumption == pool \notin {pool} \X Nat \X Nat
ASSUME NullAssumption == NULL \notin Thread \cup Var \cup {pool} \cup ({pool} \X Nat \X Nat)

VARIABLES status, blocks, head, next, var, orphans, stack, used,  \* as in Pool
          lock,   \* the thread that holds the mutex, or NULL
          pc,     \* pc[t]: where thread t is
          dst,    \* dst[t]: the variable it passed
          rv,     \* rv[t]: its local pointer to an entry
          snap    \* the pool when the mutex was taken

poolVars == <<status, blocks, head, next, var, orphans, stack, used>>
vars == <<poolVars, lock, pc, dst, rv, snap>>

(* Before the last write of a call the others see the pool as it was when the
   mutex was taken; a get has its result before it has stored it. *)
Working == {"getLook", "getGrow", "getRelink", "getTake", "getPop", "getMark",
            "putLook", "putLink", "putHead", "putClear"}
Holding(v) == {t \in Thread : pc[t] = "getReturn" /\ dst[t] = v}
Hidden == lock # NULL /\ pc[lock] \in Working

Memory == [blocks |-> blocks, head |-> head, next |-> next, stack |-> stack]
Seen == IF Hidden THEN snap ELSE Memory
Points(v) == IF Holding(v) # {} THEN rv[CHOOSE t \in Holding(v) : TRUE] ELSE var[v]

Abs == INSTANCE Pool WITH
         Pools <- {pool},
         status <- [p \in {pool} |-> status],
         blocks <- [p \in {pool} |-> Seen.blocks],
         head <- [p \in {pool} |-> Seen.head],
         next <- Seen.next,
         stack <- [p \in {pool} |-> Seen.stack],
         var <- [v \in Var |-> Points(v)]

Init == /\ status = "absent"
        /\ blocks = <<>>
        /\ head = NULL
        /\ next = [e \in {} |-> NULL]
        /\ var = [v \in Var |-> NULL]
        /\ orphans = [o \in {pool, NULL} |-> 0]
        /\ stack = <<>>
        /\ used = {}
        /\ lock = NULL
        /\ pc = [t \in Thread |-> "idle"]
        /\ dst = [t \in Thread |-> NULL]
        /\ rv = [t \in Thread |-> NULL]
        /\ snap = NULL

Idle == \A t \in Thread : pc[t] = "idle"

-----------------------------------------------------------------------------
(* ppool_init and ppool_destroy, when no other thread uses the pool.  If the
   mutex cannot be made the pool is destroyed again and nothing has changed. *)

Create(n) ==
  /\ status = "absent"
  /\ Abs!CanInit(n)
  /\ status' = "live"
  /\ blocks' = <<n>>
  /\ head' = <<pool, 1, 1>>
  /\ next' = Abs!Links(pool, 1, n)
  /\ stack' = [i \in 1 .. n |-> <<pool, 1, i>>]
  /\ UNCHANGED <<var, orphans, used, lock, pc, dst, rv, snap>>

CreateFails(n) ==
  /\ status = "absent"
  /\ IF Abs!CanInit(n) THEN Abs!InitFails(NULL) ELSE UNCHANGED orphans
  /\ UNCHANGED <<status, blocks, head, next, var, stack, used, lock, pc, dst, rv, snap>>

Destroy ==
  /\ status = "live"
  /\ Idle
  /\ status' = "destroyed"
  /\ blocks' = <<>>
  /\ head' = NULL
  /\ next' = [e \in {} |-> NULL]
  /\ stack' = <<>>
  /\ used' = {}
  /\ UNCHANGED <<var, orphans, lock, pc, dst, rv, snap>>

-----------------------------------------------------------------------------
(* A call, its mutex, its return. *)

Goto(t, label) == pc' = [pc EXCEPT ![t] = label]

GetsInto(v) == {t \in Thread : dst[t] = v /\ pc[t] \notin {"putLock", "putLook", "putLink",
                                                           "putHead", "putClear", "putUnlock"}}

CallGet(t, v) == /\ pc[t] = "idle"
                 /\ status = "live"
                 /\ \A u \in Thread : dst[u] # v
                 /\ Goto(t, "getLock")
                 /\ dst' = [dst EXCEPT ![t] = v]
                 /\ UNCHANGED <<poolVars, lock, rv, snap>>

CallPut(t, v) == /\ pc[t] = "idle"
                 /\ status = "live"
                 /\ GetsInto(v) = {}
                 /\ Goto(t, "putLock")
                 /\ dst' = [dst EXCEPT ![t] = v]
                 /\ UNCHANGED <<poolVars, lock, rv, snap>>

\* Mutant: get does not take the mutex.
GetLockFree(t) == /\ pc[t] = "getLock"
                  /\ Goto(t, "getLook")
                  /\ snap' = Memory
                  /\ UNCHANGED <<poolVars, lock, dst, rv>>

Lock(t) == /\ lock = NULL
           /\ lock' = t
           /\ snap' = Memory
           /\ UNCHANGED <<poolVars, dst, rv>>

GetLock(t) == pc[t] = "getLock" /\ Goto(t, "getLook") /\ Lock(t)
PutLock(t) == pc[t] = "putLock" /\ Goto(t, "putLook") /\ Lock(t)

Unlock(t) == /\ lock' = IF lock = t THEN NULL ELSE lock
             /\ snap' = NULL

-----------------------------------------------------------------------------
(* pool_get, with the mutex held *)

GetLook(t) == /\ pc[t] = "getLook"
              /\ Goto(t, IF head = NULL THEN "getGrow" ELSE "getTake")
              /\ UNCHANGED <<poolVars, lock, dst, rv, snap>>

NextSize == Abs!NextSize(blocks[Len(blocks)])

(* The new block is linked to the last one of the chain ... *)
GetGrow(t) == LET n == NextSize
                  b == Len(blocks) + 1
              IN  /\ pc[t] = "getGrow"
                  /\ Abs!CanInit(n)
                  /\ blocks' = Append(blocks, n)
                  /\ next' = Abs!Extend(next, Abs!Links(pool, b, n))
                  /\ Goto(t, "getRelink")
                  /\ UNCHANGED <<status, head, var, orphans, stack, used, lock, dst, rv, snap>>

(* ... and its free entries become those of the pool. *)
GetRelink(t) == LET b == Len(blocks)
                IN  /\ pc[t] = "getRelink"
                    /\ head' = <<pool, b, 1>>
                    /\ stack' = [i \in 1 .. blocks[b] |-> <<pool, b, i>>]
                    /\ Goto(t, "getTake")
                    /\ UNCHANGED <<status, blocks, next, var, orphans, used, lock, dst, rv, snap>>

(* The mutex is released as the failed get returns. *)
GetFails(t) == /\ pc[t] = "getGrow"
               /\ IF Abs!CanInit(NextSize) THEN Abs!InitFails(pool) ELSE UNCHANGED orphans
               /\ rv' = [rv EXCEPT ![t] = NULL]
               /\ Goto(t, "getReturn")
               /\ Unlock(t)
               /\ UNCHANGED <<status, blocks, head, next, var, stack, used, dst>>

GetTake(t) == /\ pc[t] = "getTake"
              /\ rv' = [rv EXCEPT ![t] = head]
              /\ Goto(t, "getPop")
              /\ UNCHANGED <<poolVars, lock, dst, snap>>

GetPop(t) == /\ pc[t] = "getPop"
             /\ head' = next[rv[t]]
             /\ Goto(t, "getMark")
             /\ UNCHANGED <<status, blocks, next, var, orphans, stack, used, lock, dst, rv, snap>>

GetMark(t) == /\ pc[t] = "getMark"
              /\ next' = [next EXCEPT ![rv[t]] = pool]
              /\ stack' = Tail(stack)
              /\ used' = used \cup {rv[t]}
              /\ Goto(t, "getReturn")
              /\ Unlock(t)
              /\ UNCHANGED <<status, blocks, head, var, orphans, dst, rv>>

GetReturn(t) == /\ pc[t] = "getReturn"
                /\ var' = [var EXCEPT ![dst[t]] = rv[t]]
                /\ dst' = [dst EXCEPT ![t] = NULL]
                /\ rv' = [rv EXCEPT ![t] = NULL]
                /\ Goto(t, "idle")
                /\ UNCHANGED <<status, blocks, head, next, orphans, stack, used, lock, snap>>

-----------------------------------------------------------------------------
(* pool_put, with the mutex held: the caller's variable is read and cleared
   inside, too. *)

PutLook(t) == /\ pc[t] = "putLook"
              /\ Abs!InUse(pool, var[dst[t]])
              /\ rv' = [rv EXCEPT ![t] = var[dst[t]]]
              /\ Goto(t, "putLink")
              /\ UNCHANGED <<poolVars, lock, dst, snap>>

PutRefused(t) == /\ pc[t] = "putLook"
                 /\ ~Abs!InUse(pool, var[dst[t]])
                 /\ dst' = [dst EXCEPT ![t] = NULL]
                 /\ Goto(t, "idle")
                 /\ Unlock(t)
                 /\ UNCHANGED <<poolVars, rv>>

PutLink(t) == /\ pc[t] = "putLink"
              /\ next' = [next EXCEPT ![rv[t]] = head]
              /\ Goto(t, "putHead")
              /\ UNCHANGED <<status, blocks, head, var, orphans, stack, used, lock, dst, rv, snap>>

PutHead(t) == /\ pc[t] = "putHead"
              /\ head' = rv[t]
              /\ Goto(t, "putClear")
              /\ UNCHANGED <<status, blocks, next, var, orphans, stack, used, lock, dst, rv, snap>>

\* Mutant: a put that stops on its way out without releasing the mutex.
PutClearKeepsLock(t) == /\ pc[t] = "putClear"
                        /\ var' = [var EXCEPT ![dst[t]] = NULL]
                        /\ stack' = <<rv[t]>> \o stack
                        /\ used' = used \ {rv[t]}
                        /\ dst' = [dst EXCEPT ![t] = NULL]
                        /\ rv' = [rv EXCEPT ![t] = NULL]
                        /\ Goto(t, "idle")
                        /\ UNCHANGED <<status, blocks, head, next, orphans, lock, snap>>

PutClear(t) == /\ pc[t] = "putClear"
               /\ var' = [var EXCEPT ![dst[t]] = NULL]
               /\ stack' = <<rv[t]>> \o stack
               /\ used' = used \ {rv[t]}
               /\ dst' = [dst EXCEPT ![t] = NULL]
               /\ rv' = [rv EXCEPT ![t] = NULL]
               /\ Goto(t, "idle")
               /\ Unlock(t)
               /\ UNCHANGED <<status, blocks, head, next, orphans>>

-----------------------------------------------------------------------------
(* The program copies a pointer that no call in progress uses. *)
Copy(v, w) == /\ v # w
              /\ \A t \in Thread : dst[t] \notin {v, w}
              /\ var' = [var EXCEPT ![w] = var[v]]
              /\ UNCHANGED <<status, blocks, head, next, orphans, stack, used,
                             lock, pc, dst, rv, snap>>

(* The steps of a call after its start. *)
Proceed(t) == \/ GetLock(t) \/ GetLook(t) \/ GetGrow(t) \/ GetRelink(t) \/ GetFails(t)
              \/ GetTake(t) \/ GetPop(t) \/ GetMark(t) \/ GetReturn(t)
              \/ PutLock(t) \/ PutLook(t) \/ PutRefused(t) \/ PutLink(t) \/ PutHead(t)
              \/ PutClear(t)

Next == \/ \E n \in InitSizes : Create(n) \/ CreateFails(n)
        \/ Destroy
        \/ \E t \in Thread, v \in Var : CallGet(t, v) \/ CallPut(t, v)
        \/ \E v, w \in Var : Copy(v, w)
        \/ \E t \in Thread : Proceed(t)

Spec == Init /\ [][Next]_vars

-----------------------------------------------------------------------------
(* Properties *)

\* Calls of any threads, in any order, change the pool as if each were one step
\* between its start and its return; of two threads that give back the same
\* entry one is refused, even if they pass the same variable.
ImplementsPool == Abs!PoolSpec

(* The scheduler runs every thread, and a thread that waits for the mutex gets it
   if it is released again and again. *)
FairSpec == Spec /\ \A t \in Thread : WF_vars(Proceed(t)) /\ SF_vars(GetLock(t) \/ PutLock(t))

\* Every call returns: no path through a get or a put leaves the mutex locked.
CallsReturn == \A t \in Thread : (pc[t] # "idle") ~> (pc[t] = "idle")
=============================================================================
