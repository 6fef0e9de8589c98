------------------------- MODULE ResourceLockManager -------------------------
(***************************************************************************)
(* openhands/sdk/conversation/resource_lock_manager.py: per-resource FIFO  *)
(* locks that are created on first use and deleted with their last user.   *)
(*                                                                         *)
(* One action per critical section of _meta_lock and per operation on a    *)
(* FIFOLock, which is used here as module FIFOMutex specifies it.  A lock  *)
(* object has an identity of its own: between two uses the object of a key *)
(* may be deleted and another one created, and a thread that still has the *)
(* old one in its hands would be locked against nobody.                    *)
(***************************************************************************)
EXTENDS Naturals, Sequences, FiniteSets

CONSTANTS Threads,   \* threads that execute tool calls
          Keys,      \* resource keys; their order is sorted()'s
          LockIds,   \* identities of FIFOLock objects
          NoThread,  \* the owner of a free lock
          NoLock     \* no FIFOLock object

ASSUME LockManagerAssumption ==
  /\ IsFiniteSet(Threads)
  /\ Keys \subseteq Nat
  /\ NoThread \notin Threads
  /\ NoLock \notin LockIds

VARIABLES locks,     \* self._locks: key -> FIFOLock, NoLock when absent
          refcounts, \* self._refcounts: key -> number, 0 when absent
          owner,     \* of each lock object: the thread that owns it
          queue,     \* of each lock object: the threads that wait for it
          pc,        \* where a thread is in lock()
          todo,      \* of each thread: the sorted_keys it has yet to lock
          cur,       \* of each thread: the lock object _get_lock() gave it
          acquired   \* of each thread: the list acquired[]

vars == <<locks, refcounts, owner, queue, pc, todo, cur, acquired>>

\* The next key of sorted(set(resource_keys)).  Mutant: no sorting, one
\* thread was given its keys in the opposite order.
MutUnsorted(t, k) ==
  /\ k \in todo[t]
  /\ \A j \in todo[t] : IF t = CHOOSE u \in Threads : TRUE THEN j <= k ELSE k <= j
NextKey(t, k) == k \in todo[t] /\ \A j \in todo[t] : k <= j

\* The next key of reversed(acquired).
LastKey(t, k) == k \in acquired[t] /\ \A j \in acquired[t] : j <= k

Init == /\ locks = [k \in Keys |-> NoLock]
        /\ refcounts = [k \in Keys |-> 0]
        /\ owner = [l \in LockIds |-> NoThread]
        /\ queue = [l \in LockIds |-> << >>]
        /\ pc = [t \in Threads |-> "outside"]
        /\ todo = [t \in Threads |-> {}]
        /\ cur = [t \in Threads |-> NoLock]
        /\ acquired = [t \in Threads |-> {}]

(* with mgr.lock(keys): *)
Enter(t, keys) == /\ pc[t] = "outside"
                  /\ pc' = [pc EXCEPT ![t] = "next"]
                  /\ todo' = [todo EXCEPT ![t] = keys]
                  /\ UNCHANGED <<locks, refcounts, owner, queue, cur, acquired>>

\* _get_lock counts its caller.
AddRef(k) == refcounts' = [refcounts EXCEPT ![k] = @ + 1]

(* _get_lock(key): look the lock up or create it, and count one more user. *)
GetLock(t) ==
  \E k \in Keys :
    /\ pc[t] = "next"
    /\ NextKey(t, k)
    /\ \/ /\ locks[k] # NoLock
          /\ cur' = [cur EXCEPT ![t] = locks[k]]
          /\ UNCHANGED <<locks, owner, queue>>
       \/ /\ locks[k] = NoLock
          /\ \E l \in LockIds :
               /\ \A j \in Keys : locks[j] # l
               /\ \A u \in Threads : cur[u] # l
               /\ locks' = [locks EXCEPT ![k] = l]
               /\ owner' = [owner EXCEPT ![l] = NoThread]
               /\ queue' = [queue EXCEPT ![l] = << >>]
               /\ cur' = [cur EXCEPT ![t] = l]
    /\ AddRef(k)
    /\ pc' = [pc EXCEPT ![t] = "acquire"]
    /\ UNCHANGED <<todo, acquired>>

\* The bookkeeping after acquire() returned True: acquired.append(key).
Appended(t, k) ==
  /\ acquired' = [acquired EXCEPT ![t] = @ \union {k}]
  /\ todo' = [todo EXCEPT ![t] = @ \ {k}]
  /\ cur' = [cur EXCEPT ![t] = NoLock]
  /\ pc' = [pc EXCEPT ![t] = "next"]
  /\ UNCHANGED <<locks, refcounts>>

(* acquire(timeout) of a lock that is free. *)
Acquire(t) ==
  /\ pc[t] = "acquire"
  /\ owner[cur[t]] = NoThread
  /\ queue[cur[t]] = << >>
  /\ owner' = [owner EXCEPT ![cur[t]] = t]
  /\ \E k \in Keys : NextKey(t, k) /\ Appended(t, k)
  /\ UNCHANGED queue

(* acquire(timeout) of a lock that is not: wait in line. *)
Wait(t) ==
  /\ pc[t] = "acquire"
  /\ owner[cur[t]] # NoThread \/ queue[cur[t]] # << >>
  /\ queue' = [queue EXCEPT ![cur[t]] = Append(@, t)]
  /\ pc' = [pc EXCEPT ![t] = "waiting"]
  /\ UNCHANGED <<locks, refcounts, owner, todo, cur, acquired>>

\* `self._waiters[0] is me and self._owner is None`.  Mutant: the first half.
MutFrontOnly(t) == queue[cur[t]] # << >> /\ Head(queue[cur[t]]) = t
MyTurn(t) == /\ owner[cur[t]] = NoThread
             /\ queue[cur[t]] # << >>
             /\ Head(queue[cur[t]]) = t

Granted(t) ==
  /\ pc[t] = "waiting"
  /\ MyTurn(t)
  /\ owner' = [owner EXCEPT ![cur[t]] = t]
  /\ queue' = [queue EXCEPT ![cur[t]] = Tail(@)]
  /\ \E k \in Keys : NextKey(t, k) /\ Appended(t, k)

\* The queue q without its i-th member.
Remove(q, i) == [j \in 1..(Len(q) - 1) |-> IF j < i THEN q[j] ELSE q[j + 1]]

(* acquire(timeout) returns False. *)
TimesOut(t) ==
  /\ pc[t] = "waiting"
  /\ ~MyTurn(t)
  /\ \E i \in DOMAIN queue[cur[t]] :
       /\ queue[cur[t]][i] = t
       /\ queue' = [queue EXCEPT ![cur[t]] = Remove(@, i)]
  /\ pc' = [pc EXCEPT ![t] = "undo"]
  /\ UNCHANGED <<locks, refcounts, owner, todo, cur, acquired>>

\* Under _meta_lock, one user of key k fewer: drop the lock object if that
\* was the last one and the lock is not locked.  Mutants: drop it as soon as
\* it is not locked; forget to count down.
MutDropUnlocked(k, unlocked) ==
  /\ refcounts' = [refcounts EXCEPT ![k] = @ - 1]
  /\ locks' = [locks EXCEPT ![k] = IF unlocked THEN NoLock ELSE @]
MutKeepCount(k, unlocked) == UNCHANGED <<refcounts, locks>>
Unref(k, unlocked) ==
  /\ refcounts' = [refcounts EXCEPT ![k] = @ - 1]
  /\ locks' = [locks EXCEPT ![k] = IF refcounts[k] = 1 /\ unlocked
                                   THEN NoLock ELSE @]

(* The failed acquisition: undo the count of _get_lock, then raise         *)
(* ResourceLockTimeout.                                                    *)
UndoTimeout(t) ==
  /\ pc[t] = "undo"
  /\ \E k \in Keys : NextKey(t, k) /\ Unref(k, owner[locks[k]] = NoThread)
  /\ cur' = [cur EXCEPT ![t] = NoLock]
  /\ todo' = [todo EXCEPT ![t] = {}]
  /\ pc' = [pc EXCEPT ![t] = "finally"]
  /\ UNCHANGED <<owner, queue, acquired>>

(* yield: every key is locked and the tool runs. *)
EnterBody(t) ==
  /\ pc[t] = "next"
  /\ todo[t] = {}
  /\ pc' = [pc EXCEPT ![t] = "body"]
  /\ UNCHANGED <<locks, refcounts, owner, queue, todo, cur, acquired>>

(* The tool returned or raised. *)
LeaveBody(t) ==
  /\ pc[t] = "body"
  /\ pc' = [pc EXCEPT ![t] = "finally"]
  /\ UNCHANGED <<locks, refcounts, owner, queue, todo, cur, acquired>>

(* finally: _release_lock(key), the keys in reverse order.                 *)
ReleaseLock(t) ==
  /\ pc[t] = "finally"
  /\ \E k \in Keys :
       /\ LastKey(t, k)
       /\ IF locks[k] = NoLock
          THEN UNCHANGED <<owner, locks, refcounts>>
          ELSE /\ owner[locks[k]] = t
               /\ owner' = [owner EXCEPT ![locks[k]] = NoThread]
               /\ Unref(k, TRUE)
       /\ acquired' = [acquired EXCEPT ![t] = @ \ {k}]
  /\ UNCHANGED <<queue, pc, todo, cur>>

(* The with-statement is over. *)
Exit(t) ==
  /\ pc[t] = "finally"
  /\ acquired[t] = {}
  /\ pc' = [pc EXCEPT ![t] = "outside"]
  /\ UNCHANGED <<locks, refcounts, owner, queue, todo, cur, acquired>>

(* What a thread inside lock() does of its own accord. *)
Step(t) == \/ GetLock(t) \/ Acquire(t) \/ Wait(t) \/ Granted(t) \/ UndoTimeout(t)
           \/ EnterBody(t) \/ LeaveBody(t) \/ ReleaseLock(t) \/ Exit(t)

Next == \E t \in Threads : \/ \E keys \in SUBSET Keys : Enter(t, keys)
                           \/ TimesOut(t)
                           \/ Step(t)

Spec == Init /\ [][Next]_vars
------------------------------------------------------------------------------
Inside == {"acquire", "waiting", "undo"}

(* The threads that hold key k or are on their way to it. *)
Users(k) == {t \in Threads : k \in acquired[t] \/ (pc[t] \in Inside /\ NextKey(t, k))}

TypeOK ==
  /\ locks \in [Keys -> LockIds \union {NoLock}]
  /\ refcounts \in [Keys -> Nat]
  /\ owner \in [LockIds -> Threads \union {NoThread}]
  /\ queue \in [LockIds -> Seq(Threads)]
  /\ pc \in [Threads -> {"outside", "next", "body", "finally"} \union Inside]
  /\ todo \in [Threads -> SUBSET Keys]
  /\ cur \in [Threads -> LockIds \union {NoLock}]
  /\ acquired \in [Threads -> SUBSET Keys]

(* "exclusive access": no two threads have locked the same key, whichever  *)
(* lock objects they did it with.                                          *)
MutualExclusion ==
  \A t, u \in Threads : t # u => acquired[t] \intersect acquired[u] = {}

(* "so the lock is not cleaned up while callers still hold or wait on it": *)
(* the object a thread holds or waits for is the one other threads will    *)
(* find under that key.                                                    *)
SameLockForAll ==
  \A t \in Threads, k \in Keys :
    /\ pc[t] \in Inside /\ NextKey(t, k) => cur[t] = locks[k] /\ locks[k] # NoLock
    /\ k \in acquired[t] => locks[k] # NoLock /\ owner[locks[k]] = t

(* The count of users is exact across time-outs and releases: neither does *)
(* a lock stay behind for ever nor is one deleted under a user.            *)
RefcountIsUsers ==
  \A k \in Keys : /\ refcounts[k] = Cardinality(Users(k))
                  /\ locks[k] # NoLock <=> Users(k) # {}

(* "Sorted acquisition prevents deadlocks": while some thread is inside    *)
(* lock(), some thread can take its next step without a time-out.          *)
NoDeadlock ==
  (\E t \in Threads : pc[t] # "outside")
    => \E t \in Threads : \/ pc[t] \notin {"outside", "waiting"}
                          \/ pc[t] = "waiting" /\ MyTurn(t)
==============================================================================
