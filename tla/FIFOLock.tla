------------------------------ MODULE FIFOLock -------------------------------
(***************************************************************************)
(* openhands/sdk/conversation/fifo_lock.py, the reentrant lock that guards *)
(* ConversationState and every resource of the parallel tool executor.     *)
(*                                                                         *)
(* One action per critical section of the lock's internal _mutex.  Each    *)
(* waiting thread sleeps on a condition variable of its own: notify() and  *)
(* the expiry of wait(remaining) make it runnable, and only when it has    *)
(* the _mutex again does it look at the state of the lock.                 *)
(***************************************************************************)
EXTENDS Naturals, Sequences

CONSTANTS Threads,   \* thread identifiers (threading.get_ident())
          NoThread,  \* self._owner is None
          MaxCount   \* bound: nesting depth of one thread's acquisitions

ASSUME FIFOLockAssumption == /\ NoThread \notin Threads
                             /\ MaxCount \in Nat \ {0}

VARIABLES owner,     \* self._owner
          count,     \* self._count
          waiters,   \* self._waiters, each Condition named by its thread
          pc,        \* where a thread is: outside acquire(), asleep in
                     \*   me.wait(), or awake and about to take the _mutex
          timed      \* the threads inside acquire() with a timeout >= 0

vars == <<owner, count, waiters, pc, timed>>

Waiting == {waiters[i] : i \in DOMAIN waiters}

\* The fast path's test.  Mutant: let a newcomer barge past the queue.
MutIgnoreQueue == owner = NoThread
Uncontended == owner = NoThread /\ waiters = << >>

\* Reentry and release are for the owner.  Mutant: no ownership check.
MutAnyThread(t) == t \in Threads
Owned(t) == owner = t

\* The loop's test: "I'm at the front of the queue and nobody owns it".
MyTurn(t) == /\ owner = NoThread
             /\ waiters # << >>
             /\ Head(waiters) = t

\* self._waiters.remove(me), where me is the i-th waiter.  Mutant: return
\* False and stay in the queue.
MutForgetRemove(q, i) == q
Remove(q, i) == [j \in 1..(Len(q) - 1) |-> IF j < i THEN q[j] ELSE q[j + 1]]

Init == /\ owner = NoThread
        /\ count = 0
        /\ waiters = << >>
        /\ pc = [t \in Threads |-> "outside"]
        /\ timed = {}

(* acquire() by the thread that owns the lock. *)
Reenter(t) == /\ pc[t] = "outside"
              /\ Owned(t)
              /\ count < MaxCount
              /\ count' = count + 1
              /\ UNCHANGED <<owner, waiters, pc, timed>>

(* acquire() of a lock nobody owns and nobody waits for. *)
AcquireFree(t) == /\ pc[t] = "outside"
                  /\ Uncontended
                  /\ owner' = t
                  /\ count' = 1
                  /\ UNCHANGED <<waiters, pc, timed>>

(* acquire() of a contended lock: join the queue and sleep.  With          *)
(* blocking=False, or with a timeout of 0, the call returns False and      *)
(* leaves the lock as it was.                                              *)
Enqueue(t) == /\ pc[t] = "outside"
              /\ ~Owned(t)
              /\ ~Uncontended
              /\ waiters' = Append(waiters, t)
              /\ pc' = [pc EXCEPT ![t] = "asleep"]
              /\ timed' \in {timed, timed \union {t}}
              /\ UNCHANGED <<owner, count>>

(* me.wait(remaining) returns because the time is up. *)
WaitExpires(t) == /\ pc[t] = "asleep"
                  /\ t \in timed
                  /\ pc' = [pc EXCEPT ![t] = "awake"]
                  /\ UNCHANGED <<owner, count, waiters, timed>>

(* A woken thread that finds the lock its own takes it, whether or not its *)
(* deadline has passed in the meantime.                                    *)
WakeAndTake(t) == /\ pc[t] = "awake"
                  /\ MyTurn(t)
                  /\ waiters' = Tail(waiters)
                  /\ owner' = t
                  /\ count' = 1
                  /\ pc' = [pc EXCEPT ![t] = "outside"]
                  /\ timed' = timed \ {t}

(* remaining <= 0: leave the queue and return False. *)
WakeAndGiveUp(t) == /\ pc[t] = "awake"
                    /\ ~MyTurn(t)
                    /\ t \in timed
                    /\ \E i \in DOMAIN waiters :
                         /\ waiters[i] = t
                         /\ waiters' = Remove(waiters, i)
                    /\ pc' = [pc EXCEPT ![t] = "outside"]
                    /\ timed' = timed \ {t}
                    /\ UNCHANGED <<owner, count>>

(* The wait came back early and remaining is still positive (or, for a     *)
(* thread without a timeout, whenever it is woken): sleep again.           *)
WakeAndSleep(t) == /\ pc[t] = "awake"
                   /\ ~MyTurn(t)
                   /\ pc' = [pc EXCEPT ![t] = "asleep"]
                   /\ UNCHANGED <<owner, count, waiters, timed>>

\* self._waiters[0].notify(): a thread that is not asleep is not affected.
\* Mutant: the owner leaves without notifying anybody.
MutNotifyNobody == pc
NotifyFront == IF waiters # << >> /\ pc[Head(waiters)] = "asleep"
               THEN [pc EXCEPT ![Head(waiters)] = "awake"]
               ELSE pc

(* release() by the owner; by any other thread it raises RuntimeError and  *)
(* changes nothing.                                                        *)
Release(t) == /\ pc[t] = "outside"
              /\ Owned(t)
              /\ count' = count - 1
              /\ owner' = IF count = 1 THEN NoThread ELSE owner
              /\ pc' = IF count = 1 THEN NotifyFront ELSE pc
              /\ UNCHANGED <<waiters, timed>>

Wake(t) == WakeAndTake(t) \/ WakeAndGiveUp(t) \/ WakeAndSleep(t)

Next == \E t \in Threads : \/ Reenter(t) \/ AcquireFree(t) \/ Enqueue(t)
                           \/ WaitExpires(t) \/ Wake(t) \/ Release(t)

(* A runnable thread eventually gets the _mutex and runs.  Every use of    *)
(* the lock is a with-block whose nesting ends, so an owner eventually     *)
(* releases it for the last time.  Nobody is obliged to acquire.           *)
Fairness == \A t \in Threads : /\ WF_vars(Wake(t))
                               /\ WF_vars(Release(t))
                               /\ SF_vars(count = 1 /\ Release(t))

Spec == Init /\ [][Next]_vars
FairSpec == Spec /\ Fairness
------------------------------------------------------------------------------
TypeOK == /\ owner \in Threads \union {NoThread}
          /\ count \in 0..MaxCount
          /\ waiters \in Seq(Threads)
          /\ pc \in [Threads -> {"outside", "asleep", "awake"}]
          /\ timed \in SUBSET Threads

(* The queue and the threads inside acquire() are the same threads, each   *)
(* queued once, and the owner is not one of them: neither a wake-up nor a  *)
(* time-out may leave a stale Condition behind or drop another thread's.   *)
QueueMatchesThreads ==
  /\ \A t \in Threads : (pc[t] # "outside") <=> (t \in Waiting)
  /\ \A i, j \in DOMAIN waiters : waiters[i] = waiters[j] => i = j
  /\ owner \notin Waiting
  /\ (owner = NoThread) <=> (count = 0)
  /\ timed \subseteq Waiting

(* No lost wake-up.  release() notifies one thread only, the one in front, *)
(* and that thread may be timing out at that moment: whenever the lock is  *)
(* free and threads are queued, the front one is awake and will look.      *)
NoLostWakeup ==
  (owner = NoThread /\ waiters # << >>) => pc[Head(waiters)] = "awake"

(* The lock is a first-come first-served mutex, grants included. *)
Mutex == INSTANCE FIFOMutex WITH holder <- owner, queue <- waiters
RefinesFIFOMutex == Mutex!Spec

(* acquire() always returns: with the lock, or because the time is up. *)
AcquireReturns == \A t \in Threads : (pc[t] # "outside") ~> (pc[t] = "outside")
==============================================================================
