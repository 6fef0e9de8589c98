--------------------------- MODULE FIFOLockProofs ----------------------------
(***************************************************************************)
(* FIFOLock for any set of threads and any nesting depth: its invariants,  *)
(* and every step is a step of FIFOMutex or changes nothing that FIFOMutex *)
(* shows.                                                                  *)
(***************************************************************************)
EXTENDS FIFOLock, TLAPS

IInv == TypeOK /\ QueueMatchesThreads /\ NoLostWakeup

(* Removing one member of a queue leaves the other members, in their       *)
(* order: the members of the shorter queue are those at the other places   *)
(* of the longer one (waiters.remove(me) of a thread that gives up).       *)
LEMMA RemoveMembers ==
  ASSUME NEW q \in Seq(Threads), NEW i \in DOMAIN q
  PROVE  /\ Remove(q, i) \in Seq(Threads)
         /\ Len(Remove(q, i)) = Len(q) - 1
         /\ \A j \in DOMAIN Remove(q, i) :
              Remove(q, i)[j] = q[IF j < i THEN j ELSE j + 1]
  BY DEF Remove

(* A step that takes the i-th waiter out of the queue takes exactly that   *)
(* thread out, and the others are still queued once each.                  *)
LEMMA OneWaiterLess ==
  ASSUME waiters \in Seq(Threads), waiters' \in Seq(Threads),
         \A j, k \in DOMAIN waiters : waiters[j] = waiters[k] => j = k,
         NEW i \in DOMAIN waiters,
         Len(waiters') = Len(waiters) - 1,
         \A j \in DOMAIN waiters' :
           waiters'[j] = waiters[IF j < i THEN j ELSE j + 1]
  PROVE  /\ Waiting' = Waiting \ {waiters[i]}
         /\ \A j, k \in DOMAIN waiters' : waiters'[j] = waiters'[k] => j = k
<1> DEFINE skip(j) == IF j < i THEN j ELSE j + 1
<1>1. \A j \in DOMAIN waiters' : /\ skip(j) \in DOMAIN waiters
                                 /\ skip(j) # i
                                 /\ waiters'[j] = waiters[skip(j)]
  OBVIOUS
<1>2. ASSUME NEW k \in DOMAIN waiters, k # i
      PROVE  \E j \in DOMAIN waiters' : waiters'[j] = waiters[k]
  <2>1. CASE k < i
    BY <2>1, <1>2, k \in DOMAIN waiters'
  <2>2. CASE k > i
    BY <2>2, <1>2, k - 1 \in DOMAIN waiters'
  <2> QED
    BY <2>1, <2>2, <1>2
<1>3. \A j, k \in DOMAIN waiters' : waiters'[j] = waiters'[k] => j = k
  BY <1>1
<1> HIDE DEF skip
<1>4. \A x \in Waiting' : x \in Waiting \ {waiters[i]}
  BY <1>1 DEF Waiting
<1>5. \A x \in Waiting \ {waiters[i]} : x \in Waiting'
  BY <1>2 DEF Waiting
<1> QED
  BY <1>3, <1>4, <1>5

(* The invariant holds at the start.                                       *)
LEMMA InitIInv == Init => IInv
  BY FIFOLockAssumption
     DEF Init, IInv, TypeOK, QueueMatchesThreads, NoLostWakeup, Waiting

(* The queue after the front waiter took the lock. *)
LEMMA TailMembers ==
  ASSUME NEW q \in Seq(Threads), q # << >>
  PROVE  /\ Tail(q) \in Seq(Threads)
         /\ Len(Tail(q)) = Len(q) - 1
         /\ \A j \in DOMAIN Tail(q) : Tail(q)[j] = q[j + 1]
         /\ Head(q) = q[1] /\ Len(q) >= 1
  OBVIOUS

(* Every step of a thread keeps it.                                        *)
LEMMA NextIInv == IInv /\ [Next]_vars => IInv'
<1> SUFFICES ASSUME TypeOK, QueueMatchesThreads, NoLostWakeup, [Next]_vars
             PROVE  TypeOK' /\ QueueMatchesThreads' /\ NoLostWakeup'
  BY DEF IInv
<1>1. CASE UNCHANGED vars
  BY <1>1 DEF vars, TypeOK, QueueMatchesThreads, NoLostWakeup, Waiting
<1>2. ASSUME NEW t \in Threads, Reenter(t)
      PROVE  TypeOK' /\ QueueMatchesThreads' /\ NoLostWakeup'
  BY <1>2, FIFOLockAssumption
     DEF Reenter, Owned, TypeOK, QueueMatchesThreads, NoLostWakeup, Waiting
<1>3. ASSUME NEW t \in Threads, AcquireFree(t)
      PROVE  TypeOK' /\ QueueMatchesThreads' /\ NoLostWakeup'
  BY <1>3, FIFOLockAssumption
     DEF AcquireFree, Uncontended, TypeOK, QueueMatchesThreads, NoLostWakeup, Waiting
<1>4. ASSUME NEW t \in Threads, Enqueue(t)
      PROVE  TypeOK' /\ QueueMatchesThreads' /\ NoLostWakeup'
  BY <1>4, FIFOLockAssumption
     DEF Enqueue, Uncontended, Owned, TypeOK, QueueMatchesThreads, NoLostWakeup,
         Waiting
<1>5. ASSUME NEW t \in Threads, WaitExpires(t)
      PROVE  TypeOK' /\ QueueMatchesThreads' /\ NoLostWakeup'
  BY <1>5 DEF WaitExpires, TypeOK, QueueMatchesThreads, NoLostWakeup, Waiting
<1>6. ASSUME NEW t \in Threads, WakeAndTake(t)
      PROVE  TypeOK' /\ QueueMatchesThreads' /\ NoLostWakeup'
  <2>1. /\ waiters' \in Seq(Threads)
        /\ Len(waiters') = Len(waiters) - 1
        /\ \A j \in DOMAIN waiters' : waiters'[j] = waiters[j + 1]
        /\ waiters[1] = t /\ 1 \in DOMAIN waiters
    BY <1>6, TailMembers DEF WakeAndTake, MyTurn, TypeOK
  <2>2. /\ Waiting' = Waiting \ {t}
        /\ \A j, k \in DOMAIN waiters' : waiters'[j] = waiters'[k] => j = k
    <3>1. \A j \in DOMAIN waiters' :
            waiters'[j] = waiters[IF j < 1 THEN j ELSE j + 1]
      BY <2>1
    <3> QED
      BY <2>1, <3>1, OneWaiterLess DEF TypeOK, QueueMatchesThreads
  <2>3. TypeOK'
    BY <1>6, <2>1, FIFOLockAssumption DEF WakeAndTake, TypeOK
  <2>4. QueueMatchesThreads'
    BY <1>6, <2>2, <2>3, FIFOLockAssumption
       DEF WakeAndTake, TypeOK, QueueMatchesThreads
  <2>5. NoLostWakeup'
    BY <1>6, FIFOLockAssumption DEF WakeAndTake, NoLostWakeup
  <2> QED
    BY <2>3, <2>4, <2>5
<1>7. ASSUME NEW t \in Threads, WakeAndGiveUp(t)
      PROVE  TypeOK' /\ QueueMatchesThreads' /\ NoLostWakeup'
  <2>1. PICK i \in DOMAIN waiters : /\ waiters[i] = t
                                    /\ waiters' = Remove(waiters, i)
    BY <1>7 DEF WakeAndGiveUp
  <2>2. /\ waiters' \in Seq(Threads)
        /\ Len(waiters') = Len(waiters) - 1
        /\ \A j \in DOMAIN waiters' :
             waiters'[j] = waiters[IF j < i THEN j ELSE j + 1]
    BY <2>1, RemoveMembers DEF TypeOK
  <2>3. /\ Waiting' = Waiting \ {t}
        /\ \A j, k \in DOMAIN waiters' : waiters'[j] = waiters'[k] => j = k
    BY <2>1, <2>2, OneWaiterLess DEF TypeOK, QueueMatchesThreads
  <2>4. TypeOK'
    BY <1>7, <2>2 DEF WakeAndGiveUp, TypeOK
  <2>5. QueueMatchesThreads'
    BY <1>7, <2>3, <2>4 DEF WakeAndGiveUp, TypeOK, QueueMatchesThreads
  \* A free lock: its front waiter is awake and cannot be the one that left.
  <2>6. NoLostWakeup'
    BY <1>7, <2>1, <2>2 DEF WakeAndGiveUp, MyTurn, TypeOK, NoLostWakeup
  <2> QED
    BY <2>4, <2>5, <2>6
<1>8. ASSUME NEW t \in Threads, WakeAndSleep(t)
      PROVE  TypeOK' /\ QueueMatchesThreads' /\ NoLostWakeup'
  BY <1>8 DEF WakeAndSleep, MyTurn, TypeOK, QueueMatchesThreads, NoLostWakeup,
              Waiting
<1>9. ASSUME NEW t \in Threads, Release(t)
      PROVE  TypeOK' /\ QueueMatchesThreads' /\ NoLostWakeup'
  BY <1>9, FIFOLockAssumption
     DEF Release, NotifyFront, Owned, TypeOK, QueueMatchesThreads, NoLostWakeup,
         Waiting
<1> QED
  BY <1>1, <1>2, <1>3, <1>4, <1>5, <1>6, <1>7, <1>8, <1>9 DEF Next, Wake

(* So it holds throughout.                                                 *)
LEMMA Invariant == Spec => []IInv
  BY InitIInv, NextIInv, PTL DEF Spec

(* Every state of the lock is well-typed. *)
THEOREM TypeCorrect == Spec => []TypeOK
<1>1. IInv => TypeOK
  BY DEF IInv
<1> QED
  BY Invariant, <1>1, PTL

(* Nobody is queued twice, forgotten in the queue or queued while owning   *)
(* the lock, whatever waits time out (FIFOLock.acquire, FIFOLock.release). *)
THEOREM QueueCorrect == Spec => []QueueMatchesThreads
<1>1. IInv => QueueMatchesThreads
  BY DEF IInv
<1> QED
  BY Invariant, <1>1, PTL

(* release() notifies one waiter only, and that is enough.                 *)
THEOREM WakeupsCorrect == Spec => []NoLostWakeup
<1>1. IInv => NoLostWakeup
  BY DEF IInv
<1> QED
  BY Invariant, <1>1, PTL

(* FIFOLock grants the lock as FIFOMutex does: the initial states are      *)
(* FIFOMutex's, and a step is one of its steps or a stutter.               *)
THEOREM Refinement == Spec => Mutex!Init /\ [][Mutex!Next]_(Mutex!vars)
<1>1. Init => Mutex!Init
  BY DEF Init, Mutex!Init
<1>2. IInv /\ [Next]_vars => [Mutex!Next]_(Mutex!vars)
  <2> SUFFICES ASSUME IInv, [Next]_vars PROVE [Mutex!Next]_(Mutex!vars)
    OBVIOUS
  <2> USE DEF IInv, Mutex!Next, Mutex!vars
  <2>1. CASE UNCHANGED vars
    BY <2>1 DEF vars
  <2>2. ASSUME NEW t \in Threads, Reenter(t) \/ WaitExpires(t) \/ WakeAndSleep(t)
        PROVE  UNCHANGED Mutex!vars
    BY <2>2 DEF Reenter, WaitExpires, WakeAndSleep
  <2>3. ASSUME NEW t \in Threads, AcquireFree(t) PROVE Mutex!Take(t)
    BY <2>3 DEF AcquireFree, Uncontended, Mutex!Take
  <2>4. ASSUME NEW t \in Threads, Enqueue(t) PROVE Mutex!Join(t)
    BY <2>4 DEF Enqueue, Uncontended, Owned, Mutex!Join, Mutex!Queued,
                QueueMatchesThreads, Waiting
  <2>5. ASSUME NEW t \in Threads, WakeAndTake(t) PROVE Mutex!Grant
    BY <2>5 DEF WakeAndTake, MyTurn, Mutex!Grant
  <2>6. ASSUME NEW t \in Threads, WakeAndGiveUp(t) PROVE Mutex!Leave(t)
    BY <2>6 DEF WakeAndGiveUp, MyTurn, Remove, Mutex!Leave, Mutex!Drop, TypeOK
  <2>7. ASSUME NEW t \in Threads, Release(t)
        PROVE  Mutex!Free(t) \/ UNCHANGED Mutex!vars
    BY <2>7 DEF Release, Owned, Mutex!Free
  <2> QED
    BY <2>1, <2>2, <2>3, <2>4, <2>5, <2>6, <2>7 DEF Next, Wake
<1> QED
  BY <1>1, <1>2, Invariant, PTL DEF Spec
==============================================================================
