------------------------------ MODULE FIFOMutex ------------------------------
(***************************************************************************)
(* What conversation/fifo_lock.py promises: a mutual-exclusion lock that   *)
(* is granted strictly in the order in which the threads asked for it.     *)
(* There are no condition variables and no wake-ups here: a free lock is   *)
(* simply granted to the head of the queue, and a thread may only give up  *)
(* waiting while the lock is not its own for the taking.                   *)
(***************************************************************************)
EXTENDS Naturals, Sequences

CONSTANTS Threads,  \* the threads that use the lock
          NoThread  \* not a thread: the lock has no holder

VARIABLES holder,   \* the thread that holds the lock, or NoThread
          queue     \* the threads that wait for it, first come first

vars == <<holder, queue>>

Queued == {queue[i] : i \in DOMAIN queue}

\* The queue q without its i-th member.
Drop(q, i) == [j \in 1..(Len(q) - 1) |-> IF j < i THEN q[j] ELSE q[j + 1]]

Init == /\ holder = NoThread
        /\ queue = << >>

(* An unused lock is taken on the spot. *)
Take(t) == /\ holder = NoThread
           /\ queue = << >>
           /\ holder' = t
           /\ UNCHANGED queue

Join(t) == /\ holder # t
           /\ holder # NoThread \/ queue # << >>
           /\ t \notin Queued
           /\ queue' = Append(queue, t)
           /\ UNCHANGED holder

(* Only the head of the queue gets a lock that others are waiting for. *)
Grant == /\ holder = NoThread
         /\ queue # << >>
         /\ holder' = Head(queue)
         /\ queue' = Tail(queue)

(* A thread that gives up leaves the others in their order. *)
Leave(t) == \E i \in DOMAIN queue :
              /\ queue[i] = t
              /\ i # 1 \/ holder # NoThread
              /\ queue' = Drop(queue, i)
              /\ UNCHANGED holder

Free(t) == /\ holder = t
           /\ holder' = NoThread
           /\ UNCHANGED queue

Next == \/ Grant
        \/ \E t \in Threads : Take(t) \/ Join(t) \/ Leave(t) \/ Free(t)

(* A free lock does not stay free while somebody waits for it. *)
Spec == Init /\ [][Next]_vars /\ WF_vars(Grant)
==============================================================================
