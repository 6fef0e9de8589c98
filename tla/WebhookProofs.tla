---------------------------- MODULE WebhookProofs ----------------------------
(***************************************************************************)
(* Proofs about WebhookSubscriber, for any buffer and queue sizes, number  *)
(* of retries and number of events: the timer that is set is alive, the    *)
(* queue is bounded, and every event is in one place.                      *)
(***************************************************************************)
EXTENDS WebhookSubscriber, FiniteSetTheorems, TLAPS

Made == {<<"timer", e>> : e \in 1..made}   \* timers that may exist

(* A timer that is set exists and was not cancelled; a task that waits for *)
(* its next attempt has one left.                                          *)
TimerInv == /\ cancelled \subseteq Made
            /\ timer \in Made \cup {None}
            /\ timer \notin cancelled
            /\ \A t \in Tasks : pc[t] = "retrying" => attempt[t] < NumRetries

IInv == TypeOK /\ TimerInv /\ TimerIsLive /\ QueueBounded
-----------------------------------------------------------------------------
(* What is put back fits, and is made of what was there.                   *)
LEMMA TrimBound ==
  ASSUME NEW q \in Seq(Events)
  PROVE  Trim(q) \in Seq(Events) /\ Len(Trim(q)) <= MaxQueue
<1>1. MaxQueue \in Nat \ {0} /\ Len(q) \in Nat
  BY WebhookAssumption
<1>2. CASE Len(q) > MaxQueue
  <2>1. Len(q) - MaxQueue + 1 \in 1..(Len(q) + 1)
    BY <1>1, <1>2
  <2>2. SubSeq(q, Len(q) - MaxQueue + 1, Len(q)) \in Seq(Events)
    BY <1>1, <2>1
  <2>3. Len(SubSeq(q, Len(q) - MaxQueue + 1, Len(q))) = MaxQueue
    BY <1>1, <2>1, <1>2
  <2> QED BY <1>1, <1>2, <2>2, <2>3 DEF Trim
<1>3. CASE ~(Len(q) > MaxQueue)
  BY <1>1, <1>3 DEF Trim
<1> QED BY <1>2, <1>3

(* The timers of an earlier moment are among those of a later one, and no  *)
(* timer is made twice.                                                    *)
LEMMA MadeGrows ==
  ASSUME made \in Nat, made' = made + 1
  PROVE  /\ Made \subseteq Made'
         /\ <<"timer", made + 1>> \in Made'
         /\ <<"timer", made + 1>> \notin Made
<1>1. 1..made \subseteq 1..(made + 1) /\ made + 1 \in 1..(made + 1) /\ made + 1 \notin 1..made
  OBVIOUS
<1> QED BY <1>1 DEF Made

(* What the queue is after it was copied.                                  *)
LEMMA EmptyQueue == << >> \in Seq(Events) /\ Len(<< >>) = 0
  OBVIOUS

(* It holds before the first event.                                        *)
LEMMA InitIInv == Init => IInv
<1> SUFFICES ASSUME Init PROVE IInv
  OBVIOUS
<1>1. 0 \in 0..MaxEvents /\ 0 \in 0..NumRetries /\ BufferSize \in Nat \ {0} /\ MaxQueue \in Nat
  BY WebhookAssumption
<1>2. TypeOK
  BY <1>1, EmptyQueue DEF Init, TypeOK
<1>3. TimerInv /\ TimerIsLive
  BY DEF Init, TimerInv, TimerIsLive
<1>4. QueueBounded
  BY <1>1 DEF Init, QueueBounded
<1> QED BY <1>2, <1>3, <1>4 DEF IInv

(* Every step keeps the types.                                             *)
LEMMA TypeStep == IInv /\ [Next]_vars => TypeOK'
<1> SUFFICES ASSUME IInv, [Next]_vars PROVE TypeOK'
  OBVIOUS
<1>0. TypeOK
  BY DEF IInv
<1>1. ASSUME DeliverAndPost PROVE TypeOK'
  <2>1. made' \in 0..MaxEvents /\ made + 1 \in Events
    BY <1>0, <1>1, WebhookAssumption DEF DeliverAndPost, TypeOK, Events
  <2>2. <<"call", made + 1>> \in Tasks
    BY <2>1 DEF Tasks, Calls
  <2>3. Append(queue, made + 1) \in Seq(Events)
    BY <1>0, <2>1 DEF TypeOK
  <2>4. cancelled' \subseteq Timers
    BY <1>0, <1>1 DEF DeliverAndPost, CancelTimer, TypeOK
  <2> QED BY <1>0, <1>1, <2>1, <2>2, <2>3, <2>4 DEF DeliverAndPost, BeginPost, Taken, Busy, TypeOK
<1>2. ASSUME DeliverAndWait PROVE TypeOK'
  <2>1. made' \in 0..MaxEvents /\ made + 1 \in Events
    BY <1>0, <1>2, WebhookAssumption DEF DeliverAndWait, TypeOK, Events
  <2>2. <<"timer", made + 1>> \in Timers /\ <<"timer", made + 1>> \in Tasks
    BY <2>1 DEF Tasks, Timers
  <2>3. Append(queue, made + 1) \in Seq(Events)
    BY <1>0, <2>1 DEF TypeOK
  <2> QED BY <1>0, <1>2, <2>1, <2>2, <2>3 DEF DeliverAndWait, TypeOK
<1>3. ASSUME NEW t \in Tasks, TimerStarts(t) PROVE TypeOK'
  BY <1>0, <1>3 DEF TimerStarts, TypeOK
<1>4. ASSUME NEW t \in Tasks, TimerFires(t) PROVE TypeOK'
  BY <1>0, <1>4, EmptyQueue DEF TimerFires, BeginPost, Taken, TimerAfter, Busy, TypeOK
<1>5. ASSUME NEW t \in Tasks, Confirmed(t) PROVE TypeOK'
  BY <1>0, <1>5 DEF Confirmed, Become, TimerAfter, TypeOK
<1>6. ASSUME NEW t \in Tasks, Retry(t) PROVE TypeOK'
  BY <1>0, <1>6 DEF Retry, Busy, TypeOK
<1>7. ASSUME NEW t \in Tasks, PostAgain(t) PROVE TypeOK'
  <2>1. attempt[t] + 1 \in 0..NumRetries
    BY <1>0, <1>7, WebhookAssumption DEF PostAgain, IInv, TimerInv, TypeOK
  <2> QED BY <1>0, <1>7, <2>1 DEF PostAgain, Busy, TypeOK
<1>8. ASSUME NEW t \in Tasks, PutBack(t) PROVE TypeOK'
  <2>1. queue \o batch[t] \in Seq(Events)
    BY <1>0 DEF TypeOK
  <2>2. queue' \in Seq(Events)
    BY <1>8, <2>1, TrimBound DEF PutBack
  <2> QED BY <1>0, <1>8, <2>2 DEF PutBack, Become, TimerAfter, TypeOK
<1>9. ASSUME NEW t \in Tasks, CancelLands(t) PROVE TypeOK'
  BY <1>0, <1>9 DEF CancelLands, Become, TimerAfter, TypeOK
<1>10. ASSUME BeginClose PROVE TypeOK'
  <2>1. Closer \in Tasks
    BY DEF Tasks
  <2>2. cancelled' \subseteq Timers
    BY <1>0, <1>10 DEF BeginClose, CancelTimer, TypeOK
  <2> QED BY <1>0, <1>10, <2>1, <2>2, EmptyQueue DEF BeginClose, BeginPost, Taken, Busy, TypeOK
<1>11. ASSUME EndClose PROVE TypeOK'
  BY <1>0, <1>11 DEF EndClose, TypeOK
<1>12. ASSUME UNCHANGED vars PROVE TypeOK'
  BY <1>0, <1>12 DEF vars, TypeOK
<1> QED BY <1>1, <1>2, <1>3, <1>4, <1>5, <1>6, <1>7, <1>8, <1>9, <1>10, <1>11, <1>12
        DEF Next, Deliver, Task

(* No task waits for an attempt that it does not have, and timers are made *)
(* and cancelled once.                                                     *)
LEMMA TimerStep == IInv /\ [Next]_vars => TimerInv'
<1> SUFFICES ASSUME IInv, [Next]_vars PROVE TimerInv'
  OBVIOUS
<1>0. TypeOK /\ TimerInv /\ made \in Nat
  BY WebhookAssumption DEF IInv, TypeOK
<1>a. None \notin Made
  <2>1. 1..made \subseteq Events
    BY <1>0, WebhookAssumption DEF TypeOK, Events
  <2> QED BY <2>1, NoneAssumption DEF Made, Tasks, Timers
<1>b. ASSUME CancelTimer, timer' = None, made' = made \/ made' = made + 1
      PROVE  cancelled' \subseteq Made' /\ timer' \in Made' \cup {None} /\ timer' \notin cancelled'
  <2>1. Made \subseteq Made'
    BY <1>0, <1>b, MadeGrows DEF Made
  <2>2. cancelled' \subseteq Made
    BY <1>0, <1>b DEF CancelTimer, TimerInv
  <2> QED BY <2>1, <2>2, <1>a, <1>b
<1>c. ASSUME UNCHANGED <<made, cancelled>>, timer' \in {timer, None}
      PROVE  cancelled' \subseteq Made' /\ timer' \in Made' \cup {None} /\ timer' \notin cancelled'
  BY <1>0, <1>a, <1>c DEF TimerInv, Made
<1>1. ASSUME DeliverAndPost PROVE TimerInv'
  BY <1>0, <1>b, <1>1 DEF DeliverAndPost, BeginPost, TimerInv, TypeOK
<1>2. ASSUME DeliverAndWait PROVE TimerInv'
  <2>1. /\ Made \subseteq Made' /\ <<"timer", made + 1>> \in Made'
        /\ <<"timer", made + 1>> \notin cancelled
    BY <1>0, <1>2, MadeGrows DEF DeliverAndWait, TimerInv
  <2>2. cancelled' \subseteq Made' /\ timer' \in Made' \cup {None} /\ timer' \notin cancelled'
    BY <1>0, <1>2, <2>1 DEF DeliverAndWait, TimerInv
  <2> QED BY <1>0, <1>2, <2>2 DEF DeliverAndWait, TimerInv, TypeOK
<1>3. ASSUME NEW t \in Tasks, TimerStarts(t) PROVE TimerInv'
  BY <1>0, <1>3, <1>c DEF TimerStarts, TimerInv, TypeOK
<1>4. ASSUME NEW t \in Tasks, TimerFires(t) PROVE TimerInv'
  BY <1>0, <1>4, <1>c DEF TimerFires, BeginPost, TimerAfter, TimerInv, TypeOK
<1>5. ASSUME NEW t \in Tasks, Confirmed(t) PROVE TimerInv'
  BY <1>0, <1>5, <1>c DEF Confirmed, TimerAfter, TimerInv, TypeOK
<1>6. ASSUME NEW t \in Tasks, Retry(t) PROVE TimerInv'
  BY <1>0, <1>6, <1>c DEF Retry, AnotherAttempt, TimerInv, TypeOK
<1>7. ASSUME NEW t \in Tasks, PostAgain(t) PROVE TimerInv'
  BY <1>0, <1>7, <1>c DEF PostAgain, TimerInv, TypeOK
<1>8. ASSUME NEW t \in Tasks, PutBack(t) PROVE TimerInv'
  BY <1>0, <1>8, <1>c DEF PutBack, TimerAfter, TimerInv, TypeOK
<1>9. ASSUME NEW t \in Tasks, CancelLands(t) PROVE TimerInv'
  BY <1>0, <1>9, <1>c DEF CancelLands, TimerAfter, TimerInv, TypeOK
<1>10. ASSUME BeginClose PROVE TimerInv'
  BY <1>0, <1>b, <1>10 DEF BeginClose, BeginPost, TimerInv, TypeOK
<1>11. ASSUME EndClose PROVE TimerInv'
  BY <1>0, <1>11, <1>c DEF EndClose, TimerInv
<1>12. ASSUME UNCHANGED vars PROVE TimerInv'
  BY <1>0, <1>12, <1>c DEF vars, TimerInv
<1> QED BY <1>1, <1>2, <1>3, <1>4, <1>5, <1>6, <1>7, <1>8, <1>9, <1>10, <1>11, <1>12
        DEF Next, Deliver, Task

(* A timer that ends resets _flush_timer, and one that is cancelled is no  *)
(* longer the one that is set.                                             *)
LEMMA LiveStep == IInv /\ [Next]_vars => TimerIsLive'
<1> SUFFICES ASSUME IInv, [Next]_vars PROVE TimerIsLive'
  OBVIOUS
<1>0. TypeOK /\ TimerInv /\ TimerIsLive
  BY DEF IInv
<1>a. timer # None => timer \in Tasks
  BY <1>0 DEF TypeOK, Tasks
<1>1. ASSUME DeliverAndPost PROVE TimerIsLive'
  BY <1>1 DEF DeliverAndPost, TimerIsLive
<1>2. ASSUME DeliverAndWait PROVE TimerIsLive'
  <2>1. <<"timer", made + 1>> \in Tasks
    BY <1>0, <1>2, WebhookAssumption DEF DeliverAndWait, TypeOK, Tasks, Timers, Events
  <2> QED BY <1>0, <1>2, <2>1 DEF DeliverAndWait, TimerIsLive, TypeOK
<1>3. ASSUME NEW t \in Tasks, TimerStarts(t) PROVE TimerIsLive'
  BY <1>0, <1>a, <1>3 DEF TimerStarts, TimerIsLive, TypeOK
<1>4. ASSUME NEW t \in Tasks, TimerFires(t) PROVE TimerIsLive'
  BY <1>0, <1>a, <1>4 DEF TimerFires, BeginPost, TimerAfter, TimerIsLive, Busy, TypeOK
<1>5. ASSUME NEW t \in Tasks, Confirmed(t) PROVE TimerIsLive'
  BY <1>0, <1>a, <1>5 DEF Confirmed, TimerAfter, TimerIsLive, TypeOK
<1>6. ASSUME NEW t \in Tasks, Retry(t) PROVE TimerIsLive'
  BY <1>0, <1>a, <1>6 DEF Retry, TimerIsLive, Busy, TypeOK
<1>7. ASSUME NEW t \in Tasks, PostAgain(t) PROVE TimerIsLive'
  BY <1>0, <1>a, <1>7 DEF PostAgain, TimerIsLive, Busy, TypeOK
<1>8. ASSUME NEW t \in Tasks, PutBack(t) PROVE TimerIsLive'
  BY <1>0, <1>a, <1>8 DEF PutBack, TimerAfter, TimerIsLive, TypeOK
<1>9. ASSUME NEW t \in Tasks, CancelLands(t) PROVE TimerIsLive'
  <2>1. timer # t
    BY <1>0, <1>9 DEF CancelLands, TimerInv
  <2> QED BY <1>0, <1>a, <1>9, <2>1 DEF CancelLands, TimerAfter, TimerIsLive, TypeOK
<1>10. ASSUME BeginClose PROVE TimerIsLive'
  BY <1>10 DEF BeginClose, TimerIsLive
<1>11. ASSUME EndClose PROVE TimerIsLive'
  BY <1>0, <1>11 DEF EndClose, TimerIsLive
<1>12. ASSUME UNCHANGED vars PROVE TimerIsLive'
  BY <1>0, <1>12 DEF vars, TimerIsLive
<1> QED BY <1>1, <1>2, <1>3, <1>4, <1>5, <1>6, <1>7, <1>8, <1>9, <1>10, <1>11, <1>12
        DEF Next, Deliver, Task

(* Events are added below the buffer's size or put back below the queue's. *)
LEMMA BoundStep == IInv /\ [Next]_vars => QueueBounded'
<1> SUFFICES ASSUME IInv, [Next]_vars PROVE QueueBounded'
  OBVIOUS
<1>0. TypeOK /\ QueueBounded
  BY DEF IInv
<1>a. BufferSize \in Nat \ {0} /\ MaxQueue \in Nat \ {0}
  BY WebhookAssumption
<1>b. ASSUME queue' = queue PROVE QueueBounded'
  BY <1>0, <1>b DEF QueueBounded
<1>c. ASSUME queue' = << >> PROVE QueueBounded'
  BY <1>a, <1>c, EmptyQueue DEF QueueBounded
<1>1. ASSUME DeliverAndPost PROVE QueueBounded'
  BY <1>1, <1>c DEF DeliverAndPost, BeginPost, Taken
<1>2. ASSUME DeliverAndWait PROVE QueueBounded'
  <2>1. Len(queue') = Len(queue) + 1 /\ Len(queue) \in Nat
    BY <1>0, <1>2 DEF DeliverAndWait, TypeOK
  <2>2. Len(queue) + 1 < BufferSize
    BY <1>2 DEF DeliverAndWait
  <2> QED BY <2>1, <2>2, <1>a DEF QueueBounded
<1>3. ASSUME NEW t \in Tasks, PutBack(t) PROVE QueueBounded'
  <2>1. queue \o batch[t] \in Seq(Events)
    BY <1>0 DEF TypeOK
  <2>2. queue' \in Seq(Events) /\ Len(queue') <= MaxQueue
    BY <1>3, <2>1, TrimBound DEF PutBack
  <2>3. Len(queue') \in Nat
    BY <2>2
  <2> QED BY <2>2, <2>3, <1>a DEF QueueBounded
<1>4. ASSUME NEW t \in Tasks, TimerFires(t) PROVE QueueBounded'
  BY <1>b, <1>c, <1>4 DEF TimerFires, BeginPost, Taken
<1>5. ASSUME BeginClose PROVE QueueBounded'
  BY <1>b, <1>c, <1>5 DEF BeginClose, BeginPost, Taken
<1>6. ASSUME NEW t \in Tasks,
             TimerStarts(t) \/ Confirmed(t) \/ Retry(t) \/ PostAgain(t) \/ CancelLands(t)
      PROVE  QueueBounded'
  BY <1>b, <1>6 DEF TimerStarts, Confirmed, Retry, PostAgain, CancelLands
<1>7. ASSUME EndClose \/ UNCHANGED vars PROVE QueueBounded'
  BY <1>b, <1>7 DEF EndClose, vars
<1> QED BY <1>1, <1>2, <1>3, <1>4, <1>5, <1>6, <1>7 DEF Next, Deliver, Task

(* The four parts are an inductive invariant.                              *)
LEMMA Invariant == Spec => []IInv
<1>1. IInv /\ [Next]_vars => IInv'
  BY TypeStep, TimerStep, LiveStep, BoundStep DEF IInv
<1> QED BY InitIInv, <1>1, PTL DEF Spec
-----------------------------------------------------------------------------
(* The subscriber's state is what its code expects: no task makes more     *)
(* than num_retries further attempts, and only timers are cancelled.       *)
THEOREM TypeCorrect == Spec => []TypeOK
  BY Invariant, PTL DEF IInv

(* However posts fail and whatever arrives meanwhile, the queue stays      *)
(* below max_queue_size, or below the buffer if that is larger.            *)
THEOREM BoundedQueue == Spec => []QueueBounded
  BY Invariant, PTL DEF IInv

(* _flush_timer, when it is set, is a task that has not ended: an event    *)
(* that leaves it to an existing timer leaves it to one that runs.         *)
THEOREM LiveTimer == Spec => []TimerIsLive
  BY Invariant, PTL DEF IInv
-----------------------------------------------------------------------------
(* Where the events are                                                    *)

\* No event is twice in the sequence q.
Once(q) == \A i, j \in DOMAIN q : q[i] = q[j] => i = j

\* The events a task is posting.
Held(t) == IF pc[t] \in Busy THEN Members(batch[t]) ELSE {}

(* Queue and batches are disjoint, and hold the events that were published *)
(* and have no fate yet; the tasks of events to come have not begun.       *)
PlacesInv ==
  /\ Once(queue) /\ Members(queue) \subseteq 1..made
  /\ \A t \in Tasks : /\ pc[t] \in Busy => Once(batch[t])
                      /\ Held(t) \subseteq 1..made
                      /\ Held(t) \cap Members(queue) = {}
  /\ \A t, u \in Tasks : t # u => Held(t) \cap Held(u) = {}
  /\ \A e \in Events : fate[e] = "none" <=> \/ e > made
                                            \/ e \in Members(queue)
                                            \/ \E t \in Tasks : e \in Held(t)
  /\ \A e \in Events : e > made => /\ pc[<<"call", e>>] = "none"
                                   /\ pc[<<"timer", e>>] = "none"

(* The empty sequence.                                                     *)
LEMMA EmptyPlaces == Members(<< >>) = {} /\ Once(<< >>)
BY DEF Members, Once

(* A sequence that a new event is appended to.                             *)
LEMMA AppendPlaces ==
  ASSUME NEW q \in Seq(Events), NEW e \in Events, Once(q), e \notin Members(q)
  PROVE  Members(Append(q, e)) = Members(q) \cup {e} /\ Once(Append(q, e))
<1>1. /\ Len(q) \in Nat /\ DOMAIN q = 1..Len(q)
      /\ DOMAIN Append(q, e) = 1..(Len(q) + 1)
      /\ Append(q, e)[Len(q) + 1] = e
      /\ \A i \in 1..Len(q) : Append(q, e)[i] = q[i]
  OBVIOUS
<1>2. 1..(Len(q) + 1) = 1..Len(q) \cup {Len(q) + 1}
  BY <1>1
<1>3. \A i \in DOMAIN q : q[i] # e
  BY DEF Members
<1>4. Members(Append(q, e)) = Members(q) \cup {e}
  BY <1>1, <1>2 DEF Members
<1>5. Once(Append(q, e))
  <2> SUFFICES ASSUME NEW i \in 1..(Len(q) + 1), NEW j \in 1..(Len(q) + 1),
                      Append(q, e)[i] = Append(q, e)[j]
               PROVE  i = j
    BY <1>1 DEF Once
  <2>1. CASE i \in DOMAIN q /\ j \in DOMAIN q
    BY <1>1, <2>1 DEF Once
  <2>2. CASE i = Len(q) + 1 \/ j = Len(q) + 1
    BY <1>1, <1>2, <1>3, <2>2
  <2> QED BY <1>1, <1>2, <2>1, <2>2
<1> QED BY <1>4, <1>5

(* Two sequences one after the other.                                      *)
LEMMA ConcatPlaces ==
  ASSUME NEW q \in Seq(Events), NEW r \in Seq(Events), Once(q), Once(r),
         Members(q) \cap Members(r) = {}
  PROVE  Members(q \o r) = Members(q) \cup Members(r) /\ Once(q \o r)
<1>1. /\ Len(q) \in Nat /\ DOMAIN q = 1..Len(q)
      /\ Len(r) \in Nat /\ DOMAIN r = 1..Len(r)
      /\ DOMAIN (q \o r) = 1..(Len(q) + Len(r))
      /\ \A i \in 1..(Len(q) + Len(r)) :
           (q \o r)[i] = IF i <= Len(q) THEN q[i] ELSE r[i - Len(q)]
  OBVIOUS
<1>2. \A i \in DOMAIN q, j \in DOMAIN r : q[i] # r[j]
  BY DEF Members
<1>3. \A i \in 1..(Len(q) + Len(r)) :
        \/ i \in DOMAIN q /\ (q \o r)[i] = q[i]
        \/ i > Len(q) /\ i - Len(q) \in DOMAIN r /\ (q \o r)[i] = r[i - Len(q)]
  BY <1>1
<1>4. Members(q \o r) \subseteq Members(q) \cup Members(r)
  BY <1>1, <1>3 DEF Members
<1>5. Members(q) \subseteq Members(q \o r)
  <2>1. \A i \in DOMAIN q : i \in DOMAIN (q \o r) /\ (q \o r)[i] = q[i]
    BY <1>1
  <2> QED BY <2>1 DEF Members
<1>6. Members(r) \subseteq Members(q \o r)
  <2>1. \A j \in DOMAIN r : /\ j + Len(q) \in DOMAIN (q \o r)
                            /\ (q \o r)[j + Len(q)] = r[j]
    BY <1>1
  <2> QED BY <2>1 DEF Members
<1>7. Once(q \o r)
  <2> SUFFICES ASSUME NEW i \in 1..(Len(q) + Len(r)), NEW j \in 1..(Len(q) + Len(r)),
                      (q \o r)[i] = (q \o r)[j]
               PROVE  i = j
    BY <1>1 DEF Once
  <2>1. CASE i \in DOMAIN q /\ j \in DOMAIN q
    BY <1>1, <2>1 DEF Once
  <2>2. CASE i > Len(q) /\ j > Len(q)
    <3>1. /\ i - Len(q) \in DOMAIN r /\ j - Len(q) \in DOMAIN r
          /\ r[i - Len(q)] = r[j - Len(q)]
      BY <1>1, <1>3, <2>2
    <3>2. i - Len(q) = j - Len(q)
      BY <3>1 DEF Once
    <3> QED BY <1>1, <3>2
  <2>3. CASE i \in DOMAIN q /\ j > Len(q)
    BY <1>1, <1>2, <1>3, <2>3
  <2>4. CASE i > Len(q) /\ j \in DOMAIN q
    BY <1>1, <1>2, <1>3, <2>4
  <2> QED BY <1>1, <2>1, <2>2, <2>3, <2>4
<1> QED BY <1>4, <1>5, <1>6, <1>7

(* What is left of a queue that is too long.                               *)
LEMMA TrimPlaces ==
  ASSUME NEW q \in Seq(Events), Once(q)
  PROVE  Members(Trim(q)) \subseteq Members(q) /\ Once(Trim(q))
<1>1. MaxQueue \in Nat \ {0} /\ Len(q) \in Nat /\ DOMAIN q = 1..Len(q)
  BY WebhookAssumption
<1>2. CASE Len(q) > MaxQueue
  <2> DEFINE k == Len(q) - MaxQueue
             r == SubSeq(q, k + 1, Len(q))
  <2>1. k \in Nat /\ k + 1 \in 1..Len(q) /\ Trim(q) = r
    BY <1>1, <1>2 DEF Trim
  <2>2. DOMAIN r = 1..MaxQueue /\ \A i \in 1..MaxQueue : r[i] = q[i + k]
    BY <1>1, <2>1
  <2>3. \A i \in 1..MaxQueue : i + k \in DOMAIN q
    BY <1>1, <2>1
  <2> HIDE DEF r
  <2>4. Members(r) \subseteq Members(q)
    BY <2>2, <2>3 DEF Members
  <2>5. Once(r)
    <3> SUFFICES ASSUME NEW i \in 1..MaxQueue, NEW j \in 1..MaxQueue, r[i] = r[j]
                 PROVE  i = j
      BY <2>2 DEF Once
    <3>1. i + k = j + k
      BY <2>2, <2>3 DEF Once
    <3> QED BY <1>1, <2>1, <3>1
  <2> QED BY <2>1, <2>4, <2>5
<1>3. CASE ~(Len(q) > MaxQueue)
  BY <1>3 DEF Trim
<1> QED BY <1>2, <1>3

\* No task of an event to come.
Begun(t) == pc[t] # "none" \/ t \in Made \cup {Closer}

(* Tasks of events to come are other tasks.                                *)
LEMMA NotToCome ==
  ASSUME PlacesInv, NEW t, Begun(t), made \in Nat, NEW e \in Events, e > made
  PROVE  t # <<"call", e>> /\ t # <<"timer", e>>
<1>1. CASE pc[t] # "none"
  BY <1>1 DEF PlacesInv
<1>2. CASE t \in Made
  <2>1. PICK f \in 1..made : t = <<"timer", f>>
    BY <1>2 DEF Made
  <2>2. f # e
    BY <2>1 DEF Events
  <2> QED BY <2>1, <2>2
<1>3. CASE t = Closer
  BY <1>3 DEF Closer
<1> QED BY <1>1, <1>2, <1>3 DEF Begun

(* Nothing that matters to the events has changed.                         *)
LEMMA PlacesStay ==
  ASSUME TypeOK, PlacesInv, UNCHANGED <<made, queue, batch, fate>>,
         NEW t \in Tasks, Begun(t),
         NEW p \in Busy \cup {"none", "created", "sleeping", "done"},
         p \in Busy <=> pc[t] \in Busy,
         pc' = [pc EXCEPT ![t] = p]
  PROVE  PlacesInv'
<1>1. \A u \in Tasks : Held(u)' = Held(u) /\ (pc'[u] \in Busy <=> pc[u] \in Busy)
  BY DEF Held, TypeOK
<1>2. ASSUME NEW e \in Events, e > made
      PROVE  pc'[<<"call", e>>] = "none" /\ pc'[<<"timer", e>>] = "none"
  <2>1. pc[<<"call", e>>] = "none" /\ pc[<<"timer", e>>] = "none"
    BY <1>2 DEF PlacesInv
  <2>2. t # <<"call", e>> /\ t # <<"timer", e>>
    BY <1>2, NotToCome, WebhookAssumption DEF TypeOK
  <2> QED BY <2>1, <2>2 DEF TypeOK
<1> HIDE DEF Held
<1> QED BY <1>1, <1>2 DEF PlacesInv

(* A task that held nothing takes the queue, and the event that comes with *)
(* it, if any.                                                             *)
LEMMA PlacesTaken ==
  ASSUME TypeOK, PlacesInv, NEW t \in Tasks, pc[t] \notin Busy,
         NEW q \in Seq(Events), Once(q),
         \/ made' = made /\ q = queue /\ Begun(t)
         \/ /\ made' = made + 1 /\ made + 1 \in Events /\ t = <<"call", made + 1>>
            /\ Members(q) = Members(queue) \cup {made + 1},
         BeginPost(t, q), UNCHANGED fate
  PROVE  PlacesInv'
<1>0. made \in Nat /\ made' \in Nat /\ made <= made' /\ Events \subseteq Nat
  BY WebhookAssumption DEF TypeOK, Events
<1>1. queue' = << >> /\ Members(queue)' = {} /\ Once(queue)'
  BY EmptyPlaces DEF BeginPost, Taken
<1>2. /\ Held(t) = {} /\ Held(t)' = Members(q) /\ pc'[t] = "posting" /\ batch'[t] = q
      /\ \A u \in Tasks : u # t => /\ Held(u)' = Held(u) /\ pc'[u] = pc[u]
                                   /\ batch'[u] = batch[u]
  BY DEF Held, BeginPost, Busy, TypeOK
<1>3. /\ Members(q) \subseteq 1..made' /\ Members(queue) \subseteq Members(q)
      /\ \A u \in Tasks : Held(u) \cap Members(q) = {}
  BY <1>0 DEF PlacesInv
<1>4. \A u \in Tasks : /\ pc'[u] \in Busy => Once(batch'[u])
                       /\ Held(u)' \subseteq 1..made'
                       /\ Held(u)' \cap Members(queue)' = {}
  <2> TAKE u \in Tasks
  <2>1. CASE u = t
    BY <1>1, <1>2, <1>3, <2>1
  <2>2. CASE u # t
    <3>1. Held(u) \subseteq 1..made /\ (pc[u] \in Busy => Once(batch[u]))
      BY DEF PlacesInv
    <3>2. 1..made \subseteq 1..made'
      BY <1>0
    <3> HIDE DEF Held
    <3> QED BY <1>1, <1>2, <2>2, <3>1, <3>2
  <2> QED BY <2>1, <2>2
<1>5. \A u, w \in Tasks : u # w => Held(u)' \cap Held(w)' = {}
  <2> HIDE DEF Held
  <2> QED BY <1>2, <1>3 DEF PlacesInv
<1>6. \A e \in Events : fate'[e] = "none" <=> \/ e > made'
                                              \/ e \in Members(queue)'
                                              \/ \E u \in Tasks : e \in Held(u)'
  <2> TAKE e \in Events
  <2>1. fate'[e] = fate[e] /\ e \in Nat
    BY <1>0
  <2>2. e \in Members(q) <=> e \in Members(queue) \/ (e = made + 1 /\ made' = made + 1)
    BY <1>0 DEF PlacesInv
  <2>3. (\E u \in Tasks : e \in Held(u)') <=> e \in Members(q) \/ \E u \in Tasks : e \in Held(u)
    <3> HIDE DEF Held
    <3> QED BY <1>2
  <2>4. e > made <=> e > made' \/ (e = made + 1 /\ made' = made + 1)
    BY <1>0, <2>1
  <2> HIDE DEF Held
  <2> QED BY <1>1, <2>1, <2>2, <2>3, <2>4 DEF PlacesInv
<1>7. \A e \in Events : e > made' => /\ pc'[<<"call", e>>] = "none"
                                     /\ pc'[<<"timer", e>>] = "none"
  <2> SUFFICES ASSUME NEW e \in Events, e > made'
               PROVE  pc'[<<"call", e>>] = "none" /\ pc'[<<"timer", e>>] = "none"
    OBVIOUS
  <2>1. e > made /\ (e # made + 1 \/ made' = made)
    BY <1>0
  <2>2. pc[<<"call", e>>] = "none" /\ pc[<<"timer", e>>] = "none"
    BY <2>1 DEF PlacesInv
  <2>3. <<"call", e>> \in Tasks /\ <<"timer", e>> \in Tasks
    BY DEF Tasks, Calls, Timers
  <2>4. t # <<"call", e>> /\ t # <<"timer", e>>
    <3>1. CASE made' = made /\ Begun(t)
      BY <1>0, <2>1, <3>1, NotToCome
    <3>2. CASE made' = made + 1 /\ t = <<"call", made + 1>>
      BY <1>0, <3>2
    <3> QED BY <3>1, <3>2
  <2> QED BY <1>2, <2>2, <2>3, <2>4
<1> QED BY <1>1, <1>3, <1>4, <1>5, <1>6, <1>7 DEF PlacesInv

(* A task's events have met their fate, or go with the task.               *)
LEMMA PlacesResolved ==
  ASSUME TypeOK, PlacesInv, UNCHANGED <<made, queue, batch>>,
         NEW t \in Tasks, pc[t] \in Busy, NEW f \in {"confirmed", "lost"},
         pc' = [pc EXCEPT ![t] = "done"],
         Become(Members(batch[t]), f)
  PROVE  PlacesInv'
<1>0. Held(t) = Members(batch[t]) /\ made \in Nat
  BY WebhookAssumption DEF Held, TypeOK
<1>1. /\ Held(t)' = {}
      /\ \A u \in Tasks : u # t => Held(u)' = Held(u) /\ pc'[u] = pc[u]
  BY DEF Held, Busy, TypeOK
<1>2. \A e \in Events : fate'[e] = IF e \in Held(t) THEN f ELSE fate[e]
  BY <1>0 DEF Become
<1>3. \A u \in Tasks : pc'[u] \in Busy => pc[u] \in Busy
  BY DEF TypeOK, Busy
<1>4. ASSUME NEW e \in Events, e > made
      PROVE  pc'[<<"call", e>>] = "none" /\ pc'[<<"timer", e>>] = "none"
  <2>1. pc[<<"call", e>>] = "none" /\ pc[<<"timer", e>>] = "none"
    BY <1>4 DEF PlacesInv
  <2>2. t # <<"call", e>> /\ t # <<"timer", e>>
    BY <2>1 DEF Busy
  <2> QED BY <2>1, <2>2 DEF TypeOK
<1>5. \A e \in Events : fate'[e] = "none" <=> \/ e > made
                                              \/ e \in Members(queue)
                                              \/ \E u \in Tasks : e \in Held(u)'
  <2> SUFFICES ASSUME NEW e \in Events
               PROVE  fate'[e] = "none" <=> \/ e > made
                                            \/ e \in Members(queue)
                                            \/ \E u \in Tasks : e \in Held(u)'
    OBVIOUS
  <2> HIDE DEF Held
  <2>1. CASE e \in Held(t)
    <3>1. e <= made /\ e \notin Members(queue) /\ \A u \in Tasks : u # t => e \notin Held(u)
      BY <1>0, <2>1 DEF PlacesInv
    <3>2. ~(e > made)
      BY <1>0, <3>1 DEF Events
    <3> QED BY <1>1, <1>2, <2>1, <3>1, <3>2
  <2>2. CASE e \notin Held(t)
    BY <1>1, <1>2, <2>2 DEF PlacesInv
  <2> QED BY <2>1, <2>2
<1>6. \A u \in Tasks : /\ pc'[u] \in Busy => Once(batch[u])
                       /\ Held(u)' \subseteq 1..made
                       /\ Held(u)' \cap Members(queue) = {}
  <2> HIDE DEF Held
  <2> QED BY <1>1, <1>3 DEF PlacesInv
<1>7. \A u, w \in Tasks : u # w => Held(u)' \cap Held(w)' = {}
  <2> HIDE DEF Held
  <2> QED BY <1>1 DEF PlacesInv
<1>8. Members(queue)' = Members(queue) /\ Once(queue)'
  BY DEF PlacesInv, Once, Members
<1> QED BY <1>4, <1>5, <1>6, <1>7, <1>8 DEF PlacesInv

(* A batch goes back, and the front of the queue is dropped.               *)
LEMMA PlacesBack ==
  ASSUME TypeOK, PlacesInv, NEW t \in Tasks, PutBack(t)
  PROVE  PlacesInv'
<1> DEFINE q == queue \o batch[t]
<1>0. /\ pc[t] \in Busy /\ Held(t) = Members(batch[t]) /\ made \in Nat
      /\ queue \in Seq(Events) /\ batch[t] \in Seq(Events) /\ q \in Seq(Events)
  BY WebhookAssumption DEF PutBack, Held, Busy, TypeOK
<1>1. /\ Held(t)' = {} /\ UNCHANGED <<made, batch>>
      /\ \A u \in Tasks : u # t => Held(u)' = Held(u) /\ pc'[u] = pc[u]
  BY DEF PutBack, Held, Busy, TypeOK
<1>2. Members(q) = Members(queue) \cup Held(t) /\ Once(q)
  BY <1>0, ConcatPlaces DEF PlacesInv
<1>3. /\ Members(queue)' = Members(Trim(q)) /\ Once(queue)'
      /\ Members(Trim(q)) \subseteq Members(q)
  <2>1. queue' = Trim(q)
    BY DEF PutBack
  <2>2. Members(Trim(q)) \subseteq Members(q) /\ Once(Trim(q))
    BY <1>0, <1>2, TrimPlaces
  <2> HIDE DEF q
  <2> QED BY <2>1, <2>2 DEF Members, Once
<1>4. \A e \in Events : fate'[e] = IF e \in Members(q) \ Members(Trim(q))
                                   THEN "dropped" ELSE fate[e]
  BY DEF PutBack, Become
<1>5. \A u \in Tasks : pc'[u] \in Busy => pc[u] \in Busy
  BY DEF PutBack, TypeOK, Busy
<1> HIDE DEF Held, q
<1>6. ASSUME NEW e \in Events, e > made
      PROVE  pc'[<<"call", e>>] = "none" /\ pc'[<<"timer", e>>] = "none"
  <2>1. pc[<<"call", e>>] = "none" /\ pc[<<"timer", e>>] = "none"
    BY <1>6 DEF PlacesInv
  <2>2. t # <<"call", e>> /\ t # <<"timer", e>>
    BY <1>0, <2>1 DEF Busy
  <2> QED BY <2>1, <2>2 DEF PutBack, TypeOK
<1>7. Members(q) \subseteq 1..made /\ \A u \in Tasks : u # t => Held(u) \cap Members(q) = {}
  BY <1>2 DEF PlacesInv
<1>8. ASSUME NEW e \in Events
      PROVE  fate'[e] = "none" <=> \/ e > made
                                   \/ e \in Members(Trim(q))
                                   \/ \E u \in Tasks : e \in Held(u)'
  <2>1. CASE e \in Members(q)
    <3>1. ~(e > made) /\ \A u \in Tasks : e \notin Held(u)'
      BY <1>0, <1>1, <1>7, <2>1 DEF Events
    <3>2. fate[e] = "none"
      BY <1>2, <2>1 DEF PlacesInv
    <3> QED BY <1>4, <2>1, <3>1, <3>2
  <2>2. CASE e \notin Members(q)
    BY <1>1, <1>2, <1>3, <1>4, <2>2 DEF PlacesInv
  <2> QED BY <2>1, <2>2
<1>9. \A u \in Tasks : /\ pc'[u] \in Busy => Once(batch'[u])
                       /\ Held(u)' \subseteq 1..made'
                       /\ Held(u)' \cap Members(queue)' = {}
  BY <1>1, <1>3, <1>5, <1>7 DEF PlacesInv
<1>10. \A u, w \in Tasks : u # w => Held(u)' \cap Held(w)' = {}
  BY <1>1 DEF PlacesInv
<1> QED BY <1>1, <1>3, <1>6, <1>7, <1>8, <1>9, <1>10 DEF PlacesInv

(* An event waits in the queue, for the timer that is made with it or for  *)
(* one that is there.                                                      *)
LEMMA PlacesWait ==
  ASSUME TypeOK, PlacesInv, DeliverAndWait
  PROVE  PlacesInv'
<1> DEFINE n == made + 1
           t == <<"timer", n>>
<1>0. /\ made \in Nat /\ made' = n /\ n \in Events /\ Events \subseteq Nat
      /\ UNCHANGED <<batch, fate>> /\ queue \in Seq(Events)
  BY WebhookAssumption DEF DeliverAndWait, TypeOK, Events
<1>1. t \in Tasks /\ pc[t] = "none"
  <2>1. n > made
    BY <1>0
  <2>2. t \in Tasks
    BY <1>0 DEF Tasks, Timers
  <2> HIDE DEF n
  <2> QED BY <1>0, <2>1, <2>2 DEF PlacesInv
<1>2. /\ pc'[t] \in {"none", "created"}
      /\ \A u \in Tasks : u # t => pc'[u] = pc[u]
  BY <1>1 DEF DeliverAndWait, TypeOK
<1>3. \A u \in Tasks : Held(u)' = Held(u) /\ (pc'[u] \in Busy <=> pc[u] \in Busy)
  BY <1>0, <1>1, <1>2 DEF Held, Busy
<1>4. n \notin Members(queue) /\ \A u \in Tasks : n \notin Held(u)
  BY <1>0 DEF PlacesInv
<1>5. Members(queue)' = Members(queue) \cup {n} /\ Once(queue)'
  <2>1. queue' = Append(queue, n) /\ Once(queue)
    BY DEF DeliverAndWait, PlacesInv
  <2>2. Members(Append(queue, n)) = Members(queue) \cup {n} /\ Once(Append(queue, n))
    BY <1>0, <1>4, <2>1, AppendPlaces
  <2> QED BY <2>1, <2>2 DEF Members, Once
<1> HIDE DEF Held
<1>6. 1..made \subseteq 1..n /\ n \in 1..n
  BY <1>0
<1>7. ASSUME NEW e \in Events, e > n
      PROVE  pc'[<<"call", e>>] = "none" /\ pc'[<<"timer", e>>] = "none"
  <2>1. e > made /\ e # n
    BY <1>0, <1>7
  <2>2. pc[<<"call", e>>] = "none" /\ pc[<<"timer", e>>] = "none"
    BY <2>1 DEF PlacesInv
  <2>3. /\ <<"call", e>> \in Tasks /\ <<"timer", e>> \in Tasks
        /\ t # <<"call", e>> /\ t # <<"timer", e>>
    BY <2>1 DEF Tasks, Calls, Timers
  <2> QED BY <1>2, <2>2, <2>3
<1>8. ASSUME NEW e \in Events
      PROVE  fate[e] = "none" <=> \/ e > n
                                  \/ e \in Members(queue) \cup {n}
                                  \/ \E u \in Tasks : e \in Held(u)
  <2>1. e > made <=> e > n \/ e = n
    BY <1>0
  <2> QED BY <2>1 DEF PlacesInv
<1>9. \A u \in Tasks : /\ pc'[u] \in Busy => Once(batch[u])
                       /\ Held(u) \subseteq 1..n
                       /\ Held(u) \cap Members(queue)' = {}
  BY <1>3, <1>4, <1>5, <1>6 DEF PlacesInv
<1>10. Members(queue)' \subseteq 1..n
  BY <1>5, <1>6 DEF PlacesInv
<1> QED BY <1>0, <1>3, <1>5, <1>7, <1>8, <1>9, <1>10 DEF PlacesInv

(* Every step keeps the events in their places.                            *)
LEMMA PlacesStep == IInv /\ PlacesInv /\ [Next]_vars => PlacesInv'
<1> SUFFICES ASSUME IInv, PlacesInv, [Next]_vars PROVE PlacesInv'
  OBVIOUS
<1>0. TypeOK /\ made \in Nat /\ queue \in Seq(Events) /\ Once(queue)
  BY WebhookAssumption DEF IInv, TypeOK, PlacesInv
<1>1. ASSUME DeliverAndPost PROVE PlacesInv'
  <2> DEFINE n == made + 1
             t == <<"call", n>>
             q == Append(queue, n)
  <2>1. n \in Events /\ made' = n /\ BeginPost(t, q) /\ UNCHANGED fate
    BY <1>0, <1>1, WebhookAssumption DEF DeliverAndPost, TypeOK, Events
  <2>2. n > made /\ n \notin 1..made
    BY <1>0
  <2>3. t \in Tasks
    BY <2>1 DEF Tasks, Calls
  <2>4. t \in Tasks /\ pc[t] = "none" /\ n \notin Members(queue)
    <3> HIDE DEF n
    <3> QED BY <2>1, <2>2, <2>3 DEF PlacesInv
  <2>5. q \in Seq(Events) /\ Once(q) /\ Members(q) = Members(queue) \cup {n}
    BY <1>0, <2>1, <2>4, AppendPlaces
  <2>6. pc[t] \notin Busy
    BY <2>4 DEF Busy
  <2> HIDE DEF q
  <2> QED BY <1>0, <2>1, <2>4, <2>5, <2>6, PlacesTaken
<1>2. ASSUME DeliverAndWait PROVE PlacesInv'
  BY <1>0, <1>2, PlacesWait
<1>3. ASSUME NEW t \in Tasks, TimerStarts(t) PROVE PlacesInv'
  BY <1>0, <1>3, PlacesStay DEF TimerStarts, Busy, Begun
<1>4. ASSUME NEW t \in Tasks, TimerFires(t) PROVE PlacesInv'
  <2>1. CASE queue # << >>
    BY <1>0, <1>4, <2>1, PlacesTaken DEF TimerFires, Busy, Begun
  <2>2. CASE queue = << >>
    BY <1>0, <1>4, <2>2, PlacesStay DEF TimerFires, Busy, Begun
  <2> QED BY <2>1, <2>2
<1>5. ASSUME NEW t \in Tasks, Confirmed(t) PROVE PlacesInv'
  BY <1>0, <1>5, PlacesResolved DEF Confirmed, Busy
<1>6. ASSUME NEW t \in Tasks, Retry(t) PROVE PlacesInv'
  BY <1>0, <1>6, PlacesStay DEF Retry, Busy, Begun
<1>7. ASSUME NEW t \in Tasks, PostAgain(t) PROVE PlacesInv'
  BY <1>0, <1>7, PlacesStay DEF PostAgain, Busy, Begun
<1>8. ASSUME NEW t \in Tasks, PutBack(t) PROVE PlacesInv'
  BY <1>0, <1>8, PlacesBack
<1>9. ASSUME NEW t \in Tasks, CancelLands(t) PROVE PlacesInv'
  <2>1. CASE pc[t] \in Busy
    BY <1>0, <1>9, <2>1, PlacesResolved DEF CancelLands
  <2>2. CASE pc[t] \notin Busy
    <3>1. fate' = fate
      BY <1>0, <1>9, <2>2 DEF CancelLands, Become, TypeOK
    <3>2. Begun(t)
      BY <1>9 DEF CancelLands, Begun, IInv, TimerInv
    <3> QED BY <1>0, <1>9, <2>2, <3>1, <3>2, PlacesStay DEF CancelLands, Busy
  <2> QED BY <2>1, <2>2
<1>10. ASSUME BeginClose PROVE PlacesInv'
  <2>1. Closer \in Tasks /\ Begun(Closer) /\ pc[Closer] \notin Busy
    BY <1>10 DEF BeginClose, Tasks, Begun, Busy
  <2>2. CASE queue # << >>
    BY <1>0, <1>10, <2>1, <2>2, PlacesTaken DEF BeginClose
  <2>3. CASE queue = << >>
    BY <1>0, <1>10, <2>1, <2>3, PlacesStay DEF BeginClose, Busy
  <2> QED BY <2>2, <2>3
<1>11. ASSUME EndClose \/ UNCHANGED vars PROVE PlacesInv'
  <2>1. UNCHANGED <<made, queue, pc, batch, fate>>
    BY <1>11 DEF EndClose, vars
  <2>2. \A u \in Tasks : Held(u)' = Held(u)
    BY <2>1 DEF Held
  <2> HIDE DEF Held
  <2> QED BY <2>1, <2>2 DEF PlacesInv, Members, Once
<1> QED BY <1>1, <1>2, <1>3, <1>4, <1>5, <1>6, <1>7, <1>8, <1>9, <1>10, <1>11
        DEF Next, Deliver, Task

(* Events are in their places in every state the subscriber reaches.       *)
LEMMA PlacesInvariant == Spec => []PlacesInv
<1>1. Init => PlacesInv
  <2> SUFFICES ASSUME Init PROVE PlacesInv
    OBVIOUS
  <2>1. \A t \in Tasks : Held(t) = {} /\ pc[t] \notin Busy
    BY DEF Init, Held, Busy
  <2>2. \A e \in Events : <<"call", e>> \in Tasks /\ <<"timer", e>> \in Tasks /\ e > 0
    BY WebhookAssumption DEF Tasks, Calls, Timers, Events
  <2> HIDE DEF Held
  <2> QED BY <2>1, <2>2, EmptyPlaces DEF Init, PlacesInv
<1> QED BY <1>1, PlacesStep, Invariant, PTL DEF Spec

(* Whatever fails, is retried, put back, cancelled or closed: an event is  *)
(* in the queue, in one task's hands or has met its one fate.              *)
THEOREM EventsAccounted == Spec => []Accounted
<1>1. ASSUME TypeOK, PlacesInv PROVE Accounted
  <2> SUFFICES ASSUME NEW e \in 1..made
               PROVE  Cardinality(Queued(e)) + Cardinality(Posting(e))
                      + (IF fate[e] = "none" THEN 0 ELSE 1) = 1
    BY DEF Accounted
  <2>0. e \in Events /\ ~(e > made)
    BY <1>1, WebhookAssumption DEF TypeOK, Events
  <2>1. /\ Queued(e) = {} <=> e \notin Members(queue)
        /\ Posting(e) = {} <=> \A t \in Tasks : e \notin Held(t)
        /\ \A t \in Tasks : t \in Posting(e) <=> e \in Held(t)
    BY DEF Queued, Posting, Members, Held
  <2> HIDE DEF Held
  <2>2. CASE e \in Members(queue)
    <3>1. PICK i \in DOMAIN queue : queue[i] = e
      BY <2>2 DEF Members
    <3>2. Queued(e) = {i}
      BY <1>1, <3>1 DEF Queued, PlacesInv, Once
    <3>3. Posting(e) = {} /\ fate[e] = "none"
      BY <1>1, <2>0, <2>1, <2>2 DEF PlacesInv
    <3>4. Cardinality(Queued(e)) = 1
      BY <3>2, FS_Singleton
    <3>5. Cardinality(Posting(e)) = 0
      BY <3>3, FS_EmptySet
    <3> QED BY <3>3, <3>4, <3>5
  <2>3. CASE \E t \in Tasks : e \in Held(t)
    <3>1. PICK t \in Tasks : e \in Held(t)
      BY <2>3
    <3>2. \A u \in Tasks : u \in Posting(e) <=> u = t
      BY <1>1, <2>1, <3>1 DEF PlacesInv
    <3>3. Posting(e) = {t}
      BY <3>2 DEF Posting
    <3>4. Queued(e) = {} /\ fate[e] = "none"
      BY <1>1, <2>0, <2>1, <3>1 DEF PlacesInv
    <3>5. Cardinality(Posting(e)) = 1
      BY <3>3, FS_Singleton
    <3>6. Cardinality(Queued(e)) = 0
      BY <3>4, FS_EmptySet
    <3> QED BY <3>4, <3>5, <3>6
  <2>4. CASE e \notin Members(queue) /\ ~\E t \in Tasks : e \in Held(t)
    <3>1. Queued(e) = {} /\ Posting(e) = {} /\ fate[e] # "none"
      BY <1>1, <2>0, <2>1, <2>4 DEF PlacesInv
    <3>2. Cardinality(Queued(e)) = 0 /\ Cardinality(Posting(e)) = 0
      BY <3>1, FS_EmptySet
    <3> QED BY <3>1, <3>2
  <2> QED BY <2>2, <2>3, <2>4
<1>2. IInv => TypeOK
  BY DEF IInv
<1> QED BY <1>1, <1>2, Invariant, PlacesInvariant, PTL
=============================================================================
