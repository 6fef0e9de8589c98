------------------------- MODULE ConversationProofs --------------------------
(***************************************************************************)
(* Conversation for any callers, runs and bounds.  Every action does one   *)
(* of five things to the lock's queue and to the place of one actor; what  *)
(* each of them preserves is said once (JoinKeeps ... MoveKeeps), and the  *)
(* proof of each action names its case.                                    *)
(***************************************************************************)
EXTENDS ConversationHistory, TLAPS

CallerPlaces == {"idle", "message", "pause", "read", "reject", "requested", "condense"}
                \union InStep
Outside == {"idle", "read", "requested", "done"}
InLoop == {"enter", "top"} \union InStep

(* Runs are only where runs can be, and callers where callers can be. *)
PlacesOK == /\ pc \in [Actors -> CallerPlaces \union InRun \union {"done"}]
            /\ \A c \in Callers : pc[c] \in CallerPlaces
            /\ \A r \in Runs : pc[r] \in InRun \union {"idle", "done"}

(* The lock's queue and the places of the actors. *)
LockInv == /\ queue \in Seq(Actors)
           /\ PlacesOK
           /\ QueueMatchesActors

(* A run that will begin another step has not reached the cap. *)
CapInv == /\ iter \in [Runs -> 0..MaxIterations]
          /\ \A r \in Runs : pc[r] = "idle" => iter[r] = 0
          /\ \A r \in Runs : pc[r] \in InLoop => iter[r] < MaxIterations

LogInv == /\ issued \in 0..MaxActions
          /\ matched \union finishes \subseteq 1..issued
          /\ stale \in [Callers -> SUBSET (1..issued)]

RestInv == /\ status \in Statuses
           /\ requested \in BOOLEAN
           /\ unseen \in BOOLEAN
           /\ cancel \subseteq Runs

IInv == LockInv /\ CapInv /\ LogInv /\ RestInv /\ RunningIsHonest
------------------------------------------------------------------------------
(* What Append and Tail do to the members of a queue. *)
LEMMA AppendMembers ==
  ASSUME NEW S, NEW q \in Seq(S), NEW x \in S
  PROVE  /\ Append(q, x) \in Seq(S)
         /\ Len(Append(q, x)) = Len(q) + 1
         /\ \A i \in 1..Len(q) : Append(q, x)[i] = q[i]
         /\ Append(q, x)[Len(q) + 1] = x
  OBVIOUS

(* The tail of a queue is the queue moved up by one place. *)
LEMMA TailMembers ==
  ASSUME NEW S, NEW q \in Seq(S), q # << >>
  PROVE  /\ Tail(q) \in Seq(S)
         /\ Len(Tail(q)) = Len(q) - 1
         /\ \A i \in 1..Len(Tail(q)) : Tail(q)[i] = q[i + 1]
         /\ Head(q) = q[1]
         /\ Len(q) >= 1
  OBVIOUS

(* The members of a queue that somebody joins. *)
LEMMA JoinQueue ==
  ASSUME queue \in Seq(Actors), NEW x \in Actors, x \notin Queued,
         \A i, j \in DOMAIN queue : queue[i] = queue[j] => i = j,
         queue' = Append(queue, x)
  PROVE  /\ queue' \in Seq(Actors)
         /\ \A i, j \in DOMAIN queue' : queue'[i] = queue'[j] => i = j
         /\ Queued' = Queued \union {x}
         /\ queue' # << >>
         /\ queue # << >> => Head(queue') = Head(queue)
<1>1. /\ queue' \in Seq(Actors)
      /\ Len(queue') = Len(queue) + 1
      /\ \A i \in 1..Len(queue) : queue'[i] = queue[i]
      /\ queue'[Len(queue) + 1] = x
  BY AppendMembers
<1>2. DOMAIN queue = 1..Len(queue) /\ DOMAIN queue' = 1..(Len(queue) + 1)
      /\ Len(queue) \in Nat
  BY <1>1
<1>3. \A i, j \in DOMAIN queue' : queue'[i] = queue'[j] => i = j
  BY <1>1, <1>2 DEF Queued
<1>4. Queued' = Queued \union {x}
  <2>1. \A y \in Queued' : y \in Queued \union {x}
    BY <1>1, <1>2 DEF Queued
  <2>2. \A y \in Queued \union {x} : y \in Queued'
    BY <1>1, <1>2 DEF Queued
  <2> QED
    BY <2>1, <2>2
<1>5. queue' # << >> /\ (queue # << >> => Head(queue') = Head(queue))
  BY <1>1, <1>2
<1> QED
  BY <1>1, <1>3, <1>4, <1>5

(* The members of a queue whose head leaves. *)
LEMMA LeaveQueue ==
  ASSUME NEW q \in Seq(Actors), q # << >>,
         \A i, j \in DOMAIN q : q[i] = q[j] => i = j
  PROVE  /\ Tail(q) \in Seq(Actors)
         /\ \A i, j \in DOMAIN Tail(q) : Tail(q)[i] = Tail(q)[j] => i = j
         /\ \A y : (\E i \in DOMAIN Tail(q) : Tail(q)[i] = y)
                   <=> (y # Head(q) /\ \E i \in DOMAIN q : q[i] = y)
<1>1. /\ Tail(q) \in Seq(Actors)
      /\ Len(Tail(q)) = Len(q) - 1
      /\ \A i \in 1..Len(Tail(q)) : Tail(q)[i] = q[i + 1]
      /\ Head(q) = q[1]
      /\ Len(q) \in Nat /\ Len(q) >= 1
  BY TailMembers
<1>2. DOMAIN q = 1..Len(q) /\ DOMAIN Tail(q) = 1..(Len(q) - 1)
  BY <1>1
<1>3. \A i, j \in DOMAIN Tail(q) : Tail(q)[i] = Tail(q)[j] => i = j
  BY <1>1, <1>2
<1>4. ASSUME NEW y, NEW i \in DOMAIN Tail(q), Tail(q)[i] = y
      PROVE  y # Head(q) /\ \E j \in DOMAIN q : q[j] = y
  BY <1>1, <1>2, <1>4, i + 1 \in DOMAIN q
<1>5. ASSUME NEW y, y # Head(q), NEW i \in DOMAIN q, q[i] = y
      PROVE  \E j \in DOMAIN Tail(q) : Tail(q)[j] = y
  <2>1. i # 1 /\ i - 1 \in DOMAIN Tail(q) /\ Tail(q)[i - 1] = q[i]
    BY <1>1, <1>2, <1>5
  <2> QED
    BY <2>1, <1>5
<1> QED
  BY <1>1, <1>3, <1>4, <1>5
------------------------------------------------------------------------------
(* The five things an action does to the queue and to an actor's place. *)
Place(x) == IF x \in Runs THEN InRun \union {"idle", "done"} ELSE CallerPlaces
Still == {"enter", "top", "raised", "cancelled", "message", "pause", "reject", "condense"}

(* An actor that is nowhere asks for the lock (`with self._state:`). *)
LEMMA JoinKeeps ==
  ASSUME LockInv, NEW x \in Actors, NEW w \in Still, w \in Place(x),
         pc[x] \in Outside, Join(x, w)
  PROVE  LockInv'
<1> USE DEF LockInv, QueueMatchesActors, PlacesOK, Outside
<1>1. pc' = [pc EXCEPT ![x] = w] /\ queue' = Append(queue, x)
  BY DEF Join
<1>2. x \notin Queued
  BY DEF Outside
<1>3. /\ queue' \in Seq(Actors)
      /\ \A i, j \in DOMAIN queue' : queue'[i] = queue'[j] => i = j
      /\ Queued' = Queued \union {x}
      /\ queue' # << >>
      /\ queue # << >> => Head(queue') = Head(queue)
  BY <1>1, <1>2, JoinQueue
<1>4. PlacesOK'
  BY <1>1, ConversationAssumption DEF Place, Actors, CallerPlaces, InRun, InStep
<1>5. \A y \in Actors : y \in Queued' <=> pc'[y] \notin Outside
  BY <1>1, <1>3 DEF Still, Outside
<1>6. \A y \in Actors : Stepping(y)' => HasLock(y)'
  BY <1>1, <1>3 DEF Still, Stepping, InStep, HasLock
<1> QED
  BY <1>3, <1>4, <1>5, <1>6

(* The actor with the lock releases it. *)
LEMMA LeaveKeeps ==
  ASSUME LockInv, NEW x \in Actors, NEW w \in Outside, w \in Place(x),
         HasLock(x), Leave(x, w)
  PROVE  LockInv'
<1> USE DEF LockInv, QueueMatchesActors, PlacesOK, Outside
<1>1. pc' = [pc EXCEPT ![x] = w] /\ queue' = Tail(queue)
  BY DEF Leave
<1>2. queue # << >> /\ Head(queue) = x
  BY DEF HasLock
<1> DEFINE t == Tail(queue)
<1>3. /\ t \in Seq(Actors)
      /\ \A i, j \in DOMAIN t : t[i] = t[j] => i = j
      /\ \A y : (\E i \in DOMAIN t : t[i] = y)
                <=> (y # x /\ \E i \in DOMAIN queue : queue[i] = y)
  BY <1>2, LeaveQueue
<1>4. queue' = t
  BY <1>1
<1> HIDE DEF t
<1>5. \A y : y \in Queued' <=> (y # x /\ y \in Queued)
  <2>1. \A y : y \in Queued' <=> \E i \in DOMAIN t : t[i] = y
    BY <1>4, Zenon DEF Queued
  <2>2. \A y : y \in Queued <=> \E i \in DOMAIN queue : queue[i] = y
    BY Zenon DEF Queued
  <2> QED
    BY <2>1, <2>2, <1>3
<1>6. PlacesOK'
  BY <1>1, ConversationAssumption DEF Place, Actors, CallerPlaces, InRun, InStep
<1>7. \A y \in Actors : y \in Queued' <=> pc'[y] \notin Outside
  BY <1>1, <1>5 DEF Outside
<1>8. \A y \in Actors : ~Stepping(y)'
  BY <1>1, <1>2 DEF Outside, Stepping, InStep, HasLock
<1> QED
  BY <1>3, <1>4, <1>6, <1>7, <1>8

(* It releases the lock and asks for it again, as an iteration does. *)
LEMMA RejoinKeeps ==
  ASSUME LockInv, NEW x \in Actors, NEW w \in Still, w \in Place(x),
         HasLock(x), Rejoin(x, w)
  PROVE  LockInv'
<1> USE DEF LockInv, QueueMatchesActors, PlacesOK, Outside
<1> DEFINE t == Tail(queue)
<1>1. pc' = [pc EXCEPT ![x] = w] /\ queue' = Append(t, x)
  BY DEF Rejoin
<1>2. queue # << >> /\ Head(queue) = x
  BY DEF HasLock
<1>3. /\ t \in Seq(Actors)
      /\ \A i, j \in DOMAIN t : t[i] = t[j] => i = j
      /\ \A y : (\E i \in DOMAIN t : t[i] = y)
                <=> (y # x /\ \E i \in DOMAIN queue : queue[i] = y)
  BY <1>2, LeaveQueue
<1> HIDE DEF t
<1>4. /\ queue' \in Seq(Actors)
      /\ Len(queue') = Len(t) + 1
      /\ \A i \in 1..Len(t) : queue'[i] = t[i]
      /\ queue'[Len(t) + 1] = x
      /\ DOMAIN t = 1..Len(t) /\ Len(t) \in Nat
      /\ DOMAIN queue' = 1..(Len(t) + 1)
  BY <1>1, <1>3, AppendMembers
<1>5. \A i, j \in DOMAIN queue' : queue'[i] = queue'[j] => i = j
  <2>1. \A i \in DOMAIN t : queue'[i] = t[i] /\ queue'[i] # x
    BY <1>2, <1>3, <1>4
  <2>2. \A i \in DOMAIN queue' : i \in DOMAIN t \/ i = Len(t) + 1
    BY <1>4
  <2> QED
    BY <1>3, <1>4, <2>1, <2>2
<1>6. \A y : y \in Queued' <=> y \in Queued
  <2>1. x \in Queued
    BY <1>2 DEF Queued
  <2>2. \A y : y \in Queued <=> \E i \in DOMAIN queue : queue[i] = y
    BY Zenon DEF Queued
  <2>3. \A y : y \in Queued' <=> (y = x \/ \E i \in DOMAIN t : t[i] = y)
    <3>1. ASSUME NEW y, y \in Queued' PROVE y = x \/ \E i \in DOMAIN t : t[i] = y
      <4>1. PICK i \in DOMAIN queue' : queue'[i] = y
        BY <3>1 DEF Queued
      <4>2. CASE i = Len(t) + 1
        BY <1>4, <4>1, <4>2
      <4>3. CASE i \in DOMAIN t
        BY <1>4, <4>1, <4>3
      <4> QED
        BY <1>4, <4>1, <4>2, <4>3
    <3>2. ASSUME NEW i \in DOMAIN t PROVE t[i] \in Queued'
      BY <1>4, <3>2, i \in DOMAIN queue' DEF Queued
    <3>3. x \in Queued'
      BY <1>4, Len(t) + 1 \in DOMAIN queue' DEF Queued
    <3> QED
      BY <3>1, <3>2, <3>3
  <2> QED
    BY <2>1, <2>2, <2>3, <1>3
<1>7. PlacesOK'
  BY <1>1, ConversationAssumption DEF Place, Actors, CallerPlaces, InRun, InStep
<1>8. \A y \in Actors : y \in Queued' <=> pc'[y] \notin Outside
  <2>1. x \in Queued
    BY <1>2 DEF Queued
  <2> QED
    BY <1>1, <1>6, <2>1 DEF Still, Outside
<1>9. \A y \in Actors : ~Stepping(y)'
  BY <1>1, <1>2 DEF Still, Stepping, InStep, HasLock
<1> QED
  BY <1>4, <1>5, <1>7, <1>8, <1>9

(* An actor moves, and neither gains nor loses a place in the queue. *)
LEMMA MoveKeeps ==
  ASSUME LockInv, NEW x \in Actors, NEW w \in Place(x),
         w \in Outside <=> pc[x] \in Outside,
         w \in InStep => HasLock(x),
         pc' = [pc EXCEPT ![x] = w], queue' = queue
  PROVE  LockInv'
<1> USE DEF LockInv, QueueMatchesActors, PlacesOK, Outside
<1>1. PlacesOK'
  BY ConversationAssumption DEF Place, Actors, CallerPlaces, InRun, InStep
<1>2. \A y \in Actors : y \in Queued' <=> pc'[y] \notin Outside
  BY DEF Outside, Queued
<1>3. \A y \in Actors : Stepping(y)' => HasLock(y)'
  BY DEF Stepping, HasLock
<1> QED
  BY <1>1, <1>2, <1>3

(* Nothing happens to the lock. *)
LEMMA SameKeeps == LockInv /\ UNCHANGED <<queue, pc>> => LockInv'
  BY DEF LockInv, QueueMatchesActors, PlacesOK, Queued, Stepping, HasLock

(* RUNNING has its run as long as a run that leaves the loop, or an actor  *)
(* that is none, does not set or keep it.                                  *)
LEMMA HonestKeeps ==
  ASSUME LockInv, RunningIsHonest, NEW x \in Actors, NEW w,
         pc' = [pc EXCEPT ![x] = w],
         status' = "RUNNING" => \/ x \in Runs /\ w \in InRun
                                \/ status = "RUNNING" /\ (x \in Runs => pc[x] \notin InRun)
  PROVE  RunningIsHonest'
<1>1. CASE x \in Runs /\ w \in InRun
  BY <1>1 DEF RunningIsHonest, Tracked, LockInv, PlacesOK, Actors
<1>2. CASE status' = "RUNNING" /\ status = "RUNNING" /\ (x \in Runs => pc[x] \notin InRun)
  <2>1. PICK r \in Runs : pc[r] \in InRun
    BY <1>2 DEF RunningIsHonest, Tracked
  <2>2. pc'[r] = pc[r]
    BY <2>1, <1>2 DEF LockInv, PlacesOK, Actors
  <2> QED
    BY <2>1, <2>2 DEF RunningIsHonest, Tracked
<1> QED
  BY <1>1, <1>2 DEF RunningIsHonest

(* The iteration counts of the runs, when one actor moves and no iteration *)
(* ends.                                                                   *)
LEMMA CapKeeps ==
  ASSUME LockInv, CapInv, NEW x \in Actors, NEW w,
         pc' = [pc EXCEPT ![x] = w], iter' = iter,
         x \in Runs => /\ w \in InLoop => iter[x] < MaxIterations
                       /\ w = "idle" => iter[x] = 0
  PROVE  CapInv'
<1>1. \A r \in Runs : pc'[r] = IF r = x THEN w ELSE pc[r]
  BY DEF LockInv, PlacesOK, Actors
<1> QED
  BY <1>1 DEF CapInv

(* The end of an iteration, whatever the step made of the status. *)
LEMMA EndIterationKeeps ==
  ASSUME IInv, NEW r \in Runs, pc[r] \in InLoop, HasLock(r),
         NEW st \in Statuses, EndIteration(r, st)
  PROVE  LockInv' /\ CapInv' /\ status' \in Statuses /\ RunningIsHonest'
<1> DEFINE over == LoopOver(r, st)
<1>1. LockInv /\ CapInv /\ RunningIsHonest /\ r \in Actors
  BY DEF IInv, Actors
<1>2. /\ iter' = [iter EXCEPT ![r] = iter[r] + 1]
      /\ status' = StatusAfter(over, st)
      /\ over => Leave(r, "done")
      /\ ~over => Rejoin(r, "top")
  BY DEF EndIteration
<1>3. iter[r] \in Nat /\ iter[r] < MaxIterations /\ MaxIterations \in Nat
  BY <1>1, ConversationAssumption DEF CapInv
<1>4. status' \in Statuses
  BY <1>2 DEF StatusAfter, Statuses
<1>5. CASE over
  <2>1. Leave(r, "done") /\ pc' = [pc EXCEPT ![r] = "done"]
    BY <1>2, <1>5 DEF Leave
  <2>2. LockInv'
    BY <1>1, <2>1, LeaveKeeps DEF Outside, Place
  <2>3. \A u \in Runs : pc'[u] = IF u = r THEN "done" ELSE pc[u]
    BY <1>1, <2>1 DEF LockInv, PlacesOK, Actors
  <2>4. CapInv'
    BY <1>1, <1>2, <1>3, <2>3 DEF CapInv, InLoop, InStep
  <2>5. status' # "RUNNING"
    BY <1>2, <1>5 DEF StatusAfter, LoopOver
  <2> QED
    BY <1>4, <2>2, <2>4, <2>5 DEF RunningIsHonest
<1>6. CASE ~over
  <2>1. Rejoin(r, "top") /\ pc' = [pc EXCEPT ![r] = "top"]
    BY <1>2, <1>6 DEF Rejoin
  <2>2. LockInv'
    BY <1>1, <2>1, RejoinKeeps DEF Still, Place, InRun
  <2>3. \A u \in Runs : pc'[u] = IF u = r THEN "top" ELSE pc[u]
    BY <1>1, <2>1 DEF LockInv, PlacesOK, Actors
  <2>4. iter[r] + 1 < MaxIterations
    BY <1>3, <1>6 DEF LoopOver, Capped
  <2>5. CapInv'
    BY <1>1, <1>2, <1>3, <2>3, <2>4 DEF CapInv, InLoop, InStep
  <2>6. RunningIsHonest'
    BY <1>1, <2>1, HonestKeeps DEF InRun
  <2> QED
    BY <1>4, <2>2, <2>5, <2>6
<1> QED
  BY <1>5, <1>6

(* Who is in a step of the agent has the lock.                             *)
LEMMA SteppingHasLock ==
  ASSUME IInv, NEW x \in Actors, Stepping(x)
  PROVE  HasLock(x) /\ pc[x] \in InStep /\ pc[x] \in InLoop
BY DEF IInv, LockInv, QueueMatchesActors, Stepping, InLoop, InStep

(* The end of a step, of the loop or of condense().                        *)
LEMMA EndStepKeeps ==
  ASSUME IInv, NEW x \in Actors, HasLock(x), x \in Runs => pc[x] \in InLoop,
         NEW st \in Statuses, x \notin Runs => st # "RUNNING" \/ st = status,
         EndStep(x, st)
  PROVE  LockInv' /\ CapInv' /\ status' \in Statuses /\ RunningIsHonest'
<1>1. CASE x \in Runs
  BY <1>1, EndIterationKeeps DEF EndStep
<1>2. CASE x \notin Runs
  <2>1. /\ Leave(x, "idle") /\ pc' = [pc EXCEPT ![x] = "idle"]
        /\ status' = st /\ iter' = iter
    BY <1>2 DEF EndStep, Leave
  <2>2. LockInv'
    BY <1>2, <2>1, LeaveKeeps DEF IInv, Outside, Place, CallerPlaces
  <2>3. CapInv'
    BY <1>2, <2>1, CapKeeps DEF IInv
  <2>4. RunningIsHonest'
    BY <1>2, <2>1, HonestKeeps DEF IInv
  <2> QED
    BY <2>1, <2>2, <2>3, <2>4
<1> QED
  BY <1>1, <1>2

(* A step raises.                                                          *)
LEMMA RaiseKeeps ==
  ASSUME IInv, NEW x \in Actors, HasLock(x), Stepping(x), Raise(x)
  PROVE  LockInv' /\ CapInv' /\ status' \in Statuses /\ RunningIsHonest'
<1>1. IInv /\ status' = status /\ iter' = iter
  BY DEF Raise
<1>2. CASE x \in Runs
  <2>1. Rejoin(x, "raised") /\ pc' = [pc EXCEPT ![x] = "raised"]
    BY <1>2 DEF Raise, Rejoin
  <2>2. LockInv'
    BY <1>2, <2>1, RejoinKeeps DEF IInv, Still, Place, InRun
  <2>3. CapInv'
    BY <1>1, <1>2, <2>1, CapKeeps DEF IInv, InLoop, InStep
  <2>4. RunningIsHonest'
    BY <1>2, <2>1, HonestKeeps DEF IInv, InRun
  <2> QED
    BY <1>1, <2>2, <2>3, <2>4 DEF IInv, RestInv
<1>3. CASE x \notin Runs
  <2>1. Leave(x, "idle") /\ pc' = [pc EXCEPT ![x] = "idle"]
    BY <1>3 DEF Raise, Leave
  <2>2. LockInv'
    BY <1>3, <2>1, LeaveKeeps DEF IInv, Outside, Place, CallerPlaces
  <2>3. CapInv'
    BY <1>1, <1>3, <2>1, CapKeeps DEF IInv
  <2>4. RunningIsHonest'
    BY <1>1, <1>3, <2>1, HonestKeeps DEF IInv
  <2> QED
    BY <1>1, <2>2, <2>3, <2>4 DEF IInv, RestInv
<1> QED
  BY <1>2, <1>3

(* A step goes on, with the lock.                                          *)
LEMMA StepToKeeps ==
  ASSUME IInv, NEW x \in Actors, HasLock(x), pc[x] \notin Outside,
         x \in Runs => pc[x] \in InLoop,
         NEW w \in InStep, StepTo(x, w),
         x \notin Runs => status' = status
  PROVE  LockInv' /\ CapInv' /\ RunningIsHonest'
<1>1. pc' = [pc EXCEPT ![x] = w] /\ queue' = queue /\ iter' = iter
  BY DEF StepTo
<1>2. w \in Place(x) /\ w \notin Outside /\ w # "idle" /\ w \in InRun
  BY DEF Place, CallerPlaces, InRun, InStep, Outside
<1>3. LockInv'
  BY <1>1, <1>2, MoveKeeps DEF IInv
<1>4. CapInv'
  BY <1>1, <1>2, CapKeeps DEF IInv, CapInv
<1>5. RunningIsHonest'
  <2>1. IInv /\ LockInv /\ RunningIsHonest
    BY DEF IInv
  <2>2. x \in Runs \/ status' = status
    OBVIOUS
  <2> QED
    BY <1>1, <1>2, <2>1, <2>2, HonestKeeps
<1> QED
  BY <1>3, <1>4, <1>5
------------------------------------------------------------------------------
(* One lemma for each way in which a step of the agent begins or goes on.  *)

(* agent.step() or astep() up to where it first waits.                     *)
LEMMA StepKeeps == ASSUME IInv, NEW x \in Actors, Step(x) PROVE IInv'
<1>1. /\ HasLock(x) /\ pc[x] \in {"top", "condense"} /\ pc[x] \notin Outside
      /\ x \in Runs => pc[x] \in InLoop
  BY DEF Step, StepPending, StepBlocked, StepCondense, StepLLM, MayStep, InLoop, InStep, Outside,
     IInv, LockInv, PlacesOK, InRun, InStep
<1>2. /\ Resumed(x) \in Statuses
      /\ x \notin Runs => Resumed(x) = status
  BY ConversationAssumption
     DEF Resumed, IInv, RestInv, Statuses, LockInv, PlacesOK, CallerPlaces, InStep, Actors
<1>3. ASSUME NEW w \in InStep, StepTo(x, w), status' = Resumed(x), UNCHANGED log,
             unseen' \in BOOLEAN
      PROVE  IInv'
  <2>1. LockInv' /\ CapInv' /\ RunningIsHonest'
    BY <1>1, <1>2, <1>3, StepToKeeps
  <2> QED
    BY <1>2, <1>3, <2>1 DEF StepTo, IInv, LogInv, RestInv, log
<1>4. CASE StepBlocked(x)
  <2>1. EndStep(x, "FINISHED") /\ "FINISHED" \in Statuses
    BY <1>4 DEF StepBlocked, Statuses
  <2>2. LockInv' /\ CapInv' /\ status' \in Statuses /\ RunningIsHonest'
    BY <1>1, <2>1, EndStepKeeps
  <2> QED
    BY <1>4, <2>1, <2>2 DEF StepBlocked, EndStep, IInv, LogInv, RestInv, log
<1>5. CASE StepPending(x) \/ StepCondense(x) \/ StepLLM(x)
  <2>1. \E w \in InStep : StepTo(x, w)
    BY <1>5 DEF StepPending, StepCondense, StepLLM, InStep
  <2>2. status' = Resumed(x) /\ UNCHANGED log /\ unseen' \in BOOLEAN
    BY <1>5 DEF StepPending, StepCondense, StepLLM, IInv, RestInv
  <2> QED
    BY <1>3, <2>1, <2>2
<1> QED
  BY <1>4, <1>5 DEF Step

(* A summary or an answer of the LLM ends the step.                        *)
LEMMA AnswersKeep ==
  ASSUME IInv, NEW x \in Actors, Condensed(x) \/ LLMAnswers(x) PROVE IInv'
<1>1. HasLock(x) /\ pc[x] \in InLoop
  BY SteppingHasLock DEF Condensed, LLMAnswers, Stepping, InStep
<1>2. PICK st \in {"FINISHED", status} : EndStep(x, st)
  BY DEF Condensed, LLMAnswers
<1>3. st \in Statuses /\ (st # "RUNNING" \/ st = status)
  BY DEF IInv, RestInv, Statuses
<1>4. LockInv' /\ CapInv' /\ status' \in Statuses /\ RunningIsHonest'
  BY <1>1, <1>2, <1>3, EndStepKeeps
<1>5. /\ UNCHANGED <<issued, matched, finishes, unseen, cancel, stale>>
      /\ requested' \in BOOLEAN
  BY <1>2 DEF Condensed, LLMAnswers, EndStep, IInv, RestInv
<1> QED
  BY <1>4, <1>5 DEF IInv, LogInv, RestInv

(* The summary or the answer cannot be had.                                *)
LEMMA LLMRaisesKeeps == ASSUME IInv, NEW x \in Actors, LLMRaises(x) PROVE IInv'
<1>1. HasLock(x) /\ Stepping(x)
  BY SteppingHasLock DEF LLMRaises, Stepping, InStep
<1>2. LockInv' /\ CapInv' /\ status' \in Statuses /\ RunningIsHonest'
  BY <1>1, RaiseKeeps DEF LLMRaises
<1> QED
  BY <1>2 DEF IInv, LLMRaises, Raise, LogInv, RestInv, log

(* The LLM calls tools, which are run or wait for confirmation.            *)
LEMMA LLMCallsToolsKeeps ==
  ASSUME IInv, NEW x \in Actors, LLMCallsTools(x) PROVE IInv'
<1>1. /\ HasLock(x) /\ Stepping(x) /\ pc[x] \in InLoop /\ pc[x] \notin Outside
      /\ issued \in Nat
  BY SteppingHasLock DEF LLMCallsTools, Stepping, InStep, Outside, IInv, LogInv
<1>2. PICK n \in 1..(MaxActions - issued) :
        \E F \in SUBSET ((issued + 1)..(issued + n)) :
             /\ issued' = issued + n
             /\ finishes' = finishes \union F
             /\ \/ EndStep(x, "WAITING_FOR_CONFIRMATION")
                \/ StepTo(x, "tools") /\ UNCHANGED status
                \/ Raise(x)
  BY DEF LLMCallsTools
<1>3. PICK F \in SUBSET ((issued + 1)..(issued + n)) :
             /\ issued' = issued + n
             /\ finishes' = finishes \union F
             /\ \/ EndStep(x, "WAITING_FOR_CONFIRMATION")
                \/ StepTo(x, "tools") /\ UNCHANGED status
                \/ Raise(x)
  BY <1>2
<1>4. UNCHANGED <<matched, requested, unseen, cancel, stale>>
  BY <1>3 DEF LLMCallsTools, EndStep, StepTo, Raise
<1>5. LogInv'
  <2>1. /\ issued \in Nat /\ MaxActions \in Nat /\ n \in Nat
        /\ issued' = issued + n /\ issued' <= MaxActions
    BY <1>1, <1>2, <1>3, ConversationAssumption DEF IInv, LogInv
  <2>2. 1..issued \subseteq 1..issued' /\ F \subseteq 1..issued'
    BY <1>3, <2>1
  <2>3. matched' \union finishes' \subseteq 1..issued'
    BY <1>3, <1>4, <2>2 DEF IInv, LogInv
  <2>4. stale' \in [Callers -> SUBSET (1..issued')]
    <3>1. \A c \in Callers : stale[c] \subseteq 1..issued'
      BY <2>2 DEF IInv, LogInv
    <3>2. stale = [c \in Callers |-> stale[c]]
      BY DEF IInv, LogInv
    <3> QED
      BY <1>4, <3>1, <3>2
  <2>5. issued' \in 0..MaxActions
    BY <2>1
  <2> QED
    BY <2>3, <2>4, <2>5 DEF LogInv
<1>6. LockInv' /\ CapInv' /\ status' \in Statuses /\ RunningIsHonest'
  <2>1. CASE EndStep(x, "WAITING_FOR_CONFIRMATION")
    BY <1>1, <2>1, EndStepKeeps DEF Statuses
  <2>2. CASE StepTo(x, "tools") /\ UNCHANGED status
    BY <1>1, <2>2, StepToKeeps DEF InStep, IInv, RestInv
  <2>3. CASE Raise(x)
    BY <1>1, <2>3, RaiseKeeps
  <2> QED
    BY <1>3, <2>1, <2>2, <2>3
<1> QED
  BY <1>4, <1>5, <1>6 DEF IInv, RestInv

(* The tools return, and their results are emitted, or not all of them.    *)
LEMMA ToolsReturnKeeps == ASSUME IInv, NEW x \in Actors, ToolsReturn(x) PROVE IInv'
<1>1. HasLock(x) /\ Stepping(x) /\ pc[x] \in InLoop
  BY SteppingHasLock DEF ToolsReturn, Stepping, InStep
<1>2. Truncated(Unmatched, finishes) \subseteq 1..issued
  BY DEF Truncated, Unmatched
<1>3. matched' \subseteq matched \union 1..issued
  BY <1>2 DEF ToolsReturn
<1>4. Raise(x) \/ EndStep(x, status) \/ EndStep(x, "FINISHED")
  BY DEF ToolsReturn
<1>5. UNCHANGED <<issued, finishes, requested, unseen, cancel, stale>>
  BY <1>4 DEF ToolsReturn, EndStep, Raise
<1>6. LockInv' /\ CapInv' /\ status' \in Statuses /\ RunningIsHonest'
  <2>1. status \in Statuses /\ "FINISHED" \in Statuses
    BY DEF IInv, RestInv, Statuses
  <2> QED
    BY <1>1, <1>4, <2>1, EndStepKeeps, RaiseKeeps
<1> QED
  BY <1>3, <1>5, <1>6 DEF IInv, LogInv, RestInv
------------------------------------------------------------------------------
(* One lemma for each action of a run. *)
LEMMA StartRunKeeps == ASSUME IInv, NEW r \in Runs, StartRun(r) PROVE IInv'
<1> USE DEF IInv
<1>1. Join(r, "enter") /\ pc' = [pc EXCEPT ![r] = "enter"] /\ r \in Actors
      /\ pc[r] = "idle"
  BY DEF StartRun, Join, Actors
<1>2. LockInv'
  BY <1>1, JoinKeeps DEF Outside, Still, Place, InRun
<1>3. CapInv'
  BY <1>1, CapKeeps, ConversationAssumption DEF StartRun, CapInv
<1>4. RunningIsHonest'
  BY <1>1, HonestKeeps DEF InRun
<1> QED
  BY <1>2, <1>3, <1>4 DEF StartRun, LogInv, RestInv, log

(* arun() sets RUNNING, or finds a status that it leaves alone. *)
LEMMA EnterRunKeeps == ASSUME IInv, NEW r \in Runs, EnterRun(r) PROVE IInv'
<1> USE DEF IInv
<1>1. Rejoin(r, "top") /\ pc' = [pc EXCEPT ![r] = "top"] /\ r \in Actors
      /\ HasLock(r) /\ pc[r] = "enter"
  BY DEF EnterRun, Rejoin, Actors
<1>2. LockInv'
  BY <1>1, RejoinKeeps DEF Still, Place, InRun
<1>3. CapInv'
  BY <1>1, CapKeeps DEF EnterRun, CapInv, InLoop, InStep
<1>4. RunningIsHonest'
  BY <1>1, HonestKeeps DEF InRun
<1> QED
  BY <1>2, <1>3, <1>4 DEF EnterRun, LogInv, RestInv, log, Statuses

(* The loop finds a status that ends the run. *)
LEMMA BreakKeeps == ASSUME IInv, NEW r \in Runs, Break(r) PROVE IInv'
<1> USE DEF IInv
<1>1. Leave(r, "done") /\ pc' = [pc EXCEPT ![r] = "done"] /\ r \in Actors
      /\ HasLock(r)
  BY DEF Break, AtTop, Leave, Actors
<1>2. LockInv'
  BY <1>1, LeaveKeeps DEF Outside, Place
<1>3. CapInv'
  BY <1>1, CapKeeps DEF Break, InLoop, InStep
<1>4. RunningIsHonest'
  BY DEF RunningIsHonest, Break
<1> QED
  BY <1>2, <1>3, <1>4 DEF Break, LogInv, RestInv, log

(* A hook denies the stop, or the agent is stuck. *)
LEMMA BackToTopKeeps ==
  ASSUME IInv, NEW r \in Runs, StopDenied(r) \/ DetectStuck(r) PROVE IInv'
<1> USE DEF IInv
<1>1. Rejoin(r, "top") /\ pc' = [pc EXCEPT ![r] = "top"] /\ r \in Actors
      /\ HasLock(r) /\ pc[r] = "top"
  BY DEF StopDenied, DetectStuck, AtTop, Rejoin, Actors
<1>2. LockInv'
  BY <1>1, RejoinKeeps DEF Still, Place, InRun
<1>3. CapInv'
  BY <1>1, CapKeeps DEF StopDenied, DetectStuck, CapInv, InLoop, InStep
<1>4. RunningIsHonest'
  BY <1>1, HonestKeeps DEF InRun
<1> QED
  BY <1>2, <1>3, <1>4 DEF StopDenied, DetectStuck, LogInv, RestInv, log, Statuses

(* The two except clauses of arun(). *)
LEMMA HandlersKeep ==
  ASSUME IInv, NEW r \in Runs, HandleError(r) \/ HandleCancel(r) PROVE IInv'
<1> USE DEF IInv
<1>1. Leave(r, "done") /\ pc' = [pc EXCEPT ![r] = "done"] /\ r \in Actors
      /\ HasLock(r) /\ iter' = iter
  BY DEF HandleError, HandleCancel, Leave, Actors
<1>2. LockInv'
  BY <1>1, LeaveKeeps DEF Outside, Place
<1>3. CapInv'
  BY <1>1, CapKeeps DEF InLoop, InStep
<1>4. status' \in {"ERROR", "PAUSED"}
  BY DEF HandleError, HandleCancel
<1>5. LogInv'
  <2>1. CASE HandleError(r)
    BY <2>1 DEF HandleError, LogInv, log
  <2>2. CASE HandleCancel(r)
    <3>1. matched' \subseteq 1..issued
      BY <2>2 DEF HandleCancel, OrphansAnswered, Unmatched, LogInv
    <3> QED
      BY <2>2, <3>1 DEF HandleCancel, LogInv
  <2> QED
    BY <2>1, <2>2
<1>6. RestInv' /\ RunningIsHonest'
  <2>1. UNCHANGED <<requested, unseen, cancel>>
    BY DEF HandleError, HandleCancel, log
  <2> QED
    BY <1>4, <2>1 DEF RestInv, Statuses, RunningIsHonest
<1> QED
  BY <1>2, <1>3, <1>5, <1>6

(* CancelledError reaches the run at an await. *)
LEMMA CancelLandsKeeps == ASSUME IInv, NEW r \in Runs, CancelLands(r) PROVE IInv'
<1> USE DEF IInv
<1>1. Rejoin(r, "cancelled") /\ pc' = [pc EXCEPT ![r] = "cancelled"] /\ r \in Actors
      /\ HasLock(r)
  BY SteppingHasLock DEF CancelLands, Awaiting, Rejoin, Actors
<1>2. LockInv'
  BY <1>1, RejoinKeeps DEF Still, Place, InRun
<1>3. CapInv'
  BY <1>1, CapKeeps DEF CancelLands, InLoop, InStep
<1>4. RunningIsHonest'
  BY <1>1, HonestKeeps DEF InRun
<1> QED
  BY <1>2, <1>3, <1>4 DEF CancelLands, LogInv, RestInv, log

(* arun() returns. *)
LEMMA EndRunKeeps == ASSUME IInv, NEW r \in Runs, EndRun(r) PROVE IInv'
<1> USE DEF IInv
<1>1. pc' = [pc EXCEPT ![r] = "idle"] /\ queue' = queue /\ pc[r] = "done"
      /\ r \in Actors /\ iter' = [iter EXCEPT ![r] = 0]
  BY DEF EndRun, Actors
<1>2. LockInv'
  BY <1>1, MoveKeeps DEF Outside, Place, InStep
<1>3. \A u \in Runs : pc'[u] = IF u = r THEN "idle" ELSE pc[u]
  BY <1>1 DEF LockInv, PlacesOK, Actors
<1>4. CapInv'
  BY <1>1, <1>3, ConversationAssumption DEF CapInv, InLoop, InStep
<1>5. RunningIsHonest'
  BY <1>1, HonestKeeps DEF EndRun, InRun, InStep
<1> QED
  BY <1>2, <1>4, <1>5 DEF EndRun, LogInv, RestInv, log
------------------------------------------------------------------------------
(* The callers: they ask for the lock, or have done their work with it. *)
LEMMA AskKeeps ==
  ASSUME IInv, NEW c \in Callers, pc[c] \in {"idle", "read", "requested"},
         NEW op \in {"message", "pause", "reject", "condense"},
         Ask(c, op), UNCHANGED stale
  PROVE  IInv'
<1> USE DEF IInv
<1>1. Join(c, op) /\ pc' = [pc EXCEPT ![c] = op] /\ c \in Actors /\ c \notin Runs
  BY ConversationAssumption DEF Ask, Join, Actors
<1>2. LockInv'
  BY <1>1, JoinKeeps DEF Outside, Still, Place, CallerPlaces
<1>3. CapInv'
  BY <1>1, CapKeeps DEF Ask
<1>4. RunningIsHonest'
  BY <1>1, HonestKeeps DEF Ask
<1> QED
  BY <1>2, <1>3, <1>4 DEF Ask, LogInv, RestInv, log

(* A caller that has done its work releases the lock. *)
LEMMA FinishKeeps ==
  ASSUME IInv, NEW c \in Callers, HasLock(c), Finish(c),
         status' = "RUNNING" => status = "RUNNING"
  PROVE  LockInv' /\ CapInv' /\ RunningIsHonest' /\ cancel' = cancel
<1> USE DEF IInv
<1>1. Leave(c, "idle") /\ pc' = [pc EXCEPT ![c] = "idle"] /\ c \in Actors
      /\ c \notin Runs /\ iter' = iter /\ cancel' = cancel
  BY ConversationAssumption DEF Finish, Leave, Actors
<1>2. LockInv'
  BY <1>1, LeaveKeeps DEF Outside, Place, CallerPlaces
<1>3. CapInv'
  BY <1>1, CapKeeps
<1>4. RunningIsHonest'
  BY <1>1, HonestKeeps
<1> QED
  BY <1>1, <1>2, <1>3, <1>4

(* A caller does its work with the lock. *)
LEMMA ServeKeeps == ASSUME IInv, NEW c \in Callers, Serve(c) PROVE IInv'
<1> USE DEF IInv
<1>1. CASE SendMessage(c)
  <2>1. LockInv' /\ CapInv' /\ RunningIsHonest' /\ cancel' = cancel
    BY <1>1, FinishKeeps DEF SendMessage, Serving
  <2> QED
    BY <1>1, <2>1 DEF SendMessage, LogInv, RestInv, log, Statuses
<1>2. CASE Pause(c)
  <2>1. LockInv' /\ CapInv' /\ RunningIsHonest' /\ cancel' = cancel
    BY <1>2, FinishKeeps DEF Pause, Serving
  <2> QED
    BY <1>2, <2>1 DEF Pause, LogInv, RestInv, log, Statuses
<1>3. CASE AskReject(c)
  BY <1>3, AskKeeps DEF AskReject
<1>4. CASE Reject(c)
  <2>1. LockInv' /\ CapInv' /\ RunningIsHonest' /\ cancel' = cancel
    BY <1>4, FinishKeeps DEF Reject, Serving
  <2>2. LogInv'
    BY <1>4 DEF Reject, LogInv
  <2> QED
    BY <1>4, <2>1, <2>2 DEF Reject, RestInv, Statuses
<1>5. CASE AskCondense(c)
  BY <1>5, AskKeeps DEF AskCondense
<1>6. CASE Step(c)
  BY <1>6, StepKeeps DEF Actors
<1> QED
  BY <1>1, <1>2, <1>3, <1>4, <1>5, <1>6 DEF Serve

(* A caller calls. *)
LEMMA CallKeeps == ASSUME IInv, NEW c \in Callers, Call(c) PROVE IInv'
<1> USE DEF IInv
<1>1. pc[c] = "idle" /\ c \in Actors /\ c \notin Runs
  BY ConversationAssumption
     DEF Call, AskMessage, CallPause, Interrupt, ReadPending, RequestCondensation, Calls,
         Actors
<1>2. CASE AskMessage(c)
  BY <1>1, <1>2, AskKeeps DEF AskMessage
<1>3. CASE AskPause(c)
  <2>1. CASE UNCHANGED vars
    BY <2>1, SameKeeps
       DEF vars, CapInv, LogInv, RestInv, RunningIsHonest, Tracked, log
  <2> QED
    BY <1>1, <1>3, <2>1, AskKeeps DEF AskPause
<1>4. CASE Interrupt(c) /\ ~AskPause(c)
  <2>1. PICK r \in Runs : CancelRun(r)
    BY <1>4 DEF Interrupt
  <2>2. UNCHANGED <<status, queue, pc, iter, issued, matched, finishes, requested, unseen,
                    stale>>
    BY <1>4 DEF Interrupt, log
  <2>3. LockInv'
    BY <2>2, SameKeeps
  <2> QED
    BY <2>1, <2>2, <2>3 DEF CancelRun, CapInv, LogInv, RestInv, RunningIsHonest, Tracked
<1>5. CASE ReadPending(c)
  <2>1. /\ pc' = [pc EXCEPT ![c] = "read"]
        /\ stale' = [stale EXCEPT ![c] = Unmatched]
        /\ UNCHANGED <<status, queue, iter, issued, matched, finishes, requested, unseen,
                       cancel>>
    BY <1>5 DEF ReadPending, log
  <2>2. LockInv'
    BY <1>1, <2>1, MoveKeeps DEF Outside, Place, CallerPlaces, InStep
  <2>3. CapInv'
    BY <1>1, <2>1, CapKeeps
  <2>4. RunningIsHonest'
    BY <1>1, <2>1, HonestKeeps
  <2>5. LogInv'
    BY <2>1 DEF LogInv, Unmatched
  <2> QED
    BY <2>1, <2>2, <2>3, <2>4, <2>5 DEF RestInv
<1>6. CASE RequestCondensation(c)
  <2>1. /\ pc' = [pc EXCEPT ![c] = "requested"] /\ requested' = TRUE
        /\ UNCHANGED <<status, queue, iter, issued, matched, finishes, unseen, cancel, stale>>
    BY <1>6 DEF RequestCondensation
  <2>2. LockInv'
    BY <1>1, <2>1, MoveKeeps DEF Outside, Place, CallerPlaces, InStep
  <2>3. CapInv'
    BY <1>1, <2>1, CapKeeps
  <2>4. RunningIsHonest'
    BY <1>1, <2>1, HonestKeeps
  <2> QED
    BY <2>1, <2>2, <2>3, <2>4 DEF LogInv, RestInv
<1> QED
  BY <1>2, <1>3, <1>4, <1>5, <1>6 DEF Call, CallPause
------------------------------------------------------------------------------
(* IInv holds at first. *)
LEMMA InitIInv == Init => IInv
<1> SUFFICES ASSUME Init PROVE IInv
  OBVIOUS
<1>1. LockInv
  BY DEF Init, LockInv, PlacesOK, QueueMatchesActors, Queued, CallerPlaces, Stepping, InStep,
         Actors
<1>2. CapInv
  BY ConversationAssumption DEF Init, CapInv, Actors, InLoop, InStep
<1>3. LogInv
  <2>1. issued \in 0..MaxActions
    BY ConversationAssumption DEF Init
  <2>2. stale \in [Callers -> SUBSET (1..issued)]
    BY DEF Init
  <2>3. matched \union finishes \subseteq 1..issued
    BY DEF Init
  <2> QED
    BY <2>1, <2>2, <2>3 DEF LogInv
<1>4. RestInv
  BY DEF Init, RestInv, Statuses
<1>5. RunningIsHonest
  BY DEF Init, RunningIsHonest
<1> QED
  BY <1>1, <1>2, <1>3, <1>4, <1>5 DEF IInv

(* Every step preserves IInv. *)
LEMMA NextIInv == IInv /\ [Next]_vars => IInv'
<1> SUFFICES ASSUME IInv, [Next]_vars PROVE IInv'
  OBVIOUS
<1>1. CASE UNCHANGED vars
  <2>1. LockInv'
    BY <1>1, SameKeeps DEF IInv, vars
  <2> QED
    BY <1>1, <2>1 DEF vars, IInv, CapInv, LogInv, RestInv, RunningIsHonest, Tracked, log
<1>2. ASSUME NEW c \in Callers, Call(c) \/ Serve(c) PROVE IInv'
  BY <1>2, CallKeeps, ServeKeeps
<1>3. ASSUME NEW r \in Runs, StartRun(r) PROVE IInv'
  BY <1>3, StartRunKeeps
<1>4. ASSUME NEW r \in Runs, Advance(r) PROVE IInv'
  BY <1>4, EnterRunKeeps, BreakKeeps, BackToTopKeeps, StepKeeps, HandlersKeep,
     CancelLandsKeeps, EndRunKeeps DEF Advance, Actors
<1>5. ASSUME NEW x \in Actors, Respond(x) PROVE IInv'
  BY <1>5, AnswersKeep, LLMRaisesKeeps, LLMCallsToolsKeeps, ToolsReturnKeeps DEF Respond
<1> QED
  BY <1>1, <1>2, <1>3, <1>4, <1>5 DEF Next

(* IInv is an invariant of the conversation. *)
LEMMA Invariance == Spec => []IInv
BY InitIInv, NextIInv, PTL DEF Spec

(* The types, and that no iteration goes beyond max_iteration_per_run. *)
THEOREM TypeCorrect == Spec => []TypeOK
<1>1. IInv => TypeOK
  BY DEF IInv, LockInv, PlacesOK, CapInv, LogInv, RestInv, TypeOK, CallerPlaces,
         InRun, InStep
<1> QED
  BY <1>1, Invariance, PTL

(* The state lock: it is asked for and held by those who wait or work, and *)
(* a run that awaits the LLM or the tools has it.                          *)
THEOREM QueueCorrect == Spec => []QueueMatchesActors
<1>1. IInv => QueueMatchesActors
  BY DEF IInv, LockInv
<1> QED
  BY <1>1, Invariance, PTL

(* RUNNING is never left behind by a run that ends. *)
THEOREM RunningCorrect == Spec => []RunningIsHonest
<1>1. IInv => RunningIsHonest
  BY DEF IInv
<1> QED
  BY <1>1, Invariance, PTL
------------------------------------------------------------------------------
(***************************************************************************)
(* ConversationCrash and ConversationHistory for any callers and bounds:   *)
(* what a restart finds, and, for a conversation with one run at a time,   *)
(* how often a tool is executed, whether it waited for the user, and how   *)
(* long a thread waits for the lock.  condense() may be called at any time.*)
(***************************************************************************)

\* EventService lets one run of arun() through at a time.
OneLoop == \A r, u \in Runs : r = u

\* Where an actor is that has not asked for the lock.
Nowhere == {"idle", "read", "requested"}
------------------------------------------------------------------------------
(* What a step does to the queue and to the places of the actors           *)

(* A step of the agent begins and ends with the lock, and goes on, ends or *)
(* raises.                                                                 *)
LEMMA StepEffects ==
  ASSUME IInv, NEW x \in Actors, Step(x) \/ Respond(x)
  PROVE  /\ HasLock(x)
         /\ \/ \E w \in InStep : StepTo(x, w)
            \/ \E st \in Statuses : EndStep(x, st)
            \/ Raise(x)
<1>1. CASE Step(x)
  <2>1. HasLock(x)
    BY <1>1 DEF Step, StepPending, StepBlocked, StepCondense, StepLLM, MayStep
  <2>2. (\E w \in InStep : StepTo(x, w)) \/ EndStep(x, "FINISHED")
    BY <1>1 DEF Step, StepPending, StepBlocked, StepCondense, StepLLM, InStep
  <2> QED
    BY <2>1, <2>2 DEF Statuses
<1>2. CASE Respond(x)
  <2>1. HasLock(x)
    BY <1>2, SteppingHasLock
       DEF Respond, Condensed, LLMAnswers, LLMRaises, LLMCallsTools, ToolsReturn, Stepping,
           InStep
  <2>2. \/ \E st \in {"FINISHED", "WAITING_FOR_CONFIRMATION", status} : EndStep(x, st)
        \/ StepTo(x, "tools")
        \/ Raise(x)
    BY <1>2 DEF Respond, Condensed, LLMAnswers, LLMRaises, LLMCallsTools, ToolsReturn
  <2>3. {"FINISHED", "WAITING_FOR_CONFIRMATION", status} \subseteq Statuses
    BY DEF IInv, RestInv, Statuses
  <2> QED
    BY <2>1, <2>2, <2>3 DEF InStep
<1> QED
  BY <1>1, <1>2

(* A caller asks, or leaves, or stays where it is in the queue.            *)
LEMMA CallerEffects ==
  ASSUME IInv, NEW c \in Callers, Call(c) \/ Serve(c) \/ Respond(c)
  PROVE  /\ \A y \in Actors \ {c} : pc'[y] = pc[y]
         /\ \/ queue' = queue
            \/ queue' = Append(queue, c) /\ pc[c] \in Nowhere
            \/ queue' = Tail(queue) /\ HasLock(c) /\ pc'[c] = "idle"
         /\ iter' = iter
<1>1. c \in Actors /\ c \notin Runs /\ \A y \in Actors : y \in DOMAIN pc
  BY ConversationAssumption DEF IInv, LockInv, PlacesOK, Actors
<1>2. CASE UNCHANGED <<pc, queue, iter>>
  BY <1>2
<1>3. ASSUME NEW op, Ask(c, op), pc[c] \in Nowhere
      PROVE  pc' = [pc EXCEPT ![c] = op] /\ queue' = Append(queue, c) /\ iter' = iter
  BY <1>3 DEF Ask, Join
<1>4. CASE Call(c) \/ AskReject(c) \/ AskCondense(c)
  <2>1. pc[c] \in Nowhere
    BY <1>4 DEF Call, AskMessage, CallPause, Interrupt, ReadPending, RequestCondensation,
       Calls, AskReject, AskCondense, Nowhere
  <2>2. \/ UNCHANGED <<pc, queue, iter>>
        \/ \E op : Ask(c, op)
        \/ UNCHANGED <<queue, iter>> /\ \E w : pc' = [pc EXCEPT ![c] = w]
    BY <1>4 DEF Call, AskMessage, CallPause, AskPause, Interrupt, ReadPending,
       RequestCondensation, AskReject, AskCondense, vars
  <2> QED
    BY <1>1, <1>3, <2>1, <2>2
<1>5. CASE SendMessage(c) \/ Pause(c) \/ Reject(c)
  <2>1. Finish(c) /\ HasLock(c)
    BY <1>5 DEF SendMessage, Pause, Reject, Serving
  <2> QED
    BY <1>1, <2>1 DEF Finish, Leave
<1>6. CASE Step(c) \/ Respond(c)
  <2>1. HasLock(c)
    BY <1>1, <1>6, StepEffects
  <2>2. \/ \E w \in InStep : StepTo(c, w)
        \/ \E st \in Statuses : EndStep(c, st)
        \/ Raise(c)
    BY <1>1, <1>6, StepEffects
  <2> QED
    BY <1>1, <2>1, <2>2 DEF StepTo, EndStep, Raise, Leave
<1> QED
  BY <1>4, <1>5, <1>6 DEF Serve

(* A run asks for the lock, releases it with or without asking again, or   *)
(* is in a step afterwards.                                                *)
LEMMA RunEffects ==
  ASSUME IInv, NEW r \in Runs, StartRun(r) \/ Advance(r) \/ Respond(r)
  PROVE  /\ \A y \in Actors \ {r} : pc'[y] = pc[y]
         /\ \/ queue' = Append(queue, r) /\ pc[r] = "idle"
            \/ queue' = Tail(queue) /\ HasLock(r)
            \/ queue' = Append(Tail(queue), r) /\ HasLock(r)
            \/ queue' = queue /\ pc[r] = "done"
            \/ queue' = queue /\ HasLock(r) /\ Stepping(r)'
<1>1. r \in Actors /\ \A y \in Actors : y \in DOMAIN pc
  BY DEF IInv, LockInv, PlacesOK, Actors
<1>2. CASE StartRun(r) \/ EndRun(r)
  BY <1>1, <1>2 DEF StartRun, EndRun, Join
<1>3. CASE Break(r) \/ HandleError(r) \/ HandleCancel(r)
  BY <1>1, <1>3 DEF Break, AtTop, HandleError, HandleCancel, Leave
<1>4. CASE EnterRun(r) \/ StopDenied(r) \/ DetectStuck(r) \/ CancelLands(r)
  <2>1. HasLock(r)
    BY <1>1, <1>4, SteppingHasLock
       DEF EnterRun, StopDenied, DetectStuck, AtTop, CancelLands, Awaiting
  <2> QED
    BY <1>1, <1>4, <2>1 DEF EnterRun, StopDenied, DetectStuck, CancelLands, Rejoin
<1>5. CASE Step(r) \/ Respond(r)
  <2>1. HasLock(r)
    BY <1>1, <1>5, StepEffects
  <2>2. \/ \E w \in InStep : StepTo(r, w)
        \/ \E st \in Statuses : EndStep(r, st)
        \/ Raise(r)
    BY <1>1, <1>5, StepEffects
  <2>3. ASSUME NEW w \in InStep, StepTo(r, w)
        PROVE  queue' = queue /\ Stepping(r)' /\ \A y \in Actors \ {r} : pc'[y] = pc[y]
    BY <1>1, <2>3 DEF StepTo, Stepping
  <2>4. ASSUME NEW st \in Statuses, EndStep(r, st)
        PROVE  /\ queue' = Tail(queue) \/ queue' = Append(Tail(queue), r)
               /\ \A y \in Actors \ {r} : pc'[y] = pc[y]
    BY <1>1, <2>4 DEF EndStep, EndIteration, Leave, Rejoin
  <2>5. CASE Raise(r)
    BY <1>1, <2>1, <2>5 DEF Raise, Rejoin
  <2> QED
    BY <2>1, <2>2, <2>3, <2>4, <2>5
<1> QED
  BY <1>2, <1>3, <1>4, <1>5 DEF Advance

(* Every step is a step of a caller or of a run.                           *)
LEMMA NextIsOf ==
  ASSUME Next
  PROVE  \/ \E c \in Callers : Call(c) \/ Serve(c) \/ Respond(c)
         \/ \E r \in Runs : StartRun(r) \/ Advance(r) \/ Respond(r)
BY DEF Next, Actors
------------------------------------------------------------------------------
(* The process may crash                                                   *)

CrashInv == /\ IInv
            /\ saved \in Statuses
            /\ crashes \in 0..MaxCrashes
            /\ RestartCanRun

(* A restart finds nobody at work and no lock.                             *)
LEMMA CrashKeeps == ASSUME CrashInv, Crash PROVE CrashInv'
<1>1. LockInv'
  BY DEF Crash, LockInv, PlacesOK, QueueMatchesActors, Queued, CallerPlaces, Stepping,
     InStep, Actors
<1>2. CapInv'
  BY ConversationAssumption DEF Crash, CapInv, Actors, InLoop, InStep
<1>3. LogInv'
  BY DEF Crash, CrashInv, IInv, LogInv, Surfaced, Unmatched
<1>4. status' \in Statuses \ {"RUNNING"} /\ saved' = status'
  BY DEF Crash, CrashInv, Loaded, Statuses
<1>5. RestInv'
  BY <1>4 DEF Crash, CrashInv, IInv, RestInv
<1>6. RunningIsHonest' /\ RestartCanRun'
  BY <1>4 DEF RunningIsHonest, RestartCanRun
<1>7. crashes' \in 0..MaxCrashes
  BY CrashAssumption DEF Crash, CrashInv
<1> QED
  BY <1>1, <1>2, <1>3, <1>4, <1>5, <1>6, <1>7 DEF CrashInv, IInv

(* Only who has the lock ends a run, so none ends during another's step.   *)
LEMMA TrackedStays ==
  ASSUME IInv, Next, NEW r \in Runs, Tracked(r), NEW c \in Callers, Stepping(c)'
  PROVE  Tracked(r)'
<1>1. /\ r # c /\ r \in Actors /\ c \in Actors
  BY ConversationAssumption DEF Actors
<1>2. ASSUME NEW u \in Runs, StartRun(u) \/ Advance(u) \/ Respond(u) PROVE Tracked(r)'
  <2>1. \A y \in Actors \ {u} : pc'[y] = pc[y]
    BY <1>2, RunEffects
  <2>2. CASE u # r
    BY <1>1, <2>1, <2>2 DEF Tracked
  <2>3. CASE u = r
    <3>1. HasLock(c)
      BY <1>1, <2>1, <2>3, SteppingHasLock DEF Stepping
    <3>2. ~HasLock(r)
      BY <1>1, <3>1 DEF HasLock
    <3>3. pc[r] \in {"idle", "done"}
      BY <1>2, <2>3, <3>2, RunEffects
    <3> QED
      BY <3>3 DEF Tracked, InRun, InStep
  <2> QED
    BY <2>2, <2>3
<1>3. ASSUME NEW d \in Callers, Call(d) \/ Serve(d) \/ Respond(d) PROVE Tracked(r)'
  <2>1. \A y \in Actors \ {d} : pc'[y] = pc[y]
    BY <1>3, CallerEffects
  <2>2. r \in Actors \ {d}
    BY <1>1, ConversationAssumption
  <2> QED
    BY <2>1, <2>2 DEF Tracked
<1> QED
  BY <1>2, <1>3, NextIsOf

(* What is on disk is an older status only while somebody is in a step.    *)
LEMMA LiveKeeps == ASSUME CrashInv, Live PROVE CrashInv'
<1>1. IInv' /\ IInv /\ Next
  BY NextIInv DEF Live, CrashInv
<1>2. \/ \E x \in Actors : Stepping(x)' /\ saved' = saved
      \/ saved' = status'
  BY DEF Live, Save
<1>3. RestartCanRun'
  <2>1. CASE saved' = status'
    BY <1>1, <2>1 DEF RestartCanRun, IInv, RunningIsHonest
  <2>2. ASSUME NEW r \in Runs, Stepping(r)' PROVE RestartCanRun'
    <3>1. Tracked(r)'
      BY <2>2 DEF Stepping, Tracked, InRun
    <3> QED
      BY <1>1, <3>1 DEF RestartCanRun, IInv
  <2>3. ASSUME NEW c \in Callers, Stepping(c)', saved' = saved, saved = "RUNNING"
        PROVE  RestartCanRun'
    <3>1. PICK r \in Runs : Tracked(r)
      BY <2>3 DEF CrashInv, RestartCanRun
    <3>2. Tracked(r)'
      BY <1>1, <2>3, <3>1, TrackedStays
    <3> QED
      BY <1>1, <3>2 DEF RestartCanRun, IInv
  <2>4. CASE saved' # "RUNNING"
    BY <1>1, <2>4 DEF RestartCanRun, IInv
  <2> QED
    BY <1>2, <2>1, <2>2, <2>3, <2>4 DEF Actors
<1> QED
  BY <1>1, <1>2, <1>3 DEF CrashInv, Live, IInv, RestInv

(* CrashInv is an invariant of the conversation that may crash.            *)
LEMMA CrashInvariance == CSpec => []CrashInv
<1>1. CInit => CrashInv
  BY InitIInv, CrashAssumption DEF CInit, CrashInv, Statuses, RestartCanRun, IInv
<1>2. CrashInv /\ [CNext]_cvars => CrashInv'
  <2> SUFFICES ASSUME CrashInv, [CNext]_cvars PROVE CrashInv'
    OBVIOUS
  <2>1. CASE UNCHANGED cvars
    <3>1. IInv'
      BY <2>1, NextIInv DEF CrashInv, cvars
    <3> QED
      BY <2>1, <3>1 DEF CrashInv, cvars, vars, RestartCanRun, RunningIsHonest, Tracked
  <2>2. CASE CNext
    BY <2>2, CrashKeeps, LiveKeeps DEF CNext
  <2> QED
    BY <2>1, <2>2
<1> QED
  BY <1>1, <1>2, PTL DEF CSpec

(* Neither in memory nor on disk does a crash leave RUNNING behind, with   *)
(* which EventService.run() would refuse every further run.                *)
THEOREM RestartCorrect == CSpec => []RestartCanRun
<1>1. CrashInv => RestartCanRun
  BY DEF CrashInv
<1> QED
  BY <1>1, CrashInvariance, PTL

(* The history variables only watch.                                       *)
LEMMA HistoryWatches == HSpec => CSpec
<1>1. HInit => CInit
  BY DEF HInit
<1>2. [CNext /\ Record]_hvars => [CNext]_cvars
  BY DEF hvars
<1> QED
  BY <1>1, <1>2, PTL DEF HSpec, CSpec
------------------------------------------------------------------------------
(* What the step of an actor does to the log                               *)

LogStill == UNCHANGED <<issued, matched, finishes>>
Asks == status' = "WAITING_FOR_CONFIRMATION" /\ status # status'

\* The step is x's: nobody else moves, and the log changes under the lock.
Moves(x) ==
  /\ \A y \in Actors \ {x} : pc'[y] = pc[y]
  /\ matched \subseteq matched' /\ 1..issued \subseteq 1..issued'
  /\ HasLock(x) \/ LogStill
  /\ pc[x] = "cancelled" => pc'[x] = "cancelled" \/ 1..issued \subseteq matched'
  /\ pc[x] = "tools" => \/ x \in Runs /\ pc'[x] = "cancelled" /\ LogStill
                        \/ ToolsFail(x)
                        \/ Truncated(Unmatched, finishes) \subseteq matched'
  /\ ToolsBegin(x) => /\ HasLock(x)
                      /\ pc[x] \in {"top", "condense", "llm"}
                      /\ matched' = matched
  /\ Asks => HasLock(x) /\ (x \in Runs => pc'[x] = "done")
  /\ x \in Runs /\ pc[x] \in {"idle", "done"} =>
       pc'[x] \in {"idle", "done"} \/ RunStarts(x)

(* The end of a step leaves a run at the top or done, and reports a wait   *)
(* for the user only if it ends with it.                                   *)
LEMMA EndStepMoves ==
  ASSUME IInv, NEW x \in Actors, NEW st, EndStep(x, st)
  PROVE  /\ pc'[x] \in {"top", "done", "idle"}
         /\ x \in Runs => pc'[x] # "idle"
         /\ status' = "WAITING_FOR_CONFIRMATION" =>
              st = "WAITING_FOR_CONFIRMATION" /\ (x \in Runs => pc'[x] = "done")
<1>1. x \in DOMAIN pc
  BY DEF IInv, LockInv, PlacesOK
<1>2. CASE x \in Runs
  <2>1. EndIteration(x, st)
    BY <1>2 DEF EndStep
  <2>2. \/ LoopOver(x, st) /\ pc' = [pc EXCEPT ![x] = "done"]
        \/ ~LoopOver(x, st) /\ pc' = [pc EXCEPT ![x] = "top"]
    BY <2>1 DEF EndIteration, Leave, Rejoin
  <2>3. status' = "WAITING_FOR_CONFIRMATION" => st = "WAITING_FOR_CONFIRMATION"
    BY <2>1 DEF EndIteration, StatusAfter
  <2> QED
    BY <1>1, <2>2, <2>3 DEF LoopOver
<1>3. CASE x \notin Runs
  BY <1>1, <1>3 DEF EndStep, Leave
<1> QED
  BY <1>2, <1>3

(* A step of the agent begins or goes on.                                  *)
LEMMA StepMoves ==
  ASSUME IInv, NEW x \in Actors, Step(x) \/ Respond(x),
         \A y \in Actors \ {x} : pc'[y] = pc[y]
  PROVE  Moves(x)
<1>1. HasLock(x) /\ issued \in Nat /\ x \in DOMAIN pc
  BY StepEffects DEF IInv, LogInv, LockInv, PlacesOK
<1>2. pc[x] \in {"top", "condense", "summary", "llm", "tools"}
  BY DEF Step, StepPending, StepBlocked, StepCondense, StepLLM, MayStep, Respond, Condensed,
     LLMAnswers, LLMRaises, LLMCallsTools, ToolsReturn
<1>3. pc[x] = "tools" => ToolsReturn(x)
  BY DEF Step, StepPending, StepBlocked, StepCondense, StepLLM, MayStep, Respond, Condensed,
     LLMAnswers, LLMRaises, LLMCallsTools
<1>4. ASSUME Raise(x) PROVE pc'[x] \in {"raised", "idle"} /\ status' = status
  BY <1>1, <1>4 DEF Raise, Rejoin, Leave
<1>5. ASSUME NEW w, StepTo(x, w) PROVE pc'[x] = w
  BY <1>1, <1>5 DEF StepTo
<1>6. CASE ToolsReturn(x)
  <2>1. matched \subseteq matched' /\ issued' = issued /\ pc[x] = "tools"
    BY <1>6 DEF ToolsReturn
  <2>2. Raise(x) \/ Truncated(Unmatched, finishes) \subseteq matched'
    BY <1>6 DEF ToolsReturn
  <2>3. Raise(x) \/ EndStep(x, status) \/ EndStep(x, "FINISHED")
    BY <1>6 DEF ToolsReturn
  <2>4. ~Asks
    BY <2>3, <1>4, EndStepMoves DEF Asks
  <2>5. Raise(x) => ToolsFail(x)
    BY <1>4, <2>1 DEF ToolsFail
  <2> QED
    BY <1>1, <2>1, <2>2, <2>4, <2>5 DEF Moves, ToolsBegin
<1>7. CASE LLMCallsTools(x)
  <2>1. PICK n \in 1..(MaxActions - issued) :
          \E F \in SUBSET ((issued + 1)..(issued + n)) :
             /\ issued' = issued + n
             /\ \/ EndStep(x, "WAITING_FOR_CONFIRMATION")
                \/ StepTo(x, "tools") /\ UNCHANGED status
                \/ Raise(x)
    BY <1>7 DEF LLMCallsTools
  <2>2. n \in Nat /\ issued' = issued + n /\ MaxActions \in Nat
    BY <1>1, <2>1, ConversationAssumption
  <2>3. 1..issued \subseteq 1..issued' /\ matched' = matched /\ pc[x] = "llm"
    BY <1>1, <1>7, <2>2 DEF LLMCallsTools
  <2>4. Asks /\ x \in Runs => pc'[x] = "done"
    BY <1>4, <2>1, EndStepMoves DEF Asks
  <2> QED
    BY <1>1, <2>3, <2>4 DEF Moves, ToolsBegin
<1>8. CASE ~ToolsReturn(x) /\ ~LLMCallsTools(x)
  <2>1. LogStill
    BY <1>8 DEF LogStill, log, Step, StepPending, StepBlocked, StepCondense, StepLLM, Respond,
       Condensed, LLMAnswers, LLMRaises
  <2>2. \/ \E w \in {"tools", "summary", "llm"} : StepTo(x, w) /\ status' = Resumed(x)
        \/ Raise(x)
        \/ \E st \in {"FINISHED", status} : EndStep(x, st)
    BY <1>8 DEF Step, StepPending, StepBlocked, StepCondense, StepLLM, Respond,
       Condensed, LLMAnswers, LLMRaises
  <2>3. ~Asks
    BY <2>2, <1>4, EndStepMoves DEF Asks, Resumed
  <2>4. ToolsBegin(x) => pc[x] \in {"top", "condense"}
    BY <1>4, <1>8, EndStepMoves DEF ToolsBegin, Step, StepPending, StepBlocked, StepCondense,
       StepLLM, MayStep, Respond, Condensed, LLMAnswers, LLMRaises
  <2> QED
    BY <1>1, <1>2, <1>3, <1>8, <2>1, <2>3, <2>4 DEF Moves, LogStill
<1> QED
  BY <1>6, <1>7, <1>8

(* The other actions of a run.                                             *)
LEMMA RunMoves ==
  ASSUME IInv, NEW r \in Runs, StartRun(r) \/ Advance(r) \/ Respond(r)
  PROVE  Moves(r)
<1>1. r \in Actors /\ r \in DOMAIN pc /\ \A y \in Actors \ {r} : pc'[y] = pc[y]
  BY RunEffects DEF IInv, LockInv, PlacesOK, Actors
<1>2. issued \in Nat /\ 1..issued \subseteq 1..issued
  BY DEF IInv, LogInv
<1>3. CASE HandleCancel(r)
  <2>1. /\ HasLock(r) /\ pc[r] = "cancelled" /\ pc'[r] = "done" /\ status' = "PAUSED"
        /\ matched' = matched \union ((1..issued) \ matched) /\ issued' = issued
    BY <1>1, <1>3 DEF HandleCancel, Leave, OrphansAnswered, Unmatched
  <2>2. 1..issued \subseteq matched' /\ matched \subseteq matched'
    BY <2>1
  <2> QED
    BY <1>1, <2>1, <2>2 DEF Moves, ToolsBegin, Asks
<1>4. CASE \/ StartRun(r) \/ EnterRun(r) \/ Break(r) \/ StopDenied(r) \/ DetectStuck(r)
           \/ HandleError(r) \/ CancelLands(r) \/ EndRun(r)
  <2>1. LogStill
    BY <1>4 DEF LogStill, log, StartRun, EnterRun, Break, StopDenied, DetectStuck, HandleError,
       CancelLands, EndRun
  <2>2. ~Asks
    BY <1>4 DEF Asks, StartRun, EnterRun, Break, StopDenied, DetectStuck, HandleError,
       CancelLands, EndRun
  <2>3. /\ pc'[r] # "tools" /\ pc[r] # "cancelled"
        /\ pc[r] = "tools" => pc'[r] = "cancelled"
        /\ pc[r] = "idle" => pc'[r] = "enter"
        /\ pc[r] = "done" => pc'[r] = "idle"
    BY <1>1, <1>4 DEF StartRun, EnterRun, Break, StopDenied, DetectStuck, HandleError,
       CancelLands, EndRun, Awaiting, Stepping, InStep, AtTop, Join, Leave, Rejoin
  <2> QED
    BY <1>1, <1>2, <2>1, <2>2, <2>3 DEF Moves, LogStill, ToolsBegin, RunStarts
<1> QED
  BY <1>1, <1>3, <1>4, StepMoves DEF Advance

(* The other operations of a caller.                                       *)
LEMMA CallerMoves ==
  ASSUME IInv, NEW c \in Callers, Call(c) \/ Serve(c) \/ Respond(c)
  PROVE  Moves(c)
<1>1. /\ c \in Actors /\ c \notin Runs /\ c \in DOMAIN pc
      /\ \A y \in Actors \ {c} : pc'[y] = pc[y]
  BY ConversationAssumption, CallerEffects DEF IInv, LockInv, PlacesOK, Actors
<1>2. issued \in Nat /\ 1..issued \subseteq 1..issued
  BY DEF IInv, LogInv
<1>3. CASE Call(c) \/ (Serve(c) /\ ~Step(c))
  <2>1. pc[c] \notin {"tools", "cancelled"}
    BY <1>3 DEF Call, AskMessage, CallPause, Interrupt, ReadPending, RequestCondensation,
       Calls, Serve, SendMessage, Pause, AskReject, Reject, AskCondense, Serving
  <2>2. \/ UNCHANGED pc
        \/ \E w \in {"message", "pause", "read", "reject", "requested", "condense", "idle"} :
             pc' = [pc EXCEPT ![c] = w]
    BY <1>3 DEF Call, AskMessage, CallPause, AskPause, Interrupt, ReadPending,
       RequestCondensation, Serve, SendMessage, Pause, AskReject, Reject, AskCondense, Ask,
       Join, Finish, Leave, vars
  <2>3. pc'[c] # "tools"
    BY <1>1, <2>1, <2>2
  <2>4. ~Asks
    BY <1>3 DEF Asks, Call, AskMessage, CallPause, AskPause, Interrupt, ReadPending,
       RequestCondensation, Serve, SendMessage, Pause, AskReject, Reject, AskCondense, Ask,
       vars
  <2>5. CASE Reject(c)
    BY <1>1, <1>2, <2>1, <2>3, <2>4, <2>5 DEF Reject, Serving, Moves, ToolsBegin
  <2>6. CASE ~Reject(c)
    <3>1. LogStill
      BY <1>3, <2>6 DEF LogStill, Call, AskMessage, CallPause, AskPause, Interrupt,
         ReadPending, RequestCondensation, Serve, SendMessage, Pause, AskReject, AskCondense,
         Ask, vars, log
    <3> QED
      BY <1>1, <1>2, <2>1, <2>3, <2>4, <3>1 DEF Moves, ToolsBegin, LogStill
  <2> QED
    BY <2>5, <2>6
<1> QED
  BY <1>1, <1>3, StepMoves DEF Serve

(* Every live step is the move of one actor.                               *)
LEMMA SomeoneMoves == ASSUME IInv, Next PROVE \E x \in Actors : Moves(x)
BY NextIsOf, RunMoves, CallerMoves DEF Actors
------------------------------------------------------------------------------
(* How often a tool is executed                                            *)

\* The action is answered, or will be before it can be executed again: by
\* the step that executes it, or by the handler of a cancelled run.
Spent(a) ==
  /\ a \in 1..issued
  /\ \/ a \in matched
     \/ \E r \in Runs : pc[r] = "cancelled"
     \/ \E x \in Actors : pc[x] = "tools" /\ a \in Truncated(Unmatched, finishes)

ExecInv == \A a \in ran : Spent(a)

(* Who executes tools or begins to has the lock, so nobody else does.      *)
LEMMA OneExecutes ==
  ASSUME IInv, NEW x \in Actors, HasLock(x), NEW y \in Actors, pc[y] = "tools"
  PROVE  y = x
BY SteppingHasLock DEF Stepping, InStep, HasLock

(* What was spent stays spent, unless its result is lost.                  *)
LEMMA SpentKeeps ==
  ASSUME IInv, NEW x \in Actors, Moves(x), NEW a, Spent(a), a \notin Lost
  PROVE  Spent(a)'
<1>1. a \in 1..issued /\ a \in 1..issued'
  BY DEF Moves, Spent
<1>2. CASE a \in matched
  BY <1>1, <1>2 DEF Moves, Spent
<1>3. ASSUME NEW r \in Runs, pc[r] = "cancelled" PROVE Spent(a)'
  <2>1. pc'[r] = "cancelled" \/ 1..issued \subseteq matched'
    BY <1>3 DEF Moves, Actors
  <2> QED
    BY <1>1, <2>1 DEF Spent
<1>4. ASSUME NEW y \in Actors, pc[y] = "tools", a \in Truncated(Unmatched, finishes)
      PROVE  Spent(a)'
  <2>1. CASE LogStill /\ pc'[y] = "tools"
    BY <1>1, <1>4, <2>1 DEF LogStill, Spent, Truncated, Unmatched
  <2>2. CASE y # x
    <3>1. LogStill /\ pc'[y] = "tools"
      BY <1>4, <2>2, OneExecutes DEF Moves
    <3> QED
      BY <2>1, <3>1
  <2>3. CASE x \in Runs /\ pc'[x] = "cancelled"
    BY <1>1, <2>3 DEF Spent
  <2>4. CASE ToolsFail(x)
    <3>1. a \notin Unmatched'
      BY <2>4 DEF Lost
    <3> QED
      BY <1>1, <3>1 DEF Spent, Unmatched
  <2>5. CASE Truncated(Unmatched, finishes) \subseteq matched'
    BY <1>1, <1>4, <2>5 DEF Spent
  <2> QED
    BY <1>4, <2>2, <2>3, <2>4, <2>5 DEF Moves
<1> QED
  BY <1>2, <1>3, <1>4 DEF Spent

(* Tools start only for what was not spent, and what they start for is.    *)
LEMMA StartSpends ==
  ASSUME IInv, NEW x \in Actors, Moves(x), NEW a, a \in Started
  PROVE  ~Spent(a) /\ Spent(a)'
<1>1. PICK y \in Actors : ToolsBegin(y)
  BY DEF Started, Kept, Batch, Truncated
<1>2. y = x
  BY <1>1 DEF Moves, ToolsBegin
<1>3. Batch = Unmatched' /\ a \in Truncated(Unmatched', finishes') /\ ~TokenCancelled
  BY <1>1 DEF Started, Kept, Batch
<1>4. a \in Unmatched' /\ a \in Truncated(Unmatched, finishes)'
  BY <1>3 DEF Truncated
<1>5. HasLock(x) /\ matched' = matched /\ pc'[x] = "tools" /\ pc[x] # "tools"
  BY <1>1, <1>2 DEF Moves, ToolsBegin
<1>6. Spent(a)'
  BY <1>4, <1>5 DEF Spent, Unmatched
<1>7. a \notin matched /\ (\A r \in Runs : pc[r] # "cancelled")
      /\ \A z \in Actors : pc[z] # "tools"
  BY <1>3, <1>4, <1>5, OneExecutes DEF Unmatched, TokenCancelled
<1> QED
  BY <1>6, <1>7 DEF Spent

(* A crash starts no tool. *)
LEMMA CrashStarts == ASSUME Crash PROVE Started = {}
BY DEF Crash, Started, Kept, Batch, Truncated, ToolsBegin, Actors

(* What has run is spent, and what starts has not run.                     *)
LEMMA ExecKeeps ==
  ASSUME CrashInv, ExecInv, CNext, Record
  PROVE  ExecInv' /\ Started \intersect ran = {}
<1>1. CASE Crash
  <2>1. crashes' # crashes
    BY <1>1, CrashAssumption DEF Crash, CrashInv
  <2> QED
    BY <1>1, <2>1, CrashStarts DEF Record, ExecInv
<1>2. CASE Live
  <2>1. IInv /\ Next /\ crashes' = crashes
    BY <1>2 DEF Live, CrashInv
  <2>2. PICK x \in Actors : Moves(x)
    BY <2>1, SomeoneMoves
  <2>3. ran' = (ran \union Started) \ Lost
    BY <2>1 DEF Record
  <2>4. ASSUME NEW a \in ran' PROVE Spent(a)'
    BY <2>1, <2>2, <2>3, <2>4, SpentKeeps, StartSpends DEF ExecInv
  <2>5. \A a \in Started : a \notin ran
    BY <2>1, <2>2, StartSpends DEF ExecInv
  <2> QED
    BY <2>4, <2>5 DEF ExecInv
<1> QED
  BY <1>1, <1>2 DEF CNext

(* With one run at a time, no tool call whose result is known is executed  *)
(* twice between two crashes, however the run is interrupted, paused or    *)
(* resumed, and whoever calls condense() meanwhile.                        *)
THEOREM ExecutionCorrect == ASSUME OneLoop PROVE HSpec => ExecutedOncePerLife
<1>1. HInit => ExecInv
  BY DEF HInit, ExecInv
<1>2. CrashInv /\ ExecInv /\ [CNext /\ Record]_hvars => ExecInv'
  BY ExecKeeps DEF hvars, cvars, vars, history, log, ExecInv, Spent, Truncated, Unmatched
<1>3. CrashInv /\ ExecInv /\ [CNext /\ Record]_hvars => [Started \intersect ran = {}]_hvars
  BY ExecKeeps
<1> QED
  BY <1>1, <1>2, <1>3, HistoryWatches, CrashInvariance, PTL DEF HSpec, ExecutedOncePerLife
------------------------------------------------------------------------------
(* Confirmation                                                            *)

\* While actions about which a run asked wait for the user, no run is under
\* way.
ConsentInv == unapproved = {} \/ \A r \in Runs : pc[r] \in {"idle", "done"}

(* The question ends the run, and the next run clears it.                  *)
LEMMA ConsentKeeps ==
  ASSUME OneLoop, CrashInv, ConsentInv, CNext, Record
  PROVE  /\ ConsentInv'
         /\ (\A c \in Callers : ~ToolsBegin(c)) => Started \intersect unapproved = {}
<1>1. CASE Crash
  <2>1. \A r \in Runs : pc'[r] = "idle"
    BY <1>1 DEF Crash, Actors
  <2> QED
    BY <1>1, <2>1, CrashStarts DEF ConsentInv
<1>2. CASE Live
  <2>1. IInv /\ Next
    BY <1>2 DEF Live, CrashInv
  <2>2. PICK x \in Actors : Moves(x)
    BY <2>1, SomeoneMoves
  <2>3. ConsentInv'
    <3>1. CASE Asks /\ \E r \in Runs : HasLock(r)
      <4>1. PICK r \in Runs : HasLock(r)
        BY <3>1
      <4>2. x = r /\ pc'[r] = "done"
        BY <2>2, <3>1, <4>1 DEF Moves, HasLock
      <4>3. \A u \in Runs : u = r
        BY OneLoop DEF OneLoop
      <4> QED
        BY <4>2, <4>3 DEF ConsentInv
    <3>2. CASE ~(Asks /\ \E r \in Runs : HasLock(r)) /\ \E r \in Runs : RunStarts(r)
      <4>1. unapproved' = {}
        BY <3>2 DEF Record, Asks
      <4> QED
        BY <4>1 DEF ConsentInv
    <3>3. CASE ~(Asks /\ \E r \in Runs : HasLock(r)) /\ \A r \in Runs : ~RunStarts(r)
      <4>1. unapproved' = unapproved
        BY <3>3 DEF Record, Asks
      <4>2. \A r \in Runs : pc[r] \in {"idle", "done"} => pc'[r] \in {"idle", "done"}
        BY <2>2, <3>3 DEF Moves, Actors
      <4> QED
        BY <4>1, <4>2 DEF ConsentInv
    <3> QED
      BY <3>1, <3>2, <3>3
  <2>4. ASSUME \A c \in Callers : ~ToolsBegin(c), NEW a \in Started, a \in unapproved
        PROVE  FALSE
    <3>1. PICK y \in Actors : ToolsBegin(y)
      BY <2>4 DEF Started, Kept, Batch, Truncated
    <3>2. y \in Runs /\ y = x
      BY <2>2, <2>4, <3>1 DEF Moves, ToolsBegin, Actors
    <3>3. pc[y] \notin {"idle", "done"}
      BY <2>2, <3>1, <3>2 DEF Moves
    <3> QED
      BY <2>4, <3>2, <3>3 DEF ConsentInv
  <2> QED
    BY <2>3, <2>4
<1> QED
  BY <1>1, <1>2 DEF CNext

(* With one run at a time, no action about which a run asked the user is   *)
(* executed before run() is called again, but by a condense(): that one    *)
(* may run at any time, and does execute it.                               *)
THEOREM ConsentCorrect == ASSUME OneLoop PROVE HSpec => NeverWithoutConsent
<1>1. HInit => ConsentInv
  BY DEF HInit, ConsentInv
<1>2. CrashInv /\ ConsentInv /\ [CNext /\ Record]_hvars => ConsentInv'
  BY OneLoop, ConsentKeeps DEF hvars, cvars, vars, history, ConsentInv
<1>3. CrashInv /\ ConsentInv /\ [CNext /\ Record]_hvars =>
        [(\A c \in Callers : ~ToolsBegin(c)) => Started \intersect unapproved = {}]_hvars
  BY OneLoop, ConsentKeeps
<1> QED
  BY <1>1, <1>2, <1>3, HistoryWatches, CrashInvariance, PTL DEF HSpec, NeverWithoutConsent
------------------------------------------------------------------------------
(* Waiting for the lock                                                    *)

\* c asked for the lock before r did.
Before(c, r) == \A i, j \in DOMAIN queue : queue[i] = c /\ queue[j] = r => i < j

\* Whoever saw a step begin is waiting, and next in turn after that step.
StarveInv ==
  /\ overtaken \in [Callers -> Nat]
  /\ NobodyIsStarved
  /\ \A c \in Callers : overtaken[c] > 0 =>
       /\ pc[c] \notin Nowhere
       /\ \A r \in Runs : Stepping(r) \/ Before(c, r)

(* Whoever asks comes after those who asked.                               *)
LEMMA BeforeJoin ==
  ASSUME IInv, NEW x \in Actors, x \notin Queued, queue' = Append(queue, x),
         NEW c \in Actors, c # x, NEW r, r = x \/ Before(c, r)
  PROVE  Before(c, r)'
<1>1. /\ Len(queue') = Len(queue) + 1 /\ Len(queue) \in Nat
      /\ \A i \in 1..Len(queue) : queue'[i] = queue[i]
      /\ queue'[Len(queue) + 1] = x
      /\ DOMAIN queue = 1..Len(queue) /\ DOMAIN queue' = 1..(Len(queue) + 1)
  BY AppendMembers DEF IInv, LockInv
<1>2. \A i \in DOMAIN queue : queue[i] # x
  BY DEF Queued
<1> QED
  BY <1>1, <1>2 DEF Before

(* The others stay in order when the head leaves.                          *)
LEMMA BeforeLeave ==
  ASSUME IInv, NEW x \in Actors, HasLock(x), queue' = Tail(queue),
         NEW c, NEW r, r = x \/ Before(c, r)
  PROVE  Before(c, r)'
<1>1. /\ Len(queue') = Len(queue) - 1 /\ Len(queue) \in Nat
      /\ \A i \in 1..Len(queue') : queue'[i] = queue[i + 1]
      /\ queue[1] = x /\ Len(queue) >= 1
      /\ DOMAIN queue = 1..Len(queue) /\ DOMAIN queue' = 1..(Len(queue) - 1)
  BY TailMembers DEF IInv, LockInv, HasLock
<1>2. \A i \in DOMAIN queue' : i + 1 \in DOMAIN queue /\ queue'[i] = queue[i + 1]
  BY <1>1
<1>3. \A i \in DOMAIN queue' : queue'[i] # x
  BY <1>1, <1>2 DEF IInv, LockInv, QueueMatchesActors
<1>4. CASE r = x
  BY <1>3, <1>4 DEF Before
<1>5. CASE Before(c, r)
  BY <1>1, <1>2, <1>5 DEF Before
<1> QED
  BY <1>4, <1>5

(* A run that releases the lock and asks again is the last.                *)
LEMMA BeforeRejoin ==
  ASSUME IInv, NEW x \in Actors, HasLock(x), queue' = Append(Tail(queue), x),
         NEW c \in Actors, c # x
  PROVE  Before(c, x)'
<1> DEFINE t == Tail(queue)
<1>1. /\ t \in Seq(Actors) /\ Len(t) = Len(queue) - 1 /\ Len(queue) \in Nat
      /\ Len(t) \in Nat
      /\ \A i \in 1..Len(t) : t[i] = queue[i + 1]
      /\ queue[1] = x /\ Len(queue) >= 1
      /\ DOMAIN queue = 1..Len(queue)
  BY TailMembers DEF IInv, LockInv, HasLock
<1>2. \A i \in 1..Len(t) : i + 1 \in DOMAIN queue /\ t[i] = queue[i + 1]
  BY <1>1
<1>3. \A i \in 1..Len(t) : t[i] # x
  BY <1>1, <1>2 DEF IInv, LockInv, QueueMatchesActors
<1>4. queue' = Append(t, x)
  OBVIOUS
<1> HIDE DEF t
<1>5. /\ \A i \in 1..Len(t) : queue'[i] = t[i]
      /\ queue'[Len(t) + 1] = x /\ Len(t) \in Nat
      /\ DOMAIN queue' = 1..(Len(t) + 1)
  BY <1>1, <1>4, AppendMembers
<1>6. \A j \in DOMAIN queue' : queue'[j] = x => j = Len(t) + 1
  BY <1>3, <1>5
<1>7. \A i \in DOMAIN queue' : queue'[i] = c => i \in 1..Len(t)
  BY <1>5
<1>8. \A i, j \in DOMAIN queue' : queue'[i] = c /\ queue'[j] = x => i < j
  BY <1>5, <1>6, <1>7
<1> QED
  BY <1>8 DEF Before

(* Whatever the run does, it is in a step afterwards or behind every       *)
(* caller that waits.                                                      *)
LEMMA RunOrders ==
  ASSUME IInv, NEW r \in Runs, StartRun(r) \/ Advance(r) \/ Respond(r), NEW c \in Callers
  PROVE  pc'[c] = pc[c] /\ (Stepping(r)' \/ Before(c, r)')
<1>1. r \in Actors /\ c \in Actors /\ c # r
  BY ConversationAssumption DEF Actors
<1>2. pc'[c] = pc[c]
  BY <1>1, RunEffects
<1>3. pc[r] \in {"idle", "done"} => r \notin Queued
  BY <1>1 DEF IInv, LockInv, QueueMatchesActors
<1>4. CASE queue' = queue /\ pc[r] = "done"
  BY <1>2, <1>3, <1>4 DEF Before, Queued
<1>5. CASE queue' = Append(queue, r) /\ pc[r] = "idle"
  BY <1>1, <1>2, <1>3, <1>5, BeforeJoin
<1>6. CASE queue' = Tail(queue) /\ HasLock(r)
  BY <1>1, <1>2, <1>6, BeforeLeave
<1>7. CASE queue' = Append(Tail(queue), r) /\ HasLock(r)
  BY <1>1, <1>2, <1>7, BeforeRejoin
<1> QED
  BY <1>2, <1>4, <1>5, <1>6, <1>7, RunEffects

(* Whatever a caller does, those who have asked for the lock and still     *)
(* want it keep their places in the order.                                 *)
LEMMA CallerOrders ==
  ASSUME IInv, NEW d \in Callers, Call(d) \/ Serve(d) \/ Respond(d),
         NEW c \in Callers, pc[c] \notin Nowhere, pc'[c] \notin Nowhere,
         NEW r \in Runs, Stepping(r) \/ Before(c, r)
  PROVE  Stepping(r)' \/ Before(c, r)'
<1>1. r \in Actors /\ c \in Actors /\ d \in Actors /\ d # r
  BY ConversationAssumption DEF Actors
<1>2. pc'[r] = pc[r]
  BY <1>1, CallerEffects
<1>3. CASE Stepping(r)
  BY <1>2, <1>3 DEF Stepping
<1>4. ASSUME Before(c, r) PROVE Before(c, r)'
  <2>1. CASE queue' = queue
    BY <1>4, <2>1 DEF Before
  <2>2. CASE queue' = Append(queue, d) /\ pc[d] \in Nowhere
    <3>1. d # c /\ d \notin Queued
      BY <1>1, <2>2 DEF Nowhere, IInv, LockInv, QueueMatchesActors
    <3> QED
      BY <1>1, <1>4, <2>2, <3>1, BeforeJoin
  <2>3. CASE queue' = Tail(queue) /\ HasLock(d) /\ pc'[d] = "idle"
    BY <1>1, <1>4, <2>3, BeforeLeave
  <2> QED
    BY <2>1, <2>2, <2>3, CallerEffects
<1> QED
  BY <1>3, <1>4

(* A step of the loop begins only in Step, by the run with the lock.       *)
LEMMA StepsBegin ==
  ASSUME IInv, Next, NEW r \in Runs, StepBegins(r)
  PROVE  Step(r)
<1>1. pc[r] = "top" /\ r \in Actors /\ r \in DOMAIN pc /\ iter[r] \in Nat
  BY DEF StepBegins, IInv, LockInv, PlacesOK, CapInv, Actors
<1>2. ~(iter' = iter /\ pc'[r] \in {"top", "done"})
  BY <1>1 DEF StepBegins, Stepping, InStep
<1>3. ASSUME NEW c \in Callers, Call(c) \/ Serve(c) \/ Respond(c) PROVE FALSE
  <2>1. iter' = iter /\ \A y \in Actors \ {c} : pc'[y] = pc[y]
    BY <1>3, CallerEffects
  <2>2. r # c
    BY ConversationAssumption
  <2> QED
    BY <1>1, <1>2, <2>1, <2>2
<1>4. ASSUME NEW u \in Runs \ {r}, StartRun(u) \/ Advance(u) \/ Respond(u) PROVE FALSE
  <2>1. pc'[r] = pc[r]
    BY <1>1, <1>4, RunEffects
  <2>2. iter'[r] = iter[r]
    <3>1. iter' = iter \/ \E i : iter' = [iter EXCEPT ![u] = i]
      BY <1>4 DEF StartRun, Advance, Respond, EnterRun, Break, StopDenied, DetectStuck, Step,
         HandleError, CancelLands, HandleCancel, EndRun, StepPending, StepBlocked,
         StepCondense, StepLLM, Condensed, LLMAnswers, LLMRaises, LLMCallsTools, ToolsReturn,
         StepTo, EndStep, Raise, EndIteration
    <3> QED
      BY <1>4, <3>1 DEF IInv, CapInv
  <2> QED
    BY <1>1, <2>1, <2>2 DEF StepBegins, Stepping, InStep
<1>5. StartRun(r) \/ Advance(r) \/ Respond(r)
  BY <1>3, <1>4, NextIsOf
<1>6. ~(Break(r) \/ StopDenied(r) \/ DetectStuck(r))
  BY <1>1, <1>2 DEF Break, StopDenied, DetectStuck, Leave, Rejoin
<1>7. ~(StartRun(r) \/ EnterRun(r) \/ HandleError(r) \/ CancelLands(r) \/ HandleCancel(r)
        \/ EndRun(r) \/ Respond(r))
  BY <1>1 DEF StartRun, EnterRun, HandleError, CancelLands, Awaiting, Stepping, InStep,
     HandleCancel, EndRun, Respond, Condensed, LLMAnswers, LLMRaises, LLMCallsTools,
     ToolsReturn
<1> QED
  BY <1>5, <1>6, <1>7 DEF Advance

(* The run that begins a step has the lock, so nobody was before it.       *)
LEMMA NobodyBeforeStep ==
  ASSUME IInv, StarveInv, NEW r \in Runs, Step(r), NEW c \in Callers
  PROVE  overtaken[c] = 0
<1>1. pc[r] = "top" /\ HasLock(r)
  <2>1. HasLock(r) /\ pc[r] \in {"top", "condense"}
    BY DEF Step, StepPending, StepBlocked, StepCondense, StepLLM, MayStep
  <2>2. pc[r] # "condense"
    BY DEF IInv, LockInv, PlacesOK, InRun, InStep
  <2> QED
    BY <2>1, <2>2
<1>2. overtaken[c] \in Nat
  BY DEF StarveInv
<1>3. SUFFICES ASSUME overtaken[c] > 0 PROVE FALSE
  BY <1>2
<1>4. pc[c] \in CallerPlaces /\ pc[c] \notin Nowhere /\ Before(c, r)
  BY <1>1, <1>3 DEF StarveInv, Stepping, InStep, IInv, LockInv, PlacesOK
<1>5. c \in Queued
  BY <1>4 DEF CallerPlaces, Nowhere, InStep, IInv, LockInv, QueueMatchesActors, Actors
<1>6. PICK i \in DOMAIN queue : queue[i] = c
  BY <1>5 DEF Queued
<1>7. queue \in Seq(Actors) /\ queue # << >> /\ queue[1] = r
  BY <1>1, TailMembers DEF HasLock, IInv, LockInv
<1>8. 1 \in DOMAIN queue /\ i >= 1
  BY <1>7
<1> QED
  BY <1>4, <1>6, <1>7, <1>8 DEF Before

(* How a live step counts.                                                 *)
LEMMA OvertakenMoves ==
  ASSUME StarveInv, Record, NEW c \in Callers
  PROVE  /\ overtaken'[c] \in Nat
         /\ pc'[c] \in Nowhere => overtaken'[c] = 0
         /\ overtaken'[c] \in {0, overtaken[c], overtaken[c] + 1}
         /\ (\A r \in Runs : ~StepBegins(r)) => overtaken'[c] \in {0, overtaken[c]}
<1>1. overtaken[c] \in Nat
  BY DEF StarveInv
<1>2. overtaken'[c] = IF pc'[c] \in Nowhere THEN 0
                      ELSE IF \E r \in Runs : StepBegins(r) THEN Count(overtaken[c], 1)
                      ELSE overtaken[c]
  BY DEF Record, Nowhere
<1>3. Count(overtaken[c], 1) \in {overtaken[c], overtaken[c] + 1}
  BY DEF Count
<1> QED
  BY <1>1, <1>2, <1>3

(* A step that begins finds nobody before it, and leaves the run with the  *)
(* lock or behind everybody; nothing else counts or reorders.              *)
LEMMA StarveKeeps ==
  ASSUME CrashInv, OneLoop, StarveInv, CNext, Record
  PROVE  StarveInv'
<1>1. overtaken' \in [Callers -> Nat]
  <2>1. \A c \in Callers : overtaken'[c] \in Nat
    BY OvertakenMoves
  <2>2. overtaken' = [c \in Callers |-> overtaken'[c]]
    BY DEF Record
  <2> QED
    BY <2>1, <2>2
<1>2. SUFFICES ASSUME NEW c \in Callers
               PROVE  /\ overtaken'[c] <= 1
                      /\ overtaken'[c] > 0 =>
                           /\ pc'[c] \notin Nowhere
                           /\ \A r \in Runs : Stepping(r)' \/ Before(c, r)'
  BY <1>1 DEF StarveInv, NobodyIsStarved
<1>3. /\ overtaken[c] \in Nat /\ overtaken[c] <= 1
      /\ pc[c] \in Nowhere => overtaken[c] = 0
  BY DEF StarveInv, NobodyIsStarved
<1>4. /\ overtaken'[c] \in {0, overtaken[c], overtaken[c] + 1}
      /\ pc'[c] \in Nowhere => overtaken'[c] = 0
      /\ (\A r \in Runs : ~StepBegins(r)) => overtaken'[c] \in {0, overtaken[c]}
  BY OvertakenMoves
<1>5. CASE Crash
  BY <1>4, <1>5 DEF Crash, Actors, Nowhere
<1>6. CASE Live
  <2>1. IInv /\ Next
    BY <1>6 DEF Live, CrashInv
  <2>2. ASSUME NEW r \in Runs, Step(r)
        PROVE  overtaken'[c] <= 1 /\ \A u \in Runs : Stepping(u)' \/ Before(c, u)'
    <3>1. overtaken[c] = 0
      BY <2>1, <2>2, NobodyBeforeStep
    <3>2. Stepping(r)' \/ Before(c, r)'
      BY <2>1, <2>2, RunOrders DEF Advance
    <3> QED
      BY <1>4, <3>1, <3>2 DEF OneLoop
  <2>3. CASE \A r \in Runs : ~Step(r)
    <3>1. overtaken'[c] \in {0, overtaken[c]}
      BY <1>4, <2>1, <2>3, StepsBegin
    <3>2. ASSUME overtaken'[c] > 0
          PROVE  \A r \in Runs : Stepping(r)' \/ Before(c, r)'
      <4>1. /\ pc[c] \notin Nowhere /\ pc'[c] \notin Nowhere
            /\ \A r \in Runs : Stepping(r) \/ Before(c, r)
        BY <1>4, <3>1, <3>2 DEF StarveInv
      <4>2. ASSUME NEW d \in Callers, Call(d) \/ Serve(d) \/ Respond(d)
            PROVE  \A r \in Runs : Stepping(r)' \/ Before(c, r)'
        BY <2>1, <4>1, <4>2, CallerOrders
      <4>3. ASSUME NEW r \in Runs, StartRun(r) \/ Advance(r) \/ Respond(r)
            PROVE  \A u \in Runs : Stepping(u)' \/ Before(c, u)'
        <5>1. Stepping(r)' \/ Before(c, r)'
          BY <2>1, <4>3, RunOrders
        <5> QED
          BY <5>1 DEF OneLoop
      <4> QED
        BY <2>1, <4>2, <4>3, NextIsOf
    <3> QED
      BY <1>3, <1>4, <3>1, <3>2
  <2> QED
    BY <1>4, <2>2, <2>3
<1> QED
  BY <1>5, <1>6 DEF CNext

(* With one run at a time, whoever asks for the lock, to send a message or *)
(* to pause, sees at most one more step of the loop begin.                 *)
THEOREM StarvationFree == ASSUME OneLoop PROVE HSpec => []NobodyIsStarved
<1>1. HInit => StarveInv
  BY DEF HInit, StarveInv, NobodyIsStarved
<1>2. CrashInv /\ StarveInv /\ [CNext /\ Record]_hvars => StarveInv'
  <2> SUFFICES ASSUME CrashInv, StarveInv, [CNext /\ Record]_hvars PROVE StarveInv'
    OBVIOUS
  <2>1. CASE UNCHANGED hvars
    BY <2>1 DEF hvars, cvars, vars, history, StarveInv, NobodyIsStarved, Stepping, Before
  <2>2. CASE CNext /\ Record
    BY <2>2, OneLoop, StarveKeeps
  <2> QED
    BY <2>1, <2>2
<1>3. StarveInv => NobodyIsStarved
  BY DEF StarveInv
<1> QED
  BY <1>1, <1>2, <1>3, HistoryWatches, CrashInvariance, PTL DEF HSpec
==============================================================================
