-------------------------- MODULE WebhookSubscriber --------------------------
(***************************************************************************)
(* agent_server/conversation_service.py, WebhookSubscriber: events of a    *)
(* conversation are buffered and posted in batches, by the coroutine whose *)
(* event fills the buffer, by a timer task, or by close().                 *)
(*                                                                         *)
(* All of it runs on one event loop: an action is what happens between two *)
(* awaits.  The receiver may confirm a POST or not; a timer task can be    *)
(* cancelled at any of its awaits, also while it posts.                    *)
(***************************************************************************)
EXTENDS Naturals, Sequences, FiniteSets

CONSTANTS BufferSize,   \* spec.event_buffer_size
          MaxQueue,     \* spec.max_queue_size
          NumRetries,   \* spec.num_retries
          MaxEvents,    \* bound: events published
          None          \* _flush_timer is None

ASSUME WebhookAssumption == /\ {BufferSize, MaxQueue} \subseteq Nat \ {0}
                            /\ {NumRetries, MaxEvents} \subseteq Nat

\* Events, in the order they are published.  A task is the coroutine that
\* delivers an event, the timer that it creates, or close().
Events == 1..MaxEvents
Calls == {<<"call", e>> : e \in Events}
Timers == {<<"timer", e>> : e \in Events}
Closer == <<"close", 0>>
Tasks == Calls \union Timers \union {Closer}

ASSUME NoneAssumption == None \notin Tasks

VARIABLES made,      \* events published so far
          closed,    \* the PubSub has no subscribers any more
          queue,     \* self.queue
          timer,     \* self._flush_timer
          pc,        \* of a task: "none", "created", "sleeping" (the flush
                     \*   delay), "posting", "retrying" (the retry delay),
                     \*   "done"
          batch,     \* events_to_post of a task
          attempt,   \* attempt of a task
          cancelled, \* timers that cancel() was called on
          fate       \* history: "confirmed", "dropped" or "lost" events

vars == <<made, closed, queue, timer, pc, batch, attempt, cancelled, fate>>

Busy == {"posting", "retrying"}
Members(q) == {q[i] : i \in DOMAIN q}
Become(S, f) == fate' = [e \in Events |-> IF e \in S THEN f ELSE fate[e]]

\* _cancel_flush_timer(): a task that is done is not cancelled.
CancelTimer == cancelled' = IF timer # None /\ pc[timer] # "done"
                            THEN cancelled \union {timer} ELSE cancelled

\* The queue once the batch is copied.  Mutant: clear it after the await.
MutNotCleared(q) == q
Taken(q) == << >>

(* The first part of _post_events(), up to the await of the request.       *)
BeginPost(t, q) == /\ queue' = Taken(q)
                   /\ pc' = [pc EXCEPT ![t] = "posting"]
                   /\ batch' = [batch EXCEPT ![t] = q]

\* del self.queue[:overflow].  Mutant: no bound on what is put back.
MutNoBound(q) == q
Trim(q) == IF Len(q) > MaxQueue
           THEN SubSeq(q, Len(q) - MaxQueue + 1, Len(q))
           ELSE q

\* _flush_after_delay()'s finally; other tasks have none.  Mutant: no reset.
MutNoReset(t) == timer
TimerAfter(t) == IF t \in Timers THEN None ELSE timer

Init == /\ made = 0
        /\ closed = FALSE
        /\ queue = << >>
        /\ timer = None
        /\ pc = [t \in Tasks |-> "none"]
        /\ batch = [t \in Tasks |-> << >>]
        /\ attempt = [t \in Tasks |-> 0]
        /\ cancelled = {}
        /\ fate = [e \in Events |-> "none"]

(* __call__(event) when the buffer is full.                                *)
DeliverAndPost ==
  /\ ~closed
  /\ made < MaxEvents
  /\ Len(queue) + 1 >= BufferSize
  /\ made' = made + 1
  /\ CancelTimer
  /\ timer' = None
  /\ BeginPost(<<"call", made + 1>>, Append(queue, made + 1))
  /\ UNCHANGED <<closed, attempt, fate>>

(* __call__(event) when it is not: there is a timer, or one is made.       *)
DeliverAndWait ==
  LET t == <<"timer", made + 1>> IN
  /\ ~closed
  /\ made < MaxEvents
  /\ Len(queue) + 1 < BufferSize
  /\ made' = made + 1
  /\ queue' = Append(queue, made + 1)
  /\ IF timer = None
     THEN /\ timer' = t
          /\ pc' = [pc EXCEPT ![t] = "created"]
     ELSE UNCHANGED <<timer, pc>>
  /\ UNCHANGED <<closed, batch, attempt, cancelled, fate>>

(* A timer task runs for the first time.                                   *)
TimerStarts(t) == /\ pc[t] = "created"
                  /\ t \notin cancelled
                  /\ pc' = [pc EXCEPT ![t] = "sleeping"]
                  /\ UNCHANGED <<made, closed, queue, timer, batch, attempt,
                                 cancelled, fate>>

(* The flush delay is over.                                                *)
TimerFires(t) ==
  /\ pc[t] = "sleeping"
  /\ t \notin cancelled
  /\ \/ /\ queue # << >>
        /\ BeginPost(t, queue)
        /\ UNCHANGED timer
     \/ /\ queue = << >>
        /\ pc' = [pc EXCEPT ![t] = "done"]
        /\ timer' = TimerAfter(t)
        /\ UNCHANGED <<queue, batch>>
  /\ UNCHANGED <<made, closed, attempt, cancelled, fate>>

(* The receiver confirms the batch.                                        *)
Confirmed(t) == /\ pc[t] = "posting"
                /\ t \notin cancelled
                /\ pc' = [pc EXCEPT ![t] = "done"]
                /\ timer' = TimerAfter(t)
                /\ Become(Members(batch[t]), "confirmed")
                /\ UNCHANGED <<made, closed, queue, batch, attempt, cancelled>>

\* The loop over range(num_retries + 1).
AnotherAttempt(t) == attempt[t] < NumRetries

(* The attempt fails or times out, and there is another.                   *)
Retry(t) == /\ pc[t] = "posting"
            /\ t \notin cancelled
            /\ AnotherAttempt(t)
            /\ pc' = [pc EXCEPT ![t] = "retrying"]
            /\ UNCHANGED <<made, closed, queue, timer, batch, attempt,
                           cancelled, fate>>

(* The retry delay is over.                                                *)
PostAgain(t) == /\ pc[t] = "retrying"
                /\ t \notin cancelled
                /\ pc' = [pc EXCEPT ![t] = "posting"]
                /\ attempt' = [attempt EXCEPT ![t] = @ + 1]
                /\ UNCHANGED <<made, closed, queue, timer, batch, cancelled,
                               fate>>

(* The last attempt fails: the batch goes back behind what has come, and   *)
(* the front of the queue is dropped.                                      *)
PutBack(t) == LET q == queue \o batch[t] IN
              /\ pc[t] = "posting"
              /\ t \notin cancelled
              /\ ~AnotherAttempt(t)
              /\ queue' = Trim(q)
              /\ Become(Members(q) \ Members(Trim(q)), "dropped")
              /\ pc' = [pc EXCEPT ![t] = "done"]
              /\ timer' = TimerAfter(t)
              /\ UNCHANGED <<made, closed, batch, attempt, cancelled>>

(* CancelledError: the batch of a timer that was posting is gone.  A task  *)
(* that has not run yet never reaches its finally.                         *)
CancelLands(t) ==
  /\ t \in cancelled
  /\ pc[t] # "done"
  /\ pc' = [pc EXCEPT ![t] = "done"]
  /\ timer' = (IF pc[t] = "created" THEN timer ELSE TimerAfter(t))
  /\ Become(IF pc[t] \in Busy THEN Members(batch[t]) ELSE {}, "lost")
  /\ UNCHANGED <<made, closed, queue, batch, attempt, cancelled>>

(* close(): events are still delivered while its POST is under way.        *)
BeginClose == /\ pc[Closer] = "none"
              /\ CancelTimer
              /\ timer' = None
              /\ \/ /\ queue # << >>
                    /\ BeginPost(Closer, queue)
                 \/ /\ queue = << >>
                    /\ pc' = [pc EXCEPT ![Closer] = "done"]
                    /\ UNCHANGED <<queue, batch>>
              /\ UNCHANGED <<made, closed, attempt, fate>>

(* PubSub.close() forgets its subscribers.                                 *)
EndClose == /\ pc[Closer] = "done"
            /\ ~closed
            /\ closed' = TRUE
            /\ UNCHANGED <<made, queue, timer, pc, batch, attempt, cancelled,
                           fate>>

Deliver == DeliverAndPost \/ DeliverAndWait
Task(t) == \/ TimerStarts(t)
           \/ TimerFires(t)
           \/ Confirmed(t)
           \/ Retry(t)
           \/ PostAgain(t)
           \/ PutBack(t)
           \/ CancelLands(t)

Next == \/ Deliver
        \/ \E t \in Tasks : Task(t)
        \/ BeginClose
        \/ EndClose

\* Tasks run when their delay is over or their request is answered.  Nobody
\* promises another event, nor close().
Spec == Init /\ [][Next]_vars /\ \A t \in Tasks : WF_vars(Task(t))

----------------------------------------------------------------------------

\* Types.  Only timers are cancelled, and only tasks that began have a batch.
TypeOK == /\ made \in 0..MaxEvents
          /\ closed \in BOOLEAN
          /\ queue \in Seq(Events)
          /\ timer \in Timers \union {None}
          /\ pc \in [Tasks -> Busy \union {"none", "created", "sleeping",
                                           "done"}]
          /\ batch \in [Tasks -> Seq(Events)]
          /\ attempt \in [Tasks -> 0..NumRetries]
          /\ cancelled \subseteq Timers
          /\ fate \in [Events -> {"none", "confirmed", "dropped", "lost"}]

Queued(e) == {i \in DOMAIN queue : queue[i] = e}
Posting(e) == {t \in Tasks : pc[t] \in Busy /\ e \in Members(batch[t])}

(* An event that was published is in one place: the queue, the batch of    *)
(* one task that posts, or confirmed, dropped for overflow or lost with a  *)
(* cancelled task; so it is neither posted by two tasks nor again once it  *)
(* was confirmed, and none disappears in another way.                      *)
Accounted == \A e \in 1..made :
               Cardinality(Queued(e)) + Cardinality(Posting(e))
               + (IF fate[e] = "none" THEN 0 ELSE 1) = 1

(* The queue never outgrows max_queue_size (or the buffer, if that is      *)
(* larger), however posts fail and new events arrive meanwhile.            *)
QueueBounded == Len(queue) <= IF MaxQueue >= BufferSize THEN MaxQueue
                              ELSE BufferSize - 1

(* As long as _flush_timer is set no timer is made, so it must be a task   *)
(* that is still there, whatever cancelled it, fired or failed.            *)
TimerIsLive == timer # None => pc[timer] \in Busy \union {"created", "sleeping"}

\* A batch was put back, or the service is being closed.
Disturbed == \/ pc[Closer] # "none"
             \/ \E t \in Tasks : /\ pc[t] = "done"
                                 /\ \E e \in Members(batch[t]) : fate[e] = "none"

(* "The delay in seconds after which buffered events will be flushed to    *)
(* the webhook, even if the buffer is not full": an event that a timer     *)
(* waits for leaves the queue, unless batches come back or close() comes   *)
(* in between.                                                             *)
TimerFlushes ==
  \A e \in Events :
    e \in Members(queue) /\ timer # None /\ pc[timer] \in {"created", "sleeping"}
    ~> e \notin Members(queue) \/ Disturbed
=============================================================================
