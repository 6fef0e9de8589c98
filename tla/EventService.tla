---------------------------- MODULE EventService ----------------------------
(***************************************************************************)
(* openhands/agent_server/event_service.py: the coroutines that drive a    *)
(* LocalConversation (module Conversation) for the server's clients.       *)
(*                                                                         *)
(* run() decides, under _run_lock, whether to create a background task;    *)
(* the task executes arun() and then its tail: wait for the events to be   *)
(* published, clear _run_task, publish the state, honour a rerun request.  *)
(* Coroutines interleave only where they await.  While arun() waits for    *)
(* the state lock it blocks the event loop, and only worker threads move.  *)
(***************************************************************************)
EXTENDS Conversation

CONSTANTS Nobody  \* _run_task or the owner of _run_lock is None

ASSUME EventServiceAssumption == Nobody \notin Actors

VARIABLES svc,      \* of each actor: where its coroutine is in the service
          sending,  \* the callers in send_message(run=True)
          runTask,  \* self._run_task
          runLock,  \* the coroutine that has self._run_lock
          rerun,    \* self._rerun_requested
          awaits    \* of each caller: the task its interrupt() waits for

service == <<svc, sending, runTask, runLock, rerun, awaits>>
svars == <<vars, service>>

\* The event loop is not blocked by an arun(), or by the pause() of an
\* interrupt(), that waits for the state lock.
LoopFree == /\ \A r \in Runs : pc[r] \notin {"enter", "top", "raised", "cancelled"}
            /\ \A c \in Callers : svc[c] # "interrupt"

\* _run_task is not None and not _run_task.done().
Alive(r) == r \in Runs /\ svc[r] # "idle"

SInit == /\ Init
         /\ svc = [x \in Actors |-> "idle"]
         /\ sending = {}
         /\ runTask = Nobody
         /\ runLock = Nobody
         /\ rerun = FALSE
         /\ awaits = [c \in Callers |-> Nobody]

To(x, where) == svc' = [svc EXCEPT ![x] = where]
------------------------------------------------------------------------------
(* The clients' requests; send_message() with run=True or run=False. *)
Free(c) == LoopFree /\ svc[c] = "idle" /\ pc[c] = "idle"

RequestMessage(c) == /\ Free(c)
                     /\ AskMessage(c)
                     /\ To(c, "message")
                     /\ sending' \in {sending, sending \union {c}}
                     /\ UNCHANGED <<runTask, runLock, rerun, awaits>>

(* respond_to_confirmation(accept=True), and the request to run. *)
RequestRun(c) == /\ Free(c)
                 /\ To(c, "runLock")
                 /\ UNCHANGED <<vars, sending, runTask, runLock, rerun, awaits>>

RequestPause(c) == Free(c) /\ CallPause(c) /\ UNCHANGED service
RequestReject(c) == Free(c) /\ ReadPending(c) /\ UNCHANGED service
RequestCondense(c) == Free(c) /\ RequestCondensation(c) /\ UNCHANGED service

(* interrupt(), and what it does with the run task once the conversation   *)
(* has been told.                                                          *)
RequestInterrupt(c) == /\ Free(c)
                       /\ Interrupt(c)
                       /\ To(c, "interrupt")
                       /\ UNCHANGED <<sending, runTask, runLock, rerun, awaits>>

Interrupted(c) == /\ svc[c] = "interrupt"
                  /\ pc[c] = "idle"
                  /\ IF Alive(runTask)
                     THEN To(c, "await") /\ awaits' = [awaits EXCEPT ![c] = runTask]
                     ELSE To(c, "idle") /\ UNCHANGED awaits
                  /\ UNCHANGED <<vars, sending, runTask, runLock, rerun>>

(* The worker threads' share: the conversation's own methods, the step of  *)
(* condense() with its LLM and tools among them.                           *)
Work(c) == (Serve(c) \/ Respond(c)) /\ UNCHANGED service

MessageSent(c) == /\ LoopFree
                  /\ svc[c] = "message"
                  /\ pc[c] = "idle"
                  /\ To(c, IF c \in sending THEN "runLock" ELSE "idle")
                  /\ UNCHANGED <<vars, sending, runTask, runLock, rerun, awaits>>

(* asyncio.wait_for(self._run_task, timeout=5.0) cancels the task once, on *)
(* time-out.                                                               *)
TimeOut(c) == /\ LoopFree
              /\ svc[c] = "await"
              /\ Alive(awaits[c])
              /\ cancel' = cancel \union {awaits[c]}
              /\ To(c, "timedOut")
              /\ UNCHANGED <<status, queue, pc, iter, log, unseen, stale,
                             sending, runTask, runLock, rerun, awaits>>

\* "Only clear _run_task if it actually finished".  Mutant: clear it.
MutForget == Nobody
LastRun == IF Alive(runTask) THEN runTask ELSE Nobody

RunAwaited(c) == /\ LoopFree
                 /\ svc[c] \in {"await", "timedOut"}
                 /\ ~Alive(awaits[c])
                 /\ runTask' = LastRun
                 /\ awaits' = [awaits EXCEPT ![c] = Nobody]
                 /\ To(c, "idle")
                 /\ UNCHANGED <<vars, sending, runLock, rerun>>
------------------------------------------------------------------------------
(* run(): take _run_lock, read the status in a worker thread, and decide. *)
TakeRunLock(x) == /\ LoopFree
                  /\ svc[x] = "runLock"
                  /\ runLock = Nobody
                  /\ runLock' = x
                  /\ To(x, "status")
                  /\ Join(x, "status")
                  /\ UNCHANGED <<status, iter, log, unseen, cancel, stale,
                                 sending, runTask, rerun, awaits>>

\* Where pc stands while a coroutine has no thread in the lock's queue.
Home(x) == IF x \in Runs THEN "done" ELSE "idle"

ReadStatus(x) == /\ svc[x] = "status"
                 /\ HasLock(x)
                 /\ Leave(x, Home(x))
                 /\ To(x, IF status = "RUNNING" THEN "refuse" ELSE "check")
                 /\ UNCHANGED <<status, iter, log, unseen, cancel, stale,
                                sending, runTask, runLock, rerun, awaits>>

\* The check of _run_task.  Mutant: the status alone decides.
MutStatusOnly == FALSE
RunExists == Alive(runTask)

\* send_message() notes a refusal.
Rearm(x) == rerun' = (rerun \/ x \in sending)

\* Bound: the tasks are finitely many.  One that is over is used again once
\* nobody waits for it.
Unused(r) == svc[r] = "idle" /\ \A c \in Callers : awaits[c] # r

\* The coroutine x is over, a caller's request or the tail of a task.
\* Mutant: run() ends without releasing _run_lock.
MutHoldRunLock(x) == /\ UNCHANGED runLock
                     /\ sending' = sending \ {x}
                     /\ IF x \in Runs THEN EndRun(x) ELSE UNCHANGED vars
Return(x) == /\ runLock' = Nobody
             /\ sending' = sending \ {x}
             /\ IF x \in Runs THEN EndRun(x) ELSE UNCHANGED vars

Refuse(x) == /\ LoopFree
             /\ svc[x] = "refuse" \/ (svc[x] = "check" /\ RunExists)
             /\ Rearm(x)
             /\ To(x, "idle")
             /\ Return(x)
             /\ UNCHANGED <<runTask, awaits>>

CreateTask(x) == /\ LoopFree
                 /\ svc[x] = "check"
                 /\ ~RunExists
                 /\ \E r \in Runs : /\ Unused(r)
                                    /\ runTask' = r
                                    /\ svc' = [svc EXCEPT ![x] = "idle", ![r] = "created"]
                 /\ Return(x)
                 /\ UNCHANGED <<rerun, awaits>>
------------------------------------------------------------------------------
(* _run_and_publish(): arun() ... *)
StartTask(r) == /\ LoopFree
                /\ svc[r] = "created"
                /\ StartRun(r)
                /\ To(r, "live")
                /\ UNCHANGED <<sending, runTask, runLock, rerun, awaits>>

Live(r) == /\ svc[r] = "live"
           /\ Advance(r) \/ Respond(r)
           /\ IF pc'[r] = "done" THEN To(r, "publishing") ELSE UNCHANGED svc
           /\ UNCHANGED <<sending, runTask, runLock, rerun, awaits>>

\* Bound: a task begins the end of its tail when there is a task for the next.
TaskLeft == \E u \in Runs : Unused(u)

(* ... then wait_for_pending() ... *)
ClearTask(r) == /\ LoopFree
                /\ svc[r] = "publishing"
                /\ TaskLeft
                /\ runTask' = Nobody
                /\ To(r, "cleared")
                /\ UNCHANGED <<vars, sending, runLock, rerun, awaits>>

(* ... and once the state is published, the request for a rerun, if any.   *)
CheckRerun(r) == /\ LoopFree
                 /\ svc[r] = "cleared"
                 /\ rerun' = FALSE
                 /\ IF rerun
                    THEN /\ To(r, "rerun")
                         /\ Join(r, "status")
                         /\ UNCHANGED <<status, iter, log, unseen, cancel, stale>>
                    ELSE /\ To(r, "idle")
                         /\ EndRun(r)
                 /\ UNCHANGED <<sending, runTask, runLock, awaits>>

(* The rerun is honoured only while the status is IDLE. *)
ReadIdle(r) == /\ svc[r] = "rerun"
               /\ HasLock(r)
               /\ Leave(r, "done")
               /\ To(r, IF status = "IDLE" THEN "runLock" ELSE "over")
               /\ UNCHANGED <<status, iter, log, unseen, cancel, stale,
                              sending, runTask, runLock, rerun, awaits>>

EndTask(r) == /\ LoopFree
              /\ svc[r] = "over"
              /\ To(r, "idle")
              /\ EndRun(r)
              /\ UNCHANGED <<sending, runTask, runLock, rerun, awaits>>

\* `async with` releases _run_lock.  Mutant: a cancelled run() keeps it.
MutKeepRunLock(x) == runLock
Unlocked(x) == IF runLock = x THEN Nobody ELSE runLock

(* A cancellation that arun() did not live to see ends the tail where it   *)
(* awaits, and with it the rerun.                                          *)
CancelTail(r) == /\ LoopFree
                 /\ r \in cancel
                 /\ svc[r] \in {"publishing", "cleared", "rerun", "runLock", "status",
                               "refuse", "check", "over"}
                 /\ To(r, "idle")
                 /\ pc' = [pc EXCEPT ![r] = "idle"]
                 /\ queue' = SelectSeq(queue, LAMBDA x : x # r)
                 /\ iter' = [iter EXCEPT ![r] = 0]
                 /\ cancel' = cancel \ {r}
                 /\ runLock' = Unlocked(r)
                 /\ UNCHANGED <<status, log, unseen, stale, sending, runTask, rerun, awaits>>
------------------------------------------------------------------------------
Request(c) == \/ RequestMessage(c) \/ RequestRun(c) \/ RequestPause(c)
              \/ RequestReject(c) \/ RequestCondense(c) \/ RequestInterrupt(c)
Handle(c) == Work(c) \/ MessageSent(c) \/ Interrupted(c) \/ TimeOut(c) \/ RunAwaited(c)
Decide(x) == TakeRunLock(x) \/ ReadStatus(x) \/ Refuse(x) \/ CreateTask(x)
Task(r) == \/ StartTask(r) \/ Live(r) \/ ClearTask(r) \/ CheckRerun(r) \/ ReadIdle(r)
           \/ EndTask(r) \/ CancelTail(r)

SNext == \/ \E c \in Callers : Request(c) \/ Handle(c)
         \/ \E x \in Actors : Decide(x)
         \/ \E r \in Runs : Task(r)

(* Threads that can run do.  The event loop resumes what is ready in FIFO  *)
(* order, so a coroutine that is ready whenever the loop is free, or when  *)
(* asyncio.Lock is handed over, is not passed over for ever.  The LLM and  *)
(* the tools respond.                                                      *)
SFairness == /\ \A c \in Callers : SF_svars(Handle(c))
             /\ \A r \in Runs : SF_svars(Task(r))
             /\ \A x \in Actors : SF_svars(Decide(x))

SSpec == SInit /\ [][SNext]_svars
SFairSpec == SSpec /\ SFairness
------------------------------------------------------------------------------
STypeOK == /\ svc \in [Actors -> {"idle", "message", "interrupt", "await", "timedOut",
                        "runLock", "status", "check", "refuse", "created", "live",
                        "publishing", "cleared", "rerun", "over"}]
           /\ sending \subseteq Callers
           /\ runTask \in Runs \union {Nobody}
           /\ runLock \in Actors \union {Nobody}
           /\ rerun \in BOOLEAN
           /\ awaits \in [Callers -> Runs \union {Nobody}]

(* _run_lock is held by the one coroutine inside its section, and by none  *)
(* when there is none: a run() that is refused or cancelled gives it back. *)
RunLockIsSection ==
  /\ STypeOK
  /\ \A x \in Actors : runLock = x <=> svc[x] \in {"status", "refuse", "check"}

(* At most one arun() at a time.  The FIFO lock would not keep a second    *)
(* one out: both run on the thread of the event loop, which owns the lock. *)
OneRun == \A r, u \in Runs : Tracked(r) /\ Tracked(u) => r = u

(* While a task has a run in its hands, _run_task says so, and RUNNING     *)
(* means that there is one: neither refuses a run for ever.                *)
RefusalIsTemporary ==
  /\ \A r \in Runs : svc[r] \in {"created", "live", "publishing"} => runTask = r
  /\ status = "RUNNING" => \E r \in Runs : svc[r] = "live"

(* Every request to the service returns, and every run task ends: neither  *)
(* the rerun nor the wait of an interrupt goes round for ever.             *)
RequestsReturn == \A x \in Actors : (svc[x] # "idle") ~> (svc[x] = "idle")
==============================================================================
