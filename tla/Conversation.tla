---------------------------- MODULE Conversation ----------------------------
(***************************************************************************)
(* openhands/sdk/conversation/impl/local_conversation.py together with the *)
(* agent's step (agent/agent.py, agent/response_dispatch.py): the loop of  *)
(* arun(), the operations other threads call meanwhile, and the events     *)
(* they exchange through the shared ConversationState.                     *)
(*                                                                         *)
(* Every `with self._state:` is served in FIFO order (module FIFOLock).    *)
(* An actor joins `queue` when it asks for the lock.  A critical section   *)
(* that awaits nothing is one action of the actor at the head, which       *)
(* leaves the queue in the same step; a step of the agent keeps the lock,  *)
(* and the place at the head, while its actor waits for a summary          *)
(* ("summary"), the LLM ("llm") or the tools ("tools").  Steps are made by *)
(* arun() and, one by one, by the callers of condense().                   *)
(* Of an event only what answers what is kept: actions are numbered in the *)
(* order of their ActionEvents, and user messages are seen or not.         *)
(***************************************************************************)
EXTENDS Naturals, Sequences, FiniteSets

CONSTANTS Callers,       \* threads that operate on the conversation
          Runs,          \* tasks that execute arun()
          Ops,           \* the operations the callers use
          MaxActions,    \* bound: ActionEvents of the whole history
          MaxIterations  \* max_iteration_per_run

ASSUME ConversationAssumption ==
  /\ Callers \intersect Runs = {}
  /\ Ops \subseteq {"message", "pause", "interrupt", "reject", "condense"}
  /\ MaxActions \in Nat
  /\ MaxIterations \in Nat \ {0}

VARIABLES status,     \* state.execution_status
          queue,      \* who holds (at the head) and waits for the state lock
          pc,         \* where each run and each caller is
          iter,       \* of each run: iteration
          issued,     \* number of ActionEvents in state.events
          matched,    \* the actions that an observation, error or rejection answers
          finishes,   \* the actions that are calls of FinishTool
          requested,  \* a CondensationRequest in state.events is unhandled
          unseen,     \* a user message no LLM call has included yet
          cancel,     \* the runs whose task.cancel() is on its way
          stale       \* of each caller: pending_actions, read without the lock

log == <<issued, matched, finishes, requested>>
vars == <<status, queue, pc, iter, log, unseen, cancel, stale>>

Actors == Callers \union Runs
Statuses == {"IDLE", "RUNNING", "PAUSED", "WAITING_FOR_CONFIRMATION",
             "FINISHED", "ERROR", "STUCK"}
Queued == {queue[i] : i \in DOMAIN queue}

\* arun() has set _arun_task and has not yet reset it.
InStep == {"summary", "llm", "tools"}
InRun == {"enter", "top", "raised", "cancelled"} \union InStep
Tracked(r) == pc[r] \in InRun

\* In a step of the agent, which keeps the lock.
Stepping(x) == pc[x] \in InStep

\* get_unmatched_actions(state.events).
Unmatched == (1..issued) \ matched

\* _truncate_at_finish: up to the first FinishTool call, F being those calls.
Truncated(S, F) == {a \in S : \A f \in S \intersect F : a <= f}

Init == /\ status = "IDLE"
        /\ queue = << >>
        /\ pc = [x \in Actors |-> "idle"]
        /\ iter = [r \in Runs |-> 0]
        /\ issued = 0
        /\ matched = {}
        /\ finishes = {}
        /\ requested = FALSE
        /\ unseen = FALSE
        /\ cancel = {}
        /\ stale = [c \in Callers |-> {}]

\* `with self._state:` entered, and left again by the actor at the head.
Join(x, where) == /\ queue' = Append(queue, x)
                  /\ pc' = [pc EXCEPT ![x] = where]
HasLock(x) == queue # << >> /\ Head(queue) = x
\* Mutant: the exit that forgets to unlock.
MutKeepLock(x, where) == UNCHANGED queue /\ pc' = [pc EXCEPT ![x] = where]
Leave(x, where) == /\ queue' = Tail(queue)
                   /\ pc' = [pc EXCEPT ![x] = where]
\* Left and entered again, behind everybody else.  Mutant: without queueing.
MutKeepTurn(x, where) == MutKeepLock(x, where)
Rejoin(x, where) == /\ queue' = Append(Tail(queue), x)
                    /\ pc' = [pc EXCEPT ![x] = where]
------------------------------------------------------------------------------
(* arun(): _arun_task is set and the lock is asked for. *)
StartRun(r) == /\ pc[r] = "idle"
               /\ Join(r, "enter")
               /\ UNCHANGED <<status, iter, log, unseen, cancel, stale>>

EnterRun(r) ==
  /\ pc[r] = "enter"
  /\ HasLock(r)
  /\ status' = IF status \in {"IDLE", "PAUSED", "ERROR", "STUCK"}
               THEN "RUNNING" ELSE status
  /\ Rejoin(r, "top")
  /\ UNCHANGED <<iter, log, unseen, cancel, stale>>

AtTop(r) == pc[r] = "top" /\ HasLock(r)

(* The loop ends: PAUSED, STUCK, or FINISHED and no stop hook objects. *)
Break(r) == /\ AtTop(r)
            /\ status \in {"PAUSED", "STUCK", "FINISHED"}
            /\ Leave(r, "done")
            /\ UNCHANGED <<status, iter, log, unseen, cancel, stale>>

(* The stop hook denies stopping. *)
StopDenied(r) == /\ AtTop(r)
                 /\ status = "FINISHED"
                 /\ status' = "RUNNING"
                 /\ Rejoin(r, "top")
                 /\ UNCHANGED <<iter, log, unseen, cancel, stale>>

(* The stuck detector looks at what follows the last user message. *)
DetectStuck(r) == /\ AtTop(r)
                  /\ status \notin {"PAUSED", "STUCK", "FINISHED"}
                  /\ ~unseen
                  /\ status' = "STUCK"
                  /\ Rejoin(r, "top")
                  /\ UNCHANGED <<iter, log, unseen, cancel, stale>>

\* The iteration cap.  Mutant: it is off by one.
MutLateCap(r) == iter[r] >= MaxIterations
Capped(r) == iter[r] + 1 >= MaxIterations

\* What ends the loop after a step that left the status st.  Mutant: run on
\* although the user is asked.
MutIgnoreWaiting(r, st) == Capped(r)
LoopOver(r, st) == st = "WAITING_FOR_CONFIRMATION" \/ Capped(r)

\* The status then.  Mutant: the cap reports nothing.
MutSilentCap(over, st) == st
StatusAfter(over, st) ==
  IF over /\ st \notin {"WAITING_FOR_CONFIRMATION", "FINISHED"} THEN "ERROR" ELSE st

EndIteration(r, st) ==
  /\ iter' = [iter EXCEPT ![r] = @ + 1]
  /\ status' = StatusAfter(LoopOver(r, st), st)
  /\ IF LoopOver(r, st) THEN Leave(r, "done") ELSE Rejoin(r, "top")

\* agent.step() or astep() ends, or raises: the exception handler of a run
\* asks for the lock again, and condense() lets the exception through.
EndStep(x, st) ==
  /\ IF x \in Runs THEN EndIteration(x, st)
     ELSE status' = st /\ Leave(x, "idle") /\ UNCHANGED iter
  /\ UNCHANGED <<cancel, stale>>
Raise(x) == /\ IF x \in Runs THEN Rejoin(x, "raised") ELSE Leave(x, "idle")
            /\ UNCHANGED <<status, iter, cancel, stale>>

\* It begins, in the loop or in condense().  The loop clears WAITING first.
MayStep(x) == /\ HasLock(x)
              /\ \/ pc[x] = "top" /\ status \notin {"PAUSED", "STUCK", "FINISHED"}
                 \/ pc[x] = "condense"
Resumed(x) == IF pc[x] = "top" /\ status = "WAITING_FOR_CONFIRMATION"
              THEN "RUNNING" ELSE status

\* The step goes on to where it waits.
StepTo(x, where) == /\ pc' = [pc EXCEPT ![x] = where]
                    /\ UNCHANGED <<queue, iter, cancel, stale>>

(* Pending actions come first: those up to the first FinishTool call start.*)
StepPending(x) ==
  /\ MayStep(x)
  /\ Unmatched # {}
  /\ status' = Resumed(x)
  /\ StepTo(x, "tools")
  /\ UNCHANGED <<log, unseen>>

(* A hook blocked the user's message. *)
StepBlocked(x) ==
  /\ MayStep(x)
  /\ Unmatched = {}
  /\ unseen
  /\ unseen' = FALSE
  /\ EndStep(x, "FINISHED")
  /\ UNCHANGED log

(* The history is to be condensed: on request, or because it is too long.  *)
StepCondense(x) ==
  /\ MayStep(x)
  /\ Unmatched = {}
  /\ status' = Resumed(x)
  /\ StepTo(x, "summary")
  /\ UNCHANGED <<log, unseen>>

(* The Condensation is emitted, and the step is over. *)
Condensed(x) == /\ pc[x] = "summary"
                /\ requested' = FALSE
                /\ EndStep(x, status)
                /\ UNCHANGED <<issued, matched, finishes, unseen>>

(* amake_llm_completion() on a history that includes every message so far, *)
(* unless a request, which is a hard requirement, forbids it.              *)
StepLLM(x) ==
  /\ MayStep(x)
  /\ Unmatched = {}
  /\ ~requested
  /\ unseen' = FALSE
  /\ status' = Resumed(x)
  /\ StepTo(x, "llm")
  /\ UNCHANGED log

(* A message for the user, or nothing to act upon (no content, malformed   *)
(* calls only); or the LLM refuses the history and the agent asks for its  *)
(* condensation.                                                           *)
LLMAnswers(x) == /\ pc[x] = "llm"
                 /\ \/ EndStep(x, "FINISHED") /\ UNCHANGED requested
                    \/ EndStep(x, status) /\ requested' \in {requested, TRUE}
                 /\ UNCHANGED <<issued, matched, finishes, unseen>>

(* The summary cannot be had, or the completion raises. *)
LLMRaises(x) == /\ pc[x] \in {"summary", "llm"}
                /\ Raise(x)
                /\ UNCHANGED <<log, unseen>>

(* Tool calls: one ActionEvent each; then they wait for confirmation, as   *)
(* no single FinishTool call ever does, or are executed; or an ActionEvent *)
(* cannot be appended, and those before it stay.                           *)
LLMCallsTools(x) ==
  /\ pc[x] = "llm"
  /\ \E n \in 1..(MaxActions - issued) :
       LET new == (issued + 1)..(issued + n)
       IN  \E F \in SUBSET new :
             /\ issued' = issued + n
             /\ finishes' = finishes \union F
             /\ \/ /\ ~(n = 1 /\ F = new)
                   /\ EndStep(x, "WAITING_FOR_CONFIRMATION")
                \/ StepTo(x, "tools") /\ UNCHANGED status
                \/ Raise(x)
  /\ UNCHANGED <<matched, requested, unseen>>

(* Every tool of the batch has returned: the results are emitted in order, *)
(* and a FinishTool call that no hook blocked and no critic sends back for *)
(* refinement marks the conversation finished.                             *)
ToolsReturn(x) ==
  /\ pc[x] = "tools"
  /\ LET batch == Truncated(Unmatched, finishes)
     IN  \/ /\ matched' = matched \union batch
            /\ \/ EndStep(x, status)
               \/ batch \intersect finishes # {} /\ EndStep(x, "FINISHED")
         \* The log refuses one of the results, or what follows them raises.
         \/ /\ \E last \in 0..issued :
                 matched' = matched \union {a \in batch : a <= last}
            /\ Raise(x)
  /\ UNCHANGED <<issued, finishes, requested, unseen>>

(* except Exception: *)
HandleError(r) == /\ pc[r] = "raised"
                  /\ HasLock(r)
                  /\ status' = "ERROR"
                  /\ Leave(r, "done")
                  /\ UNCHANGED <<iter, log, unseen, cancel, stale>>

\* The awaits.  Mutant: the one of the tools cannot be cancelled.
MutToolsShielded(r) == pc[r] \in {"summary", "llm"}
Awaiting(r) == Stepping(r)

(* CancelledError reaches arun() at an await.  The tools go on in their    *)
(* threads and their results are lost; the lock is released.               *)
CancelLands(r) == /\ r \in cancel
                  /\ Awaiting(r)
                  /\ cancel' = cancel \ {r}
                  /\ Rejoin(r, "cancelled")
                  /\ UNCHANGED <<status, iter, log, unseen, stale>>

\* _emit_orphaned_action_errors.
OrphansAnswered == matched \union Unmatched

(* except CancelledError: with the lock again. *)
HandleCancel(r) == /\ pc[r] = "cancelled"
                   /\ HasLock(r)
                   /\ matched' = OrphansAnswered
                   /\ status' = "PAUSED"
                   /\ Leave(r, "done")
                   /\ UNCHANGED <<iter, issued, finishes, requested, unseen, cancel, stale>>

(* arun() has returned; a cancellation that came too late is void. *)
EndRun(r) == /\ pc[r] = "done"
             /\ pc' = [pc EXCEPT ![r] = "idle"]
             /\ cancel' = cancel \ {r}
             /\ iter' = [iter EXCEPT ![r] = 0]
             /\ UNCHANGED <<status, queue, log, unseen, stale>>
------------------------------------------------------------------------------
\* A caller asks for the lock, and later has done its work with it.
Ask(c, op) == /\ Join(c, op)
              /\ UNCHANGED <<status, iter, log, unseen, cancel>>
Finish(c) == Leave(c, "idle") /\ UNCHANGED <<iter, cancel>>
Serving(c, op) == pc[c] = op /\ HasLock(c)

Calls(c, op) == op \in Ops /\ pc[c] = "idle"

AskMessage(c) == Calls(c, "message") /\ Ask(c, "message") /\ UNCHANGED stale

(* send_message(): a new message resets FINISHED and STUCK. *)
SendMessage(c) == /\ Serving(c, "message")
                  /\ status' = IF status \in {"FINISHED", "STUCK"} THEN "IDLE" ELSE status
                  /\ unseen' = TRUE
                  /\ Finish(c)
                  /\ UNCHANGED <<log, stale>>

\* pause() looks at the status once before it asks for the lock.
AskPause(c) == IF status = "PAUSED" THEN UNCHANGED vars
               ELSE Ask(c, "pause") /\ UNCHANGED stale

CallPause(c) == Calls(c, "pause") /\ AskPause(c)

Pause(c) == /\ Serving(c, "pause")
            /\ status' = IF status \in {"IDLE", "RUNNING"} THEN "PAUSED" ELSE status
            /\ Finish(c)
            /\ UNCHANGED <<log, unseen, stale>>

\* interrupt(): cancel the tracked run.
CancelRun(r) == cancel' = cancel \union {r}

Interrupt(c) ==
  /\ Calls(c, "interrupt")
  /\ IF \E r \in Runs : Tracked(r)
     THEN /\ \E r \in Runs : Tracked(r) /\ CancelRun(r)
          /\ UNCHANGED <<status, queue, pc, iter, log, unseen, stale>>
     ELSE AskPause(c)

(* reject_pending_actions(): the pending actions are read before the lock  *)
(* is asked for.                                                           *)
ReadPending(c) == /\ Calls(c, "reject")
                  /\ stale' = [stale EXCEPT ![c] = Unmatched]
                  /\ pc' = [pc EXCEPT ![c] = "read"]
                  /\ UNCHANGED <<status, queue, iter, log, unseen, cancel>>

AskReject(c) == pc[c] = "read" /\ Ask(c, "reject") /\ UNCHANGED stale

Reject(c) == /\ Serving(c, "reject")
             /\ status' = IF status = "WAITING_FOR_CONFIRMATION" THEN "IDLE" ELSE status
             /\ matched' = matched \union stale[c]
             /\ stale' = [stale EXCEPT ![c] = {}]
             /\ Finish(c)
             /\ UNCHANGED <<issued, finishes, requested, unseen>>

(* condense(): the request is emitted without the lock; then a step of the *)
(* agent of the caller's own, whatever that step finds to do.              *)
RequestCondensation(c) ==
  /\ Calls(c, "condense")
  /\ requested' = TRUE
  /\ pc' = [pc EXCEPT ![c] = "requested"]
  /\ UNCHANGED <<status, queue, iter, issued, matched, finishes, unseen, cancel, stale>>

AskCondense(c) == pc[c] = "requested" /\ Ask(c, "condense") /\ UNCHANGED stale
------------------------------------------------------------------------------
Call(c) == \/ AskMessage(c) \/ CallPause(c) \/ Interrupt(c) \/ ReadPending(c)
           \/ RequestCondensation(c)
Step(x) == StepPending(x) \/ StepBlocked(x) \/ StepCondense(x) \/ StepLLM(x)
Respond(x) == \/ Condensed(x) \/ LLMAnswers(x) \/ LLMRaises(x)
              \/ LLMCallsTools(x) \/ ToolsReturn(x)
Serve(c) == \/ SendMessage(c) \/ Pause(c) \/ AskReject(c) \/ Reject(c)
            \/ AskCondense(c) \/ Step(c)
Advance(r) == \/ EnterRun(r) \/ Break(r) \/ StopDenied(r) \/ DetectStuck(r) \/ Step(r)
              \/ HandleError(r) \/ CancelLands(r) \/ HandleCancel(r) \/ EndRun(r)

Next == \/ \E c \in Callers : Call(c) \/ Serve(c)
        \/ \E r \in Runs : StartRun(r) \/ Advance(r)
        \/ \E x \in Actors : Respond(x)

(* Threads that have or want the lock are scheduled, and a cancellation    *)
(* that was requested is delivered.  That the LLM and the tools respond to *)
(* a run, and that there is a last condense() and it returns, is assumed   *)
(* only where it is said (Responsive, CondensingEnds).                     *)
Prompt == /\ \A c \in Callers : WF_vars(Serve(c))
          /\ \A r \in Runs : WF_vars(Advance(r))
Responsive == \A r \in Runs : WF_vars(Respond(r))
CondensingEnds == <>[](\A c \in Callers : pc[c] # "condense" /\ ~Stepping(c))

Spec == Init /\ [][Next]_vars
PromptSpec == Spec /\ Prompt
------------------------------------------------------------------------------
TypeOK ==
  /\ status \in Statuses
  /\ queue \in Seq(Actors)
  /\ pc \in [Actors -> {"idle", "done", "message", "pause", "read", "reject",
                         "requested", "condense"} \union InRun]
  /\ iter \in [Runs -> 0..MaxIterations]
  /\ issued \in 0..MaxActions
  /\ matched \union finishes \subseteq 1..issued
  /\ requested \in BOOLEAN
  /\ unseen \in BOOLEAN
  /\ cancel \subseteq Runs
  /\ stale \in [Callers -> SUBSET (1..issued)]

(* The lock queue holds exactly the actors that wait for the lock or have  *)
(* it, once each, and a step of the agent waits for a summary, the LLM or  *)
(* the tools only at its head: no error, interrupt or break leaves the     *)
(* lock locked or asked for, and no two steps are under way.               *)
QueueMatchesActors ==
  /\ \A i, j \in DOMAIN queue : queue[i] = queue[j] => i = j
  /\ \A x \in Actors :
       x \in Queued <=> pc[x] \notin {"idle", "read", "requested", "done"}
  /\ \A x \in Actors : Stepping(x) => HasLock(x)

(* RUNNING is never left behind.  EventService.run() refuses to start a    *)
(* run while the status is RUNNING: if a run could end that way, by an     *)
(* error, an interrupt or a pause at a bad moment, the conversation could  *)
(* never be run again.                                                     *)
RunningIsHonest == status = "RUNNING" => \E r \in Runs : Tracked(r)

(* Every run ends, whatever else is asked of the conversation meanwhile,   *)
(* if the LLM and the tools respond and the calls of condense() end: their *)
(* steps are not counted by max_iteration_per_run.                         *)
RunEnds ==
  Responsive /\ CondensingEnds => \A r \in Runs : (pc[r] # "idle") ~> (pc[r] = "idle")

(* "Immediately cancel an in-flight arun(), including mid-LLM-call": an    *)
(* interrupted run ends even if its LLM and its tools never respond.  It   *)
(* needs the lock to say so, which only a condense() can keep from it.     *)
InterruptEndsRun ==
  CondensingEnds => \A r \in Runs : (r \in cancel) ~> (pc[r] = "idle")
==============================================================================
