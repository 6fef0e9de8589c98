# Formal models of the OpenHands agent SDK and agent server

TLA+ modules, TLC runs and TLAPS proofs for the part of this repository that
decides what an agent's conversation does: the software-agent-sdk's
`LocalConversation`, the locks under it, the agent's step and its tool threads,
the persisted state and event log, and what the LLM is shown of it; the agent
server's `EventService`, the lease between servers, and webhooks; and the remote
client. `PROJECT.json` maps every definition to the lines it models; this file
explains the system, the modules, what each run and each theorem shows, and what
is left out.

Below, SDK is `src/software-agent-sdk/openhands-sdk/openhands/sdk`, and AS is
`src/software-agent-sdk/openhands-agent-server/openhands/agent_server`.

## 1. The system

| component | state | operations | talks to |
|---|---|---|---|
| `FIFOLock` (SDK/conversation/fifo_lock.py) | owner, nesting count, queue of waiters, one condition each | acquire (blocking, with time-out, reentrant), release | threads |
| `ResourceLockManager` (SDK/conversation/resource_lock_manager.py) | table of locks and reference counts per key | lock(keys) as a context manager | FIFOLock; used by the parallel tool executor |
| `ConversationState` (SDK/conversation/state.py) | execution status, events, a FIFOLock, `_save_depth`, `_dirty` | enter and exit with deferred save, unmatched actions | event log, file store |
| `LocalConversation` (SDK/conversation/impl/local_conversation.py) | the tracked arun() task, the cancellation token | run, arun, send_message, pause, interrupt, reject_pending_actions, condense, ... | state, agent, hooks |
| `Agent` (SDK/agent/agent.py, response_dispatch.py) | none between steps | step, astep: pending actions, LLM call, tool batch | LLM, tool executor |
| `ParallelToolExecutor` (SDK/agent/parallel_executor.py, SDK/conversation/cancellation.py) | worker threads, a semaphore per batch, the run's token | execute_batch, aexecute_batch | resource locks, tools |
| `EventService` (AS/event_service.py) | `_run_task`, `_run_lock`, `_rerun_requested`, lease | send_message(run), run, pause, interrupt, reject, condense, start, close | LocalConversation in threads and on the event loop |
| `ConversationLease` (AS/conversation_lease.py) | lease file: owner, generation, expiry | claim, renew, guarded_write, release | other servers |
| `EventLog` (SDK/conversation/event_store.py) | files of events, index in memory | append, read, sync | file store, lease |
| `ConversationService`, `WebhookSubscriber`, `PubSub` (AS) | services by id; buffer and timer of each webhook | start, delete, fork; post | EventService, HTTP |
| `RemoteConversation` (SDK/conversation/impl/remote_conversation.py) | cached events, status | run and wait, by WebSocket and by polling | agent server |
| `View`, its properties, `LLMSummarizingCondenser` (SDK/context) | the view kept with the state | append_event, enforce_properties, condense | Agent, LocalConversation |
| stuck detector, sockets, routers, bash service, tools, LLM, hooks, MCP; `src/OpenHands` | see `PROJECT.json` | | |

What is hard in it: threads and coroutines share one reentrant lock, and `arun()`
keeps it while it awaits; a status is read and acted upon at different times; an
interrupt takes effect at an await, releases the lock and asks for it again; tool
calls are answered by other events, and what is unanswered is executed by
whoever steps next; a tool thread cannot be cancelled and outlives its run; the
tail of a run task races with requests for the next run; a crash finds on disk
what the last critical section left there; a server that lost the conversation
may not know it yet; events reach a client twice, in two orders, and a webhook's
batch can fail while others are under way; what condensation cuts must not tear
a call from its answer. The list, at its lines, is under "hazards" in
`PROJECT.json`.

What makes each part correct:

* locks: first come first served, no wake-up lost, exclusion per key, exact
  reference counts, no deadlock;
* conversation: the lock and RUNNING are never left behind, every run ends, an
  interrupt ends it whether or not the LLM responds, no tool call is executed
  twice or without consent, a message or a pause is not lost, a rejection rejects
  what is pending;
* restart: an interrupted call is surfaced, and the conversation can be run;
* tool executor: exclusion and exact counts across runs, no call starts in a run
  that is not its own, every call ends;
* event service: one run at a time, a refusal does not last, requests return;
* lease and event log: the event files have no gap and no repetition, every
  server's memory agrees with them, a server that lost the lease writes nothing;
* webhooks: no event is posted by two tasks or vanishes unaccounted, the queue is
  bounded, what is buffered goes out after its delay;
* remote conversation: the copy of the events has each once, in the order of the
  timestamps, and is complete when a run returns; run() returns;
* view: calls and answers, responses and tool loops are shown whole or not at
  all, in order, with nothing put between a call and its answer, and condensation
  needs no repair and makes progress.

## 2. The modules

| module | models | uses |
|---|---|---|
| `FIFOMutex` | what a FIFO mutex promises: a holder and a queue | |
| `FIFOLock` | fifo_lock.py | refines `FIFOMutex` |
| `FIFOLockProofs` | theorems about `FIFOLock` | `FIFOLock`, TLAPS |
| `ResourceLockManager` | resource_lock_manager.py over FIFO locks | |
| `ToolExecutor` | parallel_executor.py, cancellation.py | extends `ResourceLockManager` |
| `ToolExecutorMC` | batches for TLC | `ToolExecutor` |
| `ToolExecutorProofs` | theorems about `ResourceLockManager`, which `ToolExecutor` implements, and about `ToolExecutor` | `ToolExecutor`, TLAPS |
| `Conversation` | arun(), the agent's step and the callers' operations | the lock as a FIFO queue |
| `ConversationCrash` | `Conversation` with a disk, crashes and restarts | `Conversation` |
| `ConversationHistory` | the above with history variables | `ConversationCrash` |
| `ConversationHistoryMC` | symmetry for TLC | `ConversationHistory` |
| `ConversationProofs` | theorems about `Conversation`, crashes and histories | `ConversationHistory`, TLAPS |
| `EventService` | event_service.py around a conversation | `Conversation` |
| `EventServiceMC` | symmetry for TLC | `EventService` |
| `EventServiceProofs` | theorems about `EventService` | `EventService`, TLAPS |
| `ConversationLease` | conversation_lease.py and the life of the services around it | |
| `EventLog` | event_store.py of every service, over the lease | extends `ConversationLease` |
| `EventLogMC` | two servers and three services for TLC | `EventLog` |
| `EventLogProofs` | theorems about `EventLog` and the lease | `EventLog`, TLAPS |
| `WebhookSubscriber` | WebhookSubscriber in conversation_service.py | |
| `WebhookProofs` | theorems about `WebhookSubscriber` | `WebhookSubscriber`, TLAPS |
| `RemoteConversation` | remote_conversation.py against a server | |
| `RemoteConversationProofs` | theorems about `RemoteConversation` | `RemoteConversation`, TLAPS |
| `ContextView` | view/, its properties, the condenser, histories an agent makes | |
| `ContextViewProofs` | theorems about `ContextView` | `ContextView`, TLAPS |

**Locks.** In `FIFOLock` a thread is outside, asleep on its condition or awake;
`_mutex` makes each passage of the code between two waits atomic. A time-out or
a spurious wake-up is the action `WaitExpires`; the loop then takes the lock,
gives up or sleeps again. `FIFOMutex` is the abstract view, and the later modules
use a lock at its grain: an actor joins the queue, has the lock when at the head,
and leaves. `ResourceLockManager` has the steps of `lock()` as actions of a
thread: `GetLock` and `Unref` are atomic under `_mutex`, and everything between
them interleaves.

**Tool executor.** `ToolExecutor` keeps the variables and steps of
`ResourceLockManager` for calls in `lock()` and adds what surrounds them: the
batch, the semaphore, the pool, the token. A call is named by the thread that
executes it, and the pool has a thread for each, while the code's pool is as
large as the number of workers; a call that waits for a thread is `submitted`
like one that was just handed over. Every run has a token; `cancelled` says of
each call whether that of its own run is set. `CancelLands` ends the batch and
leaves the threads at work as `orphans`, whose locks and whose place in the pool
the next run meets. It is never forced, so a synchronous run(), which gathers
its threads whatever happens, is among the behaviours. Results reach the agent
in the order of the batch because `Gather` takes them all at once, as
`asyncio.gather` does; no property is made of it.

**Conversation.** `pc` says where an actor is; `queue` is the state lock, its
head the owner. A critical section without await is one action. `arun()` is
`StartRun`, `EnterRun`, then one iteration per visit of "top": `Break`,
`StopDenied`, `DetectStuck`, or a step. A step of the agent can be of a run or of
a caller of condense(), which emits its request before it asks for the lock
(`RequestCondensation`) and then makes one whole step with it. A step executes
what is pending (`StepPending`), ends as a hook blocked the message
(`StepBlocked`), condenses (`StepCondense`, `Condensed`; a request that is not
handled yet leaves it no choice), or calls the LLM, which may answer, refuse the
history, raise or call tools. "summary", "llm" and "tools" are where it waits,
with the lock held; in a run they are awaits, which a cancellation can end, in
condense() they are not, and nothing promises that they end. A step may raise at
each of them: when the tools have returned, after any of their results
(`ToolsReturn`), as the log may refuse one. Events are reduced to what answers
what: actions are numbers, `matched` the ones that an observation, error or
rejection answers, `finishes` those that call FinishTool. Hooks, the
confirmation policy, the critic, the condenser and the stuck detector may decide
either way. The model is of `arun()`, which the server uses; the synchronous
`run()` has the same control flow without the cancellation.

**Crash.** `ConversationCrash` adds `saved`, the status on disk. Events are
written as they are emitted; the status is written when the critical section
ends, so an older one is on disk while a step awaits. `Crash` throws away
everything volatile and does what `EventService.start()` does with what it
loads. That no other server owns the conversation is the business of the lease,
in `ConversationLease`.

**History.** `ConversationHistory` records what a promise about the past needs:
actions whose tools were started and whose results were not lost (`ran`), actions
a step dropped, actions about which a run has asked the user, and steps a waiting
thread was overtaken by. `TokenCancelled` is the run's token, which interrupt()
sets before it cancels the task: a condense() that gets the lock before the
interrupted run's handler finds its calls pending, and only answers them. A call
whose result the log refused may be executed again, as nobody knows that it was.

**Event service.** Coroutines move only while the loop is free (`LoopFree`):
`arun()` asks for the state lock on the loop's own thread and blocks it. `svc` is
the coroutine's place, `awaits` the task an interrupt waits for. A cancellation
reaches the run at its next await (`CancelLands`), or the tail of its task
(`CancelTail`). condense() runs in a thread of the pool and is one of the
client's requests (`RequestCondense`).

**Lease and event log.** Every operation on the lease file is an action, as it
is atomic under the lease's FileLock; expiry may come at any moment. A service
is one `EventService` object: it starts, gets into its server's table after
further awaits, and is closed by a failed start or the server's shutdown; a
server may make two for the same conversation. Processes die and keep their
lease. `EventLog` adds each service's `append()`: `Sync` (the file lock and the
look at the disk), then `Write` or `OwnershipLost` under the guard. Expiry,
takeover, close() and crash come between them. `_scan_and_build_index` and the
merge with the memory are operators. A thread of a service that is closed goes
on without a guard, as `_write_guard()` is then a nullcontext.

**Webhooks.** An action is what happens between two awaits of the event loop. A
task is the coroutine whose event fills the buffer, a timer, or close(); each
posts its own batch, retries and puts it back. A timer can be cancelled at each
of its awaits. `fate` is history: what became of an event.

**Remote conversation.** The server is reduced to what the client can tell: it
emits events and status changes under the state lock, each is published and then
stored, and its run begins, iterates and has a tail, and ends in any status. An
event is its place in the order of the timestamps, which it gets when it is made;
`kind` says what it is, `log` in which order the events are emitted. The two
orders differ: a tool of a batch makes its observation, and `stats_callback()` its
event, while others are still to be emitted (`Make`, `Emit`). The client has the
calling thread, with the constructor's handshake and run()'s wait by socket and
by polling, and the socket's thread. That takes events from the channel in any
order (`Receive`), and a callback may raise before or after the event is in the
copy. `Before` is where bisect_right() may insert: one place if the copy is
sorted, and any that ends its search if it is not. The connection may be lost at
any time or be renewed, requests fail, run()'s time-out may come at any moment of
its wait (`Expire`), and another thread may pause or interrupt.

**Context view.** The history grows as the agent makes it: responses with
several calls, of which some are invalid and some begin with thinking, answers
in the order of the calls, second answers, messages, requests for condensation.
A view is a sequence of event IDs. Each property's `enforce()` is the set it
wants dropped, and its manipulation indices are the complement of a set; the
condenser picks what lies between two of them. The number of tokens is not
counted: any cut may be asked for. The user may send a message while a call
waits for confirmation; it is then shown between the call and its answer, as no
property of a view moves or drops it. What `PromptIsCoherent` says is that
nothing else is (`NothingInserted`).

## 3. The runs

Passing:

| run | shows |
|---|---|
| `fifo_lock` | types, queue, wake-ups, refinement of `FIFOMutex`, every acquire returns |
| `tool_calls` | exclusion per resource, shared locks and exact counts across runs, no deadlock, no start in a later run, every call ends |
| `conversation` | the lock's queue and RUNNING are never left behind; every run ends if LLM and tools respond, an interrupted one even if they hang, both provided that there is a last condense() and it returns |
| `conversation_history` | with one crash, lost results and condense(): no call whose result is known executed twice but after the crash, none about which a run asked executed before the next run() but by condense(), nobody overtaken twice, the restarted conversation can be run |
| `event_service` | one arun() at a time, `_run_lock` and `_run_task` match the tasks, no refusal lasts |
| `event_service_returns` | requests and run tasks come to an end, reruns and interrupts that time out included |
| `event_log` | with takeovers, crashes and two services of one server: no gap or repetition in the files, memory agrees with them, a fenced server writes nothing |
| `webhooks` | every event accounted for, queue bounded, the timer that is set is alive and flushes |
| `remote_run` | copy without repetitions and in the order of timestamps whatever overtakes what, handshake without a gap, complete when a run returns FINISHED, run() returns from a terminal status without its time-out whatever becomes of the socket |
| `context_view` | what the LLM is shown is coherent, no summary comes between a call and its answer, condensation leaves nothing to repair and keeps the order, and makes progress |

Violated, each a disagreement of the code with a docstring or test (quoted in
`PROJECT.json` under "findings"):

| run | what happens |
|---|---|
| `discarded_executed` | calls dropped after FinishTool are unmatched, so the next step executes them |
| `first_occurrence` | a second answer inside a tool loop takes away the call, its first answer and the rest of the loop |

**Bounds.** The state spaces are finite without further constraints.

* `fifo_lock`: four threads, for a holder, a front waiter that times out and two
  behind it; `MaxCount` 2 bounds the nesting.
* `tool_calls`: three threads, two at a time (`MaxWorkers`), for one that waits
  for the semaphore, or an orphan beside a batch of two; two keys, for opposite
  orders; two lock objects, which are reused.
* `conversation`, `conversation_history`: two callers and one run, for a stale
  read, a wait in the queue, a condense() and the loop between them; two
  iterations, for "again"; one crash (`MaxCrashes`). `conversation` has one
  action (`MaxActions`), as its properties do not tell actions apart and its
  liveness admits no symmetry; `conversation_history` has two, for a parallel
  batch of which one result is lost or something comes after FinishTool. It
  leaves pause() out: to the history, an interrupt is the harder case.
* `event_service`: two tasks, for one in its tail and one that starts, two
  clients and one action. `event_service_returns` has one client and no tool calls, as liveness
  admits neither symmetry nor the larger state space; the interleavings of two
  clients are those of `event_service`.
* `event_log`: two servers on one machine, the first with two services of the
  conversation, so that a takeover and two services of one owner both occur;
  three calls of append(), for one stale write between two others. One machine
  lets a dead owner be taken over at once, expiry lets a live one be.
* `webhooks`: buffer and queue of two, one retry, four events: a batch that is
  put back meets a full buffer and overflows.
* `remote_run`: the code's `TERMINAL_POLL_THRESHOLD` of three, one iteration,
  and two of messages, runs, pauses, events made early, reconnections,
  overtakings and failures together (`MaxOps`); one event at a time is made
  before its turn, which is enough for two orders.
* `context_view`: histories of up to eight events. `MaxSize` 6, `KeepFirst` 1
  and a minimum progress of 30 % make condensation happen in them; responses of
  two calls, one second answer.

`MaxIterations` is `max_iteration_per_run` of the code. Symmetry is used for
safety only.

**Fairness.** A thread that can take a lock it waits for is scheduled, so its
steps are weakly fair; holders of `FIFOLock` release. In `ToolExecutor` each
thread's work and the gathering are weakly fair: tools end. No time-out,
interrupt or cancellation is promised, so calls return without them. In
`Conversation`, threads at the head of the queue proceed and requested
cancellations are delivered (`Prompt`). That the LLM and the tools respond
(`Responsive`) is the premise of `RunEnds` and not assumed by
`InterruptEndsRun`. Both have the premise `CondensingEnds`: a condense() holds the
state lock while its LLM call and its tools go on, the handler of an interrupted
run needs that lock, and the steps of condense() are not counted by the iteration
cap. The code gives no bound for either. In `EventService` the event loop resumes what is ready in
FIFO order, and asyncio.Lock hands over in FIFO order: a coroutine whose step is
possible only while the loop, or `_run_lock`, is free is strongly fair. In
`WebhookSubscriber` every task goes on when its delay or request is over; nobody
promises another event or close(). In `RemoteConversation` the server and the
calling thread are weakly fair, the socket is not: `RunReturns` holds when it
never delivers and the time-out never comes. Nothing is assumed of the callers: they need not call.

**Deadlock** is checked except in `event_log`, `webhooks`, `remote_run`,
`context_view` and `first_occurrence`, whose systems may stop: all services are
closed, nothing more is published, the client failed to connect, or the bound of
the history is reached.

**Seen while modelling.** The models show these too; they are listed as hazards
in `PROJECT.json` and have no run:

* reject_pending_actions() reads what is pending before it asks for the lock, so
  what is issued meanwhile stays pending;
* condense() steps the agent, which executes what waits for confirmation; and if
  that step asks for confirmation while a run is in its loop, the loop takes the
  status for a consent and executes;
* while condense() waits for the LLM or its tools it holds the state lock: an
  interrupted run cannot end, and blocks the event loop in its handler;
* the token that keeps condense() from executing an interrupted run's calls is
  cancelled by interrupt(), but not by the service's time-out or close(), which
  cancel the task alone;
* a pause that lands between the start of arun() and its first section is undone;
* after a crash with WAITING_FOR_CONFIRMATION or IDLE on disk the calls in
  progress are not surfaced, and with RUNNING only the first of them is;
* after ERROR, PAUSED or WAITING the rerun is dropped with the input it was for,
  and `_rerun_requested` can outlive its message;
* a call that waits for a resource when the interrupt comes starts its tool when
  it gets it, as the token is looked at before the locks; orphans and the next
  batch together exceed max_workers; a tool that polls the conversation's token
  finds the next run's;
* a closed service writes without a guard; two services of one server share
  owner and generation, and one that fails to start releases the other's lease;
* a webhook's overflow drops the newest events, as the failed batch goes behind
  them; the batch of a timer that is cancelled while it posts is lost;
* the wait of a remote run() can end with a status of the run before, or last
  until its time-out when the server refused with 409 in the tail of the last
  run, and lasts until then whenever the run ends PAUSED or
  WAITING_FOR_CONFIRMATION;
* the full sync of a remote client keeps the order of the log. Where that is not
  the order of the timestamps the copy is not sorted, and bisect_right() works on
  a list that is not sorted from then on;
* a message sent while a call waits for confirmation is shown between the call
  and its answer, where the comments of tool_call_matching.py want the answer in
  the very next message;
* an append() whose listing of the directory fails takes it to be empty, and may
  go on with a length that is behind.

## 4. The proofs

For any sets of threads, keys and callers:

* `FIFOLockProofs`: `TypeCorrect`, `QueueCorrect`, `WakeupsCorrect` and
  `Refinement`. The invariant joins type, queue and wake-ups: that the front
  waiter is awake when the lock is free needs that the queue holds the waiters
  once each, and the refinement needs both.
* `ConversationProofs`: `TypeCorrect` (which includes that no run goes beyond
  its cap), `QueueCorrect` and `RunningCorrect`, for any callers and any number
  of runs. Each action does one of five things to the queue and to one actor's
  place (join, leave, rejoin, move, nothing), and what these preserve is said
  once. `QueueCorrect` needs that callers and runs are only where each can be,
  and `RunningCorrect` needs it in turn: an actor with the lock that sets RUNNING
  is a run, and a run that leaves sets something else. The cap needs the stronger
  `CapInv`, by which a run that begins a step has not reached it.
  With crashes and histories, `RestartCorrect` for any runs and crashes: what is
  on disk is an older status only while a run has the lock (`CrashInv`). For one
  run at a time (`OneLoop`, which is what `OneRunAtATime` shows of the event
  service) and callers who may condense at any time: `ExecutionCorrect`, as an
  action that was executed is answered, or whoever has the lock is executing it,
  or the run's handler is about to answer it and its token is cancelled until
  then (`Spent`); `ConsentCorrect`, as no run is under way while an action about
  which one asked waits for the user (`ConsentInv`); `StarvationFree`, as who saw
  a step begin is before the run in the queue as soon as that step ends
  (`Before`). The last two need that a step of condense() does not move the run,
  and the first that only one actor at a time is in a step.
* `ToolExecutorProofs`, of the locks: `TypeCorrect`, `RefcountsExact`,
  `LocksShared`, `ExclusiveAccess`, `DeadlockFree`. The counts are
  cardinalities of the sets of users; exact counts keep a used lock in the table, so users share it, so exclusion is that
  of one lock. For the absence of deadlock the invariant also says that a lock's
  queue holds its waiters and that a thread has locked only keys below those it
  wants (`DInv`); if all were stuck, the holder of what a thread waits for would
  wait for a higher key (`HolderIsHigher`), which the well-founded order of
  subsets of a finite set excludes.
  Of the executor: `ImplementsLocks` shows that every step of the executor
  is a step of `ResourceLockManager` or leaves it alone, which carries the lock
  theorems over to batches, interrupts and orphans (`ToolsExclusive`,
  `ToolsCounted`, `ToolsShareLocks`, `ToolsNeverStuck`). `LateCallsSkipped` rests on
  `TokensFit`: an orphan's token is cancelled and stays so, as its thread gets no new call.
* `EventServiceProofs`: `SectionCorrect`, `RefusalCorrect` and `OneRunAtATime`.
  The invariant `SInv` adds to the two properties that a task's place in the
  service fits its place in the conversation (`StagesOK`). What Conversation's
  actions do to it is said once per kind of step: whatever arun() does next, it is
  still in the run or has left a status other than RUNNING (`RunGoesOn`), and a
  client's operation never sets RUNNING (`CallerMoves`). A task is
  created only when nobody has a run in his hands (`CreateTaskKeeps`).
* `EventLogProofs`: `TypeCorrect`, `DenseLog`, `MemoryAgrees` and `Fenced`. The
  invariant joins the types, the lease (`LeaseInv`: it is that of the last claim,
  and a started service has a generation until it is closed), the files without a
  gap, the lengths (no memory is ahead of the disk, and who has the file lock is
  not behind it) and the indices. It does not depend on who owns the lease that
  the log is dense: the file lock and the sync suffice; ownership is what
  `Fenced` is about.
* `WebhookProofs`: `TypeCorrect`, `BoundedQueue`, `LiveTimer` and
  `EventsAccounted`. That the timer is alive needs that it was never cancelled
  and that no timer is made twice (`TimerInv`). That events are accounted for is
  proved without counting (`PlacesInv`): queue and batches are disjoint and
  without repetitions, and hold exactly the published events without a fate.
* `RemoteConversationProofs`: `CopyInOrder`, `HandshakeIsComplete` and
  `RunIsComplete`. The copy has no event twice because known ids are skipped, and
  stays in order because an insertion at the place that bisect_right finds keeps
  a sorted copy sorted (`AddKeeps`, `AddAllKeeps`), whichever event comes when. It
  is sorted in the beginning only if the full sync was (`orderly`). That the
  handshake leaves no gap needs to
  know what is missing at each of its stages (`HandshakeInv`): as soon as the
  state is on its way over the socket, what is missing has been stored; so it is
  in the answer of reconcile(), which waits for the state; and what is emitted
  later goes over the socket before it is stored. The
  invariant must also say that a client past its handshake is ready: without
  that, a step from an unreachable state breaks it. What is on its way is in the
  order of the log (`ChannelInv`), so a FINISHED that the socket brought before
  any overtaking has its predecessors in the copy (`QueueInv`). When run() falls
  back to reconcile(), all events but the last one that the decisive poll met are
  stored, and are in the answer (`FallbackInv`): an event is emitted only when
  the one before it is stored.
* `ContextViewProofs`: `ViewIsCoherent`, `EnforcementIsLargest`,
  `CondensationProgresses`, `NothingIsLeftToEnforce` and `SummariesAreInPlace`.
  `EnforcedKeeps` shows that the rounds of
  enforce_properties() end with a view to which no property objects, whatever
  they start from: a round with an objection drops an event. What no property of
  the view looks at is that an observation comes after its call; it follows as
  the history has them in that order (`LogInv`), the replay keeps the events in
  the order of the history, whatever a condensation forgets and wherever its
  summary is put (`EventsInv`), and so does the enforcement.
  That in an orderly history
  nothing is put between a call and its answer (`NothingInserted`) comes from the
  invariant of `NothingIsLeftToEnforce` below: there the view is the replay, its
  events come in order, and no summary follows a call before its answer does.
  `EnforcementIsLargest` says what is left: nothing but the second observations
  is dropped without need, in whichever order the properties object. A part of the
  events that is whole and has no second observation is spared by each property,
  whatever surrounds it (`ObjectionSpares`), so by every round
  (`EnforcedLargest`). `CondensationProgresses` rests on it:
  after a condensation the view without the summary is whole among the events
  that were not forgotten, so it was in the view before (`NothingReturns`), and at
  least two events of that view are gone where one summary came
  (`CondensationIsProgress`). `ObservationUniquenessProperty` alone is not
  monotone: with the first observation forgotten it no longer objects to the
  second. That this brings nothing back is because an observation is forgotten
  only with its call (`ForgettableIs`): a stretch that began between the two would
  begin while the call is pending, at no manipulation index.

  `NothingIsLeftToEnforce` and `SummariesAreInPlace` speak of orderly histories. A
  history is not orderly while a call is pending, and enforcement then drops the
  call for the time being; the invariant is therefore about the replay (`events`),
  and about every history that is orderly but for the answers to come
  (`OrderlySoFar`, `OrderlyInv`). It has five parts: events that a property has the
  LLM shown together (`Together`: calls of a response, a call and its answer, a tool
  loop) are in the replay together or not at all (`NothingTorn`); what new events
  may still join, a call without an answer or a tool loop that reaches the end of
  the history, is in it (`UnansweredShown`, `OpenLoopsShown`, without which an
  answer could follow a forgotten call); the entries stand for ever later
  events (`InPlace`); and no summary is after a call but after its answer
  (`SummariesApart`). `HistoryInv` adds what it needs of responses, of the errors of
  calls that are not valid and of what condensations forget. Once all calls are
  answered this leaves nothing to enforce (`NothingToEnforce`), so a condensation
  works on the replay itself, and the step that matters is `CutsAreWhole`: a
  manipulation index separates no two events that belong together. As the entries
  stand for ever later events, the replay has nothing else between two events of
  which it has all that came between them (`Filled`), so two events that an index
  separates would make it one that their property excludes. What is forgotten is
  the stretch between two such indices (`Stretch`); the rest keeps its order, and
  the summary stands for an event of the stretch (`LatestBounds`) and comes where
  it was (`ApplyIs`).

The library's induction theorems take an operator as a parameter and cannot be
used. What a recursive function computes is proved by a least counterexample
instead: a set of numbers that is not empty has a least element (`LeastOf`, from
the well-foundedness of `<`), and the number before it is no counterexample. So
are the existence of the recursive functions of `ContextView` and
`RemoteConversation` (`KeepingExists`, `RoundsExist`, `CallsExist`,
`SummarisedExists`, `CopiesExist`) and what they preserve. These modules therefore
use recursive functions and declare no recursive operators.

The assumptions are those named in the modules (`...Assumption`): that callers
are not runs, that bounds are natural numbers, that a service belongs to a
server.

Every safety invariant and action property of the runs is the statement of a
theorem. Model-checked only is liveness (`AcquireReturns`, `CallsReturn`,
`RunEnds`, `InterruptEndsRun`, `RequestsReturn`, `TimerFlushes`, `RunReturns`) and
the fairness in `RefinesFIFOMutex`, which are out of the prover's reach.

## 5. Not modelled, and the plan

Not modelled of the parts that are:

* conversation: the synchronous `run()`, fork, goal loop, secrets, plugins, the
  content of events, prompts and tools; a file store that fails half-way; an
  append() that fails in send_message(), reject or arun()'s handlers (in a step
  of the agent it may fail);
* event service: close() under way while a request is, subscriptions, search;
* lease and log: delete_conversation's removal of the directory, resume, the
  writes of the base state without a guard, the repair of an index while reading,
  a listing of the directory that fails;
* remote conversation: other clients, stop hooks, POST requests that fail, the
  snapshots of the state when a run starts, pauses or ends (which reach the client
  like the one of the subscription), equal timestamps, the replacement of ACP
  events;
* view: the pipeline and no-op condensers, token counting, retries of a summary.

The components with status `not_modelled` in `PROJECT.json` are adapters to
outside services (LLM, MCP, hooks, HTTP), depend on what a shell prints, or are
the OpenHands application server, the enterprise server and the user interface,
which keep their state in SQL databases and outside sandboxes.

Left of the plan: the stuck detector's comparisons as operators, the replay of
the sockets, the bash service, the application server's start of a sandbox and
its pending messages.
