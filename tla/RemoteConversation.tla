------------------------- MODULE RemoteConversation -------------------------
(***************************************************************************)
(* conversation/impl/remote_conversation.py: a client keeps a copy of the  *)
(* events of a conversation that runs in an agent server, and waits there  *)
(* for a run to end.                                                       *)
(*                                                                         *)
(* Events reach it twice: over a WebSocket, where one may overtake         *)
(* another, and in the answers to GET .../events/search, in the order of   *)
(* the server's log.  Neither is the order of their timestamps, by which   *)
(* the client inserts them: an event has its timestamp when it is made,    *)
(* and threads may make events that wait for their turn in the log.        *)
(*                                                                         *)
(* The client has two threads, the one that calls the conversation and the *)
(* one of the socket.  On the server, an event is published, then stored.  *)
(***************************************************************************)
EXTENDS Integers, Sequences, SequencesExt

CONSTANTS Threshold,     \* TERMINAL_POLL_THRESHOLD
          MaxIterations, \* max_iteration_per_run of the server
          Early,         \* kinds of the events that are made before their turn
          MaxOps         \* bound: messages, runs and pauses of the client,
                         \*   events made early, reconnections, overtakings
                         \*   and failures

ASSUME RemoteAssumption == /\ {Threshold, MaxIterations} \subseteq Nat \ {0}
                           /\ Early \subseteq {"event", "stats"}
                           /\ MaxOps \in Nat

Terminal == {"FINISHED", "ERROR", "STUCK"}   \* is_terminal()
Statuses == Terminal \union {"IDLE", "RUNNING", "PAUSED", "WAITING_FOR_CONFIRMATION"}

\* A status, another update of the state (which ones are not in the log),
\* or something else.
Updates == Statuses \union {"stats", "full_state"}
Kinds == Updates \union {"event"}

VARIABLES kind,      \* kinds of the events made so far, in the order of their
                     \*   timestamps; an event is its place in this sequence
          log,       \* the events emitted
          stored,    \* so many of them has the EventLog
          todo,      \* what the holder of the state lock has still to emit
          early,     \* an event that is made and waits for its turn, or 0
          status,    \* execution_status
          task,      \* _run_task: "none", "created", "loop", "tail"
          iter,      \* iteration of arun()
          conn,      \* the socket: "none", "subscribed", "open", "closed"
          chan,      \* the events on their way to the client
          ready,     \* WebSocketCallbackClient._ready
          cache,     \* _cached_events
          wsq,       \* _terminal_status_queue: the events that told of one
          pc,        \* of the client's calling thread
          fetched,   \* how much of the log the answer being merged has
          polls,     \* consecutive_terminal_polls
          mark,      \* length of the log: of send_message(), once it is
                     \*   handled; of the wait, when the last poll was answered
          torn,      \* history: the last reconcile() got a part of the events
          gaps,      \* history: the client reconnected, a handshake was torn,
                     \*   or an event was lost in a callback that raised
          overtaken, \* history: an event came before an older one
          orderly,   \* history: the first sync was in the order of timestamps
          ops        \* of those that MaxOps bounds

server == <<kind, log, stored, todo, early, status, task, iter>>
socket == <<conn, chan, ready, wsq>>
locals == <<fetched, polls, mark, torn>>
client == <<pc, locals>>
history == <<gaps, overtaken, orderly>>
vars == <<server, socket, client, cache, history, ops>>

Cached == ToSet(cache)
Idle == /\ todo = << >>          \* nobody is in a `with self._state`
        /\ stored = Len(log)

Count == /\ ops < MaxOps
         /\ ops' = ops + 1
------------------------------------------------------------------------------
(* The client's copy of the events                                         *)

InOrder(c) == \A i, j \in DOMAIN c : i < j => c[i] < c[j]

\* _cached_event_ids.  Mutant: the ids are not looked up.
MutForgotten(c, e) == FALSE
Known(c, e) == e \in ToSet(c)

(* How many events bisect_right() may leave before e: it ends after an     *)
(* event that is not later and before one that is.  There is one such      *)
(* place in an ordered copy; in another one, any of them may be hit.       *)
Before(c, e) == {k \in 0..Len(c) : /\ k > 0 => c[k] <= e
                                   /\ k < Len(c) => e < c[k + 1]}

(* add_event(): a known event changes nothing.                             *)
Add(c, e) == IF Known(c, e) THEN {c}
             ELSE {InsertAt(c, k + 1, e) : k \in Before(c, e)}

(* The loop of reconcile() over the first n events of the log.             *)
AddAll(c, s, n) ==
  LET copies[k \in 0..n] ==
        IF k = 0 THEN {c} ELSE UNION {Add(d, s[k]) : d \in copies[k - 1]}
  IN copies[n]
------------------------------------------------------------------------------
(* A conversation that has a message, or that runs.                        *)
Init == /\ \/ kind = <<"event">> /\ status = "IDLE" /\ task = "none"
           \/ kind = <<"event", "RUNNING">> /\ status = "RUNNING" /\ task = "loop"
        /\ log = [i \in 1..Len(kind) |-> i]
        /\ stored = Len(log)
        /\ todo = << >>
        /\ early = 0
        /\ iter = 0
        /\ conn = "none"
        /\ chan = << >>
        /\ ready = FALSE
        /\ cache = << >>
        /\ wsq = << >>
        /\ pc = "sync"
        /\ fetched = 0
        /\ polls = 0
        /\ mark = 0
        /\ torn = FALSE
        /\ gaps = FALSE
        /\ overtaken = FALSE
        /\ orderly = TRUE
        /\ ops = 0
------------------------------------------------------------------------------
(* The server, as the client meets it                                      *)

(* PubSub: the event goes to the client if it is subscribed.               *)
Publish(e) == chan' = IF conn \in {"subscribed", "open"} THEN Append(chan, e) ELSE chan

(* An event is emitted: the holder of the state lock makes its next one,   *)
(* or one that was made before has its turn.  It goes through the PubSub   *)
(* and to the EventLog.  How long the event loop takes to run the callback *)
(* counts to the time it is on its way.                                    *)
Emit == /\ stored = Len(log)
        /\ \/ /\ todo # << >>
              /\ kind' = Append(kind, Head(todo))
              /\ log' = Append(log, Len(kind'))
              /\ todo' = Tail(todo)
              /\ status' = IF Head(todo) \in Statuses THEN Head(todo) ELSE status
              /\ Publish(Len(kind'))
              /\ UNCHANGED early
           \/ /\ todo = << >>
              /\ early # 0
              /\ log' = Append(log, early)
              /\ early' = 0
              /\ Publish(early)
              /\ UNCHANGED <<kind, todo, status>>
        /\ UNCHANGED <<stored, task, iter, conn, ready, wsq, client, cache,
                       history, ops>>

Store == /\ stored < Len(log)
         /\ stored' = stored + 1
         /\ UNCHANGED <<kind, log, todo, early, status, task, iter, socket,
                        client, cache, history, ops>>

(* While a step is at its next event, another thread makes one that is     *)
(* emitted later: a tool of a batch (an observation), as they go in the    *)
(* order of the calls, or stats_callback(), whose event is handed to a     *)
(* thread that waits for the state lock.                                   *)
Make == /\ todo # << >>
        /\ Head(todo) = "event"
        /\ stored = Len(log)
        /\ early = 0
        /\ Count
        /\ \E k \in Early : kind' = Append(kind, k)
        /\ early' = Len(kind')
        /\ UNCHANGED <<log, stored, todo, status, task, iter, socket, client,
                       cache, history>>

StartRun == /\ task = "created"
            /\ Idle
            /\ todo' = IF status \in {"IDLE", "PAUSED", "ERROR", "STUCK"}
                       THEN <<"RUNNING">> ELSE << >>
            /\ task' = "loop"
            /\ UNCHANGED <<kind, log, stored, early, status, iter, socket,
                           client, cache, history, ops>>

\* The loop goes on from WAITING_FOR_CONFIRMATION as RUNNING.
Resumed == IF status = "WAITING_FOR_CONFIRMATION" THEN <<"RUNNING">> ELSE << >>

(* An iteration of arun(): it breaks, is stuck, or takes a step, which     *)
(* fails, asks for confirmation, ends or does not end the agent's work;    *)
(* the iterations may be used up.                                          *)
Iterate ==
  /\ task = "loop"
  /\ Idle
  /\ \/ /\ status \in {"PAUSED", "STUCK", "FINISHED"}
        /\ task' = "tail"
        /\ UNCHANGED <<todo, iter>>
     \/ /\ status \notin {"PAUSED", "STUCK", "FINISHED"}
        /\ \/ /\ todo' = <<"STUCK">>
              /\ UNCHANGED <<task, iter>>
           \/ /\ todo' = Resumed \o <<"ERROR", "event">>
              /\ task' = "tail"
              /\ UNCHANGED iter
           \/ /\ todo' = Resumed \o <<"event", "WAITING_FOR_CONFIRMATION">>
              /\ task' = "tail"
              /\ iter' = iter + 1
           \/ /\ todo' = Resumed \o <<"event", "FINISHED">>
              /\ task' = IF iter + 1 < MaxIterations THEN "loop" ELSE "tail"
              /\ iter' = iter + 1
           \/ /\ iter + 1 < MaxIterations
              /\ todo' = Resumed \o <<"event">>
              /\ iter' = iter + 1
              /\ UNCHANGED task
           \/ /\ iter + 1 >= MaxIterations
              /\ todo' = Resumed \o <<"event", "ERROR", "event">>
              /\ task' = "tail"
              /\ iter' = iter + 1
  /\ UNCHANGED <<kind, log, stored, early, status, socket, client, cache,
                 history, ops>>

(* wait_for_pending(), for at most 30 s each, and the task is cleared.     *)
EndRun == /\ task = "tail"
          /\ Idle
          /\ task' = "none"
          /\ iter' = 0
          /\ UNCHANGED <<kind, log, stored, todo, early, status, socket, client,
                         cache, history, ops>>

(* pause() of another thread of the client, or interrupt(), which cancels  *)
(* the task.                                                               *)
Pause == /\ Idle
         /\ Count
         /\ \/ status \in {"IDLE", "RUNNING"} /\ UNCHANGED task
            \/ task = "loop" /\ task' = "tail"
         /\ todo' = <<"PAUSED", "event">>
         /\ UNCHANGED <<kind, log, stored, early, status, iter, socket, client,
                        cache, history>>
------------------------------------------------------------------------------
(* The WebSocket                                                           *)

(* subscribe_to_events(): first the subscriber is registered, ...          *)
Subscribe == /\ conn = "none"
             /\ pc # "sync"
             /\ conn' = "subscribed"
             /\ UNCHANGED <<server, chan, ready, wsq, client, cache, history,
                            ops>>

\* The snapshot of the state is taken under its lock.  Mutant: it is not.
MutNoLock == TRUE
SnapshotTaken == Idle

(* ... then the state is pushed to it, or given up after a time-out.  (The *)
(* snapshots that are published when a run starts, pauses or ends reach    *)
(* the client in the same way, and are left out.)                          *)
PushState == /\ conn = "subscribed"
             /\ SnapshotTaken
             /\ conn' = "open"
             /\ kind' = Append(kind, "full_state")
             /\ \/ Publish(Len(kind')) /\ UNCHANGED ops
                \/ Count /\ UNCHANGED chan
             /\ UNCHANGED <<log, stored, todo, early, status, task, iter,
                            ready, wsq, client, cache, history>>

(* _client_loop(): an event comes, the next one or one that has overtaken  *)
(* others.  The callbacks add it, then see to a terminal status; one of    *)
(* them may raise before the one or before the other.                      *)
Receive ==
  \E i \in DOMAIN chan :
    LET e == chan[i] IN
    /\ chan' = RemoveAt(chan, i)
    /\ ready' = (ready \/ kind[e] \in Updates)
    /\ \/ /\ i = 1
          /\ cache' \in Add(cache, e)
          /\ wsq' = IF kind[e] \in Terminal THEN Append(wsq, e) ELSE wsq
          /\ UNCHANGED <<overtaken, gaps, ops>>
       \/ /\ i > 1
          /\ Count
          /\ cache' \in Add(cache, e)
          /\ wsq' = IF kind[e] \in Terminal THEN Append(wsq, e) ELSE wsq
          /\ overtaken' = TRUE
          /\ UNCHANGED gaps
       \/ /\ i = 1
          /\ Count
          /\ \/ cache' \in Add(cache, e) /\ UNCHANGED gaps
             \/ gaps' = TRUE /\ UNCHANGED cache
          /\ UNCHANGED <<wsq, overtaken>>
    /\ UNCHANGED <<server, conn, client, orderly>>

(* ConnectionClosed: the thread ends and the callbacks get nothing more.   *)
Disconnect == /\ conn \in {"subscribed", "open"}
              /\ conn' = "closed"
              /\ chan' = << >>
              /\ UNCHANGED <<server, ready, wsq, client, cache, history, ops>>

(* The server closes in good order, or the connection fails in another     *)
(* way: the client connects again.                                         *)
Reconnect == /\ conn \in {"subscribed", "open"}
             /\ Count
             /\ conn' = "none"
             /\ chan' = << >>
             /\ gaps' = TRUE
             /\ UNCHANGED <<server, ready, wsq, client, cache, overtaken,
                            orderly>>
------------------------------------------------------------------------------
(* The calling thread                                                      *)

Resting == {"idle", "raised"}

(* A call returns or raises, and its local variables are gone.             *)
Leave(to) == /\ pc' = to
             /\ fetched' = 0
             /\ polls' = 0
             /\ mark' = 0
             /\ torn' = FALSE

(* RemoteEventsList._do_full_sync(), before the socket's thread is started.*)
FullSync == /\ pc = "sync"
            /\ cache' = SubSeq(log, 1, stored)
            /\ orderly' = InOrder(cache')
            /\ pc' = "connecting"
            /\ UNCHANGED <<server, socket, locals, gaps, overtaken, ops>>

(* wait_until_ready()                                                      *)
Ready == /\ pc = "connecting"
         /\ ready
         /\ pc' = "reconcile"
         /\ UNCHANGED <<server, socket, locals, cache, history, ops>>

(* WebSocketConnectionError, after 30 s: the socket's thread is stopped.   *)
NotReady == /\ pc = "connecting"
            /\ ~ready
            /\ pc' = "failed"
            /\ conn' = "closed"
            /\ chan' = << >>
            /\ UNCHANGED <<server, ready, wsq, locals, cache, history, ops>>

(* reconcile() of the constructor or of the fallback: the requests, the    *)
(* last of which may fail, ...                                             *)
Fetch == /\ pc \in {"reconcile", "fallback"}
         /\ \/ /\ fetched' = stored
               /\ torn' = FALSE
               /\ UNCHANGED <<ops, gaps>>
            \/ /\ Count
               /\ fetched' \in 0..stored
               /\ torn' = TRUE
               /\ gaps' = (gaps \/ pc = "reconcile")
         /\ pc' = IF pc = "reconcile" THEN "merge" ELSE "last_merge"
         /\ UNCHANGED <<server, socket, polls, mark, cache, overtaken, orderly>>

(* ... and, under the lock of the list, the merge.                         *)
Merge == /\ pc \in {"merge", "last_merge"}
         /\ cache' \in AddAll(cache, log, fetched)
         /\ Leave("idle")
         /\ UNCHANGED <<server, socket, history, ops>>

(* send_message(): the server handles it once it has the state lock.       *)
Send == /\ pc \in Resting
        /\ Idle
        /\ Count
        /\ todo' = IF status \in {"FINISHED", "STUCK"}
                   THEN <<"IDLE", "event">> ELSE <<"event">>
        /\ mark' = Len(log) + Len(todo')
        /\ pc' = "sending"
        /\ UNCHANGED <<kind, log, stored, early, status, task, iter, socket,
                       cache, fetched, polls, torn, history>>

Sent == /\ pc = "sending"
        /\ stored >= mark
        /\ Leave("idle")
        /\ UNCHANGED <<server, socket, cache, history, ops>>

(* run(): the queue is drained, ...                                        *)
Run == /\ pc \in Resting
       /\ Count
       /\ wsq' = << >>
       /\ pc' = "running"
       /\ UNCHANGED <<server, conn, chan, ready, locals, cache, history>>

(* ... the server starts a run or refuses with 409, ...                    *)
PostRun == /\ pc = "running"
           /\ Idle
           /\ task' = IF status # "RUNNING" /\ task = "none" THEN "created" ELSE task
           /\ \/ Leave("idle")                 \* blocking=False
              \/ pc' = "waiting" /\ UNCHANGED locals
           /\ UNCHANGED <<kind, log, stored, todo, early, status, iter,
                          socket, cache, history, ops>>

(* ... and _wait_for_run_completion() gets a status from the socket, which *)
(* ends the wait (ERROR, STUCK and a failing refresh raise), or none in    *)
(* time.                                                                   *)
Notified == /\ pc = "waiting"
            /\ wsq # << >>
            /\ wsq' = Tail(wsq)
            /\ \/ kind[Head(wsq)] = "FINISHED" /\ Leave("idle")
               \/ Leave("raised")
            /\ UNCHANGED <<server, conn, chan, ready, cache, history, ops>>

TimedOut == /\ pc = "waiting"
            /\ wsq = << >>
            /\ pc' = "polling"
            /\ UNCHANGED <<server, socket, locals, cache, history, ops>>

(* The wait has lasted for `timeout` seconds.                              *)
Expire == /\ pc = "waiting"
          /\ Leave("raised")
          /\ UNCHANGED <<server, socket, cache, history, ops>>

Enough(n) == n >= Threshold

\* Mutant: the count is a variable of the iteration.
MutRestart(n) == 1
Counted(n) == n + 1

\* Mutant: the fallback does not reconcile.
MutNoReconcile == "idle"
AfterRefresh == "fallback"

(* _poll_status_once(): ERROR and STUCK raise, FINISHED counts, anything   *)
(* else starts the count again.                                            *)
Poll == /\ pc = "polling"
        /\ \/ /\ status \in {"ERROR", "STUCK"}
              /\ Leave("raised")
           \/ /\ status = "FINISHED"
              /\ polls' = Counted(polls)
              /\ IF Enough(polls') THEN pc' = "refresh" /\ mark' = Len(log)
                 ELSE pc' = "waiting" /\ UNCHANGED mark
              /\ UNCHANGED <<fetched, torn>>
           \/ /\ status \notin Terminal
              /\ polls' = 0
              /\ pc' = "waiting"
              /\ UNCHANGED <<fetched, mark, torn>>
        /\ UNCHANGED <<server, socket, cache, history, ops>>

(* _handle_poll_exception(): a failure that may pass starts the count      *)
(* again, another one raises.                                              *)
PollFails == /\ pc = "polling"
             /\ Count
             /\ \/ Leave("raised")
                \/ /\ polls' = 0
                   /\ pc' = "waiting"
                   /\ UNCHANGED <<fetched, mark, torn>>
             /\ UNCHANGED <<server, socket, cache, history>>

(* refresh_from_server(): ERROR, STUCK and a failure raise.                *)
Refresh == /\ pc = "refresh"
           /\ \/ /\ status \notin {"ERROR", "STUCK"}
                 /\ pc' = AfterRefresh
                 /\ UNCHANGED locals
              \/ Leave("raised")
           /\ UNCHANGED <<server, socket, cache, history, ops>>
------------------------------------------------------------------------------
Server == Emit \/ Store \/ StartRun \/ Iterate \/ EndRun
Caller == \/ FullSync \/ Ready \/ NotReady \/ Fetch \/ Merge \/ Sent \/ PostRun
          \/ Notified \/ TimedOut \/ Poll \/ Refresh
Network == Subscribe \/ PushState \/ Receive \/ Disconnect \/ Reconnect \/ PollFails
Others == Make \/ Pause \/ Send \/ Run \/ Expire

Next == Server \/ Caller \/ Network \/ Others

(* Threads and the event loop go on, the LLM and the tools respond, the    *)
(* server answers.  Nothing is assumed of the socket, nor of the time-out  *)
(* of the wait.                                                            *)
Spec == Init /\ [][Next]_vars /\ WF_vars(Server) /\ WF_vars(Caller)
------------------------------------------------------------------------------
Made == 1..Len(kind)

TypeOK ==
  /\ kind \in Seq(Kinds)
  /\ log \in Seq(Made)
  /\ todo \in Seq(Statuses \union {"event"})
  /\ stored \in 0..Len(log) /\ Len(log) - stored \in {0, 1}
  /\ early \in 0..Len(kind)
  /\ status \in Statuses
  /\ task \in {"none", "created", "loop", "tail"}
  /\ iter \in 0..MaxIterations
  /\ conn \in {"none", "subscribed", "open", "closed"}
  /\ chan \in Seq(Made)
  /\ {ready, torn, gaps, overtaken, orderly} \subseteq BOOLEAN
  /\ cache \in Seq(Made)
  /\ wsq \in Seq({e \in Made : kind[e] \in Terminal})
  /\ pc \in {"sync", "connecting", "reconcile", "merge", "failed", "idle",
             "raised", "sending", "running", "waiting", "polling", "refresh",
             "fallback", "last_merge"}
  /\ fetched \in 0..stored
  /\ polls \in 0..Threshold
  /\ mark \in 0..(Len(log) + Len(todo))
  /\ ops \in 0..MaxOps

(* The two threads add the same events from two sources, and the copy has  *)
(* each once.  "Events are inserted in sorted order by timestamp to        *)
(* maintain correct temporal ordering regardless of WebSocket delivery     *)
(* order": the copy is sorted, whatever overtakes what and in whichever    *)
(* order the answers have the events, if the full sync found a log in the  *)
(* order of the timestamps.  If it did not, the copy begins as that log.   *)
CacheSorted == /\ TypeOK
               /\ \A i, j \in DOMAIN cache :
                    i < j => cache[i] # cache[j] /\ (orderly => cache[i] < cache[j])

(* The handshake (subscribe, wait for the state, reconcile) leaves no gap: *)
(* while the connection lasts, every event is in the copy or on its way.   *)
Attached == /\ pc \notin {"sync", "connecting", "reconcile", "merge", "failed"}
            /\ conn = "open"
NothingMissed == Attached /\ ~gaps => ToSet(log) \subseteq Cached \union ToSet(chan)

(* "This ensures all events are delivered before returning": a run() that  *)
(* returns because the socket told it FINISHED has every event up to that  *)
(* status (if none overtook another), and one that returns by polling has  *)
(* every event before the last one of the log that the decisive poll met,  *)
(* also when the socket is dead.                                           *)
UpTo(e) == {log[i] : i \in {i \in DOMAIN log : \E j \in DOMAIN log : i <= j /\ log[j] = e}}
BySocket == pc = "waiting" /\ wsq # << >> /\ pc' = "idle"
ByPolls == pc \in {"refresh", "last_merge"} /\ pc' = "idle"
CompleteOnReturn ==
  [][/\ BySocket /\ ~gaps /\ ~overtaken => UpTo(Head(wsq)) \subseteq Cached
     /\ ByPolls /\ ~torn => {log[i] : i \in 1..(mark - 1)} \subseteq ToSet(cache')
    ]_vars

(* A run() that waits while the conversation is FINISHED, in ERROR or      *)
(* STUCK returns or raises without its time-out, whatever becomes of the   *)
(* socket, unless the conversation goes on.                                *)
RunReturns == (pc = "waiting" /\ status \in Terminal)
                ~> (pc \in Resting \/ status \notin Terminal)
==============================================================================
