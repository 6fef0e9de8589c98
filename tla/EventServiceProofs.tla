-------------------------- MODULE EventServiceProofs ---------------------------
(***************************************************************************)
(* EventService for any callers, tasks and bounds: one run at a time, the  *)
(* section of _run_lock, and what _run_task and the status say.  The queue *)
(* of the state lock plays no part in it.                                  *)
(***************************************************************************)
EXTENDS EventService, TLAPS

Places == {"idle", "done", "message", "pause", "read", "reject", "requested", "condense",
           "status"} \union InRun
Section == {"status", "refuse", "check"}
InHand == {"created", "live", "publishing"}
CallerStages == {"idle", "message", "interrupt", "await", "timedOut", "runLock"}
                  \union Section

\* What a task does in the service (s) fits its place in the conversation (p).
RunFits(s, p) == \/ s \in {"idle", "created"} /\ p = "idle"
                 \/ s = "live" /\ p \in InRun
                 \/ /\ s \in {"publishing", "cleared", "runLock", "refuse",
                              "check", "over"}
                    /\ p = "done"
                 \/ s \in {"rerun", "status"} /\ p = "status"

StagesOK == /\ pc \in [Actors -> Places]
            /\ \A r \in Runs : RunFits(svc[r], pc[r])
            /\ \A c \in Callers : svc[c] \in CallerStages /\ pc[c] # "top"

SInv == StagesOK /\ RunLockIsSection /\ RefusalIsTemporary

----------------------------------------------------------------------------

(* The end of a step: a run that leaves the loop does not leave RUNNING    *)
(* behind, and condense() never sets it.                                   *)
LEMMA StepEnds ==
  ASSUME NEW x \in Actors, NEW st, EndStep(x, st)
  PROVE  /\ x \in Runs => \E w \in InRun \union {"done"} :
                            /\ pc' = [pc EXCEPT ![x] = w]
                            /\ w = "done" => status' # "RUNNING"
         /\ x \notin Runs => pc' = [pc EXCEPT ![x] = "idle"] /\ status' = st
<1>1. CASE x \in Runs /\ LoopOver(x, st)
  <2>1. pc' = [pc EXCEPT ![x] = "done"] /\ status' = StatusAfter(TRUE, st)
    BY <1>1 DEF EndStep, EndIteration, Leave
  <2>2. status' # "RUNNING"
    BY <2>1 DEF StatusAfter
  <2> QED
    BY <1>1, <2>1, <2>2
<1>2. CASE x \in Runs /\ ~LoopOver(x, st)
  <2>1. pc' = [pc EXCEPT ![x] = "top"]
    BY <1>2 DEF EndStep, EndIteration, Rejoin
  <2>2. "top" \in InRun \union {"done"} /\ "top" # "done"
    BY DEF InRun
  <2>3. \E w \in InRun \union {"done"} :
          /\ pc' = [pc EXCEPT ![x] = w]
          /\ w = "done" => status' # "RUNNING"
    BY <2>1, <2>2
  <2> QED
    BY <1>2, <2>3
<1>3. CASE x \notin Runs
  BY <1>3 DEF EndStep, Leave
<1> QED
  BY <1>1, <1>2, <1>3

(* A step of the agent goes on, raises or ends.                            *)
LEMMA StepMoves ==
  ASSUME NEW x \in Actors, Step(x) \/ Respond(x)
  PROVE  \/ \E w \in InStep : pc' = [pc EXCEPT ![x] = w] /\ status' \in {status, Resumed(x)}
         \/ Raise(x)
         \/ \E st \in {status, "FINISHED", "WAITING_FOR_CONFIRMATION"} : EndStep(x, st)
<1>1. CASE StepBlocked(x) \/ Condensed(x) \/ LLMAnswers(x) \/ LLMRaises(x) \/ ToolsReturn(x)
  BY <1>1 DEF StepBlocked, Condensed, LLMAnswers, LLMRaises, ToolsReturn
<1>2. CASE StepPending(x) \/ StepCondense(x) \/ StepLLM(x)
  BY <1>2 DEF StepPending, StepCondense, StepLLM, StepTo, InStep
<1>3. CASE LLMCallsTools(x)
  BY <1>3 DEF LLMCallsTools, StepTo, InStep
<1> QED
  BY <1>1, <1>2, <1>3 DEF Step, Respond

(* Whatever arun() does next, it is still in the run or has left it with a *)
(* status that is not RUNNING.                                             *)
LEMMA RunGoesOn ==
  ASSUME NEW r \in Runs, pc[r] \in InRun, Advance(r) \/ Respond(r)
  PROVE  \E w \in InRun \union {"done"} :
           /\ pc' = [pc EXCEPT ![r] = w]
           /\ w = "done" => status' # "RUNNING"
<1>1. CASE EnterRun(r) \/ StopDenied(r) \/ DetectStuck(r) \/ CancelLands(r)
  BY <1>1 DEF EnterRun, StopDenied, DetectStuck, CancelLands, Rejoin, InRun
<1>2. CASE Break(r) \/ HandleError(r) \/ HandleCancel(r)
  BY <1>2 DEF Break, HandleError, HandleCancel, Leave
<1>3. CASE Step(r) \/ Respond(r)
  <2>1. r \in Actors
    BY DEF Actors
  <2>2. ASSUME NEW w \in InStep, pc' = [pc EXCEPT ![r] = w]
        PROVE  w \in InRun /\ w # "done"
    BY DEF InRun, InStep
  <2>3. Raise(r) => pc' = [pc EXCEPT ![r] = "raised"] /\ "raised" \in InRun
    BY DEF Raise, Rejoin, InRun
  <2> QED
    BY <1>3, <2>1, <2>2, <2>3, StepMoves, StepEnds
<1>4. ~EndRun(r)
  BY DEF EndRun, InRun, InStep
<1> QED
  BY <1>1, <1>2, <1>3, <1>4 DEF Advance

(* What the conversation does for a caller, the step of condense() among   *)
(* it: it moves the caller only, and never sets RUNNING.                   *)
LEMMA CallerMoves ==
  ASSUME NEW c \in Callers, pc \in [Actors -> Places], pc[c] # "top",
         Call(c) \/ Serve(c) \/ Respond(c)
  PROVE  /\ \E w \in Places \ {"top"} : pc' = [pc EXCEPT ![c] = w]
         /\ status' = "RUNNING" => status = "RUNNING"
<1>0. c \in Actors /\ c \notin Runs /\ pc = [pc EXCEPT ![c] = pc[c]] /\ pc[c] \in Places
  BY ConversationAssumption DEF Actors
<1>1. CASE AskMessage(c) \/ ReadPending(c) \/ RequestCondensation(c) \/ AskReject(c)
           \/ AskCondense(c)
  BY <1>1 DEF AskMessage, ReadPending, RequestCondensation, AskReject, AskCondense, Ask, Join,
     Places
<1>2. CASE CallPause(c) \/ Interrupt(c)
  BY <1>0, <1>2 DEF CallPause, Interrupt, AskPause, Ask, Join, Places, vars
<1>3. CASE SendMessage(c) \/ Pause(c) \/ Reject(c)
  BY <1>3 DEF SendMessage, Pause, Reject, Finish, Leave, Places
<1>4. CASE Step(c) \/ Respond(c)
  <2>1. Resumed(c) = status
    BY <1>0 DEF Resumed
  <2>2. ASSUME NEW w \in InStep PROVE w \in Places \ {"top"}
    BY DEF Places, InRun, InStep
  <2>3. Raise(c) => pc' = [pc EXCEPT ![c] = "idle"] /\ status' = status
    BY <1>0 DEF Raise, Leave
  <2>4. "idle" \in Places \ {"top"}
    BY DEF Places
  <2> QED
    BY <1>0, <1>4, <2>1, <2>2, <2>3, <2>4, StepMoves, StepEnds
<1> QED
  BY <1>1, <1>2, <1>3, <1>4 DEF Call, Serve

----------------------------------------------------------------------------

Stages == CallerStages \union InHand \union {"cleared", "rerun", "over"}
Typed == /\ sending \subseteq Callers
         /\ rerun \in BOOLEAN
         /\ awaits \in [Callers -> Runs \union {Nobody}]

(* One actor x goes to stage s and place w, and _run_lock, _run_task and   *)
(* the status follow.  All steps but CreateTask are of this kind.          *)
LEMMA ActorMoves ==
  ASSUME SInv, NEW x \in Actors, NEW s \in Stages, NEW w \in Places,
         svc' = [svc EXCEPT ![x] = s],
         pc' = [pc EXCEPT ![x] = w],
         x \in Runs => RunFits(s, w),
         x \in Callers => s \in CallerStages /\ w # "top",
         Typed',
         runLock' \in Actors \union {Nobody},
         s \in Section <=> runLock' = x,
         \A y \in Actors \ {x} : runLock' = y <=> runLock = y,
         runTask' \in Runs \union {Nobody},
         \A r \in Runs \ {x} : svc[r] \in InHand => runTask' = r,
         x \in Runs /\ s \in InHand => runTask' = x,
         status' = "RUNNING" => \/ x \in Runs /\ s = "live"
                                \/ status = "RUNNING" /\ svc[x] # "live"
  PROVE  SInv'
<1>0. /\ \A y \in Actors : svc'[y] = (IF y = x THEN s ELSE svc[y])
      /\ \A y \in Actors : pc'[y] = (IF y = x THEN w ELSE pc[y])
      /\ Runs \subseteq Actors /\ Callers \subseteq Actors
  BY DEF SInv, StagesOK, RunLockIsSection, STypeOK, Actors
<1>1. StagesOK'
  <2>1. pc' \in [Actors -> Places]
    BY DEF SInv, StagesOK
  <2>2. \A r \in Runs : RunFits(svc'[r], pc'[r])
    BY <1>0 DEF SInv, StagesOK
  <2>3. \A c \in Callers : svc'[c] \in CallerStages /\ pc'[c] # "top"
    BY <1>0 DEF SInv, StagesOK
  <2> QED
    BY <2>1, <2>2, <2>3 DEF StagesOK
<1>2. STypeOK'
  BY DEF SInv, RunLockIsSection, STypeOK, Typed, Stages, CallerStages, InHand, Section
<1>3. \A y \in Actors : runLock' = y <=> svc'[y] \in Section
  BY <1>0 DEF SInv, RunLockIsSection, Section
<1>4. \A r \in Runs : svc'[r] \in InHand => runTask' = r
  BY <1>0
<1>5. status' = "RUNNING" => \E r \in Runs : svc'[r] = "live"
  BY <1>0 DEF SInv, RefusalIsTemporary
<1> QED
  BY <1>1, <1>2, <1>3, <1>4, <1>5
     DEF SInv, RunLockIsSection, RefusalIsTemporary, Section, InHand

(* The new task: nobody has a run in his hands, as _run_task would be alive. *)
LEMMA CreateTaskKeeps ==
  ASSUME SInv, NEW x \in Actors, CreateTask(x)
  PROVE  SInv'
<1>1. PICK r \in Runs : /\ Unused(r)
                        /\ runTask' = r
                        /\ svc' = [svc EXCEPT ![x] = "idle", ![r] = "created"]
  BY DEF CreateTask
<1>2. svc[x] = "check" /\ svc[r] = "idle" /\ x # r /\ r \in Actors
  BY <1>1 DEF CreateTask, Unused, Actors
<1>3. \A u \in Runs : svc[u] \notin InHand
  BY DEF CreateTask, RunExists, Alive, SInv, RefusalIsTemporary, InHand
<1>4. /\ \A y \in Actors : svc'[y] = (IF y = x THEN "idle" ELSE
                                      IF y = r THEN "created" ELSE svc[y])
      /\ Runs \subseteq Actors /\ Callers \subseteq Actors
  BY <1>1, <1>2 DEF SInv, RunLockIsSection, STypeOK, Actors
<1>5. /\ pc' \in [Actors -> Places]
      /\ \A u \in Runs : pc'[u] = IF u = x THEN "idle" ELSE pc[u]
      /\ \A c \in Callers : pc'[c] # "top"
      /\ status' = status
  <2>1. CASE x \in Runs
    BY <2>1, <1>4 DEF CreateTask, Return, EndRun, SInv, StagesOK, Places
  <2>2. CASE x \notin Runs
    BY <2>2 DEF CreateTask, Return, vars, SInv, StagesOK
  <2> QED
    BY <2>1, <2>2
<1>6. StagesOK'
  <2>1. \A u \in Runs : RunFits(svc'[u], pc'[u])
    BY <1>2, <1>4, <1>5 DEF SInv, StagesOK, RunFits, InRun
  <2>2. \A c \in Callers : svc'[c] \in CallerStages /\ pc'[c] # "top"
    BY <1>4, <1>5, EventServiceAssumption, ConversationAssumption DEF SInv, StagesOK, CallerStages
  <2> QED
    BY <1>5, <2>1, <2>2 DEF StagesOK
<1>7. STypeOK'
  BY <1>1 DEF CreateTask, Return, SInv, RunLockIsSection, STypeOK
<1>8. \A y \in Actors : runLock' = y <=> svc'[y] \in Section
  BY <1>2, <1>4, EventServiceAssumption
     DEF CreateTask, Return, SInv, RunLockIsSection, Section
<1>9. \A u \in Runs : svc'[u] \in InHand => runTask' = u
  BY <1>1, <1>3, <1>4 DEF InHand
<1>10. status # "RUNNING"
  BY <1>3 DEF SInv, RefusalIsTemporary, InHand
<1> QED
  BY <1>5, <1>6, <1>7, <1>8, <1>9, <1>10
     DEF SInv, RunLockIsSection, RefusalIsTemporary, Section, InHand

----------------------------------------------------------------------------

\* What a step leaves alone beside one actor's stage and place.

(* What SInv says, for the actor that a step is about.                     *)
LEMMA Facts ==
  ASSUME SInv, NEW x \in Actors
  PROVE  /\ svc \in [Actors -> Stages] /\ pc \in [Actors -> Places]
         /\ pc = [pc EXCEPT ![x] = pc[x]] /\ svc = [svc EXCEPT ![x] = svc[x]]
         /\ pc[x] \in Places /\ svc[x] \in Stages
         /\ x \in Runs => RunFits(svc[x], pc[x])
         /\ x \in Callers => svc[x] \in CallerStages /\ pc[x] # "top" /\ x \notin Runs
         /\ Typed /\ runLock \in Actors \union {Nobody}
         /\ runTask \in Runs \union {Nobody} /\ Nobody \notin Actors
         /\ \A y \in Actors : runLock = y <=> svc[y] \in Section
         /\ \A r \in Runs : svc[r] \in InHand => runTask = r
<1>1. /\ pc \in [Actors -> Places] /\ svc \in [Actors -> Stages]
      /\ Typed /\ runLock \in Actors \union {Nobody} /\ runTask \in Runs \union {Nobody}
  BY DEF SInv, StagesOK, RunLockIsSection, STypeOK, Typed, Stages, CallerStages, InHand, Section
<1>2. /\ x \in Runs => RunFits(svc[x], pc[x])
      /\ x \in Callers => svc[x] \in CallerStages /\ pc[x] # "top" /\ x \notin Runs
  BY ConversationAssumption DEF SInv, StagesOK
<1>3. /\ \A y \in Actors : runLock = y <=> svc[y] \in Section
      /\ \A r \in Runs : svc[r] \in InHand => runTask = r
  BY DEF SInv, RunLockIsSection, RefusalIsTemporary, Section, InHand
<1> QED
  BY <1>1, <1>2, <1>3, EventServiceAssumption

(* The requests of a client.                                               *)
LEMMA RequestKeeps == ASSUME SInv, NEW c \in Callers, Request(c) PROVE SInv'
<1>0. c \in Actors
  BY DEF Actors
<1>1. svc[c] = "idle" /\ c \notin Runs /\ runLock # c
  BY <1>0, Facts DEF Request, RequestMessage, RequestRun, RequestPause, RequestReject,
     RequestCondense, RequestInterrupt, Free, Section
<1>2. CASE RequestRun(c)
  BY <1>0, <1>1, <1>2, Facts, ActorMoves
     DEF RequestRun, To, Typed, CallerStages, Stages, Section, InHand, vars
<1>3. CASE RequestMessage(c) \/ RequestPause(c) \/ RequestReject(c) \/ RequestCondense(c)
           \/ RequestInterrupt(c)
  <2>1. PICK s \in {"idle", "message", "interrupt"} : svc' = [svc EXCEPT ![c] = s]
    BY <1>0, <1>1, <1>3, Facts DEF RequestMessage, RequestPause, RequestReject,
       RequestCondense, RequestInterrupt, To, service
  <2>2. Typed' /\ runTask' = runTask /\ runLock' = runLock
    BY <1>0, <1>3, Facts DEF RequestMessage, RequestPause, RequestReject, RequestCondense,
       RequestInterrupt, Typed, service
  <2>3. Call(c)
    BY <1>3 DEF RequestMessage, RequestPause, RequestReject, RequestCondense,
       RequestInterrupt, Call
  <2>4. PICK w \in Places \ {"top"} : pc' = [pc EXCEPT ![c] = w]
    BY <1>0, <2>3, CallerMoves, Facts
  <2>5. status' = "RUNNING" => status = "RUNNING"
    BY <1>0, <2>3, CallerMoves, Facts
  <2>6. s \in CallerStages /\ s \in Stages /\ s \notin Section
    BY DEF CallerStages, Stages, Section
  <2> QED
    BY <1>0, <1>1, <2>1, <2>2, <2>4, <2>5, <2>6, Facts, ActorMoves
<1> QED
  BY <1>2, <1>3 DEF Request

(* What the service and the worker threads do for a client.                *)
LEMMA HandleKeeps == ASSUME SInv, NEW c \in Callers, Handle(c) PROVE SInv'
<1>0. c \in Actors
  BY DEF Actors
<1>1. CASE Work(c)
  <2>1. PICK w \in Places \ {"top"} : pc' = [pc EXCEPT ![c] = w]
    BY <1>0, <1>1, CallerMoves, Facts DEF Work
  <2>2. status' = "RUNNING" => status = "RUNNING"
    BY <1>0, <1>1, CallerMoves, Facts DEF Work
  <2>3. svc' = [svc EXCEPT ![c] = svc[c]] /\ Typed' /\ runTask' = runTask
        /\ runLock' = runLock /\ svc[c] # "live"
    BY <1>0, <1>1, Facts DEF Work, service, Typed, CallerStages, Section
  <2> QED
    BY <1>0, <2>1, <2>2, <2>3, Facts, ActorMoves
<1>2. CASE MessageSent(c) \/ Interrupted(c) \/ TimeOut(c) \/ RunAwaited(c)
  <2>1. /\ svc[c] \in CallerStages \ Section /\ c \notin Runs
        /\ svc[c] # "live" /\ runLock # c
    BY <1>0, <1>2, Facts DEF MessageSent, Interrupted, TimeOut, RunAwaited, CallerStages, Section
  <2>2. PICK s \in {"idle", "runLock", "await", "timedOut"} : svc' = [svc EXCEPT ![c] = s]
    BY <1>2 DEF MessageSent, Interrupted, TimeOut, RunAwaited, To
  <2>3. pc' = pc /\ status' = status /\ runLock' = runLock
    BY <1>2 DEF MessageSent, Interrupted, TimeOut, RunAwaited, vars
  <2>4. Typed'
    BY <1>0, <1>2, Facts DEF MessageSent, Interrupted, TimeOut, RunAwaited, Alive, Typed
  <2>5. /\ runTask' \in Runs \union {Nobody}
        /\ \A r \in Runs : svc[r] \in InHand => runTask' = r
    BY <1>0, <1>2, Facts DEF MessageSent, Interrupted, TimeOut, RunAwaited, LastRun, Alive,
       InHand
  <2>6. s \in CallerStages /\ s \in Stages /\ s \notin Section
    BY DEF CallerStages, Stages, Section
  <2> QED
    BY <1>0, <2>1, <2>2, <2>3, <2>4, <2>5, <2>6, Facts, ActorMoves
<1> QED
  BY <1>1, <1>2 DEF Handle

(* The section of _run_lock.                                               *)
LEMMA DecideKeeps == ASSUME SInv, NEW x \in Actors, Decide(x) PROVE SInv'
<1>1. CASE TakeRunLock(x)
  <2>1. /\ svc' = [svc EXCEPT ![x] = "status"] /\ pc' = [pc EXCEPT ![x] = "status"]
        /\ svc[x] = "runLock" /\ runLock = Nobody /\ runLock' = x
        /\ status' = status /\ runTask' = runTask
    BY <1>1 DEF TakeRunLock, To, Join
  <2>2. Typed'
    BY <1>1, Facts DEF TakeRunLock, Typed
  <2>3. /\ "status" \in CallerStages /\ "status" \in Stages /\ "status" \in Section
        /\ "status" \notin InHand /\ "status" \in Places /\ RunFits("status", "status")
    BY DEF CallerStages, Stages, Section, InHand, Places, RunFits
  <2> QED
    BY <2>1, <2>2, <2>3, Facts, ActorMoves
<1>2. CASE ReadStatus(x)
  <2>1. PICK s \in {"refuse", "check"} : svc' = [svc EXCEPT ![x] = s]
    BY <1>2 DEF ReadStatus, To
  <2>2. pc' = [pc EXCEPT ![x] = Home(x)] /\ svc[x] = "status" /\ status' = status
    BY <1>2 DEF ReadStatus, Leave
  <2>3. Typed' /\ runTask' = runTask /\ runLock' = runLock
    BY <1>2, Facts DEF ReadStatus, Typed
  <2>4. s \in CallerStages /\ s \in Stages /\ s \in Section /\ s \notin InHand
    BY DEF CallerStages, Stages, Section, InHand
  <2>5. Home(x) \in Places /\ Home(x) # "top" /\ (x \in Runs => RunFits(s, Home(x)))
    BY DEF Home, Places, RunFits
  <2>6. runLock = x
    BY <2>2, Facts DEF Section
  <2> QED
    BY <2>1, <2>2, <2>3, <2>4, <2>5, <2>6, Facts, ActorMoves
<1>3. CASE Refuse(x)
  <2>1. svc[x] \in {"refuse", "check"} /\ svc' = [svc EXCEPT ![x] = "idle"]
    BY <1>3 DEF Refuse, To
  <2>2. PICK w \in Places : /\ pc' = [pc EXCEPT ![x] = w]
                            /\ x \in Runs => w = "idle"
                            /\ x \in Callers => w # "top"
    BY <1>3, Facts DEF Refuse, Return, EndRun, vars, Places
  <2>3. status' = status
    BY <1>3 DEF Refuse, Return, EndRun, vars
  <2>4. Typed' /\ runTask' = runTask /\ runLock' = Nobody
    BY <1>3, Facts DEF Refuse, Return, Rearm, Typed
  <2>5. runLock = x
    BY <2>1, Facts DEF Section
  <2>6. /\ "idle" \in CallerStages /\ "idle" \in Stages
        /\ "idle" \notin Section /\ "idle" \notin InHand
        /\ RunFits("idle", "idle")
    BY DEF CallerStages, Stages, Section, InHand, RunFits
  <2>7. /\ runLock' # x
        /\ \A y \in Actors \ {x} : runLock' = y <=> runLock = y
        /\ runTask' \in Runs \union {Nobody}
        /\ \A r \in Runs \ {x} : svc[r] \in InHand => runTask' = r
    BY <2>4, <2>5, Facts
  <2>8. x \in Runs => RunFits("idle", w)
    BY <2>2, <2>6
  <2> QED
    BY <2>1, <2>2, <2>3, <2>4, <2>6, <2>7, <2>8, ActorMoves
<1>4. CASE CreateTask(x)
  BY <1>4, CreateTaskKeeps
<1> QED
  BY <1>1, <1>2, <1>3, <1>4 DEF Decide

(* The tail of a task, and its cancellation.                               *)
LEMMA TailKeeps ==
  ASSUME SInv, NEW r \in Runs,
         \/ ClearTask(r) \/ CheckRerun(r) \/ ReadIdle(r) \/ EndTask(r) \/ CancelTail(r)
  PROVE  SInv'
<1>0. r \in Actors
  BY DEF Actors
<1>1. CASE ClearTask(r)
  <2>1. /\ svc[r] = "publishing" /\ svc' = [svc EXCEPT ![r] = "cleared"]
        /\ runTask' = Nobody /\ runLock' = runLock /\ status' = status /\ pc' = pc
    BY <1>1 DEF ClearTask, To, vars
  <2>2. Typed'
    BY <1>0, <1>1, Facts DEF ClearTask, Typed
  <2>3. \A u \in Runs \ {r} : svc[u] \notin InHand
    BY <1>0, <2>1, Facts DEF InHand
  <2>4. RunFits("cleared", pc[r])
    BY <1>0, <2>1, Facts DEF RunFits, InRun, InStep
  <2>5. /\ "cleared" \in Stages /\ "cleared" \notin Section /\ "cleared" \notin InHand
        /\ r \notin Callers /\ runLock # r
    BY <1>0, <2>1, Facts, ConversationAssumption DEF Stages, Section, InHand
  <2> QED
    BY <1>0, <2>1, <2>2, <2>3, <2>4, <2>5, Facts, ActorMoves
<1>2. CASE CheckRerun(r) \/ ReadIdle(r) \/ EndTask(r) \/ CancelTail(r)
  <2>1. PICK s \in Stages, w \in Places :
          /\ svc' = [svc EXCEPT ![r] = s] /\ pc' = [pc EXCEPT ![r] = w]
          /\ RunFits(s, w)
          /\ s \in {"idle", "rerun", "runLock", "over"}
    <3>1. CASE CheckRerun(r)
      <4>1. \/ svc' = [svc EXCEPT ![r] = "rerun"] /\ pc' = [pc EXCEPT ![r] = "status"]
            \/ svc' = [svc EXCEPT ![r] = "idle"] /\ pc' = [pc EXCEPT ![r] = "idle"]
        BY <3>1 DEF CheckRerun, To, Join, EndRun
      <4> QED
        BY <4>1 DEF RunFits, Stages, CallerStages, Places
    <3>2. CASE ReadIdle(r)
      <4>1. /\ pc' = [pc EXCEPT ![r] = "done"]
            /\ \/ svc' = [svc EXCEPT ![r] = "runLock"]
               \/ svc' = [svc EXCEPT ![r] = "over"]
        BY <3>2 DEF ReadIdle, To, Leave
      <4> QED
        BY <4>1 DEF RunFits, Stages, CallerStages, Places
    <3>3. CASE EndTask(r) \/ CancelTail(r)
      <4>1. svc' = [svc EXCEPT ![r] = "idle"] /\ pc' = [pc EXCEPT ![r] = "idle"]
        BY <3>3 DEF EndTask, CancelTail, To, EndRun
      <4> QED
        BY <4>1 DEF RunFits, Stages, CallerStages, Places
    <3> QED
      BY <1>2, <3>1, <3>2, <3>3
  <2>2. status' = status /\ runTask' = runTask
    BY <1>2 DEF CheckRerun, ReadIdle, EndTask, CancelTail, EndRun
  <2>3. Typed'
    BY <1>0, <1>2, Facts DEF CheckRerun, ReadIdle, EndTask, CancelTail, Typed
  <2>4. svc[r] # "live" /\ r \notin Callers
    BY <1>2, ConversationAssumption DEF CheckRerun, ReadIdle, EndTask, CancelTail
  <2>5. s \notin Section /\ s \notin InHand
    BY <2>1 DEF Section, InHand
  <2>6. /\ runLock' \in Actors \union {Nobody} /\ runLock' # r
        /\ \A y \in Actors \ {r} : runLock' = y <=> runLock = y
    <3>1. CASE CancelTail(r)
      BY <1>0, <3>1, Facts DEF CancelTail, Unlocked
    <3>2. CASE CheckRerun(r) \/ ReadIdle(r) \/ EndTask(r)
      BY <1>0, <3>2, Facts DEF CheckRerun, ReadIdle, EndTask, Section
    <3> QED
      BY <1>2, <3>1, <3>2
  <2> QED
    BY <1>0, <2>1, <2>2, <2>3, <2>4, <2>5, <2>6, Facts, ActorMoves
<1> QED
  BY <1>1, <1>2

(* A task starts arun(), or arun() goes on.                                *)
LEMMA RunKeeps ==
  ASSUME SInv, NEW r \in Runs, StartTask(r) \/ Live(r)
  PROVE  SInv'
<1>0. r \in Actors /\ r \notin Callers
  BY ConversationAssumption DEF Actors
<1>1. CASE StartTask(r)
  <2>1. /\ svc[r] = "created" /\ svc' = [svc EXCEPT ![r] = "live"]
        /\ pc' = [pc EXCEPT ![r] = "enter"]
        /\ status' = status /\ runTask' = runTask /\ runLock' = runLock
    BY <1>1 DEF StartTask, To, StartRun, Join
  <2>2. Typed'
    BY <1>0, <1>1, Facts DEF StartTask, Typed
  <2>3. /\ "live" \in Stages /\ "live" \notin Section /\ "enter" \in Places
        /\ RunFits("live", "enter")
    BY DEF Stages, InHand, Section, Places, RunFits, InRun
  <2>4. runLock # r /\ runTask = r
    BY <1>0, <2>1, Facts DEF Section, InHand
  <2> QED
    BY <1>0, <2>1, <2>2, <2>3, <2>4, Facts, ActorMoves
<1>2. CASE Live(r)
  <2>1. svc[r] = "live" /\ pc[r] \in InRun
    BY <1>0, <1>2, Facts DEF Live, RunFits
  <2>2. PICK w \in InRun \union {"done"} : /\ pc' = [pc EXCEPT ![r] = w]
                                           /\ w = "done" => status' # "RUNNING"
    BY <1>2, <2>1, RunGoesOn DEF Live
  <2>3. pc'[r] = w
    BY <1>0, <2>2, Facts
  <2>4. PICK s \in {"live", "publishing"} :
          /\ svc' = [svc EXCEPT ![r] = s]
          /\ s = "publishing" <=> w = "done"
    BY <1>0, <1>2, <2>1, <2>3, Facts DEF Live, To
  <2>5. Typed' /\ runTask' = runTask /\ runLock' = runLock
    BY <1>0, <1>2, Facts DEF Live, Typed
  <2>6. /\ s \in Stages /\ s \notin Section /\ w \in Places /\ RunFits(s, w)
    BY <2>4 DEF Stages, InHand, Section, Places, RunFits
  <2>7. runLock # r /\ runTask = r
    BY <1>0, <2>1, Facts DEF Section, InHand
  <2>8. status' = "RUNNING" => s = "live"
    BY <2>2, <2>4
  <2> QED
    BY <1>0, <2>2, <2>4, <2>5, <2>6, <2>7, <2>8, Facts, ActorMoves
<1> QED
  BY <1>1, <1>2

----------------------------------------------------------------------------

(* A new service: no task, nobody in a section.                            *)
LEMMA InitSInv == SInit => SInv
<1> SUFFICES ASSUME SInit PROVE SInv
  OBVIOUS
<1>1. StagesOK
  BY DEF SInit, Init, StagesOK, Places, RunFits, CallerStages, Actors
<1>2. RunLockIsSection
  BY EventServiceAssumption DEF SInit, RunLockIsSection, STypeOK
<1>3. RefusalIsTemporary
  BY DEF SInit, Init, RefusalIsTemporary, Actors
<1> QED
  BY <1>1, <1>2, <1>3 DEF SInv

(* Every step of the service or of its conversation preserves SInv.        *)
LEMMA NextSInv == SInv /\ [SNext]_svars => SInv'
<1> SUFFICES ASSUME SInv, [SNext]_svars PROVE SInv'
  OBVIOUS
<1>1. CASE UNCHANGED svars
  BY <1>1 DEF svars, service, vars, SInv, StagesOK, RunLockIsSection, STypeOK,
     RefusalIsTemporary
<1>2. ASSUME NEW c \in Callers, Request(c) \/ Handle(c) PROVE SInv'
  BY <1>2, RequestKeeps, HandleKeeps
<1>3. ASSUME NEW x \in Actors, Decide(x) PROVE SInv'
  BY <1>3, DecideKeeps
<1>4. ASSUME NEW r \in Runs, Task(r) PROVE SInv'
  BY <1>4, TailKeeps, RunKeeps DEF Task
<1> QED
  BY <1>1, <1>2, <1>3, <1>4 DEF SNext

(* SInv holds in every state the service reaches.                          *)
LEMMA SInvariance == SSpec => []SInv
BY InitSInv, NextSInv, PTL DEF SSpec

(* _run_lock is held by the coroutine inside its section and by no other,  *)
(* also after refusals and cancellations.                                  *)
THEOREM SectionCorrect == SSpec => []RunLockIsSection
<1>1. SInv => RunLockIsSection
  BY DEF SInv
<1> QED
  BY <1>1, SInvariance, PTL

(* _run_task names the task that has a run in its hands, and RUNNING means *)
(* that there is one: run() refuses nobody for ever.                       *)
THEOREM RefusalCorrect == SSpec => []RefusalIsTemporary
<1>1. SInv => RefusalIsTemporary
  BY DEF SInv
<1> QED
  BY <1>1, SInvariance, PTL

(* However many clients and tasks there are, one arun() at a time: a run   *)
(* is in the hands of its task, and _run_task has only one.                *)
THEOREM OneRunAtATime == SSpec => []OneRun
<1>1. SInv => OneRun
  <2> SUFFICES ASSUME SInv, NEW r \in Runs, NEW u \in Runs, Tracked(r), Tracked(u)
               PROVE  r = u
    BY DEF OneRun
  <2>1. svc[r] = "live" /\ svc[u] = "live"
    BY DEF SInv, StagesOK, RunFits, Tracked, InRun, InStep
  <2> QED
    BY <2>1 DEF SInv, RefusalIsTemporary
<1> QED
  BY <1>1, SInvariance, PTL
================================================================================
