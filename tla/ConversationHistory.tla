------------------------- MODULE ConversationHistory -------------------------
(***************************************************************************)
(* Module ConversationCrash with history variables, which record what      *)
(* promises about a whole history are about: which tools have run, which   *)
(* actions a step dropped, which ones wait for the user, and for how many  *)
(* steps a queueing thread had to wait.                                    *)
(***************************************************************************)
EXTENDS ConversationCrash

VARIABLES ran,        \* actions whose tools were started in this life of the
                      \* process, but for those whose results were lost
          discarded,  \* actions _truncate_at_finish dropped
          unapproved, \* actions about which a run asked the user
          overtaken   \* of each caller: steps of runs since it asked for the lock

history == <<ran, discarded, unapproved, overtaken>>
hvars == <<cvars, history>>

HInit == /\ CInit
         /\ ran = {}
         /\ discarded = {}
         /\ unapproved = {}
         /\ overtaken = [c \in Callers |-> 0]

\* A step of arun() begins, its tools start, and their results are not, or
\* not all, emitted; the run itself starts.
StepBegins(r) == pc[r] = "top" /\ (Stepping(r)' \/ iter'[r] > iter[r])
ToolsBegin(x) == pc[x] # "tools" /\ pc'[x] = "tools"
ToolsFail(x) == pc[x] = "tools" /\ pc'[x] \in {"raised", "idle"}
RunStarts(r) == pc[r] = "idle" /\ pc'[r] = "enter"

\* interrupt() cancels the run's token first, and the run drops it at its
\* end.  Mutant: a step does not look at it.
MutNoToken == FALSE
TokenCancelled == \E r \in Runs : r \in cancel \/ pc[r] = "cancelled"

\* The pending actions of a step whose tools start now, those it keeps, and
\* those it executes: with a cancelled token it only answers them.
Batch == IF \E x \in Actors : ToolsBegin(x) THEN Unmatched' ELSE {}
Kept == Truncated(Batch, finishes')
Started == IF TokenCancelled THEN {} ELSE Kept

\* Actions executed whose results the log has refused.
Lost == IF \E x \in Actors : ToolsFail(x) THEN Unmatched' ELSE {}

\* Bound: what is counted is counted up to what no property allows.
Count(n, bound) == IF n <= bound THEN n + 1 ELSE n

Record ==
  /\ ran' = IF crashes' # crashes THEN {} ELSE (ran \union Started) \ Lost
  /\ discarded' = discarded \union (Batch \ Kept)
  /\ unapproved' =
       IF /\ status' = "WAITING_FOR_CONFIRMATION" /\ status # status'
          /\ \E r \in Runs : HasLock(r)
       THEN Unmatched'
       ELSE IF \E r \in Runs : RunStarts(r) THEN {}
       ELSE unapproved
  /\ overtaken' = [c \in Callers |->
       IF pc'[c] \in {"idle", "read", "requested"} THEN 0
       ELSE IF \E r \in Runs : StepBegins(r) THEN Count(overtaken[c], 1)
       ELSE overtaken[c]]

HSpec == HInit /\ [][CNext /\ Record]_hvars
------------------------------------------------------------------------------
(* Between two crashes no tool call whose result is known is executed      *)
(* again: not by the run that resumes after an interrupt, an error or a    *)
(* pause, nor by a condense() that finds the calls of an interrupted run   *)
(* pending because it gets the lock before the run's handler.              *)
ExecutedOncePerLife == [][Started \intersect ran = {}]_hvars

(* An action about which a run asked the user for confirmation is executed *)
(* only after somebody called run() again, or by the step of condense().   *)
NeverWithoutConsent ==
  [][(\A c \in Callers : ~ToolsBegin(c)) => Started \intersect unapproved = {}]_hvars

(* The FIFO lock keeps the loop from starving other threads: whoever has   *)
(* asked for the lock sees at most one more step of the loop begin.        *)
NobodyIsStarved == \A c \in Callers : overtaken[c] <= 1

(* "Tools after FinishTool are discarded and never executed." *)
DiscardedNeverExecuted == [][Started \intersect discarded = {}]_hvars
==============================================================================
