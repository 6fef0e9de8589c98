----------------------------- MODULE ToolExecutor ------------------------------
(***************************************************************************)
(* sdk/agent/parallel_executor.py: the tool calls of a response, in worker *)
(* threads, under the resource locks; with the cancellation token of the   *)
(* run (conversation/cancellation.py) and an interrupt that leaves threads *)
(* behind.                                                                 *)
(*                                                                         *)
(* A call is named by the thread that executes it; the pool has a thread   *)
(* for each.  A call that waits for its resources or executes has its      *)
(* place in lock() in pc.  An orphan is a call whose run was cancelled     *)
(* while its thread was, or was about to be, at work: nobody waits for its *)
(* result.                                                                 *)
(***************************************************************************)
EXTENDS ResourceLockManager

CONSTANTS MaxWorkers,  \* max_workers of the executor
          Batches      \* the batches of calls that a response may ask for

ASSUME ExecutorAssumption == /\ MaxWorkers \in Nat \ {0}
                             /\ Batches \subseteq Seq(Threads) \ {<< >>}

VARIABLES batch,     \* the calls of the batch that the run waits for, in order
          call,      \* of each thread: "free", "queued" (for the semaphore),
                     \*   "submitted" (to the pool), "locked" (in lock()),
                     \*   "bare" (executes without locks), "done"
          orphans,   \* calls of cancelled runs
          token,     \* the token of the current run is cancelled
          cancelled  \* calls whose run's token is cancelled

execVars == <<batch, call, orphans, token, cancelled>>
xvars == <<vars, execVars>>

Members == {batch[i] : i \in DOMAIN batch}
Working == {"submitted", "locked", "bare"}

XInit == /\ Init
         /\ batch = << >>
         /\ call = [t \in Threads |-> "free"]
         /\ orphans = {}
         /\ token = FALSE
         /\ cancelled = {}

(* run() and arun() make a token.                                          *)
NewRun == /\ batch = << >>
          /\ token
          /\ token' = FALSE
          /\ UNCHANGED <<vars, batch, call, orphans, cancelled>>

(* interrupt() sets it, whatever the run is doing.                         *)
Interrupt == /\ ~token
             /\ token' = TRUE
             /\ cancelled' = cancelled \union Members
             /\ UNCHANGED <<vars, batch, call, orphans>>

(* aexecute_batch(action_events), with the token of the run.               *)
ExecuteBatch(b) ==
  /\ batch = << >>
  /\ \A i \in DOMAIN b : call[b[i]] = "free"
  /\ batch' = b
  /\ call' = [t \in Threads |-> IF t \in Members' THEN "queued" ELSE call[t]]
  /\ cancelled' = IF token THEN cancelled \union Members'
                  ELSE cancelled \ Members'
  /\ UNCHANGED <<vars, orphans, token>>

\* Calls of the batch that have the semaphore.  Mutant: none gives it back.
AtWork == {t \in Members : call[t] \in Working}
MutKeepSlot == {t \in Members : call[t] # "queued"}
Slots == AtWork

(* The next call in line gets the semaphore and is submitted to the pool.  *)
Submit(t) ==
  /\ \E i \in DOMAIN batch : /\ batch[i] = t
                             /\ \A j \in 1..i - 1 : call[batch[j]] # "queued"
  /\ call[t] = "queued"
  /\ Cardinality(Slots) < MaxWorkers
  /\ call' = [call EXCEPT ![t] = "submitted"]
  /\ UNCHANGED <<vars, batch, orphans, token, cancelled>>

\* cancel_token.is_cancelled, of the call's own token.  Mutant: that of the
\* run that is under way.
MutCurrentToken(t) == token
Cancelled(t) == t \in cancelled

\* The thread is through: with a result, an error, or after it was skipped.
Finish(t) == /\ call' = [call EXCEPT ![t] = IF t \in orphans THEN "free" ELSE "done"]
             /\ orphans' = orphans \ {t}
             /\ UNCHANGED <<batch, token, cancelled>>

(* _run_safe() begins: a synthetic error if it is too late, ...            *)
Skip(t) == /\ call[t] = "submitted"
           /\ Cancelled(t)
           /\ Finish(t)
           /\ UNCHANGED vars

(* ... the tool under its locks, or without: it has declared no key.       *)
Begin(t, keys) ==
  /\ call[t] = "submitted"
  /\ ~Cancelled(t)
  /\ \/ /\ keys # {}
        /\ Enter(t, keys)
        /\ call' = [call EXCEPT ![t] = "locked"]
     \/ /\ keys = {}
        /\ UNCHANGED vars
        /\ call' = [call EXCEPT ![t] = "bare"]
  /\ UNCHANGED <<batch, orphans, token, cancelled>>

(* lock(), the tool in its body, and what they raise.                      *)
Proceed(t) == /\ call[t] = "locked"
              /\ Step(t)
              /\ IF pc'[t] = "outside" THEN Finish(t) ELSE UNCHANGED execVars

(* A lock's time limit: the call goes on to its error.                     *)
LockTimesOut(t) == /\ call[t] = "locked"
                   /\ TimesOut(t)
                   /\ UNCHANGED execVars

(* The tool without locks returns or raises.                               *)
Return(t) == /\ call[t] = "bare"
             /\ Finish(t)
             /\ UNCHANGED vars

(* gather() has all results, which the agent emits in the batch's order.   *)
Gather == /\ batch # << >>
          /\ \A t \in Members : call[t] = "done"
          /\ batch' = << >>
          /\ call' = [t \in Threads |-> IF t \in Members THEN "free" ELSE call[t]]
          /\ UNCHANGED <<vars, orphans, token, cancelled>>

(* CancelledError in gather(): who waits for the semaphore gives up, the   *)
(* threads go on.  (A synchronous run() has no task to cancel: it gathers.)*)
CancelLands ==
  /\ batch # << >>
  /\ token
  /\ orphans' = orphans \union AtWork
  /\ call' = [t \in Threads |-> IF t \in Members \ AtWork THEN "free" ELSE call[t]]
  /\ batch' = << >>
  /\ UNCHANGED <<vars, token, cancelled>>

\* What the threads and the event loop do of their own accord.
Work(t) == \/ Submit(t)
           \/ Skip(t)
           \/ \E keys \in SUBSET Keys : Begin(t, keys)
           \/ Proceed(t)
           \/ Return(t)

XNext == \/ NewRun
         \/ Interrupt
         \/ \E b \in Batches : ExecuteBatch(b)
         \/ \E t \in Threads : Work(t) \/ LockTimesOut(t)
         \/ Gather
         \/ CancelLands

(* Tools end and the event loop runs.  No time-out, interrupt or           *)
(* cancellation is promised.                                               *)
XSpec == XInit /\ [][XNext]_xvars
XFairSpec == XSpec /\ WF_xvars(Gather) /\ \A t \in Threads : WF_xvars(Work(t))
------------------------------------------------------------------------------
XTypeOK == /\ TypeOK
           /\ batch \in Seq(Threads)
           /\ call \in [Threads -> Working \union {"free", "queued", "done"}]
           /\ orphans \subseteq Threads
           /\ token \in BOOLEAN
           /\ cancelled \subseteq Threads

(* "If cancel_token is set before the tool begins, the call is skipped":   *)
(* a call that an interrupt left in the pool's queue does not start when a *)
(* later run, with a token of its own, is under way.                       *)
NoLateStart ==
  [][\A t \in orphans : call[t] = "submitted" => call'[t] \in {"submitted", "free"}]_xvars

(* Every call comes to its end, and a batch that is not interrupted to its *)
(* results, though calls wait for the semaphore, for resources and for     *)
(* orphans of earlier runs, and no time limit ever strikes.                *)
CallsReturn == \A t \in Threads : (call[t] # "free") ~> (call[t] = "free")
==============================================================================
