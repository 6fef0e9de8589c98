-------------------------- MODULE ConversationCrash --------------------------
(***************************************************************************)
(* Module Conversation with a server that may crash and start again.       *)
(* Events are on disk as soon as they are emitted; the status is written   *)
(* when the outermost `with self._state:` ends (ConversationState.__exit__,*)
(* openhands/sdk/conversation/state.py), so not while a step of the agent  *)
(* is under way.  EventService.start() loads both.                         *)
(***************************************************************************)
EXTENDS Conversation

CONSTANT MaxCrashes  \* bound: crashes of the whole history

ASSUME CrashAssumption == MaxCrashes \in Nat

VARIABLES saved,   \* execution_status in base_state.json
          crashes  \* number of crashes

cvars == <<vars, saved, crashes>>

CInit == Init /\ saved = "IDLE" /\ crashes = 0

\* __exit__ saves; during a step it has not been reached.
Save == saved' = IF \E x \in Actors : Stepping(x)' THEN saved ELSE status'

Live == Next /\ Save /\ UNCHANGED crashes

\* What start() makes of the status it loads.  Mutant: it believes it.
MutTrustDisk(st) == st
Loaded(st) == IF st = "RUNNING" THEN "ERROR" ELSE st

\* "A restart occurred while this tool was in progress": the first pending
\* action is told so.
Surfaced == IF saved = "RUNNING"
            THEN {a \in Unmatched : \A b \in Unmatched : a <= b} ELSE {}

(* The process dies, and start() of another one has claimed the lease.     *)
Crash ==
  /\ crashes < MaxCrashes
  /\ crashes' = crashes + 1
  /\ status' = Loaded(saved)
  /\ saved' = Loaded(saved)
  /\ matched' = matched \union Surfaced
  /\ queue' = << >>
  /\ pc' = [x \in Actors |-> "idle"]
  /\ iter' = [r \in Runs |-> 0]
  /\ cancel' = {}
  /\ stale' = [c \in Callers |-> {}]
  /\ UNCHANGED <<issued, finishes, requested, unseen>>

CNext == Live \/ Crash
CSpec == CInit /\ [][CNext]_cvars
------------------------------------------------------------------------------
(* Neither in memory nor on disk is RUNNING left behind, by a run lost in  *)
(* a crash least of all: the restarted conversation can be run.            *)
RestartCanRun == RunningIsHonest /\ (saved = "RUNNING" => \E r \in Runs : Tracked(r))
==============================================================================
