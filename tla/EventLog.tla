------------------------------- MODULE EventLog -------------------------------
(***************************************************************************)
(* sdk/conversation/event_store.py: the event files of a conversation, and *)
(* every service's EventLog with its index in memory, over the lease.      *)
(*                                                                         *)
(* append() holds the log's file lock from its look at the disk to its     *)
(* last assignment; in between, the write is made under the lease's lock,  *)
(* if the service has a generation.  A thread that appends may outlive     *)
(* close(), which waits for the run but not for requests in threads.       *)
(***************************************************************************)
EXTENDS ConversationLease, FiniteSets

CONSTANT MaxEvents   \* bound: calls of append()

ASSUME LogAssumption == MaxEvents \in Nat

VARIABLES files,     \* event-<idx>-<id>.json: index and event of each file
          index,     \* _idx_to_id of each service's EventLog
          length,    \* _length of each service's EventLog
          thread,    \* a service's appending thread: "idle", "wants" the
                     \*   file lock, or "synced": has it and has looked
          flock,     \* the service whose thread has the file lock
          appended,  \* events a service has begun to append
          calls      \* calls of append() so far

logVars == <<files, index, length, thread, flock, appended, calls>>
vars == <<leaseVars, logVars>>

\* An event is named by the service that makes it and a number.
Events == Services \X (1..MaxEvents)
Current(s) == <<s, appended[s]>>

\* _scan_and_build_index(): the files from 0 up to the first gap.
Indices == {f.idx : f \in files}
Scanned == CHOOSE n \in 0..Cardinality(files) :
             /\ 0..(n - 1) \subseteq Indices
             /\ n \notin Indices
EventAt(k) == (CHOOSE f \in files : f.idx = k).ev
ScannedIndex == [k \in 0..(Scanned - 1) |-> EventAt(k)]

\* _sync_from_disk(): the scan, then what only the memory had.  Mutant: the
\* length is adjusted, the index is not.
MutOldIndex(s) == index[s]
Merged(s) == [k \in DOMAIN ScannedIndex \union DOMAIN index[s] |->
                IF k \in DOMAIN ScannedIndex THEN ScannedIndex[k]
                ELSE index[s][k]]

\* The test of append().  Mutant: trust the length in memory.
MutNeverBehind(s) == s \notin Services
Behind(s) == Cardinality(files) > length[s]

Init == /\ LeaseInit
        /\ files = {}
        /\ index = [s \in Services |-> << >>]
        /\ length = [s \in Services |-> 0]
        /\ thread = [s \in Services |-> "idle"]
        /\ flock = Nobody
        /\ appended = [s \in Services |-> 0]
        /\ calls = 0

(* The new LocalConversation opens the log, without the file lock.         *)
Open(s) == /\ Start(s)
           /\ index' = [index EXCEPT ![s] = ScannedIndex]
           /\ length' = [length EXCEPT ![s] = Scanned]
           /\ UNCHANGED <<files, thread, flock, appended, calls>>

(* A thread calls append(): a run, a request, or start() itself.           *)
BeginAppend(s) == /\ phase[s] \in {"starting", "open"}
                  /\ thread[s] = "idle"
                  /\ calls < MaxEvents
                  /\ calls' = calls + 1
                  /\ appended' = [appended EXCEPT ![s] = @ + 1]
                  /\ thread' = [thread EXCEPT ![s] = "wants"]
                  /\ UNCHANGED <<leaseVars, files, index, length, flock>>

(* It gets the file lock and catches up with the disk.  The listing is     *)
(* assumed to succeed: where it raises, _count_events_on_disk() says 0 and *)
(* the append goes on with a length that may be behind.                    *)
Sync(s) == /\ thread[s] = "wants"
           /\ flock = Nobody
           /\ flock' = s
           /\ thread' = [thread EXCEPT ![s] = "synced"]
           /\ IF Behind(s)
              THEN /\ index' = [index EXCEPT ![s] = Merged(s)]
                   /\ length' = [length EXCEPT ![s] =
                        IF Scanned > Cardinality(files) THEN Scanned
                        ELSE Cardinality(files)]
              ELSE UNCHANGED <<index, length>>
           /\ UNCHANGED <<leaseVars, files, appended, calls>>

(* LOCK_TIMEOUT_SECONDS have passed: TimeoutError.                         *)
LockTimeout(s) == /\ thread[s] = "wants"
                  /\ flock # Nobody
                  /\ thread' = [thread EXCEPT ![s] = "idle"]
                  /\ UNCHANGED <<leaseVars, files, index, length, flock, appended,
                                 calls>>

\* Mutant: the file lock is not given back.
MutKeepFlock(s) == /\ UNCHANGED flock
                   /\ thread' = [thread EXCEPT ![s] = "idle"]
Unlock(s) == /\ flock' = Nobody
             /\ thread' = [thread EXCEPT ![s] = "idle"]

(* The guard lets it through: the file, then the index.                    *)
Write(s) ==
  /\ thread[s] = "synced"
  /\ MayWrite(s)
  /\ files' = files \union {[idx |-> length[s], ev |-> Current(s)]}
  /\ index' = [index EXCEPT ![s] =
       [k \in DOMAIN @ \union {length[s]} |->
          IF k = length[s] THEN Current(s) ELSE @[k]]]
  /\ length' = [length EXCEPT ![s] = @ + 1]
  /\ Unlock(s)
  /\ UNCHANGED <<leaseVars, appended, calls>>

(* The guard raises ConversationOwnershipLostError.                        *)
OwnershipLost(s) == /\ thread[s] = "synced"
                    /\ ~MayWrite(s)
                    /\ Unlock(s)
                    /\ UNCHANGED <<leaseVars, files, index, length, appended,
                                   calls>>

(* A dead process holds no file lock and has neither threads nor memory.   *)
Die(i) == /\ Crash(i)
          /\ thread' = [s \in Services |-> IF ServerOf[s] = i THEN "idle"
                                           ELSE thread[s]]
          /\ flock' = (IF flock # Nobody /\ ServerOf[flock] = i THEN Nobody
                       ELSE flock)
          /\ index' = [s \in Services |-> IF ServerOf[s] = i THEN << >>
                                          ELSE index[s]]
          /\ length' = [s \in Services |-> IF ServerOf[s] = i THEN 0
                                           ELSE length[s]]
          /\ UNCHANGED <<files, appended, calls>>

Service(s) == \/ StartRefused(s) /\ UNCHANGED logVars
              \/ Register(s) /\ UNCHANGED logVars
              \/ StartFails(s) /\ UNCHANGED logVars
              \/ Close(s) /\ UNCHANGED logVars
              \/ Renew(s) /\ UNCHANGED logVars

Append(s) == \/ BeginAppend(s)
             \/ Sync(s)
             \/ LockTimeout(s)
             \/ Write(s)
             \/ OwnershipLost(s)

Next == \/ \E s \in Services : Open(s) \/ Service(s) \/ Append(s)
        \/ \E i \in Servers : Stop(i) /\ UNCHANGED logVars
        \/ \E i \in Servers : Die(i)
        \/ Expire /\ UNCHANGED logVars

Spec == Init /\ [][Next]_vars

----------------------------------------------------------------------------

(* Types; and the file lock belongs to the thread that has looked at the   *)
(* disk, also after a takeover, a time-out, a failed write or a crash.     *)
TypeOK == /\ server \in [Servers -> {"up", "stopping", "dead"}]
          /\ table \in [Servers -> Services \union {Nobody}]
          /\ phase \in [Services -> {"new", "starting", "open", "closing",
                                     "closed", "dead"}]
          /\ gen \in [Services -> Nat]
          /\ \/ lease = Nobody
             \/ lease \in [owner : Servers, gen : Nat \ {0}]
          /\ expired \in BOOLEAN
          /\ last \in Servers \union {Nobody}
          /\ files \subseteq [idx : Nat, ev : Events]
          /\ length \in [Services -> Nat]
          /\ thread \in [Services -> {"idle", "wants", "synced"}]
          /\ flock \in Services \union {Nobody}
          /\ appended \in [Services -> 0..calls]
          /\ calls \in 0..MaxEvents
          /\ \A s \in Services : thread[s] = "synced" <=> flock = s

(* However services of several servers take turns, the files are numbered  *)
(* from 0 without a gap and no two have the same number: the next load     *)
(* finds every event (_scan_and_build_index stops at a gap and keeps one   *)
(* of two).                                                                *)
LogIsDense == Indices = 0..(Cardinality(files) - 1)

(* What a service remembers of the log is what is on disk, events of other *)
(* servers included (append() syncs under the lock).                       *)
IndexAgrees == \A s \in Services :
                 /\ DOMAIN index[s] = 0..(length[s] - 1)
                 /\ \A k \in DOMAIN index[s] :
                      [idx |-> k, ev |-> index[s][k]] \in files

(* A service that is not closed writes no event once another server has    *)
(* claimed the conversation (guarded_write).                               *)
OwnersWrite == [][\A f \in files' \ files :
                    phase[f.ev[1]] # "closed" => last = ServerOf[f.ev[1]]]_vars
===============================================================================
