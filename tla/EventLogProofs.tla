----------------------------- MODULE EventLogProofs -----------------------------
(***************************************************************************)
(* Proofs about EventLog, for any servers, services and number of events:  *)
(* whatever the takeovers, expiries and crashes, the event files are       *)
(* numbered without gap or repetition, and a service that is not closed    *)
(* writes only while its server was the last to claim the lease.           *)
(***************************************************************************)
EXTENDS EventLog, FiniteSetTheorems, TLAPS

(* The lease is that of the last claim; a service that has started has a   *)
(* generation until it is closed; a thread has a service and an event; the *)
(* table of a server has a service of its own.                             *)
LeaseInv ==
  /\ lease # Nobody => last = lease.owner
  /\ \A s \in Services :
       /\ gen[s] = 0 => phase[s] \in {"new", "closed", "dead"}
       /\ thread[s] # "idle" =>
            /\ phase[s] \in {"starting", "open", "closing", "closed"}
            /\ appended[s] > 0
  /\ \A i \in Servers : table[i] # Nobody =>
       phase[table[i]] = "open" /\ ServerOf[table[i]] = i

(* No memory is ahead of the disk, and that of the thread with the file    *)
(* lock is not behind it either.                                           *)
LengthInv == \A s \in Services :
               /\ length[s] <= Cardinality(files)
               /\ flock = s => length[s] = Cardinality(files)

FilesInv == IsFiniteSet(files) /\ LogIsDense

IndexInv == DOMAIN index = Services /\ IndexAgrees

IInv == TypeOK /\ LeaseInv /\ FilesInv /\ LengthInv /\ IndexInv
-----------------------------------------------------------------------------
(* The operators                                                           *)

(* claim() writes a lease of the claiming server.                          *)
LEMMA ClaimedType ==
  ASSUME TypeOK, NEW i \in Servers
  PROVE  /\ Claimed(i) \in [owner : Servers, gen : Nat \ {0}]
         /\ Claimed(i).owner = i
BY LeaseAssumption DEF TypeOK, Claimed

(* Without a gap, _scan_and_build_index() finds every file.                *)
LEMMA ScanFindsAll ==
  ASSUME FilesInv
  PROVE  /\ Cardinality(files) \in Nat
         /\ Scanned = Cardinality(files)
<1> DEFINE n == Cardinality(files)
<1>1. n \in Nat
  BY FS_CardinalityType DEF FilesInv
<1>2. 0..(n - 1) \subseteq Indices /\ n \notin Indices
  BY <1>1 DEF FilesInv, LogIsDense
<1>3. ASSUME NEW m \in 0..n, 0..(m - 1) \subseteq Indices, m \notin Indices
      PROVE  m = n
  BY <1>1, <1>3 DEF FilesInv, LogIsDense
<1>4. Scanned \in 0..n /\ 0..(Scanned - 1) \subseteq Indices /\ Scanned \notin Indices
  BY <1>1, <1>2 DEF Scanned
<1> QED BY <1>1, <1>3, <1>4

(* The index it builds has an event of the log at every position.          *)
LEMMA ScannedIndexAgrees ==
  ASSUME TypeOK, FilesInv
  PROVE  /\ DOMAIN ScannedIndex = 0..(Cardinality(files) - 1)
         /\ \A k \in DOMAIN ScannedIndex : [idx |-> k, ev |-> ScannedIndex[k]] \in files
<1>1. DOMAIN ScannedIndex = 0..(Cardinality(files) - 1)
  BY ScanFindsAll DEF ScannedIndex
<1>2. ASSUME NEW k \in DOMAIN ScannedIndex
      PROVE  [idx |-> k, ev |-> ScannedIndex[k]] \in files
  <2>1. k \in Indices
    BY <1>1, <1>2 DEF FilesInv, LogIsDense
  <2>2. PICK f \in files : f.idx = k
    BY <2>1 DEF Indices
  <2> DEFINE g == CHOOSE h \in files : h.idx = k
  <2>3. g \in files /\ g.idx = k
    BY <2>2
  <2>4. g = [idx |-> g.idx, ev |-> g.ev]
    BY <2>3 DEF TypeOK
  <2>5. ScannedIndex[k] = g.ev
    BY DEF ScannedIndex, EventAt
  <2> QED BY <2>3, <2>4, <2>5
<1> QED BY <1>1, <1>2

(* _sync_from_disk() leaves the index that a scan would build.             *)
LEMMA MergedAgrees ==
  ASSUME TypeOK, FilesInv, LengthInv, IndexAgrees, NEW s \in Services
  PROVE  /\ DOMAIN Merged(s) = 0..(Cardinality(files) - 1)
         /\ \A k \in DOMAIN Merged(s) : [idx |-> k, ev |-> Merged(s)[k]] \in files
<1>1. DOMAIN index[s] \subseteq DOMAIN ScannedIndex
  <2>1. DOMAIN index[s] = 0..(length[s] - 1) /\ length[s] <= Cardinality(files)
    BY DEF IndexAgrees, LengthInv
  <2>2. length[s] \in Nat /\ Cardinality(files) \in Nat
    BY ScanFindsAll DEF TypeOK
  <2> QED BY <2>1, <2>2, ScannedIndexAgrees
<1>2. DOMAIN Merged(s) = DOMAIN ScannedIndex
  BY <1>1 DEF Merged
<1>3. \A k \in DOMAIN ScannedIndex : Merged(s)[k] = ScannedIndex[k]
  BY DEF Merged
<1> QED BY <1>2, <1>3, ScannedIndexAgrees
-----------------------------------------------------------------------------
(* The invariant                                                           *)

(* It holds when nothing has been started.                                 *)
LEMMA InitIInv == Init => IInv
<1> SUFFICES ASSUME Init PROVE IInv
  OBVIOUS
<1>1. TypeOK
  <2>1. 0 \in 0..MaxEvents /\ 0 \in 0..0
    BY LogAssumption
  <2>2. appended \in [Services -> 0..calls] /\ calls \in 0..MaxEvents
    BY <2>1 DEF Init
  <2>3. \A s \in Services : thread[s] = "synced" <=> flock = s
    BY LeaseAssumption DEF Init
  <2> QED BY <2>2, <2>3 DEF Init, LeaseInit, TypeOK
<1>2. LeaseInv
  BY LeaseAssumption DEF Init, LeaseInit, LeaseInv
<1>3. IsFiniteSet(files) /\ Cardinality(files) = 0
  BY FS_EmptySet DEF Init
<1>4. FilesInv
  BY <1>3 DEF Init, FilesInv, LogIsDense, Indices
<1>5. LengthInv /\ IndexInv
  BY <1>3, LeaseAssumption DEF Init, LengthInv, IndexInv, IndexAgrees
<1> QED BY <1>1, <1>2, <1>4, <1>5 DEF IInv

(* Every step keeps the types, and the file lock with its thread.          *)
LEMMA TypeStep == IInv /\ [Next]_vars => TypeOK'
<1> SUFFICES ASSUME IInv, [Next]_vars PROVE TypeOK'
  OBVIOUS
<1> USE LeaseAssumption, LogAssumption
<1>0. TypeOK /\ Scanned \in Nat /\ Cardinality(files) \in Nat
  BY ScanFindsAll DEF IInv
<1>1. ASSUME NEW s \in Services, Open(s) PROVE TypeOK'
  BY <1>0, <1>1, ClaimedType DEF Open, Start, TypeOK
<1>2. ASSUME NEW s \in Services, StartRefused(s), UNCHANGED logVars PROVE TypeOK'
  BY <1>0, <1>2 DEF StartRefused, logVars, TypeOK
<1>3. ASSUME NEW s \in Services, Register(s), UNCHANGED logVars PROVE TypeOK'
  BY <1>0, <1>3 DEF Register, logVars, TypeOK
<1>4. ASSUME NEW s \in Services, StartFails(s), UNCHANGED logVars PROVE TypeOK'
  BY <1>0, <1>4 DEF StartFails, logVars, TypeOK
<1>5. ASSUME NEW s \in Services, Close(s), UNCHANGED logVars PROVE TypeOK'
  BY <1>0, <1>5 DEF Close, Release, logVars, TypeOK
<1>6. ASSUME NEW s \in Services, Renew(s), UNCHANGED logVars PROVE TypeOK'
  BY <1>0, <1>6 DEF Renew, logVars, TypeOK
<1>7. ASSUME NEW s \in Services, BeginAppend(s) PROVE TypeOK'
  <2>1. calls' \in 0..MaxEvents /\ 0..calls \subseteq 0..calls'
    BY <1>0, <1>7 DEF BeginAppend, TypeOK
  <2>2. appended[s] + 1 \in 0..calls'
    BY <1>0, <1>7 DEF BeginAppend, TypeOK
  <2>3. appended' \in [Services -> 0..calls']
    BY <1>0, <1>7, <2>1, <2>2 DEF BeginAppend, TypeOK
  <2>4. thread' \in [Services -> {"idle", "wants", "synced"}]
    BY <1>0, <1>7 DEF BeginAppend, TypeOK
  <2>5. \A t \in Services : thread'[t] = "synced" <=> flock' = t
    BY <1>0, <1>7 DEF BeginAppend, TypeOK
  <2> QED BY <1>0, <1>7, <2>1, <2>3, <2>4, <2>5 DEF BeginAppend, leaseVars, TypeOK
<1>8. ASSUME NEW s \in Services, Sync(s) PROVE TypeOK'
  BY <1>0, <1>8 DEF Sync, leaseVars, TypeOK
<1>9. ASSUME NEW s \in Services, LockTimeout(s) PROVE TypeOK'
  BY <1>0, <1>9 DEF LockTimeout, leaseVars, TypeOK
<1>10. ASSUME NEW s \in Services, Write(s) PROVE TypeOK'
  <2>1. Current(s) \in Events
    <3>1. appended[s] \in 1..calls /\ calls \in 0..MaxEvents
      BY <1>0, <1>10 DEF IInv, LeaseInv, Write, TypeOK
    <3> QED BY <3>1 DEF Current, Events
  <2>2. files' \subseteq [idx : Nat, ev : Events]
    BY <1>0, <1>10, <2>1 DEF Write, TypeOK
  <2>3. length' \in [Services -> Nat]
    BY <1>0, <1>10 DEF Write, TypeOK
  <2>4. /\ flock' \in Services \cup {Nobody}
        /\ thread' \in [Services -> {"idle", "wants", "synced"}]
        /\ \A t \in Services : thread'[t] = "synced" <=> flock' = t
    BY <1>0, <1>10 DEF Write, Unlock, TypeOK
  <2> QED BY <1>0, <1>10, <2>2, <2>3, <2>4 DEF Write, leaseVars, TypeOK
<1>11. ASSUME NEW s \in Services, OwnershipLost(s) PROVE TypeOK'
  BY <1>0, <1>11 DEF OwnershipLost, leaseVars, Unlock, TypeOK
<1>12. ASSUME NEW i \in Servers, Stop(i), UNCHANGED logVars PROVE TypeOK'
  BY <1>0, <1>12 DEF Stop, logVars, TypeOK
<1>13. ASSUME NEW i \in Servers, Die(i) PROVE TypeOK'
  BY <1>0, <1>13 DEF Die, Crash, TypeOK
<1>14. ASSUME Expire, UNCHANGED logVars PROVE TypeOK'
  BY <1>0, <1>14 DEF Expire, logVars, TypeOK
<1>15. ASSUME UNCHANGED vars PROVE TypeOK'
  BY <1>0, <1>15 DEF vars, leaseVars, logVars, TypeOK
<1> QED BY <1>1, <1>2, <1>3, <1>4, <1>5, <1>6, <1>7, <1>8, <1>9, <1>10, <1>11, <1>12, <1>13, <1>14, <1>15 DEF Next, Service, Append

(* Every step keeps the lease with the last claim, and the threads with    *)
(* their services.                                                         *)
LEMMA LeaseStep == IInv /\ [Next]_vars => LeaseInv'
<1> SUFFICES ASSUME IInv, [Next]_vars PROVE LeaseInv'
  OBVIOUS
<1> USE LeaseAssumption, LogAssumption
<1>0. TypeOK /\ LeaseInv
  BY DEF IInv
<1>1. ASSUME NEW s \in Services, Open(s) PROVE LeaseInv'
  BY <1>0, <1>1, ClaimedType DEF Open, Start, TypeOK, LeaseInv, Wanted
<1>2. ASSUME NEW s \in Services, StartRefused(s), UNCHANGED logVars PROVE LeaseInv'
  BY <1>0, <1>2 DEF StartRefused, Wanted, logVars, TypeOK, LeaseInv
<1>3. ASSUME NEW s \in Services, Register(s), UNCHANGED logVars PROVE LeaseInv'
  BY <1>0, <1>3 DEF Register, logVars, TypeOK, LeaseInv
<1>4. ASSUME NEW s \in Services, StartFails(s), UNCHANGED logVars PROVE LeaseInv'
  BY <1>0, <1>4 DEF StartFails, logVars, TypeOK, LeaseInv
<1>5. ASSUME NEW s \in Services, Close(s), UNCHANGED logVars PROVE LeaseInv'
  BY <1>0, <1>5 DEF Close, Release, logVars, TypeOK, LeaseInv
<1>6. ASSUME NEW s \in Services, Renew(s), UNCHANGED logVars PROVE LeaseInv'
  BY <1>0, <1>6 DEF Renew, logVars, TypeOK, LeaseInv
<1>7. ASSUME NEW s \in Services, BeginAppend(s) PROVE LeaseInv'
  BY <1>0, <1>7 DEF BeginAppend, leaseVars, TypeOK, LeaseInv
<1>8. ASSUME NEW s \in Services, Sync(s) PROVE LeaseInv'
  BY <1>0, <1>8 DEF Sync, leaseVars, TypeOK, LeaseInv
<1>9. ASSUME NEW s \in Services, LockTimeout(s) PROVE LeaseInv'
  BY <1>0, <1>9 DEF LockTimeout, leaseVars, TypeOK, LeaseInv
<1>10. ASSUME NEW s \in Services, Write(s) PROVE LeaseInv'
  BY <1>0, <1>10 DEF Write, leaseVars, Unlock, TypeOK, LeaseInv
<1>11. ASSUME NEW s \in Services, OwnershipLost(s) PROVE LeaseInv'
  BY <1>0, <1>11 DEF OwnershipLost, leaseVars, Unlock, TypeOK, LeaseInv
<1>12. ASSUME NEW i \in Servers, Stop(i), UNCHANGED logVars PROVE LeaseInv'
  BY <1>0, <1>12 DEF Stop, logVars, TypeOK, LeaseInv
<1>13. ASSUME NEW i \in Servers, Die(i) PROVE LeaseInv'
  BY <1>0, <1>13 DEF Die, Crash, TypeOK, LeaseInv
<1>14. ASSUME Expire, UNCHANGED logVars PROVE LeaseInv'
  BY <1>0, <1>14 DEF Expire, logVars, TypeOK, LeaseInv
<1>15. ASSUME UNCHANGED vars PROVE LeaseInv'
  BY <1>0, <1>15 DEF vars, leaseVars, logVars, TypeOK, LeaseInv
<1> QED BY <1>1, <1>2, <1>3, <1>4, <1>5, <1>6, <1>7, <1>8, <1>9, <1>10, <1>11, <1>12, <1>13, <1>14, <1>15 DEF Next, Service, Append
-----------------------------------------------------------------------------
(* The log                                                                 *)

LogInv == FilesInv /\ LengthInv /\ IndexInv

(* A step that leaves files and memories alone, and hands the file lock to *)
(* nobody, keeps what is said of them.                                     *)
LEMMA LogUntouched ==
  ASSUME LogInv, LeaseAssumption, UNCHANGED <<files, index, length>>, flock' \in {flock, Nobody}
  PROVE  LogInv'
BY DEF LeaseAssumption, LogInv, FilesInv, LogIsDense, Indices, LengthInv, IndexInv, IndexAgrees

(* The thread with the file lock appends the next file, and no other.      *)
LEMMA WriteExtends ==
  ASSUME IInv, NEW s \in Services, Write(s)
  PROVE  LogInv'
<1> DEFINE C == Cardinality(files)
           f == [idx |-> length[s], ev |-> Current(s)]
<1>1. C \in Nat /\ length[s] = C
  BY ScanFindsAll DEF IInv, Write, TypeOK, LengthInv
<1>2. Indices = 0..(C - 1)
  BY DEF IInv, FilesInv, LogIsDense
<1>3. f \notin files
  <2>1. f \in files => f.idx \in Indices
    BY DEF Indices
  <2>2. length[s] \notin Indices
    BY <1>1, <1>2
  <2>3. f.idx = length[s]
    OBVIOUS
  <2> QED BY <2>1, <2>2, <2>3
<1>4. files' = files \cup {f}
  BY DEF Write
<1>5. IsFiniteSet(files') /\ Cardinality(files') = C + 1
  BY <1>3, <1>4, FS_AddElement DEF IInv, FilesInv
<1>6. Indices' = Indices \cup {length[s]}
  <2>1. f.idx = length[s]
    OBVIOUS
  <2>2. Indices' = {g.idx : g \in files \cup {f}}
    BY <1>4 DEF Indices
  <2> HIDE DEF f
  <2> QED BY <2>1, <2>2 DEF Indices
<1>7. FilesInv'
  <2>1. Indices' = 0..C
    BY <1>1, <1>2, <1>6
  <2>2. 0..C = 0..((C + 1) - 1)
    BY <1>1
  <2> QED BY <1>5, <2>1, <2>2 DEF FilesInv, LogIsDense
<1>8. LengthInv'
  <2>1. flock' = Nobody
    BY DEF Write, Unlock
  <2>2. ASSUME NEW t \in Services PROVE length'[t] <= C + 1
    <3>1. length[t] \in Nat /\ length[t] <= C
      BY DEF IInv, TypeOK, LengthInv
    <3>2. length'[t] = IF t = s THEN length[s] + 1 ELSE length[t]
      BY DEF Write, IInv, TypeOK
    <3> QED BY <1>1, <3>1, <3>2
  <2> QED BY <1>5, <2>1, <2>2, LeaseAssumption DEF LengthInv
<1>9. IndexInv'
  <2> SUFFICES ASSUME NEW t \in Services
               PROVE  /\ DOMAIN index'[t] = 0..(length'[t] - 1)
                      /\ \A k \in DOMAIN index'[t] :
                           [idx |-> k, ev |-> index'[t][k]] \in files'
    BY DEF IInv, IndexInv, IndexAgrees, Write
  <2>1. /\ DOMAIN index[t] = 0..(length[t] - 1)
        /\ \A k \in DOMAIN index[t] : [idx |-> k, ev |-> index[t][k]] \in files
    BY DEF IInv, IndexInv, IndexAgrees
  <2>2. CASE t # s
    <3>1. index'[t] = index[t] /\ length'[t] = length[t]
      BY <2>2 DEF Write, IInv, TypeOK, IndexInv
    <3> QED BY <2>1, <3>1, <1>4
  <2>3. CASE t = s
    <3>1. /\ length'[s] = C + 1
          /\ index'[s] = [k \in DOMAIN index[s] \cup {C} |->
                            IF k = C THEN Current(s) ELSE index[s][k]]
      BY <1>1 DEF Write, IInv, TypeOK, IndexInv
    <3>2. DOMAIN index[s] = 0..(C - 1)
      BY <1>1, <2>1, <2>3
    <3>3. DOMAIN index'[s] = 0..((C + 1) - 1)
      BY <1>1, <3>1, <3>2
    <3>4. ASSUME NEW k \in DOMAIN index'[s]
          PROVE  [idx |-> k, ev |-> index'[s][k]] \in files'
      <4>1. CASE k = C
        BY <1>1, <1>4, <3>1, <4>1
      <4>2. CASE k # C
        BY <1>4, <2>1, <2>3, <3>1, <4>2
      <4> QED BY <4>1, <4>2
    <3> QED BY <2>3, <3>1, <3>3, <3>4
  <2> QED BY <2>2, <2>3
<1> QED BY <1>7, <1>8, <1>9 DEF LogInv

(* Whoever opens the log, or catches up with it, knows all of it.          *)
LEMMA ReadAll ==
  ASSUME IInv, NEW s \in Services, NEW I, UNCHANGED files,
         flock' \in {flock, s},
         index' = [index EXCEPT ![s] = I],
         DOMAIN I = 0..(Cardinality(files) - 1),
         \A k \in DOMAIN I : [idx |-> k, ev |-> I[k]] \in files,
         length' = [length EXCEPT ![s] = Cardinality(files)]
  PROVE  LogInv'
<1>1. FilesInv'
  BY DEF IInv, FilesInv, LogIsDense, Indices
<1>2. Cardinality(files) \in Nat
  BY ScanFindsAll DEF IInv
<1>3. LengthInv'
  BY <1>2 DEF IInv, TypeOK, LengthInv
<1>4. IndexInv'
  BY DEF IInv, TypeOK, IndexInv, IndexAgrees
<1> QED BY <1>1, <1>3, <1>4 DEF LogInv

(* Every step keeps the log, and what the services remember of it.         *)
LEMMA LogStep == IInv /\ [Next]_vars => LogInv'
<1> SUFFICES ASSUME IInv, [Next]_vars PROVE LogInv'
  OBVIOUS
<1> USE LeaseAssumption
<1>0. LogInv
  BY DEF IInv, LogInv
<1>1. ASSUME NEW s \in Services, Open(s) PROVE LogInv'
  <2>1. UNCHANGED <<files, flock>>
    BY <1>1 DEF Open
  <2>2. index' = [index EXCEPT ![s] = ScannedIndex]
    BY <1>1 DEF Open
  <2>3. length' = [length EXCEPT ![s] = Cardinality(files)]
    BY <1>1, ScanFindsAll DEF Open, IInv
  <2>4. TypeOK /\ FilesInv
    BY DEF IInv
  <2> QED BY <2>1, <2>2, <2>3, <2>4, ScannedIndexAgrees, ReadAll
<1>2. ASSUME NEW s \in Services, Sync(s) PROVE LogInv'
  <2>1. Cardinality(files) \in Nat /\ Scanned = Cardinality(files)
    BY ScanFindsAll DEF IInv
  <2>2. CASE Behind(s)
    <3>1. UNCHANGED files /\ flock' = s
      BY <1>2 DEF Sync
    <3>2. index' = [index EXCEPT ![s] = Merged(s)]
      BY <1>2, <2>2 DEF Sync
    <3>3. length' = [length EXCEPT ![s] = Cardinality(files)]
      BY <1>2, <2>1, <2>2 DEF Sync
    <3>4. TypeOK /\ FilesInv /\ LengthInv /\ IndexAgrees
      BY DEF IInv, IndexInv
    <3> QED BY <3>1, <3>2, <3>3, <3>4, MergedAgrees, ReadAll
  <2>3. CASE ~Behind(s)
    <3>1. UNCHANGED <<files, index, length>> /\ flock' = s
      BY <1>2, <2>3 DEF Sync
    <3>2. length[s] \in Nat /\ length[s] = Cardinality(files)
      BY <2>1, <2>3 DEF Behind, IInv, TypeOK, LengthInv
    <3> QED BY <1>0, <3>1, <3>2
            DEF LogInv, FilesInv, LogIsDense, Indices, LengthInv, IndexInv, IndexAgrees
  <2> QED BY <2>2, <2>3
<1>3. ASSUME NEW s \in Services, Write(s) PROVE LogInv'
  BY <1>3, WriteExtends
<1>4. ASSUME NEW i \in Servers, Die(i) PROVE LogInv'
  <2>1. FilesInv'
    BY <1>0, <1>4 DEF Die, LogInv, FilesInv, LogIsDense, Indices
  <2>2. Cardinality(files) \in Nat /\ files' = files
    BY <1>4, ScanFindsAll DEF IInv, Die
  <2>3. LengthInv'
    <3> SUFFICES ASSUME NEW t \in Services
                 PROVE  /\ length'[t] <= Cardinality(files)
                        /\ flock' = t => length'[t] = Cardinality(files)
      BY <2>2 DEF LengthInv
    <3>1. CASE ServerOf[t] = i
      BY <1>4, <2>2, <3>1 DEF Die
    <3>2. CASE ServerOf[t] # i
      BY <1>4, <3>2 DEF Die, IInv, LengthInv
    <3> QED BY <3>1, <3>2
  <2>4. IndexInv'
    <3> SUFFICES ASSUME NEW t \in Services
                 PROVE  /\ DOMAIN index'[t] = 0..(length'[t] - 1)
                        /\ \A k \in DOMAIN index'[t] :
                             [idx |-> k, ev |-> index'[t][k]] \in files'
      BY <1>4 DEF Die, IndexInv, IndexAgrees
    <3>1. CASE ServerOf[t] = i
      BY <1>4, <3>1 DEF Die
    <3>2. CASE ServerOf[t] # i
      BY <1>4, <2>2, <3>2 DEF Die, IInv, IndexInv, IndexAgrees
    <3> QED BY <3>1, <3>2
  <2> QED BY <2>1, <2>3, <2>4 DEF LogInv
<1>5. ASSUME UNCHANGED logVars PROVE LogInv'
  BY <1>0, <1>5, LogUntouched DEF logVars
<1>6. ASSUME NEW s \in Services, BeginAppend(s) \/ LockTimeout(s) \/ OwnershipLost(s)
      PROVE  LogInv'
  BY <1>0, <1>6, LogUntouched DEF BeginAppend, LockTimeout, OwnershipLost, Unlock
<1> QED BY <1>1, <1>2, <1>3, <1>4, <1>5, <1>6 DEF Next, Service, Append, vars
-----------------------------------------------------------------------------
(* The theorems                                                            *)

(* The invariant holds in every behaviour.                                 *)
LEMMA Invariant == Spec => []IInv
<1>1. IInv /\ [Next]_vars => IInv'
  BY TypeStep, LeaseStep, LogStep DEF IInv, LogInv
<1> QED BY InitIInv, <1>1, PTL DEF Spec

(* Type correctness, and the file lock of append() is held by the thread   *)
(* that has looked at the disk, by nobody else and for no longer.          *)
THEOREM TypeCorrect == Spec => []TypeOK
<1>1. IInv => TypeOK
  BY DEF IInv
<1> QED BY Invariant, <1>1, PTL

(* The event files are numbered from 0 without gap or repetition: a load   *)
(* of the conversation finds every event that any server has written.      *)
THEOREM DenseLog == Spec => []LogIsDense
<1>1. IInv => LogIsDense
  BY DEF IInv, FilesInv
<1> QED BY Invariant, <1>1, PTL

(* What a service's EventLog remembers is what is on disk, in the same     *)
(* places.                                                                 *)
THEOREM MemoryAgrees == Spec => []IndexAgrees
<1>1. IInv => IndexAgrees
  BY DEF IInv, IndexInv
<1> QED BY Invariant, <1>1, PTL

(* A step that adds an event is a Write() of the event's service; unless   *)
(* that is closed, its guard looked at the lease of the last claim.        *)
THEOREM Fenced == Spec => OwnersWrite
<1> DEFINE Fence == \A f \in files' \ files :
                      phase[f.ev[1]] # "closed" => last = ServerOf[f.ev[1]]
<1>1. IInv /\ [Next]_vars => [Fence]_vars
  <2> SUFFICES ASSUME IInv, Next PROVE Fence
    BY DEF Fence
  <2>1. ASSUME NEW s \in Services, Write(s) PROVE Fence
    <3> SUFFICES ASSUME NEW f \in files' \ files, phase[f.ev[1]] # "closed"
                 PROVE  last = ServerOf[f.ev[1]]
      OBVIOUS
    <3>1. f = [idx |-> length[s], ev |-> Current(s)]
      BY <2>1 DEF Write
    <3>2. f.ev[1] = s
      BY <3>1 DEF Current
    <3>3. phase[s] \in {"starting", "open", "closing"}
      BY <2>1, <3>2 DEF Write, IInv, LeaseInv
    <3>4. Holds(s)
      BY <2>1, <3>3 DEF Write, MayWrite, IInv, LeaseInv
    <3> QED BY <3>2, <3>4 DEF Holds, IInv, LeaseInv
  <2>2. ASSUME files' = files PROVE Fence
    BY <2>2
  <2> QED BY <2>1, <2>2 DEF Next, Service, Append, Open, BeginAppend, Sync, LockTimeout,
                            OwnershipLost, Die, logVars
<1> QED BY Invariant, <1>1, PTL DEF Spec, OwnersWrite
=============================================================================
