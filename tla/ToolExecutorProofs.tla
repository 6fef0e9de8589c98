-------------------------- MODULE ToolExecutorProofs ---------------------------
(***************************************************************************)
(* ResourceLockManager, and then ToolExecutor that uses it, for any finite *)
(* set of threads, any keys, batches and concurrency limit.                *)
(*                                                                         *)
(* The locks: the table, the reference counts and the queues agree, a key  *)
(* has one lock and a lock one owner, and ascending order of the keys      *)
(* leaves nobody waiting in a circle.  The executor uses the locks as      *)
(* ResourceLockManager specifies them, so what is proved of those holds    *)
(* for the tools of all runs, orphans included; and no orphan starts a     *)
(* tool late.                                                              *)
(***************************************************************************)
EXTENDS ToolExecutor, FiniteSetTheorems, TLAPS

(* A lock object serves one key; its owner has the key in acquired[].      *)
OneKeyPerLock ==
  /\ \A j, k \in Keys : locks[j] = locks[k] /\ locks[k] # NoLock => j = k
  /\ \A t \in Threads, k \in Keys :
       locks[k] # NoLock /\ owner[locks[k]] = t => k \in acquired[t]

(* The local variables of lock() fit the place the thread has reached.     *)
LocalsFit ==
  \A t \in Threads :
    /\ pc[t] \in Inside => \E k \in Keys : NextKey(t, k)
    /\ cur[t] # NoLock <=> pc[t] \in Inside
    /\ todo[t] \intersect acquired[t] = {}
    /\ pc[t] = "outside" => acquired[t] = {}
    /\ pc[t] \in {"outside", "body", "finally"} => todo[t] = {}

IInv == /\ TypeOK /\ OneKeyPerLock /\ LocalsFit
        /\ SameLockForAll /\ RefcountIsUsers

(* No two different keys are both the least key still to lock. *)
LEMMA NextKeyUnique ==
  ASSUME TypeOK, NEW t \in Threads, NEW j \in Keys, NEW k \in Keys,
         NextKey(t, j), NextKey(t, k)
  PROVE  j = k
  BY LockManagerAssumption DEF NextKey

(* One more user of a key, one more on its count. *)
LEMMA OneUserMore ==
  ASSUME NEW k \in Keys, NEW t \in Threads, t \notin Users(k),
         Users(k)' = Users(k) \union {t}
  PROVE  Cardinality(Users(k)') = Cardinality(Users(k)) + 1
<1>1. IsFiniteSet(Users(k))
  BY LockManagerAssumption, FS_Subset DEF Users
<1> QED
  BY <1>1, FS_AddElement

(* A key that a thread stops using has one user less.                      *)
LEMMA OneUserLess ==
  ASSUME NEW k \in Keys, NEW t \in Threads, t \in Users(k),
         Users(k)' = Users(k) \ {t}
  PROVE  /\ Cardinality(Users(k)') = Cardinality(Users(k)) - 1
         /\ Cardinality(Users(k)) \in Nat
         /\ Cardinality(Users(k)) = 1 <=> Users(k)' = {}
<1>1. IsFiniteSet(Users(k))
  BY LockManagerAssumption, FS_Subset DEF Users
<1>2. /\ IsFiniteSet(Users(k)')
      /\ Cardinality(Users(k)') = Cardinality(Users(k)) - 1
  BY <1>1, FS_RemoveElement
<1>3. Cardinality(Users(k)) \in Nat
  BY <1>1, FS_CardinalityType
<1>4. Cardinality(Users(k)') = 0 <=> Users(k)' = {}
  BY <1>2, FS_EmptySet
<1> QED
  BY <1>2, <1>3, <1>4

(* The invariant holds at the start.                                       *)
LEMMA InitIInv == Init => IInv
<1> SUFFICES ASSUME Init PROVE IInv
  OBVIOUS
<1>1. \A k \in Keys : Users(k) = {}
  BY DEF Init, Users, Inside
<1>2. RefcountIsUsers
  BY <1>1, FS_EmptySet DEF Init, RefcountIsUsers
<1>3. TypeOK
  BY DEF Init, TypeOK, Inside
<1>4. OneKeyPerLock /\ LocalsFit /\ SameLockForAll
  BY DEF Init, OneKeyPerLock, LocalsFit, SameLockForAll, Inside
<1> QED
  BY <1>2, <1>3, <1>4 DEF IInv

(* A step that changes neither the locks nor anybody's part in them.       *)
LEMMA SameUsers ==
  ASSUME IInv, UNCHANGED <<locks, refcounts>>,
         \A k \in Keys : Users(k)' = Users(k)
  PROVE  RefcountIsUsers'
  BY DEF IInv, RefcountIsUsers

(* lock() is called: nothing is counted yet.                               *)
LEMMA EnterIInv ==
  ASSUME IInv, NEW t \in Threads, NEW keys \in SUBSET Keys, Enter(t, keys)
  PROVE  IInv'
<1> USE DEF IInv, Enter
<1>1. TypeOK'
  BY DEF TypeOK, Inside
<1>2. OneKeyPerLock'
  BY DEF OneKeyPerLock
<1>3. LocalsFit'
  BY DEF LocalsFit, Inside, NextKey, TypeOK
<1>4. SameLockForAll'
  BY DEF SameLockForAll, Inside, NextKey, TypeOK
<1>5. \A k \in Keys : Users(k)' = Users(k)
  BY DEF Users, Inside, NextKey, TypeOK
<1> QED
  BY <1>1, <1>2, <1>3, <1>4, <1>5, SameUsers

(* _get_lock() counts its caller.                                          *)
LEMMA GetLockIInv ==
  ASSUME IInv, NEW t \in Threads, GetLock(t)
  PROVE  IInv'
<1> USE DEF IInv
<1>1. PICK k \in Keys :
        /\ pc[t] = "next" /\ NextKey(t, k) /\ AddRef(k)
        /\ pc' = [pc EXCEPT ![t] = "acquire"]
        /\ UNCHANGED <<todo, acquired>>
        /\ \/ /\ locks[k] # NoLock
              /\ cur' = [cur EXCEPT ![t] = locks[k]]
              /\ UNCHANGED <<locks, owner, queue>>
           \/ /\ locks[k] = NoLock
              /\ \E l \in LockIds :
                   /\ \A j \in Keys : locks[j] # l
                   /\ \A u \in Threads : cur[u] # l
                   /\ locks' = [locks EXCEPT ![k] = l]
                   /\ owner' = [owner EXCEPT ![l] = NoThread]
                   /\ queue' = [queue EXCEPT ![l] = << >>]
                   /\ cur' = [cur EXCEPT ![t] = l]
  BY DEF GetLock
<1>2. /\ locks'[k] \in LockIds /\ cur'[t] = locks'[k]
      /\ \A j \in Keys : j # k => locks'[j] = locks[j]
      /\ \A j \in Keys : locks[j] # NoLock => /\ locks'[j] = locks[j]
                                             /\ owner'[locks[j]] = owner[locks[j]]
      /\ \A u \in Threads : u # t => cur'[u] = cur[u]
  BY <1>1 DEF TypeOK
<1>3. TypeOK'
  <2>1. refcounts' \in [Keys -> Nat]
    BY <1>1 DEF TypeOK, AddRef
  <2>2. /\ locks' \in [Keys -> LockIds \union {NoLock}]
        /\ owner' \in [LockIds -> Threads \union {NoThread}]
        /\ queue' \in [LockIds -> Seq(Threads)]
        /\ cur' \in [Threads -> LockIds \union {NoLock}]
    <3>1. CASE locks[k] # NoLock
      BY <1>1, <3>1 DEF TypeOK
    <3>2. CASE locks[k] = NoLock
      <4> PICK l \in LockIds : /\ locks' = [locks EXCEPT ![k] = l]
                               /\ owner' = [owner EXCEPT ![l] = NoThread]
                               /\ queue' = [queue EXCEPT ![l] = << >>]
                               /\ cur' = [cur EXCEPT ![t] = l]
        BY <1>1, <3>2
      <4>1. << >> \in Seq(Threads)
        OBVIOUS
      <4> QED
        BY <4>1 DEF TypeOK
    <3> QED
      BY <3>1, <3>2
  <2>3. /\ pc' \in [Threads -> {"outside", "next", "body", "finally"} \union Inside]
        /\ UNCHANGED <<todo, acquired>>
    BY <1>1 DEF TypeOK, Inside
  <2> QED
    BY <2>1, <2>2, <2>3 DEF TypeOK, Inside
<1>4. Users(k)' = Users(k) \union {t} /\ t \notin Users(k)
  BY <1>1 DEF Users, NextKey, Inside, TypeOK, LocalsFit
<1>5. ASSUME NEW j \in Keys, j # k PROVE Users(j)' = Users(j)
  BY <1>1, <1>5, LockManagerAssumption DEF Users, NextKey, Inside, TypeOK
<1>6. RefcountIsUsers'
  <2>1. ASSUME NEW j \in Keys, j # k
        PROVE  /\ refcounts'[j] = Cardinality(Users(j)')
               /\ locks'[j] # NoLock <=> Users(j)' # {}
    BY <1>1, <1>2, <1>5, <2>1 DEF RefcountIsUsers, AddRef, TypeOK
  <2>2. refcounts'[k] = Cardinality(Users(k)')
    BY <1>1, <1>4, OneUserMore DEF RefcountIsUsers, AddRef, TypeOK
  <2>3. locks'[k] # NoLock /\ Users(k)' # {}
    BY <1>2, <1>4, LockManagerAssumption
  <2> QED
    BY <2>1, <2>2, <2>3 DEF RefcountIsUsers
<1>7. LocalsFit'
  <2>1. ASSUME NEW u \in Threads, u # t
        PROVE  /\ pc'[u] = pc[u] /\ cur'[u] = cur[u]
               /\ todo'[u] = todo[u] /\ acquired'[u] = acquired[u]
    BY <1>1, <1>2, <2>1 DEF TypeOK
  <2>2. /\ pc'[t] = "acquire" /\ cur'[t] # NoLock /\ NextKey(t, k)'
        /\ todo'[t] \intersect acquired'[t] = {}
    BY <1>1, <1>2, LockManagerAssumption DEF LocalsFit, NextKey, TypeOK
  <2>3. ASSUME NEW u \in Threads, u # t
        PROVE  /\ pc'[u] \in Inside => \E j \in Keys : NextKey(u, j)'
               /\ cur'[u] # NoLock <=> pc'[u] \in Inside
               /\ todo'[u] \intersect acquired'[u] = {}
               /\ pc'[u] = "outside" => acquired'[u] = {}
               /\ pc'[u] \in {"outside", "body", "finally"} => todo'[u] = {}
    BY <2>1, <2>3 DEF LocalsFit, NextKey
  <2>4. pc'[t] \in Inside /\ pc'[t] \notin {"outside", "body", "finally"}
    BY <2>2 DEF Inside
  <2> QED
    BY <2>2, <2>3, <2>4 DEF LocalsFit, Inside
<1>8. OneKeyPerLock'
  <2>1. CASE locks[k] # NoLock
    BY <1>1, <2>1 DEF OneKeyPerLock
  <2>2. CASE locks[k] = NoLock
    <3> PICK l \in LockIds : /\ \A j \in Keys : locks[j] # l
                             /\ locks' = [locks EXCEPT ![k] = l]
                             /\ owner' = [owner EXCEPT ![l] = NoThread]
      BY <1>1, <2>2
    <3> QED
      BY <1>1, LockManagerAssumption DEF OneKeyPerLock, TypeOK
  <2> QED
    BY <2>1, <2>2
<1>9. SameLockForAll'
  <2>1. ASSUME NEW u \in Threads, NEW j \in Keys,
               pc'[u] \in Inside, NextKey(u, j)'
        PROVE  cur'[u] = locks'[j] /\ locks'[j] # NoLock
    <3>1. NextKey(u, j)
      BY <1>1, <2>1 DEF NextKey
    <3>2. CASE u = t
      BY <1>1, <1>2, <3>1, <3>2, NextKeyUnique, LockManagerAssumption
    <3>3. CASE u # t
      BY <1>1, <1>2, <2>1, <3>1, <3>3 DEF SameLockForAll, TypeOK
    <3> QED
      BY <3>2, <3>3
  <2>2. ASSUME NEW u \in Threads, NEW j \in Keys, j \in acquired'[u]
        PROVE  locks'[j] # NoLock /\ owner'[locks'[j]] = u
    BY <1>1, <1>2, <2>2 DEF SameLockForAll
  <2> QED
    BY <2>1, <2>2 DEF SameLockForAll
<1> QED
  BY <1>3, <1>6, <1>7, <1>8, <1>9

(* acquire() returned True, at once (Acquire) or after a wait (Granted).   *)
LEMMA AcquiredIInv ==
  ASSUME IInv, NEW t \in Threads, NEW k \in Keys, NextKey(t, k), Appended(t, k),
         pc[t] \in Inside, owner[cur[t]] = NoThread,
         owner' = [owner EXCEPT ![cur[t]] = t],
         queue' \in [LockIds -> Seq(Threads)]
  PROVE  IInv'
<1> USE DEF IInv
<1>1. cur[t] = locks[k] /\ locks[k] \in LockIds
  BY DEF SameLockForAll, TypeOK
<1>2. /\ acquired' = [acquired EXCEPT ![t] = @ \union {k}]
      /\ todo' = [todo EXCEPT ![t] = @ \ {k}]
      /\ cur' = [cur EXCEPT ![t] = NoLock]
      /\ pc' = [pc EXCEPT ![t] = "next"]
      /\ UNCHANGED <<locks, refcounts>>
  BY DEF Appended
<1>3. TypeOK'
  <2>1. owner' \in [LockIds -> Threads \union {NoThread}]
    BY <1>1 DEF TypeOK
  <2>2. pc' \in [Threads -> {"outside", "next", "body", "finally"} \union Inside]
    BY <1>2 DEF TypeOK
  <2> QED
    BY <1>2, <2>1, <2>2 DEF TypeOK, Inside
<1>4. /\ pc'[t] = "next" /\ cur'[t] = NoLock
      /\ acquired'[t] = acquired[t] \union {k} /\ todo'[t] = todo[t] \ {k}
      /\ \A u \in Threads : u # t => /\ pc'[u] = pc[u] /\ cur'[u] = cur[u]
                                     /\ todo'[u] = todo[u]
                                     /\ acquired'[u] = acquired[u]
      /\ owner'[locks[k]] = t
      /\ \A j \in Keys : j # k /\ locks[j] # NoLock => owner'[locks[j]] = owner[locks[j]]
  BY <1>1, <1>2 DEF TypeOK, OneKeyPerLock
<1>5. ASSUME NEW j \in Keys PROVE Users(j)' = Users(j)
  <2>1. ASSUME NEW u \in Threads, u # t PROVE u \in Users(j)' <=> u \in Users(j)
    BY <1>4, <2>1 DEF Users, NextKey
  <2>2. t \in Users(j)' <=> t \in Users(j)
    BY <1>4, NextKeyUnique DEF Users, Inside
  <2> QED
    BY <2>1, <2>2 DEF Users
<1>6. RefcountIsUsers'
  BY <1>2, <1>5, SameUsers
<1>7. OneKeyPerLock'
  BY <1>1, <1>2, <1>4 DEF OneKeyPerLock, TypeOK
<1>8. LocalsFit'
  <2>1. ASSUME NEW u \in Threads, u # t
        PROVE  /\ pc'[u] \in Inside => \E j \in Keys : NextKey(u, j)'
               /\ cur'[u] # NoLock <=> pc'[u] \in Inside
               /\ todo'[u] \intersect acquired'[u] = {}
               /\ pc'[u] = "outside" => acquired'[u] = {}
               /\ pc'[u] \in {"outside", "body", "finally"} => todo'[u] = {}
    BY <1>4, <2>1 DEF LocalsFit, NextKey
  <2>2. /\ pc'[t] \notin Inside /\ cur'[t] = NoLock
        /\ todo'[t] \intersect acquired'[t] = {}
        /\ pc'[t] \notin {"outside", "body", "finally"}
    BY <1>4 DEF LocalsFit, Inside
  <2> QED
    BY <2>1, <2>2 DEF LocalsFit, Inside
<1>9. SameLockForAll'
  <2>1. ASSUME NEW u \in Threads, NEW j \in Keys,
               pc'[u] \in Inside, NextKey(u, j)'
        PROVE  cur'[u] = locks'[j] /\ locks'[j] # NoLock
    BY <1>2, <1>4, <2>1 DEF SameLockForAll, NextKey, Inside
  \* Whoever has locked key k owns its lock object, which was free.
  <2>2. ASSUME NEW u \in Threads, NEW j \in Keys, j \in acquired'[u]
        PROVE  locks'[j] # NoLock /\ owner'[locks'[j]] = u
    <3>1. CASE j = k
      BY <1>1, <1>2, <1>4, <2>2, <3>1, LockManagerAssumption DEF SameLockForAll
    <3>2. CASE j # k
      BY <1>2, <1>4, <2>2, <3>2 DEF SameLockForAll
    <3> QED
      BY <3>1, <3>2
  <2> QED
    BY <2>1, <2>2 DEF SameLockForAll, Inside
<1> QED
  BY <1>3, <1>6, <1>7, <1>8, <1>9

(* The lock is free and nobody waits for it: the thread has it.            *)
LEMMA AcquireIInv ==
  ASSUME IInv, NEW t \in Threads, Acquire(t)
  PROVE  IInv'
<1>1. queue' \in [LockIds -> Seq(Threads)]
  BY DEF Acquire, IInv, TypeOK
<1> QED
  BY <1>1, AcquiredIInv DEF Acquire, Inside

(* The thread at the head of the queue has the lock.                       *)
LEMMA GrantedIInv ==
  ASSUME IInv, NEW t \in Threads, Granted(t)
  PROVE  IInv'
<1>1. cur[t] \in LockIds
  BY DEF Granted, IInv, TypeOK, LocalsFit, Inside
<1>2. Tail(queue[cur[t]]) \in Seq(Threads)
  BY <1>1 DEF Granted, MyTurn, IInv, TypeOK
<1>3. queue' \in [LockIds -> Seq(Threads)]
  BY <1>1, <1>2 DEF Granted, IInv, TypeOK
<1> QED
  BY <1>3, AcquiredIInv DEF Granted, MyTurn, Inside

(* Joining or leaving a queue, entering or leaving the body: no lock, no   *)
(* count and no acquired[] changes, and whoever is on its way to a key     *)
(* stays on its way to it.                                                 *)
LEMMA MoveIInv ==
  ASSUME IInv, NEW t \in Threads, NEW p,
         p \in {"outside", "next", "body", "finally"} \union Inside,
         p \in Inside <=> pc[t] \in Inside,
         p \in {"outside", "body", "finally"} => todo[t] = {},
         p = "outside" => acquired[t] = {},
         pc' = [pc EXCEPT ![t] = p],
         queue' \in [LockIds -> Seq(Threads)],
         UNCHANGED <<locks, refcounts, owner, todo, cur, acquired>>
  PROVE  IInv'
<1> USE DEF IInv
<1>1. /\ pc'[t] = p
      /\ \A u \in Threads : u # t => pc'[u] = pc[u]
      /\ \A u \in Threads : pc'[u] \in Inside <=> pc[u] \in Inside
  BY DEF TypeOK
<1>2. TypeOK'
  BY DEF TypeOK, Inside
<1>3. \A k \in Keys : Users(k)' = Users(k)
  BY <1>1 DEF Users, NextKey, Inside
<1>4. OneKeyPerLock'
  BY DEF OneKeyPerLock
<1>5. LocalsFit'
  BY <1>1 DEF LocalsFit, NextKey, Inside
<1>6. SameLockForAll'
  BY <1>1 DEF SameLockForAll, NextKey, Inside
<1> QED
  BY <1>2, <1>3, <1>4, <1>5, <1>6, SameUsers

(* Steps that count nobody.                                                *)
LEMMA MovesIInv ==
  ASSUME IInv, NEW t \in Threads,
         Wait(t) \/ TimesOut(t) \/ EnterBody(t) \/ LeaveBody(t) \/ Exit(t)
  PROVE  IInv'
<1> USE DEF IInv, Inside
<1>1. CASE Wait(t)
  <2>1. cur[t] \in LockIds
    BY <1>1 DEF Wait, TypeOK, LocalsFit
  <2>2. queue' \in [LockIds -> Seq(Threads)]
    BY <1>1, <2>1 DEF Wait, TypeOK
  <2> QED
    BY <1>1, <2>2, MoveIInv DEF Wait
<1>2. CASE TimesOut(t)
  <2>1. PICK i \in DOMAIN queue[cur[t]] :
          queue' = [queue EXCEPT ![cur[t]] = Remove(@, i)]
    BY <1>2 DEF TimesOut
  <2>2. cur[t] \in LockIds
    BY <1>2 DEF TimesOut, TypeOK, LocalsFit
  <2>3. Remove(queue[cur[t]], i) \in Seq(Threads)
    <3>1. queue[cur[t]] \in Seq(Threads)
      BY <2>2 DEF TypeOK
    <3> QED
      BY <3>1 DEF Remove
  <2>4. queue' \in [LockIds -> Seq(Threads)]
    BY <2>1, <2>2, <2>3 DEF TypeOK
  <2> QED
    BY <1>2, <2>4, MoveIInv DEF TimesOut
<1>3. CASE EnterBody(t)
  BY <1>3, MoveIInv DEF EnterBody, TypeOK
<1>4. CASE LeaveBody(t)
  BY <1>4, MoveIInv DEF LeaveBody, TypeOK, LocalsFit
<1>5. CASE Exit(t)
  BY <1>5, MoveIInv DEF Exit, TypeOK, LocalsFit
<1> QED
  BY <1>1, <1>2, <1>3, <1>4, <1>5

(* The heart of the argument: counting thread t off key k deletes the lock *)
(* object exactly when t was its last user, so whoever still uses the key  *)
(* keeps finding the same object.                                          *)
LEMMA UnrefKeepsUsers ==
  ASSUME IInv, NEW t \in Threads, NEW k \in Keys, t \in Users(k),
         refcounts' = [refcounts EXCEPT ![k] = @ - 1],
         locks' = [locks EXCEPT ![k] = IF refcounts[k] = 1 THEN NoLock ELSE @],
         Users(k)' = Users(k) \ {t},
         \A j \in Keys : j # k => Users(j)' = Users(j)
  PROVE  /\ RefcountIsUsers'
         /\ \A j \in Keys : Users(j)' # {} => locks'[j] = locks[j]
         /\ \A j \in Keys : locks'[j] \in {locks[j], NoLock}
         /\ refcounts' \in [Keys -> Nat]
         /\ locks' \in [Keys -> LockIds \union {NoLock}]
<1> USE DEF IInv
<1>1. /\ refcounts[k] = Cardinality(Users(k)) /\ locks[k] # NoLock
      /\ refcounts'[k] = refcounts[k] - 1
      /\ locks'[k] = IF refcounts[k] = 1 THEN NoLock ELSE locks[k]
      /\ \A j \in Keys : j # k => refcounts'[j] = refcounts[j] /\ locks'[j] = locks[j]
  BY DEF RefcountIsUsers, TypeOK
<1>2. /\ Cardinality(Users(k)') = Cardinality(Users(k)) - 1
      /\ Cardinality(Users(k)) \in Nat
      /\ Cardinality(Users(k)) = 1 <=> Users(k)' = {}
  BY OneUserLess
<1>3. /\ refcounts'[k] = Cardinality(Users(k)')
      /\ locks'[k] # NoLock <=> Users(k)' # {}
      /\ Users(k)' # {} => locks'[k] = locks[k]
  BY <1>1, <1>2
<1>4. ASSUME NEW j \in Keys, j # k
      PROVE  /\ refcounts'[j] = Cardinality(Users(j)')
             /\ locks'[j] # NoLock <=> Users(j)' # {}
  BY <1>1, <1>4 DEF RefcountIsUsers
<1>5. RefcountIsUsers'
  BY <1>3, <1>4 DEF RefcountIsUsers
<1>6. refcounts[k] # 0
  <2>1. IsFiniteSet(Users(k))
    BY LockManagerAssumption, FS_Subset DEF Users
  <2> QED
    BY <1>1, <2>1, FS_EmptySet
<1> QED
  BY <1>1, <1>3, <1>5, <1>6 DEF TypeOK

(* A time-out takes back the count of the lock that was not had.           *)
LEMMA UndoTimeoutIInv ==
  ASSUME IInv, NEW t \in Threads, UndoTimeout(t)
  PROVE  IInv'
<1> USE DEF IInv
<1>1. PICK k \in Keys : NextKey(t, k) /\ Unref(k, owner[locks[k]] = NoThread)
  BY DEF UndoTimeout
<1>2. /\ pc[t] = "undo"
      /\ cur' = [cur EXCEPT ![t] = NoLock]
      /\ todo' = [todo EXCEPT ![t] = {}]
      /\ pc' = [pc EXCEPT ![t] = "finally"]
      /\ UNCHANGED <<owner, queue, acquired>>
  BY DEF UndoTimeout
<1>3. /\ pc'[t] = "finally" /\ cur'[t] = NoLock /\ todo'[t] = {}
      /\ \A u \in Threads : u # t => /\ pc'[u] = pc[u] /\ cur'[u] = cur[u]
                                     /\ todo'[u] = todo[u]
  BY <1>2 DEF TypeOK
<1>4. t \in Users(k) /\ k \notin acquired[t]
  BY <1>1, <1>2 DEF Users, Inside, LocalsFit, NextKey
<1>5. ASSUME refcounts[k] = 1 PROVE owner[locks[k]] = NoThread
  <2>1. IsFiniteSet(Users(k))
    BY LockManagerAssumption, FS_Subset DEF Users
  <2>2. \A u \in Users(k) : u = t
    BY <1>4, <1>5, <2>1, FS_Singleton DEF RefcountIsUsers
  <2>3. \A u \in Threads : owner[locks[k]] # u
    BY <1>4, <2>2 DEF OneKeyPerLock, RefcountIsUsers, Users
  <2> QED
    BY <1>4, <2>3 DEF TypeOK, RefcountIsUsers
<1>6. /\ refcounts' = [refcounts EXCEPT ![k] = @ - 1]
      /\ locks' = [locks EXCEPT ![k] = IF refcounts[k] = 1 THEN NoLock ELSE @]
  BY <1>1, <1>5 DEF Unref
<1>7. ASSUME NEW j \in Keys
      PROVE  Users(j)' = IF j = k THEN Users(k) \ {t} ELSE Users(j)
  <2>1. ASSUME NEW u \in Threads, u # t PROVE u \in Users(j)' <=> u \in Users(j)
    BY <1>2, <1>3, <2>1 DEF Users, NextKey
  <2>2. t \in Users(j)' <=> j # k /\ t \in Users(j)
    BY <1>1, <1>2, <1>3, <1>4, NextKeyUnique DEF Users, Inside
  <2> QED
    BY <2>1, <2>2 DEF Users
<1>8. /\ RefcountIsUsers'
      /\ \A j \in Keys : Users(j)' # {} => locks'[j] = locks[j]
      /\ \A j \in Keys : locks'[j] \in {locks[j], NoLock}
      /\ refcounts' \in [Keys -> Nat]
      /\ locks' \in [Keys -> LockIds \union {NoLock}]
  BY <1>4, <1>6, <1>7, UnrefKeepsUsers
<1>9. TypeOK'
  BY <1>2, <1>8 DEF TypeOK, Inside
<1>10. OneKeyPerLock'
  BY <1>2, <1>8 DEF OneKeyPerLock
<1>11. LocalsFit'
  <2>1. ASSUME NEW u \in Threads, u # t
        PROVE  /\ pc'[u] \in Inside => \E j \in Keys : NextKey(u, j)'
               /\ cur'[u] # NoLock <=> pc'[u] \in Inside
               /\ todo'[u] \intersect acquired'[u] = {}
               /\ pc'[u] = "outside" => acquired'[u] = {}
               /\ pc'[u] \in {"outside", "body", "finally"} => todo'[u] = {}
    BY <1>2, <1>3, <2>1 DEF LocalsFit, NextKey
  <2> QED
    BY <1>3, <2>1 DEF LocalsFit, Inside
<1>12. SameLockForAll'
  <2>1. ASSUME NEW u \in Threads, NEW j \in Keys,
               pc'[u] \in Inside, NextKey(u, j)'
        PROVE  cur'[u] = locks'[j] /\ locks'[j] # NoLock
    <3>1. u # t /\ pc[u] \in Inside /\ NextKey(u, j)
      BY <1>3, <2>1 DEF NextKey, Inside
    <3>2. u \in Users(j)'
      BY <2>1 DEF Users, Inside
    <3> QED
      BY <1>3, <1>8, <3>1, <3>2 DEF SameLockForAll
  <2>2. ASSUME NEW u \in Threads, NEW j \in Keys, j \in acquired'[u]
        PROVE  locks'[j] # NoLock /\ owner'[locks'[j]] = u
    <3>1. u \in Users(j)'
      BY <2>2 DEF Users
    <3> QED
      BY <1>2, <1>8, <2>2, <3>1 DEF SameLockForAll
  <2> QED
    BY <2>1, <2>2 DEF SameLockForAll, Inside
<1> QED
  BY <1>8, <1>9, <1>10, <1>11, <1>12

(* _release_lock() takes the count back and removes what nobody uses.      *)
LEMMA ReleaseLockIInv ==
  ASSUME IInv, NEW t \in Threads, ReleaseLock(t)
  PROVE  IInv'
<1> USE DEF IInv
<1>1. PICK k \in Keys :
        /\ LastKey(t, k)
        /\ IF locks[k] = NoLock
           THEN UNCHANGED <<owner, locks, refcounts>>
           ELSE /\ owner[locks[k]] = t
                /\ owner' = [owner EXCEPT ![locks[k]] = NoThread]
                /\ Unref(k, TRUE)
        /\ acquired' = [acquired EXCEPT ![t] = @ \ {k}]
  BY DEF ReleaseLock
<1>2. pc[t] = "finally" /\ UNCHANGED <<queue, pc, todo, cur>>
  BY DEF ReleaseLock
<1>3. k \in acquired[t] /\ t \in Users(k) /\ locks[k] \in LockIds
  BY <1>1 DEF LastKey, Users, SameLockForAll, TypeOK
<1>4. /\ owner' = [owner EXCEPT ![locks[k]] = NoThread]
      /\ refcounts' = [refcounts EXCEPT ![k] = @ - 1]
      /\ locks' = [locks EXCEPT ![k] = IF refcounts[k] = 1 THEN NoLock ELSE @]
  BY <1>1, <1>3, LockManagerAssumption DEF Unref
<1>5. /\ acquired'[t] = acquired[t] \ {k}
      /\ \A u \in Threads : u # t => acquired'[u] = acquired[u]
  BY <1>1 DEF TypeOK
<1>6. ASSUME NEW j \in Keys
      PROVE  Users(j)' = IF j = k THEN Users(k) \ {t} ELSE Users(j)
  <2>1. ASSUME NEW u \in Threads, u # t PROVE u \in Users(j)' <=> u \in Users(j)
    BY <1>2, <1>5, <2>1 DEF Users, NextKey
  <2>2. t \in Users(j)' <=> j # k /\ t \in Users(j)
    BY <1>2, <1>5 DEF Users, Inside
  <2> QED
    BY <2>1, <2>2 DEF Users
<1>7. /\ RefcountIsUsers'
      /\ \A j \in Keys : Users(j)' # {} => locks'[j] = locks[j]
      /\ \A j \in Keys : locks'[j] \in {locks[j], NoLock}
      /\ refcounts' \in [Keys -> Nat]
      /\ locks' \in [Keys -> LockIds \union {NoLock}]
  BY <1>3, <1>4, <1>6, UnrefKeepsUsers
<1>8. TypeOK'
  <2>1. /\ owner' \in [LockIds -> Threads \union {NoThread}]
        /\ acquired' \in [Threads -> SUBSET Keys]
    BY <1>1, <1>3, <1>4 DEF TypeOK
  <2> QED
    BY <1>2, <1>7, <2>1 DEF TypeOK, Inside
<1>9. OneKeyPerLock'
  <2>1. ASSUME NEW j \in Keys, NEW i \in Keys, locks'[j] = locks'[i], locks'[i] # NoLock
        PROVE  j = i
    BY <1>7, <2>1 DEF OneKeyPerLock
  <2>2. ASSUME NEW u \in Threads, NEW j \in Keys,
               locks'[j] # NoLock, owner'[locks'[j]] = u
        PROVE  j \in acquired'[u]
    <3>1. locks'[j] = locks[j] /\ locks[j] \in LockIds
      BY <1>7, <2>2 DEF TypeOK
    <3>2. j # k
      BY <1>4, <2>2, <3>1, LockManagerAssumption DEF TypeOK
    <3>3. owner[locks[j]] = u
      BY <1>3, <1>4, <2>2, <3>1, <3>2 DEF OneKeyPerLock, TypeOK
    <3> QED
      BY <1>5, <3>1, <3>2, <3>3, LockManagerAssumption DEF OneKeyPerLock
  <2> QED
    BY <2>1, <2>2 DEF OneKeyPerLock
<1>10. LocalsFit'
  BY <1>2, <1>5 DEF LocalsFit, NextKey, Inside
<1>11. SameLockForAll'
  <2>1. ASSUME NEW u \in Threads, NEW j \in Keys,
               pc'[u] \in Inside, NextKey(u, j)'
        PROVE  cur'[u] = locks'[j] /\ locks'[j] # NoLock
    <3>1. pc[u] \in Inside /\ NextKey(u, j)
      BY <1>2, <2>1 DEF NextKey, Inside
    <3>2. u \in Users(j)'
      BY <2>1 DEF Users, Inside
    <3> QED
      BY <1>2, <1>7, <3>1, <3>2 DEF SameLockForAll
  <2>2. ASSUME NEW u \in Threads, NEW j \in Keys, j \in acquired'[u]
        PROVE  locks'[j] # NoLock /\ owner'[locks'[j]] = u
    <3>1. j \in acquired[u] /\ (u = t => j # k)
      BY <1>5, <2>2
    <3>2. locks'[j] = locks[j] /\ locks[j] # NoLock /\ owner[locks[j]] = u
      BY <1>7, <2>2, <3>1 DEF SameLockForAll, Users
    <3>3. locks[j] # locks[k]
      BY <1>1, <1>3, <3>1, <3>2, LockManagerAssumption DEF OneKeyPerLock
    <3> QED
      BY <1>3, <1>4, <3>2, <3>3 DEF TypeOK
  <2> QED
    BY <2>1, <2>2 DEF SameLockForAll, Inside
<1> QED
  BY <1>7, <1>8, <1>9, <1>10, <1>11

(* Every step of a thread in lock() keeps the invariant.                   *)
LEMMA NextIInv == IInv /\ [Next]_vars => IInv'
<1> SUFFICES ASSUME IInv, [Next]_vars PROVE IInv'
  OBVIOUS
<1>1. CASE UNCHANGED vars
  <2>1. TypeOK' /\ OneKeyPerLock' /\ SameLockForAll' /\ LocalsFit'
    BY <1>1 DEF vars, IInv, TypeOK, OneKeyPerLock, LocalsFit, SameLockForAll,
                NextKey, Inside
  <2>2. \A k \in Keys : Users(k)' = Users(k)
    BY <1>1 DEF vars, Users, NextKey, Inside
  <2> QED
    BY <1>1, <2>1, <2>2, SameUsers DEF vars, IInv
<1>2. CASE Next
  BY <1>2, EnterIInv, GetLockIInv, AcquireIInv, GrantedIInv, MovesIInv,
     UndoTimeoutIInv, ReleaseLockIInv DEF Next, Step
<1> QED
  BY <1>1, <1>2

(* So it holds throughout.                                                 *)
LEMMA Invariant == Spec => []IInv
  BY InitIInv, NextIInv, PTL DEF Spec

(* The lock manager's tables and every thread's locals are well-typed.     *)
THEOREM TypeCorrect == Spec => []TypeOK
<1>1. IInv => TypeOK
  BY DEF IInv
<1> QED
  BY Invariant, <1>1, PTL

(* The reference count of a key is the number of threads that hold it or   *)
(* are on their way to it, and its lock object exists while that is not 0  *)
(* (_get_lock, _release_lock and the clean-up after a time-out).           *)
THEOREM RefcountsExact == Spec => []RefcountIsUsers
<1>1. IInv => RefcountIsUsers
  BY DEF IInv
<1> QED
  BY Invariant, <1>1, PTL

(* No lock object is deleted while a thread holds it or waits for it.      *)
THEOREM LocksShared == Spec => []SameLockForAll
<1>1. IInv => SameLockForAll
  BY DEF IInv
<1> QED
  BY Invariant, <1>1, PTL

(* lock(key) gives exclusive access, for any number of threads and keys.   *)
THEOREM ExclusiveAccess == Spec => []MutualExclusion
<1>1. IInv => MutualExclusion
  <2> SUFFICES ASSUME IInv, NEW t \in Threads, NEW u \in Threads, t # u,
                      NEW k \in acquired[t], k \in acquired[u]
               PROVE  FALSE
    BY DEF MutualExclusion
  <2>1. k \in Keys
    BY DEF IInv, TypeOK
  <2>2. owner[locks[k]] = t /\ owner[locks[k]] = u
    BY <2>1 DEF IInv, SameLockForAll
  <2> QED
    BY <2>2
<1> QED
  BY Invariant, <1>1, PTL
----------------------------------------------------------------------------

(* The queue of a lock object holds the threads that wait for it, once.    *)
QueuesFit ==
  /\ \A l \in LockIds : \A i \in DOMAIN queue[l] :
       /\ pc[queue[l][i]] = "waiting"
       /\ cur[queue[l][i]] = l
  /\ \A l \in LockIds : \A i, j \in DOMAIN queue[l] :
       queue[l][i] = queue[l][j] => i = j
  /\ \A t \in Threads : pc[t] = "waiting" =>
       \E i \in DOMAIN queue[cur[t]] : queue[cur[t]][i] = t

(* A thread locks its keys in their order: "sorted(set(resource_keys))".   *)
Ascending == \A t \in Threads : \A j \in acquired[t], k \in todo[t] : j < k

DInv == IInv /\ QueuesFit /\ Ascending

(* What a thread does outside the queues leaves them as they are.          *)
LEMMA QueuesAside ==
  ASSUME IInv, QueuesFit, NEW t \in Threads,
         pc[t] # "waiting", pc'[t] # "waiting",
         \A u \in Threads : u # t => pc'[u] = pc[u] /\ cur'[u] = cur[u],
         UNCHANGED queue
  PROVE  QueuesFit'
<1>1. ASSUME NEW l \in LockIds, NEW i \in DOMAIN queue[l]
      PROVE  queue[l][i] \in Threads /\ queue[l][i] # t
  BY <1>1 DEF IInv, TypeOK, QueuesFit
<1>2. \A l \in LockIds : \A i \in DOMAIN queue[l] :
        pc'[queue[l][i]] = "waiting" /\ cur'[queue[l][i]] = l
  BY <1>1 DEF QueuesFit
<1>3. ASSUME NEW u \in Threads, pc'[u] = "waiting"
      PROVE  \E i \in DOMAIN queue[cur'[u]] : queue[cur'[u]][i] = u
  <2>1. u # t /\ pc[u] = "waiting" /\ cur'[u] = cur[u]
    BY <1>3
  <2> QED
    BY <2>1 DEF QueuesFit
<1> QED
  BY <1>2, <1>3 DEF QueuesFit

(* A sequence without a place is empty.                                    *)
LEMMA NoPlace ==
  ASSUME NEW S, NEW q \in Seq(S), DOMAIN q = {}
  PROVE  q = << >>
<1>1. DOMAIN q = 1..Len(q) /\ Len(q) \in Nat
  OBVIOUS
<1>2. Len(q) = 0
  BY <1>1
<1> QED
  BY <1>2

(* A thread in lock() has a lock object.                                   *)
LEMMA HasLock ==
  ASSUME IInv, NEW t \in Threads, pc[t] \in Inside
  PROVE  /\ cur[t] \in LockIds
         /\ queue[cur[t]] \in Seq(Threads)
         /\ \E k \in Keys : NextKey(t, k) /\ cur[t] = locks[k] /\ locks[k] # NoLock
BY DEF IInv, TypeOK, LocalsFit, SameLockForAll

(* A new lock object has an empty queue.                                   *)
LEMMA GetLockQueues ==
  ASSUME IInv, QueuesFit, NEW t \in Threads, GetLock(t)
  PROVE  QueuesFit'
<1>1. /\ pc[t] = "next" /\ pc' = [pc EXCEPT ![t] = "acquire"]
      /\ \A u \in Threads : u # t => cur'[u] = cur[u]
  BY DEF GetLock, IInv, TypeOK
<1>2. UNCHANGED queue
  <2>1. CASE \E l \in LockIds : /\ \A u \in Threads : cur[u] # l
                                /\ queue' = [queue EXCEPT ![l] = << >>]
    <3>1. PICK l \in LockIds : /\ \A u \in Threads : cur[u] # l
                               /\ queue' = [queue EXCEPT ![l] = << >>]
      BY <2>1
    <3>2. queue[l] \in Seq(Threads) /\ DOMAIN queue[l] = {}
      BY <3>1 DEF IInv, TypeOK, QueuesFit
    <3>3. queue[l] = << >>
      BY <3>2, NoPlace
    <3> QED
      BY <3>1, <3>3 DEF IInv, TypeOK
  <2> QED
    BY <2>1 DEF GetLock
<1> QED
  BY <1>1, <1>2, QueuesAside DEF IInv, TypeOK

(* Who joins a queue is behind the others.                                 *)
LEMMA WaitQueues ==
  ASSUME IInv, QueuesFit, NEW t \in Threads, Wait(t)
  PROVE  QueuesFit'
<1> DEFINE m == cur[t]
           q == queue[m]
<1>1. m \in LockIds /\ q \in Seq(Threads)
  BY HasLock DEF Wait, Inside
<1>2. /\ pc' = [pc EXCEPT ![t] = "waiting"]
      /\ queue' = [queue EXCEPT ![m] = Append(q, t)]
      /\ pc[t] = "acquire" /\ UNCHANGED cur
  BY DEF Wait
<1>3. /\ DOMAIN Append(q, t) = 1..(Len(q) + 1) /\ DOMAIN q = 1..Len(q)
      /\ Append(q, t)[Len(q) + 1] = t /\ Len(q) \in Nat
      /\ \A i \in DOMAIN q : Append(q, t)[i] = q[i]
  BY <1>1
<1>4. \A l \in LockIds : \A i \in DOMAIN queue[l] :
        queue[l][i] \in Threads /\ queue[l][i] # t
  BY <1>2 DEF QueuesFit, IInv, TypeOK
<1>5. /\ queue'[m] = Append(q, t)
      /\ \A l \in LockIds : l # m => queue'[l] = queue[l]
      /\ pc'[t] = "waiting" /\ \A u \in Threads : u # t => pc'[u] = pc[u]
  BY <1>1, <1>2 DEF IInv, TypeOK
<1>6. \A l \in LockIds : \A i \in DOMAIN queue'[l] :
        pc'[queue'[l][i]] = "waiting" /\ cur'[queue'[l][i]] = l
  <2> TAKE l \in LockIds
  <2>1. CASE l # m
    BY <1>2, <1>4, <1>5, <2>1 DEF QueuesFit
  <2>2. CASE l = m
    BY <1>1, <1>2, <1>3, <1>4, <1>5, <2>2 DEF QueuesFit
  <2> QED
    BY <2>1, <2>2
<1>7. \A l \in LockIds : \A i, j \in DOMAIN queue'[l] :
        queue'[l][i] = queue'[l][j] => i = j
  <2> TAKE l \in LockIds
  <2>1. CASE l # m
    BY <1>5, <2>1 DEF QueuesFit
  <2>2. CASE l = m
    <3>1. \A i \in DOMAIN q : q[i] # t
      BY <1>1, <1>4
    <3>2. \A i, j \in DOMAIN q : q[i] = q[j] => i = j
      BY <1>1 DEF QueuesFit
    <3> SUFFICES ASSUME NEW i \in DOMAIN Append(q, t), NEW j \in DOMAIN Append(q, t),
                        Append(q, t)[i] = Append(q, t)[j]
                 PROVE  i = j
      BY <1>5, <2>2
    <3> HIDE DEF q
    <3>3. i = Len(q) + 1 \/ i \in DOMAIN q
      BY <1>3
    <3>4. j = Len(q) + 1 \/ j \in DOMAIN q
      BY <1>3
    <3> QED
      BY <1>3, <3>1, <3>2, <3>3, <3>4
  <2> QED
    BY <2>1, <2>2
<1>8. \A u \in Threads : pc'[u] = "waiting" =>
        \E i \in DOMAIN queue'[cur'[u]] : queue'[cur'[u]][i] = u
  <2> SUFFICES ASSUME NEW u \in Threads, pc'[u] = "waiting"
               PROVE  \E i \in DOMAIN queue'[cur[u]] : queue'[cur[u]][i] = u
    BY <1>2
  <2>1. CASE u = t
    <3>1. Len(q) + 1 \in DOMAIN queue'[m] /\ queue'[m][Len(q) + 1] = t
      BY <1>3, <1>5
    <3> QED
      BY <2>1, <3>1
  <2>2. CASE u # t
    <3>1. pc[u] = "waiting" /\ cur[u] \in LockIds
      BY <1>5, <2>2, HasLock DEF Inside
    <3>2. PICK i \in DOMAIN queue[cur[u]] : queue[cur[u]][i] = u
      BY <3>1 DEF QueuesFit
    <3>3. i \in DOMAIN queue'[cur[u]] /\ queue'[cur[u]][i] = u
      BY <1>3, <1>5, <3>1, <3>2
    <3> QED
      BY <3>3
  <2> QED
    BY <2>1, <2>2
<1> QED
  BY <1>6, <1>7, <1>8 DEF QueuesFit

(* Who leaves a queue, at its front or elsewhere, leaves the others in it. *)
LEMMA LeaveQueues ==
  ASSUME IInv, QueuesFit, NEW t \in Threads, pc[t] = "waiting",
         NEW i \in DOMAIN queue[cur[t]], queue[cur[t]][i] = t,
         queue' = [queue EXCEPT ![cur[t]] = Remove(@, i)],
         pc'[t] # "waiting",
         \A u \in Threads : u # t => pc'[u] = pc[u] /\ cur'[u] = cur[u]
  PROVE  QueuesFit'
<1> DEFINE m == cur[t]
           q == queue[m]
           From(j) == IF j < i THEN j ELSE j + 1
<1>1. m \in LockIds /\ q \in Seq(Threads) /\ Len(q) \in Nat /\ DOMAIN q = 1..Len(q)
  BY HasLock DEF Inside
<1>2. /\ queue'[m] = Remove(q, i)
      /\ \A l \in LockIds : l # m => queue'[l] = queue[l]
  BY <1>1 DEF IInv, TypeOK
<1>3. /\ DOMAIN queue'[m] = 1..(Len(q) - 1)
      /\ \A j \in DOMAIN queue'[m] : queue'[m][j] = q[From(j)]
  BY <1>1, <1>2 DEF Remove
<1>4. \A j \in DOMAIN queue'[m] : From(j) \in DOMAIN q /\ From(j) # i
  BY <1>1, <1>3
<1>5. \A j \in DOMAIN q : q[j] = t => j = i
  BY <1>1 DEF QueuesFit
<1>6. \A l \in LockIds : \A j \in DOMAIN queue'[l] :
        queue'[l][j] \in Threads /\ queue'[l][j] # t
  <2> TAKE l \in LockIds
  <2>1. CASE l # m
    BY <1>2, <2>1 DEF QueuesFit, IInv, TypeOK
  <2>2. CASE l = m
    BY <1>1, <1>3, <1>4, <1>5, <2>2
  <2> QED
    BY <2>1, <2>2
<1>7. \A l \in LockIds : \A j \in DOMAIN queue'[l] :
        pc'[queue'[l][j]] = "waiting" /\ cur'[queue'[l][j]] = l
  <2> TAKE l \in LockIds
  <2>1. CASE l # m
    BY <1>2, <1>6, <2>1 DEF QueuesFit
  <2>2. CASE l = m
    <3> SUFFICES ASSUME NEW j \in DOMAIN queue'[m]
                 PROVE  pc'[queue'[m][j]] = "waiting" /\ cur'[queue'[m][j]] = m
      BY <2>2
    <3>1. queue'[m][j] = q[From(j)] /\ From(j) \in DOMAIN q
      BY <1>3, <1>4
    <3>2. pc[q[From(j)]] = "waiting" /\ cur[q[From(j)]] = m
      BY <1>1, <3>1 DEF QueuesFit
    <3>3. q[From(j)] \in Threads /\ q[From(j)] # t
      BY <1>1, <1>6, <3>1
    <3> QED
      BY <3>1, <3>2, <3>3
  <2> QED
    BY <2>1, <2>2
<1>8. \A l \in LockIds : \A j, k \in DOMAIN queue'[l] :
        queue'[l][j] = queue'[l][k] => j = k
  <2> TAKE l \in LockIds
  <2>1. CASE l # m
    BY <1>2, <2>1 DEF QueuesFit
  <2>2. CASE l = m
    <3>1. \A j, k \in DOMAIN q : q[j] = q[k] => j = k
      BY <1>1 DEF QueuesFit
    <3>2. \A j, k \in DOMAIN queue'[m] : From(j) = From(k) => j = k
      BY <1>1, <1>3
    <3> HIDE DEF From, q, m
    <3> QED
      BY <1>3, <1>4, <2>2, <3>1, <3>2
  <2> QED
    BY <2>1, <2>2
<1>9. \A u \in Threads : pc'[u] = "waiting" =>
        \E j \in DOMAIN queue'[cur'[u]] : queue'[cur'[u]][j] = u
  <2> SUFFICES ASSUME NEW u \in Threads, pc'[u] = "waiting"
               PROVE  \E j \in DOMAIN queue'[cur'[u]] : queue'[cur'[u]][j] = u
    OBVIOUS
  <2>1. u # t /\ pc[u] = "waiting" /\ cur'[u] = cur[u] /\ cur[u] \in LockIds
    BY HasLock DEF Inside
  <2>2. PICK k \in DOMAIN queue[cur[u]] : queue[cur[u]][k] = u
    BY <2>1 DEF QueuesFit
  <2>3. CASE cur[u] # m
    BY <1>2, <2>1, <2>2, <2>3
  <2>4. CASE cur[u] = m
    <3> DEFINE j == IF k < i THEN k ELSE k - 1
    <3>1. k # i /\ k \in 1..Len(q) /\ i \in 1..Len(q) /\ q[k] = u
      BY <1>1, <2>1, <2>2, <2>4
    <3>2. j \in 1..(Len(q) - 1) /\ From(j) = k
      BY <1>1, <3>1
    <3>3. j \in DOMAIN queue'[m] /\ queue'[m][j] = u
      BY <1>3, <3>1, <3>2
    <3> QED
      BY <2>1, <2>4, <3>3
  <2> QED
    BY <2>3, <2>4
<1> QED
  BY <1>7, <1>8, <1>9 DEF QueuesFit

(* Every step keeps the queues.                                            *)
LEMMA QueuesStep ==
  ASSUME IInv, QueuesFit, NEW t \in Threads,
         (\E keys \in SUBSET Keys : Enter(t, keys)) \/ TimesOut(t) \/ Step(t)
  PROVE  QueuesFit'
<1> USE DEF IInv, TypeOK
<1>1. CASE (\E keys \in SUBSET Keys : Enter(t, keys)) \/ EnterBody(t) \/ LeaveBody(t)
             \/ Exit(t) \/ UndoTimeout(t) \/ Acquire(t)
  <2>1. /\ pc[t] # "waiting" /\ pc'[t] # "waiting" /\ UNCHANGED queue
        /\ \A u \in Threads : u # t => pc'[u] = pc[u] /\ cur'[u] = cur[u]
    BY <1>1 DEF Enter, EnterBody, LeaveBody, Exit, UndoTimeout, Acquire, Appended
  <2> QED
    BY <2>1, QueuesAside
<1>2. CASE GetLock(t)
  BY <1>2, GetLockQueues
<1>3. CASE Wait(t)
  BY <1>3, WaitQueues
<1>4. CASE Granted(t)
  <2>1. /\ pc[t] = "waiting" /\ pc'[t] # "waiting"
        /\ \A u \in Threads : u # t => pc'[u] = pc[u] /\ cur'[u] = cur[u]
    BY <1>4 DEF Granted, Appended
  <2>2. queue[cur[t]] \in Seq(Threads)
    BY <2>1, HasLock DEF Inside
  <2>3. 1 \in DOMAIN queue[cur[t]] /\ queue[cur[t]][1] = t
    BY <1>4, <2>2 DEF Granted, MyTurn
  <2>4. Tail(queue[cur[t]]) = Remove(queue[cur[t]], 1)
    BY <2>2, <2>3 DEF Remove
  <2>5. queue' = [queue EXCEPT ![cur[t]] = Remove(@, 1)]
    BY <1>4, <2>4 DEF Granted
  <2> QED
    BY <2>1, <2>3, <2>5, LeaveQueues
<1>5. CASE TimesOut(t)
  <2>1. PICK i \in DOMAIN queue[cur[t]] :
          /\ queue[cur[t]][i] = t
          /\ queue' = [queue EXCEPT ![cur[t]] = Remove(@, i)]
    BY <1>5 DEF TimesOut
  <2>2. /\ pc[t] = "waiting" /\ pc'[t] # "waiting"
        /\ \A u \in Threads : u # t => pc'[u] = pc[u] /\ cur'[u] = cur[u]
    BY <1>5 DEF TimesOut
  <2> QED
    BY <2>1, <2>2, LeaveQueues
<1>6. CASE ReleaseLock(t)
  BY <1>6 DEF ReleaseLock, QueuesFit
<1> QED
  BY <1>1, <1>2, <1>3, <1>4, <1>5, <1>6 DEF Step

(* Every step keeps the order in which a thread locks its keys.            *)
LEMMA AscendingStep ==
  ASSUME IInv, Ascending, NEW t \in Threads,
         (\E keys \in SUBSET Keys : Enter(t, keys)) \/ TimesOut(t) \/ Step(t)
  PROVE  Ascending'
<1> USE DEF IInv, TypeOK
<1>1. CASE \E keys \in SUBSET Keys : Enter(t, keys)
  BY <1>1 DEF Enter, Ascending, LocalsFit
<1>2. CASE Acquire(t) \/ Granted(t)
  <2>1. PICK k \in Keys : NextKey(t, k) /\ Appended(t, k)
    BY <1>2 DEF Acquire, Granted
  <2>2. /\ acquired'[t] = acquired[t] \union {k} /\ todo'[t] = todo[t] \ {k}
        /\ \A u \in Threads : u # t => acquired'[u] = acquired[u] /\ todo'[u] = todo[u]
    BY <2>1 DEF Appended
  <2>3. \A j \in todo[t] \ {k} : k < j
    BY <2>1, LockManagerAssumption DEF NextKey
  <2>4. \A j \in acquired'[t], i \in todo'[t] : j < i
    BY <2>2, <2>3 DEF Ascending
  <2> QED
    BY <2>2, <2>4 DEF Ascending
<1>3. CASE UndoTimeout(t) \/ ReleaseLock(t)
  <2>1. \A u \in Threads : acquired'[u] \subseteq acquired[u] /\ todo'[u] \subseteq todo[u]
    BY <1>3 DEF UndoTimeout, ReleaseLock
  <2> QED
    BY <2>1 DEF Ascending
<1>4. CASE GetLock(t) \/ Wait(t) \/ TimesOut(t) \/ EnterBody(t) \/ LeaveBody(t) \/ Exit(t)
  BY <1>4 DEF GetLock, Wait, TimesOut, EnterBody, LeaveBody, Exit, Ascending
<1> QED
  BY <1>1, <1>2, <1>3, <1>4 DEF Step

(* DInv holds in every state the lock manager reaches.                     *)
LEMMA DInvariant == Spec => []DInv
<1>1. Init => DInv
  <2> SUFFICES ASSUME Init PROVE QueuesFit /\ Ascending
    BY InitIInv DEF DInv
  <2>1. \A l \in LockIds : DOMAIN queue[l] = {}
    BY DEF Init
  <2> QED
    BY <2>1 DEF Init, QueuesFit, Ascending
<1>2. DInv /\ [Next]_vars => DInv'
  <2> SUFFICES ASSUME DInv, [Next]_vars PROVE QueuesFit' /\ Ascending'
    BY NextIInv DEF DInv
  <2>1. CASE UNCHANGED vars
    BY <2>1 DEF vars, DInv, QueuesFit, Ascending
  <2>2. CASE Next
    BY <2>2, QueuesStep, AscendingStep DEF Next, DInv
  <2> QED
    BY <2>1, <2>2
<1> QED
  BY <1>1, <1>2, PTL DEF Spec

(* If everybody in lock() is stuck in a queue, behind a lock that is held, *)
(* then whoever holds a lock that t waits for waits for a higher key.      *)
LEMMA HolderIsHigher ==
  ASSUME DInv, NEW t \in Threads, pc[t] = "waiting",
         \A u \in Threads : /\ pc[u] \in {"outside", "waiting"}
                            /\ pc[u] = "waiting" => ~MyTurn(u)
  PROVE  \E u \in Threads, j, k \in Keys :
           pc[u] = "waiting" /\ NextKey(t, j) /\ NextKey(u, k) /\ j < k
<1> USE DEF DInv
<1>1. PICK j \in Keys : NextKey(t, j) /\ cur[t] = locks[j] /\ locks[j] # NoLock
  BY HasLock DEF Inside
<1> DEFINE l == locks[j]
           h == queue[l][1]
<1>2. l \in LockIds /\ queue[l] \in Seq(Threads) /\ cur[t] = l
  BY <1>1 DEF IInv, TypeOK
<1>3. 1 \in DOMAIN queue[l] /\ queue[l] # << >>
  BY <1>2 DEF QueuesFit
<1>4. h \in Threads /\ pc[h] = "waiting" /\ cur[h] = l /\ Head(queue[l]) = h
  BY <1>2, <1>3 DEF QueuesFit
<1>5. owner[l] # NoThread
  BY <1>3, <1>4 DEF MyTurn
<1>6. PICK u \in Threads : owner[l] = u
  BY <1>2, <1>5 DEF IInv, TypeOK
<1>7. j \in acquired[u]
  BY <1>1, <1>6 DEF IInv, OneKeyPerLock
<1>8. pc[u] = "waiting"
  BY <1>7 DEF IInv, LocalsFit
<1>9. PICK k \in Keys : NextKey(u, k)
  BY <1>8, HasLock DEF IInv, Inside
<1>10. j < k
  BY <1>7, <1>9 DEF Ascending, NextKey
<1> QED
  BY <1>1, <1>8, <1>9, <1>10

(* "Sorted acquisition prevents deadlocks", for any number of threads and  *)
(* keys: if all were stuck, the waits would go up for ever.                *)
THEOREM DeadlockFree == Spec => []NoDeadlock
<1>1. ASSUME DInv, ~NoDeadlock PROVE FALSE
  <2> DEFINE W == {t \in Threads : pc[t] = "waiting"}
             Above(t) == {u \in W : \E j, k \in Keys :
                            NextKey(t, j) /\ NextKey(u, k) /\ j < k}
             All == {Above(t) : t \in W}
  <2>1. /\ W # {}
        /\ \A u \in Threads : /\ pc[u] \in {"outside", "waiting"}
                              /\ pc[u] = "waiting" => ~MyTurn(u)
    BY <1>1 DEF NoDeadlock
  <2>2. PICK t \in W : \A u \in W : ~(Above(u) \subseteq Above(t) /\ Above(u) # Above(t))
    <3>1. All # {} /\ All \subseteq SUBSET Threads
      <4>1. \A t \in W : Above(t) \subseteq Threads
        OBVIOUS
      <4> HIDE DEF Above
      <4> QED
        BY <2>1, <4>1
    <3>2. IsWellFoundedOn(StrictSubsetOrdering(Threads), SUBSET Threads)
      BY LockManagerAssumption, FS_FiniteSubsetsOfFinite, FS_StrictSubsetOrderingWellFounded
    <3>3. PICK A \in All : \A B \in All : <<B, A>> \notin StrictSubsetOrdering(Threads)
      <4> HIDE DEF All
      <4> QED
        BY <3>1, <3>2, WFMin
    <3>4. PICK t \in W : A = Above(t)
      BY <3>3
    <3>5. ASSUME NEW u \in W, Above(u) \subseteq Above(t), Above(u) # Above(t)
          PROVE  FALSE
      <4>1. Above(u) \in All /\ Above(u) \in SUBSET Threads /\ Above(t) \in SUBSET Threads
        OBVIOUS
      <4> HIDE DEF All, Above
      <4> QED
        BY <3>3, <3>4, <3>5, <4>1 DEF StrictSubsetOrdering
    <3> QED
      BY <3>5
  <2>3. PICK u \in Threads, j \in Keys, k \in Keys :
          pc[u] = "waiting" /\ NextKey(t, j) /\ NextKey(u, k) /\ j < k
    BY <1>1, <2>1, HolderIsHigher
  <2>4. u \in Above(t)
    BY <2>3
  <2>5. u \notin Above(u)
    BY <1>1, <2>3, NextKeyUnique, LockManagerAssumption DEF DInv, IInv
  <2>6. Above(u) \subseteq Above(t)
    <3> SUFFICES ASSUME NEW v \in Above(u) PROVE v \in Above(t)
      OBVIOUS
    <3>1. PICK a \in Keys, b \in Keys : NextKey(u, a) /\ NextKey(v, b) /\ a < b
      OBVIOUS
    <3>2. a = k
      BY <1>1, <2>3, <3>1, NextKeyUnique DEF DInv, IInv
    <3>3. j < b
      BY <2>3, <3>1, <3>2, LockManagerAssumption
    <3> QED
      BY <2>3, <3>1, <3>3
  <2> QED
    BY <2>2, <2>3, <2>4, <2>5, <2>6
<1>2. DInv => NoDeadlock
  BY <1>1
<1> QED
  BY DInvariant, <1>2, PTL
--------------------------------------------------------------------------------
(* The tool executor                                                       *)

(* What a step of the executor is to the locks: a step or a stutter.       *)
LEMMA LockStep == [XNext]_xvars => [Next]_vars
<1> SUFFICES ASSUME [XNext]_xvars PROVE [Next]_vars
  OBVIOUS
<1>1. CASE UNCHANGED xvars
  BY <1>1 DEF xvars
<1>2. CASE NewRun \/ Interrupt \/ Gather \/ CancelLands
  BY <1>2 DEF NewRun, Interrupt, Gather, CancelLands
<1>3. CASE \E b \in Batches : ExecuteBatch(b)
  BY <1>3 DEF ExecuteBatch
<1>4. ASSUME NEW t \in Threads, Work(t) PROVE [Next]_vars
  <2>1. CASE Submit(t) \/ Skip(t) \/ Return(t)
    BY <2>1 DEF Submit, Skip, Return
  <2>2. CASE \E keys \in SUBSET Keys : Begin(t, keys)
    BY <2>2 DEF Begin, Next
  <2>3. CASE Proceed(t)
    BY <2>3 DEF Proceed, Next
  <2> QED
    BY <1>4, <2>1, <2>2, <2>3 DEF Work
<1>5. ASSUME NEW t \in Threads, LockTimesOut(t) PROVE [Next]_vars
  BY <1>5 DEF LockTimesOut, Next
<1> QED
  BY <1>1, <1>2, <1>3, <1>4, <1>5 DEF XNext

(* The executor's threads use the lock manager as it is specified: what    *)
(* _run_safe() does around lock() never disturbs it.                       *)
THEOREM ImplementsLocks == XSpec => Spec
<1>1. XInit => Init
  BY DEF XInit
<1> QED
  BY <1>1, LockStep, PTL DEF XSpec, Spec

(* No two tools, of the same batch or of a run and an orphan of an earlier *)
(* one, have the same resource at the same time.                           *)
THEOREM ToolsExclusive == XSpec => []MutualExclusion
  BY ImplementsLocks, ExclusiveAccess, PTL

(* However calls are skipped, cancelled, timed out or left behind, every   *)
(* lock's count of users is exact.                                         *)
THEOREM ToolsCounted == XSpec => []RefcountIsUsers
  BY ImplementsLocks, RefcountsExact, PTL

(* All users of a resource share one lock object.                          *)
THEOREM ToolsShareLocks == XSpec => []SameLockForAll
  BY ImplementsLocks, LocksShared, PTL

(* Calls never wait for each other in a circle, orphans of earlier runs    *)
(* included.                                                               *)
THEOREM ToolsNeverStuck == XSpec => []NoDeadlock
  BY ImplementsLocks, DeadlockFree, PTL

----------------------------------------------------------------------------

\* The executor's own variables.
ExecTypes == /\ batch \in Seq(Threads)
             /\ call \in [Threads -> Working \union {"free", "queued", "done"}]
             /\ orphans \subseteq Threads
             /\ token \in BOOLEAN
             /\ cancelled \subseteq Threads

(* An orphan's token is cancelled and stays so, as its thread cannot be    *)
(* given a new call; the calls of the batch share the token of the run.    *)
TokensFit == /\ orphans \subseteq cancelled
             /\ token => Members \subseteq cancelled
             /\ orphans \intersect Members = {}
             /\ \A t \in orphans : call[t] \in Working
             /\ \A t \in Members : call[t] # "free"

ExecInv == ExecTypes /\ TokensFit

(* The calls of a batch are threads.                                       *)
LEMMA MembersAreThreads ==
  ASSUME NEW b \in Seq(Threads)
  PROVE  {b[i] : i \in DOMAIN b} \subseteq Threads
  OBVIOUS

(* A thread that leaves _run_safe() is no orphan any more.                 *)
LEMMA FinishInv ==
  ASSUME ExecInv, NEW t \in Threads, Finish(t), call[t] \in Working
  PROVE  ExecInv'
<1>1. Members' = Members
  BY DEF Finish, Members
<1>2. ExecTypes'
  BY DEF ExecInv, ExecTypes, Finish, Working
<1>3. TokensFit'
  BY <1>1 DEF ExecInv, ExecTypes, TokensFit, Finish, Working
<1> QED
  BY <1>2, <1>3 DEF ExecInv

(* No batch and no orphan at the start.                                    *)
LEMMA ExecInit == XInit => ExecInv
<1> SUFFICES ASSUME XInit PROVE ExecInv
  OBVIOUS
<1>1. Members = {}
  BY DEF XInit, Members
<1>2. ExecTypes
  <2>1. << >> \in Seq(Threads)
    OBVIOUS
  <2> QED
    BY <2>1 DEF XInit, ExecTypes
<1>3. TokensFit
  BY <1>1 DEF XInit, TokensFit
<1> QED
  BY <1>2, <1>3 DEF ExecInv

(* A new batch takes free threads, which no orphan has.                    *)
LEMMA ExecuteBatchInv ==
  ASSUME ExecInv, NEW b \in Batches, ExecuteBatch(b)
  PROVE  ExecInv'
<1>1. b \in Seq(Threads)
  BY ExecutorAssumption
<1>2. Members' = {b[i] : i \in DOMAIN b}
  BY DEF ExecuteBatch, Members
<1>3. Members' \subseteq Threads
  BY <1>1, <1>2, MembersAreThreads
<1>4. \A t \in Members' : call[t] = "free"
  BY <1>2 DEF ExecuteBatch
<1>5. ExecTypes'
  BY <1>1, <1>3 DEF ExecuteBatch, ExecInv, ExecTypes
<1>6. orphans' \intersect Members' = {}
  BY <1>4 DEF ExecuteBatch, ExecInv, TokensFit, Working
<1>7. TokensFit'
  BY <1>3, <1>6 DEF ExecuteBatch, ExecInv, ExecTypes, TokensFit
<1> QED
  BY <1>5, <1>7 DEF ExecInv

(* Every step of the executor preserves ExecInv.                           *)
LEMMA ExecStep == ExecInv /\ [XNext]_xvars => ExecInv'
<1> SUFFICES ASSUME ExecInv, [XNext]_xvars PROVE ExecInv'
  OBVIOUS
<1>m. Members \subseteq Threads
  BY MembersAreThreads DEF ExecInv, ExecTypes, Members
<1>1. CASE UNCHANGED execVars
  <2>1. Members' = Members
    BY <1>1 DEF execVars, Members
  <2> QED
    BY <1>1, <2>1 DEF execVars, ExecInv, ExecTypes, TokensFit
<1>2. CASE NewRun
  <2>1. Members = {} /\ Members' = {}
    BY <1>2 DEF NewRun, Members
  <2> QED
    BY <1>2, <2>1 DEF NewRun, ExecInv, ExecTypes, TokensFit
<1>3. CASE Interrupt
  <2>1. Members' = Members
    BY <1>3 DEF Interrupt, Members
  <2> QED
    BY <1>3, <1>m, <2>1 DEF Interrupt, ExecInv, ExecTypes, TokensFit
<1>4. CASE \E b \in Batches : ExecuteBatch(b)
  BY <1>4, ExecuteBatchInv
<1>5. CASE Gather
  <2>1. Members' = {}
    BY <1>5 DEF Gather, Members
  <2> QED
    BY <1>5, <2>1 DEF Gather, ExecInv, ExecTypes, TokensFit
<1>6. CASE CancelLands
  <2>1. Members' = {}
    BY <1>6 DEF CancelLands, Members
  <2> QED
    BY <1>6, <1>m, <2>1 DEF CancelLands, AtWork, ExecInv, ExecTypes, TokensFit
<1>7. ASSUME NEW t \in Threads, Work(t) PROVE ExecInv'
  <2>1. CASE Submit(t)
    <3>1. Members' = Members /\ t \in Members
      BY <2>1 DEF Submit, Members
    <3> QED
      BY <2>1, <3>1 DEF Submit, ExecInv, ExecTypes, TokensFit, Working
  <2>2. CASE Skip(t) \/ Return(t)
    BY <2>2, FinishInv DEF Skip, Return, Working
  <2>3. CASE \E keys \in SUBSET Keys : Begin(t, keys)
    <3> PICK keys \in SUBSET Keys : Begin(t, keys)
      BY <2>3
    <3>1. Members' = Members
      BY DEF Begin, Members
    <3> PICK c \in {"locked", "bare"} : call' = [call EXCEPT ![t] = c]
      BY DEF Begin
    <3>2. UNCHANGED <<batch, orphans, token, cancelled>>
      BY DEF Begin
    <3>3. c \in Working /\ c # "free"
      BY DEF Working
    <3> QED
      BY <3>1, <3>2, <3>3 DEF ExecInv, ExecTypes, TokensFit
  <2>4. CASE Proceed(t)
    BY <2>4, <1>1, FinishInv DEF Proceed, Working
  <2> QED
    BY <1>7, <2>1, <2>2, <2>3, <2>4 DEF Work
<1>8. ASSUME NEW t \in Threads, LockTimesOut(t) PROVE ExecInv'
  BY <1>1, <1>8 DEF LockTimesOut
<1>9. CASE UNCHANGED xvars
  BY <1>1, <1>9 DEF xvars
<1> QED
  BY <1>2, <1>3, <1>4, <1>5, <1>6, <1>7, <1>8, <1>9 DEF XNext

(* ExecInv holds in every state the executor reaches.                      *)
LEMMA ExecInvariant == XSpec => []ExecInv
  BY ExecInit, ExecStep, PTL DEF XSpec

(* The executor's variables and the locks' keep their types.               *)
THEOREM ExecTypeCorrect == XSpec => []XTypeOK
<1>1. ExecInv /\ TypeOK => XTypeOK
  BY DEF ExecInv, ExecTypes, XTypeOK
<1> QED
  BY <1>1, ExecInvariant, ImplementsLocks, TypeCorrect, PTL

(* In one step, an orphan in the pool's queue stays there or is skipped.   *)
LEMMA OrphanStep ==
  ASSUME ExecInv, [XNext]_xvars, NEW t \in orphans, call[t] = "submitted"
  PROVE  call'[t] \in {"submitted", "free"}
<1>o. t \in Threads /\ t \in cancelled /\ t \notin Members
  BY DEF ExecInv, ExecTypes, TokensFit
<1>1. CASE UNCHANGED xvars \/ NewRun \/ Interrupt
  BY <1>1 DEF xvars, execVars, NewRun, Interrupt
<1>2. CASE Gather \/ CancelLands
  BY <1>2, <1>o DEF Gather, CancelLands
<1>3. CASE \E b \in Batches : ExecuteBatch(b)
  <2> PICK b \in Batches : ExecuteBatch(b)
    BY <1>3
  <2>1. t \notin Members'
    BY DEF ExecuteBatch, Members
  <2> QED
    BY <2>1, <1>o DEF ExecuteBatch
<1>4. ASSUME NEW u \in Threads, Work(u) \/ LockTimesOut(u)
      PROVE  call'[t] \in {"submitted", "free"}
  <2>1. CASE u = t
    BY <1>4, <1>o, <2>1 DEF ExecInv, ExecTypes, Work, Submit, Skip, Begin, Cancelled,
       Proceed, Return, LockTimesOut, Finish
  <2>2. CASE u # t
    BY <1>4, <1>o, <2>2 DEF ExecInv, ExecTypes, Work, Submit, Skip, Begin, Proceed,
       Return, LockTimesOut, Finish, execVars
  <2> QED
    BY <2>1, <2>2
<1> QED
  BY <1>1, <1>2, <1>3, <1>4 DEF XNext

(* A call that was cancelled before its thread began starts no tool, also  *)
(* when the next run, with a fresh token, is already under way.            *)
THEOREM LateCallsSkipped == XSpec => NoLateStart
<1>1. ExecInv /\ [XNext]_xvars
        => [\A t \in orphans : call[t] = "submitted"
              => call'[t] \in {"submitted", "free"}]_xvars
  BY OrphanStep
<1> QED
  BY <1>1, ExecInvariant, PTL DEF XSpec, NoLateStart
================================================================================
