-------------------------- MODULE PackageCacheProofs --------------------------
(* Proofs about PackageCache, for any processes, tasks, layers and hashes.    *)
EXTENDS PackageCache, TLAPS

USE ConstantsAssumption DEF Layer

-----------------------------------------------------------------------------
(* Types *)

\* The vocabulary of directories and metadata.
LEMMA InitTypes == Init => TypeOK
  <1> SUFFICES ASSUME Init PROVE TypeOK
    OBVIOUS
  <1>1. NoDir \in Dir /\ \A s \in Sha : Complete(s) \in Dir
    BY DEF Dir, Complete, Remains
  <1>2. dir \in [Layer -> Dir]
    BY <1>1 DEF Init
  <1>3. meta \in [Layer -> [rev : Nat, sha : Sha \cup {NoSha}]]
    BY DEF Init, EmptyMeta
  <1>4. seen \in [Task -> [rev : Nat, sha : Sha \cup {NoSha}]]
    BY DEF Init, EmptyMeta
  <1>5. fetchfn \in [Task -> BOOLEAN] /\ failed \in BOOLEAN
    BY DEF Init
  <1> QED
    BY <1>2, <1>3, <1>4, <1>5 DEF Init, TypeOK, NoRev, Label

\* A task names a layer whenever it is past the walk over the layers.
AtLayer == \A t \in Task : (Locked(t) \/ pc[t] \in {"lock", "use"}) => at[t] \in Layer

\* A task that fetched has an archive to put in place.
TmpKnown == \A t \in Task : pc[t] \in {"remove", "removing", "rename"} => tmp[t] \in Sha

TypeInv == TypeOK /\ AtLayer /\ TmpKnown

\* Every step keeps the types.
LEMMA StepTypes == TypeInv /\ [Next]_vars => TypeInv'
  <1> SUFFICES ASSUME TypeInv, [Next]_vars PROVE TypeInv'
    OBVIOUS
  <1> USE DEF TypeInv, TypeOK, AtLayer, TmpKnown, Locked, Label, Goto
  <1>1. ASSUME NEW p \in Proc, AcquireGlobalLock(p) \/ ReleaseGlobalLock(p) PROVE TypeInv'
    BY <1>1 DEF AcquireGlobalLock, ReleaseGlobalLock
  <1>2. ASSUME NEW p \in Proc, InstallReturnsEarly(p) PROVE TypeInv'
    BY <1>2 DEF InstallReturnsEarly, TasksOf
  <1>3. ASSUME NEW p \in Proc, Crash(p) PROVE TypeInv'
    BY <1>3 DEF Crash, TasksOf, NoRev
  <1>4. ASSUME NEW t \in Task, NEW s \in Want[t], GetOrFetch(t, s) PROVE TypeInv'
    BY <1>4 DEF GetOrFetch
  <1>5. ASSUME NEW t \in Task, ScanLayer(t) PROVE TypeInv'
    <2>1. CASE at[t] \in Accepting[want[t]] /\ Here(t) # NoDir
      BY <1>5, <2>1 DEF ScanLayer
    <2>2. CASE ~(at[t] \in Accepting[want[t]] /\ Here(t) # NoDir)
      <3>1. at' \in [Task -> 1..(NLayers + 1)]
        <4>1. at' = [at EXCEPT ![t] = at[t] + 1] /\ at[t] <= NLayers
          BY <1>5, <2>2 DEF ScanLayer
        <4>2. at[t] + 1 \in 1..(NLayers + 1)
          BY <4>1
        <4> QED
          BY <4>1, <4>2
      <3> QED
        BY <1>5, <2>2, <3>1 DEF ScanLayer
    <2> QED
      BY <2>1, <2>2
  <1>6. ASSUME NEW t \in Task, ChooseLayer(t) PROVE TypeInv'
    <2>1. ASSUME NEW l \in Writable(t), at' = [at EXCEPT ![t] = l],
                 pc' = [pc EXCEPT ![t] = "lock"], UNCHANGED res
          PROVE  TypeInv'
      <3>1. l \in Layer
        BY DEF Writable
      <3> QED
        BY <1>6, <2>1, <3>1 DEF ChooseLayer
    <2>2. CASE pc' = [pc EXCEPT ![t] = "idle"] /\ UNCHANGED at
               /\ res' = [res EXCEPT ![t] = "no_writable_layers"]
      BY <1>6, <2>2 DEF ChooseLayer
    <2> QED
      BY <1>6, <2>1, <2>2 DEF ChooseLayer
  <1>7. ASSUME NEW t \in Task, LockEntry(t) PROVE TypeInv'
    BY <1>7 DEF LockEntry
  <1>8. ASSUME NEW t \in Task, ReadMetadata(t) PROVE TypeInv'
    <2>0. at[t] \in Layer
      BY <1>8 DEF ReadMetadata
    <2>1. CASE Fail(t, "lock_error") /\ UNCHANGED seen
      BY <1>8, <2>0, <2>1 DEF ReadMetadata, Fail, UnlockEntry
    <2>2. CASE seen' = [seen EXCEPT ![t] = meta[at[t]]] /\ Goto(t, "check")
               /\ UNCHANGED <<mutex, res>>
      BY <1>8, <2>0, <2>2 DEF ReadMetadata
    <2> QED
      BY <1>8, <2>1, <2>2 DEF ReadMetadata
  <1>9. ASSUME NEW t \in Task, CheckEntry(t) PROVE TypeInv'
    <2>0. at[t] \in Layer /\ pc[t] = "check"
      BY <1>9 DEF CheckEntry
    <2>1. CASE Succeed(t, seen[t].rev) /\ UNCHANGED at
      BY <1>9, <2>0, <2>1 DEF CheckEntry, Succeed, UnlockEntry
    <2>2. CASE Goto(t, "rev") /\ UNCHANGED <<mutex, at, last, res>>
      BY <1>9, <2>0, <2>2 DEF CheckEntry
    <2>3. CASE UnlockEntry(t) /\ Goto(t, "scan") /\ at' = [at EXCEPT ![t] = @ + 1]
               /\ UNCHANGED <<last, res>>
      BY <1>9, <2>0, <2>3 DEF CheckEntry, UnlockEntry
    <2> QED
      BY <1>9, <2>1, <2>2, <2>3 DEF CheckEntry
  <1>10. ASSUME NEW t \in Task, WriteRevision(t) PROVE TypeInv'
    <2>1. meta' \in [Layer -> [rev : Nat, sha : Sha \cup {NoSha}]]
      BY <1>10 DEF WriteRevision
    <2> QED
      BY <1>10, <2>1 DEF WriteRevision
  <1>18. ASSUME NEW t \in Task, WriteSha(t) PROVE TypeInv'
    <2>1. meta' \in [Layer -> [rev : Nat, sha : Sha \cup {NoSha}]]
      BY <1>18 DEF WriteSha
    <2> QED
      BY <1>18, <2>1 DEF WriteSha
  <1>11. ASSUME NEW t \in Task, StartFetch(t) \/ EndUse(t) PROVE TypeInv'
    BY <1>11 DEF StartFetch, EndUse
  <1>12. ASSUME NEW t \in Task, FetchOk(t) PROVE TypeInv'
    BY <1>12 DEF FetchOk
  <1>13. ASSUME NEW t \in Task, FetchErr(t) PROVE TypeInv'
    BY <1>13 DEF FetchErr, Fail, UnlockEntry
  <1>14. ASSUME NEW t \in Task, RemoveOld(t) PROVE TypeInv'
    <2>1. at[t] \in Layer /\ dir[at[t]] \in Dir
      BY <1>14 DEF RemoveOld
    <2>2. dir' \in [Layer -> Dir]
      <3>1. CASE Here(t) = NoDir
        BY <1>14, <3>1 DEF RemoveOld
      <3>2. CASE Here(t) # NoDir
        <4>1. dir[at[t]].sha \in Sha /\ dir[at[t]].state \in DOMAIN Remains
          BY <2>1, <3>2 DEF Dir, Here
        <4>2. PICK left \in Remains[dir[at[t]].state] :
                dir' = [dir EXCEPT ![at[t]] = [sha |-> dir[at[t]].sha, state |-> left]]
          BY <1>14, <3>2 DEF RemoveOld, Here
        <4>3. left \in DOMAIN Remains
          BY <4>1, <4>2 DEF Remains
        <4> QED
          BY <2>1, <4>1, <4>2, <4>3 DEF Dir
      <3> QED
        BY <3>1, <3>2
    <2>3. pc' \in [Task -> Label] /\ \A u \in Task : Locked(u)' => Locked(u)
      BY <1>14 DEF RemoveOld
    <2> QED
      BY <1>14, <2>2, <2>3 DEF RemoveOld
  <1>15. ASSUME NEW t \in Task, RemovedOld(t) PROVE TypeInv'
    BY <1>15 DEF RemovedOld, Dir, NoDir
  <1>16. ASSUME NEW t \in Task, Rename(t) PROVE TypeInv'
    <2>0. at[t] \in Layer /\ tmp[t] \in Sha /\ Complete(tmp[t]) \in Dir
      BY <1>16 DEF Rename, Dir, Complete, Remains
    <2>1. CASE dir' = [dir EXCEPT ![at[t]] = Complete(tmp[t])] /\ Succeed(t, seen[t].rev + 1)
      <3>1. dir' \in [Layer -> Dir] /\ seen[t].rev + 1 \in Nat
        BY <2>0, <2>1
      <3> QED
        BY <1>16, <2>0, <2>1, <3>1 DEF Rename, Succeed, UnlockEntry
    <2>2. CASE Fail(t, "other_error") /\ UNCHANGED <<dir, last>>
      BY <1>16, <2>0, <2>2 DEF Rename, Fail, UnlockEntry
    <2> QED
      BY <1>16, <2>1, <2>2 DEF Rename
  <1>17. CASE UNCHANGED vars
    BY <1>17 DEF vars
  <1> QED
    BY <1>1, <1>2, <1>3, <1>4, <1>5, <1>6, <1>7, <1>8, <1>9, <1>10, <1>11, <1>12,
       <1>13, <1>14, <1>15, <1>16, <1>17, <1>18 DEF Next, Step

\* Type correctness of the package cache.
THEOREM TypeCorrect == Spec => []TypeOK
  <1>1. Init => TypeInv
    BY InitTypes DEF Init, TypeInv, AtLayer, TmpKnown, Locked
  <1>2. TypeInv => TypeOK
    BY DEF TypeInv
  <1> QED
    BY <1>1, <1>2, StepTypes, PTL DEF Spec

-----------------------------------------------------------------------------
(* The entry mutex *)

\* A task that validates or fetches holds the entry of its process and layer.
HoldsEntry == \A t \in Task : Locked(t) => mutex[ProcOf[t]][at[t]] = t

MutexInv == TypeInv /\ HoldsEntry

\* Nobody holds an entry at first.
LEMMA InitMutex == Init => MutexInv
  <1> SUFFICES ASSUME Init PROVE MutexInv
    OBVIOUS
  <1>1. TypeInv
    BY InitTypes DEF Init, TypeInv, AtLayer, TmpKnown, Locked
  <1> QED
    BY <1>1 DEF Init, MutexInv, HoldsEntry, Locked

\* An entry is given up only by its holder, or with the whole process.
LEMMA StepMutex == MutexInv /\ [Next]_vars => MutexInv'
  <1> SUFFICES ASSUME MutexInv, [Next]_vars PROVE HoldsEntry'
    BY StepTypes DEF MutexInv
  <1> USE DEF MutexInv, HoldsEntry, TypeInv, TypeOK, AtLayer, Locked, Goto
  <1>1. ASSUME NEW p \in Proc, AcquireGlobalLock(p) \/ ReleaseGlobalLock(p)
        PROVE  HoldsEntry'
    BY <1>1 DEF AcquireGlobalLock, ReleaseGlobalLock
  <1>2. ASSUME NEW p \in Proc, InstallReturnsEarly(p) PROVE HoldsEntry'
    BY <1>2 DEF InstallReturnsEarly
  <1>3. ASSUME NEW p \in Proc, Crash(p) PROVE HoldsEntry'
    BY <1>3 DEF Crash
  <1>4. ASSUME NEW t \in Task, NEW s \in Want[t], GetOrFetch(t, s) PROVE HoldsEntry'
    BY <1>4 DEF GetOrFetch
  <1>5. ASSUME NEW t \in Task, ScanLayer(t) \/ ChooseLayer(t) PROVE HoldsEntry'
    BY <1>5 DEF ScanLayer, ChooseLayer
  <1>6. ASSUME NEW t \in Task, LockEntry(t) PROVE HoldsEntry'
    BY <1>6 DEF LockEntry
  <1>7. ASSUME NEW t \in Task, pc[t] # "idle", Locked(t), UnlockEntry(t), UNCHANGED at,
               pc' \in {[pc EXCEPT ![t] = "idle"], [pc EXCEPT ![t] = "use"]}
        PROVE  HoldsEntry'
    BY <1>7 DEF UnlockEntry
  <1>8. ASSUME NEW t \in Task, ReadMetadata(t) PROVE HoldsEntry'
    <2>1. CASE Fail(t, "lock_error")
      BY <1>7, <1>8, <2>1 DEF ReadMetadata, Fail
    <2>2. CASE Goto(t, "check") /\ UNCHANGED mutex
      BY <1>8, <2>2 DEF ReadMetadata
    <2> QED
      BY <1>8, <2>1, <2>2 DEF ReadMetadata
  <1>9. ASSUME NEW t \in Task, CheckEntry(t) PROVE HoldsEntry'
    <2>1. CASE Succeed(t, seen[t].rev) /\ UNCHANGED at
      BY <1>7, <1>9, <2>1 DEF CheckEntry, Succeed
    <2>2. CASE Goto(t, "rev") /\ UNCHANGED <<mutex, at>>
      BY <1>9, <2>2 DEF CheckEntry
    <2>3. CASE UnlockEntry(t) /\ Goto(t, "scan") /\ at' = [at EXCEPT ![t] = @ + 1]
      BY <1>9, <2>3 DEF CheckEntry, UnlockEntry
    <2> QED
      BY <1>9, <2>1, <2>2, <2>3 DEF CheckEntry
  <1>10. ASSUME NEW t \in Task, WriteRevision(t) \/ WriteSha(t) \/ StartFetch(t) \/ FetchOk(t)
         PROVE  HoldsEntry'
    BY <1>10 DEF WriteRevision, WriteSha, StartFetch, FetchOk
  <1>11. ASSUME NEW t \in Task, FetchErr(t) PROVE HoldsEntry'
    BY <1>7, <1>11 DEF FetchErr, Fail
  <1>12. ASSUME NEW t \in Task, RemoveOld(t) \/ RemovedOld(t) \/ EndUse(t) PROVE HoldsEntry'
    BY <1>12 DEF RemoveOld, RemovedOld, EndUse
  <1>13. ASSUME NEW t \in Task, Rename(t) PROVE HoldsEntry'
    BY <1>7, <1>13 DEF Rename, Succeed, Fail
  <1>14. CASE UNCHANGED vars
    BY <1>14 DEF vars
  <1> QED
    BY <1>1, <1>2, <1>3, <1>4, <1>5, <1>6, <1>8, <1>9, <1>10, <1>11, <1>12, <1>13, <1>14
       DEF Next, Step

\* The mutex of an entry keeps the tasks of one process apart, whether or not
\* anybody takes the global lock and whatever crashes or is left behind.
THEOREM MutexKeepsTasksApart == Spec => []EntryMutexExclusive
  <1>1. MutexInv => EntryMutexExclusive
    BY DEF MutexInv, HoldsEntry, TypeInv, AtLayer, TypeOK, EntryMutexExclusive, Locked,
       Writing
  <1> QED
    BY <1>1, InitMutex, StepMutex, PTL DEF Spec

-----------------------------------------------------------------------------
(* What the global lock adds *)

\* Every user of the cache is an Installer.
AllInstall == Installer = Proc

\* ... and no installation returns before its tasks.
AllLocked == AllInstall /\ ~MayDetach

\* Whoever is inside a call, and was not left behind, belongs to the holder of
\* the global lock.
AwaitedHeld == \A t \in Task \ detached : pc[t] # "idle" => glock = ProcOf[t]

\* Nobody is left behind.
LockHeld == detached = {} /\ AwaitedHeld

\* The lock is released when all tasks that are not left behind have ended.
LEMMA StepAwaitedHeld ==
  ASSUME AllInstall, TypeInv, AwaitedHeld, [Next]_vars PROVE AwaitedHeld'
  <1> USE DEF AllInstall, AwaitedHeld, TypeInv, TypeOK, Goto
  <1>1. ASSUME NEW p \in Proc, AcquireGlobalLock(p) PROVE AwaitedHeld'
    BY <1>1 DEF AcquireGlobalLock
  <1>2. ASSUME NEW p \in Proc, ReleaseGlobalLock(p) PROVE AwaitedHeld'
    BY <1>2 DEF ReleaseGlobalLock, TasksOf
  <1>3. ASSUME NEW p \in Proc, InstallReturnsEarly(p) PROVE AwaitedHeld'
    BY <1>3 DEF InstallReturnsEarly, TasksOf
  <1>4. ASSUME NEW p \in Proc, Crash(p) PROVE AwaitedHeld'
    BY <1>4 DEF Crash
  <1>5. ASSUME NEW t \in Task, NEW s \in Want[t], GetOrFetch(t, s) PROVE AwaitedHeld'
    BY <1>5 DEF GetOrFetch
  <1>6. ASSUME NEW t \in Task, Step(t) PROVE AwaitedHeld'
    <2>1. pc[t] # "idle" /\ UNCHANGED <<glock, detached>>
      BY <1>6 DEF Step, ScanLayer, ChooseLayer, LockEntry, ReadMetadata, CheckEntry,
         WriteRevision, WriteSha, StartFetch, FetchOk, FetchErr, RemoveOld, RemovedOld,
         Rename, EndUse
    <2>2. \A u \in Task : u # t => pc'[u] = pc[u]
      BY <1>6 DEF Step, ScanLayer, ChooseLayer, LockEntry, ReadMetadata, CheckEntry,
         WriteRevision, WriteSha, StartFetch, FetchOk, FetchErr, RemoveOld, RemovedOld,
         Rename, EndUse, Succeed, Fail
    <2> QED
      BY <2>1, <2>2
  <1>7. CASE UNCHANGED vars
    BY <1>7 DEF vars
  <1> QED
    BY <1>1, <1>2, <1>3, <1>4, <1>5, <1>6, <1>7 DEF Next

\* If none is left behind, all belong to it.
LEMMA StepLockHeld ==
  ASSUME AllLocked, TypeInv, LockHeld, [Next]_vars PROVE LockHeld'
  <1>1. AwaitedHeld'
    BY StepAwaitedHeld DEF AllLocked, LockHeld
  <1>2. detached' = {}
    BY DEF AllLocked, LockHeld, Next, Step, vars, AcquireGlobalLock, ReleaseGlobalLock,
       InstallReturnsEarly, Crash, GetOrFetch, ScanLayer, ChooseLayer, LockEntry,
       ReadMetadata, CheckEntry, WriteRevision, WriteSha, StartFetch, FetchOk, FetchErr,
       RemoveOld, RemovedOld, Rename, EndUse
  <1> QED
    BY <1>1, <1>2 DEF LockHeld

\* With both locks, at most one task works on the entry of a layer.
LEMMA OneAtATime ==
  ASSUME MutexInv, LockHeld, NEW t \in Task, NEW u \in Task,
         Locked(t), Locked(u), at[t] = at[u]
  PROVE  t = u
  BY DEF MutexInv, TypeInv, AtLayer, TypeOK, HoldsEntry, LockHeld, AwaitedHeld, Locked

\* "Since we hold the global cache lock, we can safely update the metadata and
\* fetch the package": if every user of the cache takes the lock, no two tasks
\* that were not left behind replace the same directory, whoever fails or dies.
THEOREM GlobalLockKeepsWritersApart ==
  ASSUME AllInstall PROVE Spec => []WritersExclusive
  <1>1. Init => MutexInv /\ AwaitedHeld
    BY InitMutex DEF Init, AwaitedHeld
  <1>2. MutexInv /\ AwaitedHeld /\ [Next]_vars => (MutexInv /\ AwaitedHeld)'
    BY AllInstall, StepMutex, StepAwaitedHeld DEF MutexInv
  <1>3. MutexInv /\ AwaitedHeld => WritersExclusive
    BY DEF MutexInv, TypeInv, AtLayer, TypeOK, HoldsEntry, AwaitedHeld, WritersExclusive,
       Writing, Locked
  <1> QED
    BY <1>1, <1>2, <1>3, PTL DEF Spec

-----------------------------------------------------------------------------
(* Revisions *)

\* What a task read is what is on disk until it writes; then the revision on
\* disk is one more than what it read.
SeenCurrent ==
  \A t \in Task : /\ pc[t] \in {"check", "rev"} => seen[t] = meta[at[t]]
                  /\ Writing(t) => meta[at[t]].rev = seen[t].rev + 1

\* Nobody remembers a revision from the future, nor the one being written.
RememberedIsPast ==
  /\ \A p \in Proc, l \in Layer : last[p][l] <= meta[l].rev
  /\ \A t \in Task, p \in Proc : Writing(t) => last[p][at[t]] < meta[at[t]].rev

\* What is remembered with the current revision is valid.
KnownValid == \A p \in Proc, l \in Layer : last[p][l] = meta[l].rev => Validates(dir[l])

RevInv == MutexInv /\ LockHeld /\ SeenCurrent /\ RememberedIsPast /\ KnownValid

\* No revision is remembered at first.
LEMMA InitRev == Init => RevInv
  <1> SUFFICES ASSUME Init PROVE RevInv
    OBVIOUS
  <1>1. MutexInv /\ LockHeld
    BY InitMutex DEF Init, LockHeld, AwaitedHeld
  <1>2. \A p \in Proc, l \in Layer : last[p][l] = -1 /\ meta[l].rev \in Nat
    BY <1>1 DEF Init, NoRev, MutexInv, TypeInv, TypeOK
  <1> QED
    BY <1>1, <1>2 DEF Init, RevInv, SeenCurrent, RememberedIsPast, KnownValid, Writing

\* The parts of RevInv that speak of revisions.
Revisions == SeenCurrent /\ RememberedIsPast /\ KnownValid

\* The revision is counted up before the directory is touched.
LEMMA StepRevisions ==
  ASSUME RevInv, [Next]_vars PROVE Revisions'
  <1> USE DEF RevInv, Revisions, MutexInv, TypeInv, TypeOK, AtLayer, SeenCurrent,
          RememberedIsPast, KnownValid, Locked, Writing, Goto
  <1>q. ASSUME UNCHANGED <<dir, meta, last, seen>>,
               \A u \in Task : pc'[u] \in {"check", "rev"} =>
                               pc[u] \in {"check", "rev"} /\ at'[u] = at[u],
               \A u \in Task : Writing(u)' => Writing(u) /\ at'[u] = at[u]
        PROVE  Revisions'
    BY <1>q
  <1>1. ASSUME NEW p \in Proc,
               AcquireGlobalLock(p) \/ ReleaseGlobalLock(p) \/ InstallReturnsEarly(p)
        PROVE  Revisions'
    BY <1>1, <1>q DEF AcquireGlobalLock, ReleaseGlobalLock, InstallReturnsEarly
  <1>2. ASSUME NEW p \in Proc, Crash(p) PROVE Revisions'
    BY <1>2 DEF Crash, NoRev
  <1>3. ASSUME NEW t \in Task, NEW s \in Want[t], GetOrFetch(t, s) PROVE Revisions'
    BY <1>3, <1>q DEF GetOrFetch
  <1>4. ASSUME NEW t \in Task, ScanLayer(t) \/ ChooseLayer(t) \/ LockEntry(t) PROVE Revisions'
    <2>1. UNCHANGED <<dir, meta, last, seen>> /\ pc[t] \in {"scan", "lock"}
      BY <1>4 DEF ScanLayer, ChooseLayer, LockEntry
    <2>2. pc'[t] \in {"scan", "lock", "idle", "read"}
      BY <1>4 DEF ScanLayer, ChooseLayer, LockEntry
    <2>3. \A u \in Task : u # t => pc'[u] = pc[u] /\ at'[u] = at[u]
      BY <1>4 DEF ScanLayer, ChooseLayer, LockEntry
    <2> QED
      BY <2>1, <2>2, <2>3, <1>q
  <1>5. ASSUME NEW t \in Task, ReadMetadata(t) PROVE Revisions'
    <2>1. CASE Fail(t, "lock_error") /\ UNCHANGED seen
      BY <1>5, <1>q, <2>1 DEF ReadMetadata, Fail
    <2>2. CASE seen' = [seen EXCEPT ![t] = meta[at[t]]] /\ Goto(t, "check")
      BY <1>5, <2>2 DEF ReadMetadata
    <2> QED
      BY <1>5, <2>1, <2>2 DEF ReadMetadata
  <1>6. ASSUME NEW t \in Task, CheckEntry(t) PROVE Revisions'
    <2>0. pc[t] = "check" /\ at[t] \in Layer /\ UNCHANGED <<dir, meta, seen>>
      BY <1>6 DEF CheckEntry
    <2>1. ASSUME Usable(t), Succeed(t, seen[t].rev), UNCHANGED at
          PROVE  Revisions'
      <3>1. seen[t].rev = meta[at[t]].rev
        BY <2>0
      <3>2. Validates(dir[at[t]])
        BY <2>0, <2>1, <3>1 DEF Usable, Here
      <3>3. \A u \in Task : Writing(u) => at[u] # at[t]
        BY <2>0, OneAtATime
      <3> QED
        BY <2>0, <2>1, <3>1, <3>2, <3>3 DEF Succeed
    <2>2. CASE Goto(t, "rev") /\ UNCHANGED <<at, last>>
      BY <2>0, <2>2, <1>q
    <2>3. CASE Goto(t, "scan") /\ at' = [at EXCEPT ![t] = @ + 1] /\ UNCHANGED last
      BY <2>0, <2>3, <1>q
    <2> QED
      BY <1>6, <2>1, <2>2, <2>3 DEF CheckEntry
  <1>7. ASSUME NEW t \in Task, WriteRevision(t) PROVE Revisions'
    <2>1. pc[t] = "rev" /\ at[t] \in Layer /\ UNCHANGED <<dir, last, seen, at>>
      BY <1>7 DEF WriteRevision
    <2>2. meta'[at[t]].rev = meta[at[t]].rev + 1
      BY <1>7, <2>1 DEF WriteRevision
    <2>3. \A l \in Layer : l # at[t] => meta'[l] = meta[l]
      BY <1>7 DEF WriteRevision
    <2>4. \A u \in Task : u # t /\ Locked(u) => at[u] # at[t]
      BY <2>1, OneAtATime
    <2>5. pc' = [pc EXCEPT ![t] = "sha"] /\ seen[t] = meta[at[t]]
      BY <1>7, <2>1 DEF WriteRevision
    <2>6. SeenCurrent'
      BY <2>1, <2>2, <2>3, <2>4, <2>5
    <2>9. \A q \in Proc, l \in Layer : /\ last[q][l] \in Int /\ meta[l].rev \in Int
                                       /\ last[q][l] <= meta[l].rev
      BY DEF NoRev
    <2>7. RememberedIsPast'
      <3>1. ASSUME NEW q \in Proc, NEW l \in Layer PROVE last[q][l] <= meta'[l].rev
        <4>1. last[q][l] \in Int /\ meta[l].rev \in Int /\ last[q][l] <= meta[l].rev
          BY <2>9
        <4>2. CASE l = at[t]
          BY <2>2, <4>1, <4>2
        <4>3. CASE l # at[t]
          BY <2>3, <4>1, <4>3
        <4> QED
          BY <4>2, <4>3
      <3>2. \A q \in Proc : last[q][at[t]] < meta'[at[t]].rev
        BY <2>1, <2>2, <2>9
      <3> QED
        BY <2>1, <2>3, <2>4, <2>5, <3>1, <3>2
    <2>8. KnownValid'
      <3>1. ASSUME NEW q \in Proc, NEW l \in Layer, last'[q][l] = meta'[l].rev
            PROVE  Validates(dir'[l])
        <4>1. last[q][l] \in Int /\ meta[l].rev \in Int /\ last[q][l] <= meta[l].rev
          BY <2>9
        <4>2. l # at[t]
          BY <2>1, <2>2, <3>1, <4>1
        <4> QED
          BY <2>1, <2>3, <3>1, <4>2
      <3> QED
        BY <3>1
    <2> QED
      BY <2>6, <2>7, <2>8
  <1>8. ASSUME NEW t \in Task, WriteSha(t) PROVE Revisions'
    <2>1. pc[t] = "sha" /\ at[t] \in Layer /\ UNCHANGED <<dir, last, seen, at>>
      BY <1>8 DEF WriteSha
    <2>2. \A l \in Layer : meta'[l].rev = meta[l].rev /\ (l # at[t] => meta'[l] = meta[l])
      BY <1>8 DEF WriteSha
    <2>3. \A u \in Task : u # t /\ Locked(u) => at[u] # at[t]
      BY <2>1, OneAtATime
    <2> QED
      BY <1>8, <2>1, <2>2, <2>3 DEF WriteSha
  <1>9. ASSUME NEW t \in Task, StartFetch(t) \/ FetchOk(t) \/ EndUse(t) PROVE Revisions'
    BY <1>9, <1>q DEF StartFetch, FetchOk, EndUse
  <1>10. ASSUME NEW t \in Task, FetchErr(t) PROVE Revisions'
    BY <1>10, <1>q DEF FetchErr, Fail
  <1>11. ASSUME NEW t \in Task, RemoveOld(t) PROVE Revisions'
    <2>1. pc[t] = "remove" /\ at[t] \in Layer /\ UNCHANGED <<meta, last, seen, at>>
      BY <1>11 DEF RemoveOld
    <2>2. \A l \in Layer : l # at[t] => dir'[l] = dir[l]
      BY <1>11 DEF RemoveOld
    <2>3. pc' \in {[pc EXCEPT ![t] = "rename"], [pc EXCEPT ![t] = "removing"]}
      BY <1>11 DEF RemoveOld
    <2>4. \A u \in Task : /\ pc'[u] \in {"check", "rev"} => pc[u] \in {"check", "rev"}
                          /\ Writing(u)' => Writing(u)
      BY <2>1, <2>3
    <2>5. SeenCurrent' /\ RememberedIsPast'
      BY <2>1, <2>4
    <2>6. KnownValid'
      <3> SUFFICES ASSUME NEW q \in Proc, NEW l \in Layer, last'[q][l] = meta'[l].rev
                   PROVE  Validates(dir'[l])
        OBVIOUS
      <3>1. last[q][l] = meta[l].rev
        BY <2>1
      <3>2. l # at[t]
        BY <2>1, <3>1 DEF NoRev
      <3> QED
        BY <2>2, <3>1, <3>2
    <2> QED
      BY <2>5, <2>6
  <1>12. ASSUME NEW t \in Task, RemovedOld(t) PROVE Revisions'
    BY <1>12 DEF RemovedOld
  <1>13. ASSUME NEW t \in Task, Rename(t) PROVE Revisions'
    <2>0. pc[t] = "rename" /\ at[t] \in Layer /\ UNCHANGED <<meta, seen, at>>
      BY <1>13 DEF Rename
    <2>1. CASE dir' = [dir EXCEPT ![at[t]] = Complete(tmp[t])] /\ Succeed(t, seen[t].rev + 1)
      <3>1. \A u \in Task : u # t /\ Locked(u) => at[u] # at[t]
        BY <2>0, OneAtATime
      <3>2. seen[t].rev + 1 = meta[at[t]].rev /\ Validates(dir'[at[t]])
        BY <2>0, <2>1 DEF Complete, Validates
      <3> QED
        BY <2>0, <2>1, <3>1, <3>2 DEF Succeed
    <2>2. CASE Fail(t, "other_error") /\ UNCHANGED <<dir, last>>
      BY <2>0, <2>2, <1>q DEF Fail
    <2> QED
      BY <1>13, <2>1, <2>2 DEF Rename
  <1>14. CASE UNCHANGED vars
    BY <1>14, <1>q DEF vars
  <1> QED
    BY <1>1, <1>2, <1>3, <1>4, <1>5, <1>6, <1>7, <1>8, <1>9, <1>10, <1>11, <1>12, <1>13,
       <1>14 DEF Next, Step

\* Holding the locks, RevInv is an invariant.
THEOREM RevisionInvariance ==
  ASSUME AllLocked PROVE Spec => []RevInv
  <1>1. RevInv /\ [Next]_vars => RevInv'
    BY AllLocked, StepMutex, StepLockHeld, StepRevisions DEF RevInv, Revisions, MutexInv
  <1> QED
    BY <1>1, InitRev, PTL DEF Spec

\* The shortcut of validate_package_common on the remembered revision never
\* skips a validation that would fail, in any validation mode, even after
\* another process died in the middle of replacing the directory.
THEOREM ShortcutIsSound ==
  ASSUME AllLocked PROVE Spec => []KnownRevisionIsValid
  <1>1. RevInv => KnownRevisionIsValid
    BY DEF RevInv, KnownValid, KnownRevisionIsValid
  <1> QED
    BY <1>1, RevisionInvariance, PTL

\* A revision is never used twice, in any validation mode.
THEOREM RevisionsOnlyGrow ==
  ASSUME AllLocked PROVE Spec => RevisionGrows
  <1> DEFINE Grows == \A l \in Layer : meta'[l].rev >= meta[l].rev
  <1>1. RevInv /\ [Next]_vars => Grows
    <2> SUFFICES ASSUME RevInv, [Next]_vars PROVE Grows
      OBVIOUS
    <2> USE DEF RevInv, MutexInv, TypeInv, TypeOK, AtLayer, Locked
    <2>1. CASE UNCHANGED meta
      BY <2>1
    <2>2. ASSUME NEW t \in Task, WriteRevision(t) PROVE Grows
      BY <2>2 DEF WriteRevision, SeenCurrent
    <2>3. ASSUME NEW t \in Task, WriteSha(t) PROVE Grows
      BY <2>3 DEF WriteSha
    <2> QED
      BY <2>1, <2>2, <2>3 DEF Next, Step, vars, AcquireGlobalLock, ReleaseGlobalLock,
         InstallReturnsEarly, Crash, GetOrFetch, ScanLayer, ChooseLayer, LockEntry,
         ReadMetadata, CheckEntry, StartFetch, FetchOk, FetchErr, RemoveOld, RemovedOld,
         Rename, EndUse
  <1>2. RevInv /\ [Next]_vars => [Grows]_vars
    BY <1>1
  <1> QED
    BY <1>2, RevisionInvariance, PTL DEF Spec, RevisionGrows

-----------------------------------------------------------------------------
(* What is handed out *)

\* The tasks of an installation that are inside a call, or use its result, ask
\* for the same archive: an environment has one record of a name.
OneArchive ==
  \A t, u \in Task : ProcOf[t] = ProcOf[u] /\ pc[t] # "idle" /\ pc[u] # "idle" =>
                     want[t] = want[u]

\* Whoever fetches has recorded the hash of its request.
ShaWritten ==
  \A t \in Task : pc[t] \in {"permit", "fetch", "remove", "removing", "rename"} =>
                  meta[at[t]].sha = want[t]

\* What is used is valid, is what the others would ask for, and nobody is about
\* to replace it.
UseGood ==
  \A t \in Task : pc[t] = "use" =>
    /\ Validates(dir[at[t]]) /\ ~Sha256Mismatch(want[t], meta[at[t]].sha)
    /\ \A u \in Task : pc[u] = "rev" \/ Writing(u) => at[u] # at[t]

ServeInv == RevInv /\ ShaWritten /\ UseGood

\* A step of a task touches only the task and, while it fetches, its layer.
LEMMA Frame ==
  ASSUME TypeInv, NEW t \in Task, Step(t)
  PROVE  /\ pc[t] # "idle" /\ UNCHANGED want
         /\ \A u \in Task : u # t => /\ pc'[u] = pc[u] /\ at'[u] = at[u] /\ seen'[u] = seen[u]
                                     /\ fetchfn'[u] = fetchfn[u] /\ tmp'[u] = tmp[u]
         /\ \A l \in Layer : l # at[t] => dir'[l] = dir[l] /\ meta'[l] = meta[l]
         /\ pc[t] # "rev" /\ ~Writing(t) => UNCHANGED <<dir, meta>>
  <1> USE DEF TypeInv, TypeOK, Goto
  <1>1. pc[t] # "idle" /\ UNCHANGED want
    BY DEF Step, ScanLayer, ChooseLayer, LockEntry, ReadMetadata, CheckEntry, WriteRevision,
           WriteSha, StartFetch, FetchOk, FetchErr, RemoveOld, RemovedOld, Rename, EndUse
  <1>2. \A u \in Task : u # t => /\ pc'[u] = pc[u] /\ at'[u] = at[u] /\ seen'[u] = seen[u]
                                 /\ fetchfn'[u] = fetchfn[u] /\ tmp'[u] = tmp[u]
    BY DEF Step, ScanLayer, ChooseLayer, LockEntry, ReadMetadata, CheckEntry, WriteRevision,
           WriteSha, StartFetch, FetchOk, FetchErr, RemoveOld, RemovedOld, Rename, EndUse,
           Succeed, Fail
  <1>3. \A l \in Layer : l # at[t] => dir'[l] = dir[l] /\ meta'[l] = meta[l]
    BY DEF Step, ScanLayer, ChooseLayer, LockEntry, ReadMetadata, CheckEntry, WriteRevision,
           WriteSha, StartFetch, FetchOk, FetchErr, RemoveOld, RemovedOld, Rename, EndUse
  <1>4. pc[t] # "rev" /\ ~Writing(t) => UNCHANGED <<dir, meta>>
    BY DEF Step, ScanLayer, ChooseLayer, LockEntry, ReadMetadata, CheckEntry, WriteRevision,
           WriteSha, StartFetch, FetchOk, FetchErr, RemoveOld, RemovedOld, Rename, EndUse, Writing
  <1> QED
    BY <1>1, <1>2, <1>3, <1>4

\* Whoever fetches has recorded the hash of its request, and nobody overwrites
\* it.
LEMMA StepShaWritten ==
  ASSUME MutexInv, LockHeld, ShaWritten, NEW t \in Task, Step(t) PROVE ShaWritten'
  <1> USE DEF MutexInv, TypeInv, TypeOK, AtLayer, ShaWritten, Locked, Goto
  <1>1. ASSUME NEW u \in Task, u # t,
               pc'[u] \in {"permit", "fetch", "remove", "removing", "rename"}
        PROVE  meta'[at'[u]].sha = want'[u]
    <2>1. pc[u] = pc'[u] /\ at'[u] = at[u] /\ want'[u] = want[u]
      BY <1>1, Frame
    <2>2. pc[t] = "rev" \/ Writing(t) => at[t] # at[u]
      BY <1>1, <2>1, OneAtATime DEF Writing
    <2>3. at[u] \in Layer
      BY <1>1, <2>1
    <2>4. meta'[at[u]] = meta[at[u]]
      BY <2>2, <2>3, Frame
    <2> QED
      BY <1>1, <2>1, <2>4
  <1>2. ASSUME pc'[t] \in {"permit", "fetch", "remove", "removing", "rename"}
        PROVE  meta'[at'[t]].sha = want'[t]
    <2>1. CASE WriteSha(t)
      BY <2>1 DEF WriteSha
    <2>2. CASE StartFetch(t) \/ FetchOk(t) \/ RemoveOld(t) \/ RemovedOld(t)
      BY <2>2 DEF StartFetch, FetchOk, RemoveOld, RemovedOld
    <2> QED
      BY <1>2, <2>1, <2>2 DEF Step, ScanLayer, ChooseLayer, LockEntry, ReadMetadata, CheckEntry,
         WriteRevision, FetchErr, Rename, EndUse, Succeed, Fail
  <1> QED
    BY <1>1, <1>2

\* A task that checks an entry which another one uses finds it usable.
LEMMA UsedIsUsable ==
  ASSUME ServeInv, OneArchive, NEW t \in Task, CheckEntry(t), NEW u \in Task, pc[u] = "use",
         at[u] = at[t]
  PROVE  pc'[t] # "rev"
  <1> USE DEF ServeInv, RevInv, MutexInv, TypeInv, TypeOK, Goto
  <1>1. pc[t] = "check" /\ seen[t] = meta[at[t]]
    BY DEF CheckEntry, SeenCurrent
  <1>2. ProcOf[t] = ProcOf[u] /\ want[t] = want[u]
    BY <1>1 DEF LockHeld, AwaitedHeld, OneArchive
  <1>3. Validates(Here(t)) /\ ~Sha256Mismatch(want[t], seen[t].sha)
    BY <1>1, <1>2 DEF UseGood, Here
  <1>4. Here(t) # NoDir
    BY <1>3 DEF NoDir, Validates
  <1>5. Usable(t)
    BY <1>3, <1>4 DEF Usable
  <1>6. Succeed(t, seen[t].rev)
    BY <1>5 DEF CheckEntry
  <1> QED
    BY <1>1, <1>6 DEF Succeed

\* What is handed out is good, ...
LEMMA ServesGood ==
  ASSUME ServeInv, NEW t \in Task, Step(t), pc[t] # "use", pc'[t] = "use"
  PROVE  /\ Validates(dir'[at'[t]]) /\ ~Sha256Mismatch(want'[t], meta'[at'[t]].sha)
         /\ Locked(t) /\ at'[t] = at[t] /\ at[t] \in Layer
  <1> USE DEF ServeInv, RevInv, MutexInv, TypeInv, TypeOK, AtLayer, Locked, Goto
  <1>1. CASE CheckEntry(t)
    <2>1. pc[t] = "check" /\ at[t] \in Layer /\ UNCHANGED <<dir, meta, want>>
          /\ seen[t] = meta[at[t]]
      BY <1>1 DEF CheckEntry, SeenCurrent
    <2>2. Usable(t) /\ UNCHANGED at
      BY <1>1, <2>1 DEF CheckEntry
    <2>3. Validates(dir[at[t]])
      BY <2>1, <2>2 DEF Usable, KnownValid, Here
    <2> QED
      BY <2>1, <2>2, <2>3 DEF Usable
  <1>2. CASE Rename(t)
    <2>1. pc[t] = "rename" /\ at[t] \in Layer /\ UNCHANGED <<meta, want, at>>
          /\ meta[at[t]].sha = want[t]
      BY <1>2 DEF Rename, ShaWritten
    <2>2. dir' = [dir EXCEPT ![at[t]] = Complete(tmp[t])]
      BY <1>2, <2>1 DEF Rename, Fail
    <2> QED
      BY <2>1, <2>2 DEF Complete, Validates, Sha256Mismatch
  <1> QED
    BY <1>1, <1>2 DEF Step, ScanLayer, ChooseLayer, LockEntry, ReadMetadata, WriteRevision,
       WriteSha, StartFetch, FetchOk, FetchErr, RemoveOld, RemovedOld, EndUse, Fail

\* ... and stays so.
LEMMA StepUseGood ==
  ASSUME ServeInv, OneArchive, NEW t \in Task, Step(t) PROVE UseGood'
  <1> USE DEF ServeInv, RevInv, MutexInv, TypeInv, TypeOK, AtLayer, Locked
  <1>1. ASSUME pc'[t] = "rev" \/ Writing(t)'
        PROVE  /\ at'[t] = at[t] /\ (pc[t] = "rev" \/ Writing(t) \/ pc[t] = "check")
               /\ pc[t] = "check" => CheckEntry(t) /\ pc'[t] = "rev"
    BY <1>1 DEF Step, ScanLayer, ChooseLayer, LockEntry, ReadMetadata, CheckEntry, WriteRevision,
           WriteSha, StartFetch, FetchOk, FetchErr, RemoveOld, RemovedOld, Rename, EndUse,
           Succeed, Fail, Writing, Goto
  <1>2. ASSUME NEW u \in Task, pc'[u] = "use", pc[u] = "use"
        PROVE  /\ Validates(dir'[at'[u]]) /\ ~Sha256Mismatch(want'[u], meta'[at'[u]].sha)
               /\ \A v \in Task : pc'[v] = "rev" \/ Writing(v)' => at'[v] # at'[u]
    <2>1. u # t
      BY <1>2 DEF Step, ScanLayer, ChooseLayer, LockEntry, ReadMetadata, CheckEntry, WriteRevision,
           WriteSha, StartFetch, FetchOk, FetchErr, RemoveOld, RemovedOld, Rename, EndUse, Goto
    <2>2. at'[u] = at[u] /\ want'[u] = want[u] /\ at[u] \in Layer
      BY <1>2, <2>1, Frame
    <2>3. pc[t] = "rev" \/ Writing(t) => at[t] # at[u]
      BY <1>2 DEF UseGood
    <2>4. dir'[at[u]] = dir[at[u]] /\ meta'[at[u]] = meta[at[u]]
      BY <2>2, <2>3, Frame
    <2>5. ASSUME NEW v \in Task, pc'[v] = "rev" \/ Writing(v)' PROVE at'[v] # at[u]
      <3>1. CASE v # t
        BY <1>2, <2>5, <3>1, Frame DEF UseGood, Writing
      <3>2. CASE v = t
        BY <1>1, <1>2, <2>3, <2>5, <3>2, UsedIsUsable
      <3> QED
        BY <3>1, <3>2
    <2> QED
      BY <1>2, <2>2, <2>4, <2>5 DEF UseGood
  <1>3. ASSUME NEW u \in Task, pc'[u] = "use", pc[u] # "use"
        PROVE  /\ Validates(dir'[at'[u]]) /\ ~Sha256Mismatch(want'[u], meta'[at'[u]].sha)
               /\ \A v \in Task : pc'[v] = "rev" \/ Writing(v)' => at'[v] # at'[u]
    <2>1. u = t
      BY <1>3, Frame
    <2>2. ASSUME NEW v \in Task, pc'[v] = "rev" \/ Writing(v)' PROVE at'[v] # at'[t]
      <3>1. v # t
        BY <1>3, <2>1, <2>2 DEF Writing
      <3>2. Locked(v) /\ at'[v] = at[v]
        BY <2>2, <3>1, Frame DEF Writing
      <3> QED
        BY <1>3, <2>1, <3>1, <3>2, ServesGood, OneAtATime
    <2> QED
      BY <1>3, <2>1, <2>2, ServesGood
  <1> QED
    BY <1>2, <1>3 DEF UseGood

\* Steps that are not a task's leave the files alone, and nobody is further
\* than before.
LEMMA OtherSteps ==
  ASSUME TypeInv, AllLocked,
         \/ \E p \in Proc : AcquireGlobalLock(p) \/ ReleaseGlobalLock(p) \/ InstallReturnsEarly(p)
                            \/ Crash(p)
         \/ \E t \in Task : \E s \in Want[t] : GetOrFetch(t, s)
         \/ UNCHANGED vars
  PROVE  /\ UNCHANGED <<dir, meta, fetchfn, seen, tmp>>
         /\ \A u \in Task : /\ pc'[u] \in {pc[u], "idle", "scan"}
                            /\ pc'[u] = "scan" /\ pc[u] # "scan" =>
                                 at'[u] = 1 /\ want'[u] \in Want[u]
                            /\ pc'[u] = pc[u] /\ pc[u] # "idle" =>
                                 at'[u] = at[u] /\ want'[u] = want[u]
  BY DEF TypeInv, TypeOK, AllLocked, AcquireGlobalLock, ReleaseGlobalLock, InstallReturnsEarly,
         Crash, GetOrFetch, vars

\* Every step keeps what is handed out good.
LEMMA StepServe ==
  ASSUME AllLocked, ServeInv, OneArchive, [Next]_vars PROVE ServeInv'
  <1>1. RevInv'
    BY StepMutex, StepLockHeld, StepRevisions DEF ServeInv, RevInv, Revisions, MutexInv
  <1>2. ASSUME NEW t \in Task, Step(t) PROVE ShaWritten' /\ UseGood'
    BY <1>2, StepShaWritten, StepUseGood DEF ServeInv, RevInv
  <1>3. ASSUME \/ \E p \in Proc : AcquireGlobalLock(p) \/ ReleaseGlobalLock(p)
                                  \/ InstallReturnsEarly(p) \/ Crash(p)
               \/ \E t \in Task : \E s \in Want[t] : GetOrFetch(t, s)
               \/ UNCHANGED vars
        PROVE  ShaWritten' /\ UseGood'
    <2>1. TypeInv
      BY DEF ServeInv, RevInv, MutexInv
    <2>2. /\ UNCHANGED <<dir, meta>>
          /\ \A u \in Task : pc'[u] \notin {"idle", "scan"} =>
               pc'[u] = pc[u] /\ at'[u] = at[u] /\ want'[u] = want[u]
      BY <1>3, <2>1, OtherSteps
    <2> QED
      BY <2>2 DEF ServeInv, ShaWritten, UseGood, Writing
  <1> QED
    BY <1>1, <1>2, <1>3 DEF Next, ServeInv

\* ServeInv holds throughout.
LEMMA ServeInvariance ==
  ASSUME AllLocked PROVE Spec /\ []OneArchive => []ServeInv
  <1>1. Init => ServeInv
    BY InitRev DEF Init, ServeInv, ShaWritten, UseGood
  <1>2. ServeInv /\ OneArchive /\ [Next]_vars => ServeInv'
    BY AllLocked, StepServe
  <1> QED
    BY <1>1, <1>2, PTL DEF Spec

\* A directory that get_or_fetch has handed out passes the validation of the
\* mode for as long as it is used, in every mode, whatever failed and whoever
\* died before, for any number of processes that hold the global lock while
\* they install.
THEOREM ServedIsValid ==
  ASSUME AllLocked PROVE Spec /\ []OneArchive => []ServedValid
  <1>1. ServeInv => ServedValid
    BY DEF ServeInv, UseGood, ServedValid, Here
  <1> QED
    BY <1>1, ServeInvariance, PTL

\* A directory lacks files only while somebody removes it.
OnlyRemovedLack ==
  \A l \in Layer : \/ dir[l] = NoDir \/ dir[l].state = "complete"
                   \/ \E t \in Task : pc[t] = "removing" /\ at[t] = l

\* Nobody dies in the middle of a removal.
LEMMA StepOnlyRemovedLack ==
  ASSUME AllLocked, ~MayCrash, TypeInv, OnlyRemovedLack, [Next]_vars
  PROVE  OnlyRemovedLack'
  <1> USE DEF TypeInv, TypeOK, AtLayer, Locked, OnlyRemovedLack, Goto
  <1>1. ASSUME UNCHANGED dir,
               \A u \in Task : pc[u] = "removing" => pc'[u] = "removing" /\ at'[u] = at[u]
        PROVE  OnlyRemovedLack'
    <2> SUFFICES ASSUME NEW l \in Layer, dir'[l] # NoDir, dir'[l].state # "complete"
                 PROVE  \E u \in Task : pc'[u] = "removing" /\ at'[u] = l
      OBVIOUS
    <2>1. PICK u \in Task : pc[u] = "removing" /\ at[u] = l
      BY <1>1
    <2> QED
      BY <1>1, <2>1
  <1>2. ASSUME NEW t \in Task, RemoveOld(t) PROVE OnlyRemovedLack'
    <2>1. at[t] \in Layer /\ pc[t] = "remove" /\ UNCHANGED at
      BY <1>2 DEF RemoveOld
    <2>2. CASE Here(t) = NoDir
      BY <1>1, <1>2, <2>1, <2>2 DEF RemoveOld
    <2>3. CASE Here(t) # NoDir
      <3>1. pc' = [pc EXCEPT ![t] = "removing"] /\ \A l \in Layer : l # at[t] => dir'[l] = dir[l]
        BY <1>2, <2>3 DEF RemoveOld
      <3> QED
        BY <2>1, <3>1
    <2> QED
      BY <2>2, <2>3
  <1>3. ASSUME NEW t \in Task, RemovedOld(t) PROVE OnlyRemovedLack'
    BY <1>3 DEF RemovedOld
  <1>4. ASSUME NEW t \in Task, Rename(t) PROVE OnlyRemovedLack'
    <2>1. at[t] \in Layer /\ pc[t] = "rename" /\ UNCHANGED at
          /\ \A u \in Task : u # t => pc'[u] = pc[u]
      BY <1>4 DEF Rename, Succeed, Fail
    <2>2. CASE dir' = [dir EXCEPT ![at[t]] = Complete(tmp[t])]
      <3> SUFFICES ASSUME NEW l \in Layer, dir'[l] # NoDir, dir'[l].state # "complete"
                   PROVE  \E u \in Task : pc'[u] = "removing" /\ at'[u] = l
        OBVIOUS
      <3>1. l # at[t] /\ dir'[l] = dir[l]
        BY <2>2 DEF Complete
      <3>2. PICK u \in Task : pc[u] = "removing" /\ at[u] = l
        BY <3>1
      <3> QED
        BY <2>1, <3>2
    <2>3. CASE UNCHANGED dir
      BY <1>1, <2>1, <2>3
    <2> QED
      BY <1>4, <2>2, <2>3 DEF Rename
  <1>5. ASSUME NEW t \in Task, Step(t), ~RemoveOld(t), ~RemovedOld(t), ~Rename(t)
        PROVE  OnlyRemovedLack'
    <2>1. UNCHANGED dir /\ pc[t] # "removing"
      BY <1>5 DEF Step, ScanLayer, ChooseLayer, LockEntry, ReadMetadata, CheckEntry,
         WriteRevision, WriteSha, StartFetch, FetchOk, FetchErr, EndUse
    <2>2. \A u \in Task : u # t => pc'[u] = pc[u] /\ at'[u] = at[u]
      BY <1>5, Frame
    <2> QED
      BY <1>1, <2>1, <2>2
  <1>6. ASSUME NEW p \in Proc, AcquireGlobalLock(p) \/ ReleaseGlobalLock(p) PROVE OnlyRemovedLack'
    BY <1>1, <1>6 DEF AcquireGlobalLock, ReleaseGlobalLock
  <1>7. ASSUME NEW t \in Task, NEW s \in Want[t], GetOrFetch(t, s) PROVE OnlyRemovedLack'
    BY <1>1, <1>7 DEF GetOrFetch
  <1>8. CASE UNCHANGED vars
    BY <1>1, <1>8 DEF vars
  <1> QED
    BY <1>2, <1>3, <1>4, <1>5, <1>6, <1>7, <1>8 DEF Next, AllLocked, InstallReturnsEarly, Crash

\* If no process dies, what get_or_fetch has handed out has all its files for
\* as long as it is used, in every validation mode and although downloads fail.
THEOREM ServedIsComplete ==
  ASSUME AllLocked, ~MayCrash PROVE Spec /\ []OneArchive => []ServedComplete
  <1>1. Init => OnlyRemovedLack
    BY DEF Init, OnlyRemovedLack, Complete
  <1>2. ServeInv /\ OnlyRemovedLack /\ [Next]_vars => OnlyRemovedLack'
    BY AllLocked, ~MayCrash, StepOnlyRemovedLack DEF ServeInv, RevInv, MutexInv
  <1>3. ServeInv /\ OnlyRemovedLack => ServedComplete
    <2> SUFFICES ASSUME ServeInv, OnlyRemovedLack, NEW t \in Task, pc[t] = "use"
                 PROVE  dir[at[t]].state = "complete"
      BY DEF ServedComplete, Here
    <2>1. at[t] \in Layer /\ Validates(dir[at[t]])
          /\ \A u \in Task : Writing(u) => at[u] # at[t]
      BY DEF ServeInv, UseGood, RevInv, MutexInv, TypeInv, AtLayer
    <2>2. dir[at[t]] # NoDir
      BY <2>1 DEF Validates, NoDir
    <2> QED
      BY <2>1, <2>2 DEF OnlyRemovedLack, Writing
  <1> QED
    BY <1>1, <1>2, <1>3, ServeInvariance, PTL DEF Spec

-----------------------------------------------------------------------------
(* Requests with a hash, until a download fails *)

\* Every request carries a hash and no process dies.
Undisturbed == (\A t \in Task : Want[t] \subseteq Sha) /\ ~MayCrash

\* The layer that a request is written to.
IsChosen(s, l) ==
  l \in Accepting[s] \ ReadOnly /\ \A k \in Accepting[s] \ ReadOnly : l <= k

Fetching(t) == pc[t] = "rev" \/ Writing(t)

\* What the metadata says of a directory is true, except while it is replaced.
Settled ==
  \A l \in Layer : (dir[l] # NoDir /\ \A t \in Task : Writing(t) => at[t] # l) =>
                   meta[l].sha \in Sha /\ dir[l] = Complete(meta[l].sha)

\* What a task knows of its own request.
Knows(t) ==
  /\ pc[t] # "idle" => want[t] \in Sha
  /\ pc[t] \in {"check", "rev"} => seen[t] = meta[at[t]]
  /\ pc[t] \in {"remove", "removing", "rename"} => tmp[t] = want[t]
  /\ pc[t] = "rename" => dir[at[t]] = NoDir
  /\ Fetching(t) => fetchfn[t]
  /\ fetchfn[t] /\ (pc[t] \in {"lock", "read", "check"} \/ Fetching(t)) =>
       IsChosen(want[t], at[t])

\* The archive s is not in layer l.
Lacks(l, s) == dir[l].state = "complete" => dir[l].sha # s

\* The layers a task has already looked at.
Behind(t, l) ==
  \/ l < at[t]
  \/ pc[t] # "scan" /\ fetchfn[t]

\* What it wants is in none of them, but for the one that others may have
\* written to; when it fetches itself, it is not in that one either.
Passed(t) ==
  /\ pc[t] \notin {"idle", "use"} =>
       \A l \in Accepting[want[t]] : Behind(t, l) => IsChosen(want[t], l) \/ Lacks(l, want[t])
  /\ pc[t] \in {"rev", "sha", "permit", "fetch"} => Lacks(at[t], want[t])

\* What is used is what was asked for, and nobody is about to replace it.
UseMatches(t) ==
  pc[t] = "use" => /\ dir[at[t]] = Complete(want[t])
                   /\ \A u \in Task : Fetching(u) => at[u] # at[t]

CleanInv ==
  /\ MutexInv /\ LockHeld /\ ShaWritten /\ Settled
  /\ \A t \in Task : Knows(t) /\ Passed(t) /\ UseMatches(t)

\* Where a step of a task leads, by where it starts.
LEMMA Path ==
  ASSUME TypeInv, NEW t \in Task, Step(t)
  PROVE  /\ pc[t] = "rev" => WriteRevision(t) /\ pc'[t] = "sha" /\ at'[t] = at[t]
         /\ pc[t] = "sha" => WriteSha(t) /\ pc'[t] = "permit" /\ at'[t] = at[t]
         /\ pc[t] = "permit" => StartFetch(t) /\ pc'[t] = "fetch" /\ at'[t] = at[t]
         /\ pc[t] = "fetch" => (FetchOk(t) /\ pc'[t] = "remove" /\ at'[t] = at[t]) \/ FetchErr(t)
         /\ pc[t] = "remove" => RemoveOld(t) /\ pc'[t] \in {"removing", "rename"} /\ at'[t] = at[t]
         /\ pc[t] = "removing" => RemovedOld(t) /\ pc'[t] = "rename" /\ at'[t] = at[t]
         /\ pc[t] = "rename" => Rename(t) /\ at'[t] = at[t]
         /\ pc[t] = "use" => EndUse(t) /\ pc'[t] = "idle"
         /\ pc[t] = "check" => CheckEntry(t)
         /\ pc[t] = "read" => ReadMetadata(t) /\ pc'[t] \in {"idle", "check"} /\ at'[t] = at[t]
         /\ pc[t] = "lock" => LockEntry(t) /\ pc'[t] = "read" /\ at'[t] = at[t]
         /\ pc[t] = "scan" => (ScanLayer(t) /\ pc'[t] \in {"scan", "lock"})
                              \/ (ChooseLayer(t) /\ pc'[t] \in {"idle", "lock"})
         /\ pc[t] \in Label \ {"idle"}
  BY DEF TypeInv, TypeOK, Step, ScanLayer, ChooseLayer, LockEntry, ReadMetadata, CheckEntry,
         WriteRevision, WriteSha, StartFetch, FetchOk, FetchErr, RemoveOld, RemovedOld, Rename,
         EndUse, Fail, Goto, Label

\* Nobody else is at the layer of a task that fetches.
LEMMA Alone ==
  ASSUME MutexInv, LockHeld, NEW t \in Task, Fetching(t), NEW u \in Task, u # t, Locked(u)
  PROVE  at[u] # at[t]
  BY OneAtATime DEF Fetching, Writing, Locked

\* The new directory is the one that the metadata announces.
LEMMA StepSettled ==
  ASSUME CleanInv, NEW t \in Task, Step(t), ~failed' PROVE Settled'
  <1> SUFFICES ASSUME NEW l \in Layer, dir'[l] # NoDir,
                      \A u \in Task : Writing(u)' => at'[u] # l
               PROVE  meta'[l].sha \in Sha /\ dir'[l] = Complete(meta'[l].sha)
    BY DEF Settled
  <1>0. TypeInv /\ MutexInv /\ LockHeld /\ Knows(t) /\ Settled
    BY DEF CleanInv, MutexInv
  <1>1. \A u \in Task : u # t /\ Writing(u) => at[u] # l
    BY <1>0, Frame DEF Writing
  <1>2. CASE at[t] # l \/ ~Fetching(t)
    <2>1. dir'[l] = dir[l] /\ meta'[l] = meta[l]
      BY <1>0, <1>2, Frame DEF Fetching
    <2>2. \A u \in Task : Writing(u) => at[u] # l
      BY <1>1, <1>2 DEF Fetching
    <2> QED
      BY <1>0, <2>1, <2>2 DEF Settled
  <1>3. CASE at[t] = l /\ Fetching(t)
    <2>1. Rename(t) /\ pc[t] = "rename"
      BY <1>0, <1>3, Path DEF Fetching, Writing, FetchErr
    <2>2. dir[l] = NoDir /\ tmp[t] = want[t] /\ meta[l].sha = want[t] /\ want[t] \in Sha
      BY <1>0, <1>3, <2>1 DEF Knows, CleanInv, ShaWritten
    <2>3. dir' = [dir EXCEPT ![l] = Complete(want[t])] /\ meta' = meta
      BY <1>3, <2>1, <2>2 DEF Rename, Here
    <2> QED
      BY <1>0, <2>2, <2>3 DEF TypeInv, TypeOK
  <1> QED
    BY <1>2, <1>3

\* What the others know stays true, as nobody touches their layer.
LEMMA OthersKnow ==
  ASSUME CleanInv, NEW t \in Task, Step(t), NEW u \in Task, u # t PROVE Knows(u)'
  <1>0. TypeInv /\ MutexInv /\ LockHeld /\ Knows(u)
    BY DEF CleanInv, MutexInv
  <1>1. /\ pc'[u] = pc[u] /\ at'[u] = at[u] /\ seen'[u] = seen[u] /\ want'[u] = want[u]
        /\ fetchfn'[u] = fetchfn[u] /\ tmp'[u] = tmp[u]
    BY <1>0, Frame
  <1>2. Locked(u) => at[u] \in Layer
    BY <1>0 DEF TypeInv, AtLayer
  <1>3. Locked(u) => dir'[at[u]] = dir[at[u]] /\ meta'[at[u]] = meta[at[u]]
    BY <1>0, <1>2, Alone, Frame DEF Fetching
  <1> QED
    BY <1>0, <1>1, <1>3 DEF Knows, Fetching, Writing, Locked

\* What a task learns about its own request.
LEMMA TaskKnows ==
  ASSUME CleanInv, NEW t \in Task, Step(t), ~failed' PROVE Knows(t)'
  <1>0. TypeInv /\ MutexInv /\ LockHeld /\ Knows(t)
    BY DEF CleanInv, MutexInv
  <1> USE <1>0 DEF TypeInv, TypeOK, AtLayer, Locked, Goto
  <1>1. want'[t] = want[t] /\ want[t] \in Sha /\ pc[t] # "idle"
    BY Frame DEF Knows
  <1>2. CASE pc[t] = "scan"
    <2>1. CASE ScanLayer(t) /\ pc'[t] \in {"scan", "lock"}
      BY <1>1, <1>2, <2>1 DEF ScanLayer, Knows, Fetching, Writing
    <2>2. CASE ChooseLayer(t) /\ pc'[t] \in {"idle", "lock"}
      <3>1. pc'[t] = "lock" => IsChosen(want[t], at'[t])
        BY <1>2, <2>2 DEF ChooseLayer, IsChosen, Writable
      <3> QED
        BY <1>1, <2>2, <3>1 DEF Knows, Fetching, Writing, IsChosen
    <2> QED
      BY <1>2, <2>1, <2>2, Path
  <1>3. CASE pc[t] = "lock"
    BY <1>1, <1>3, Path DEF LockEntry, Knows, Fetching, Writing, IsChosen
  <1>4. CASE pc[t] = "read"
    <2>1. ReadMetadata(t) /\ pc'[t] \in {"idle", "check"} /\ at' = at /\ at[t] \in Layer
          /\ UNCHANGED <<fetchfn, meta>>
      BY <1>4, Path DEF ReadMetadata
    <2>2. pc'[t] = "check" => seen'[t] = meta[at[t]]
      BY <1>4, <2>1 DEF ReadMetadata, Fail
    <2> QED
      BY <1>1, <1>4, <2>1, <2>2 DEF Knows, Fetching, Writing, IsChosen
  <1>5. CASE pc[t] = "check"
    <2>1. CheckEntry(t) /\ UNCHANGED <<dir, meta, fetchfn, seen>>
      BY <1>5, Path DEF CheckEntry
    <2>2. pc'[t] \in {"use", "idle", "scan"} \/ (pc'[t] = "rev" /\ fetchfn[t] /\ at' = at)
      BY <1>5, <2>1 DEF CheckEntry, Succeed
    <2> QED
      BY <1>1, <1>5, <2>1, <2>2 DEF Knows, Fetching, Writing, IsChosen
  <1>6. CASE pc[t] \in {"rev", "sha", "permit"}
    <2>1. pc'[t] \in {"sha", "permit", "fetch"} /\ UNCHANGED <<fetchfn, at>>
      BY <1>6, Path DEF WriteRevision, WriteSha, StartFetch
    <2> QED
      BY <1>1, <1>6, <2>1 DEF Knows, Fetching, Writing, IsChosen
  <1>7. CASE pc[t] = "fetch"
    <2>1. FetchOk(t) /\ pc'[t] = "remove"
      BY <1>7, Path DEF FetchErr
    <2>2. tmp'[t] = want[t] /\ UNCHANGED <<fetchfn, at>>
      BY <1>1, <2>1 DEF FetchOk
    <2> QED
      BY <1>1, <1>7, <2>1, <2>2 DEF Knows, Fetching, Writing, IsChosen
  <1>8. CASE pc[t] \in {"remove", "removing"}
    <2>1. pc'[t] \in {"removing", "rename"} /\ UNCHANGED <<fetchfn, at, tmp>> /\ at[t] \in Layer
      BY <1>8, Path DEF RemoveOld, RemovedOld
    <2>2. pc'[t] = "rename" => dir'[at[t]] = NoDir
      <3>1. CASE pc[t] = "remove"
        BY <2>1, <3>1, Path DEF RemoveOld, Here
      <3>2. CASE pc[t] = "removing"
        BY <2>1, <3>2, Path DEF RemovedOld
      <3> QED
        BY <1>8, <3>1, <3>2
    <2> QED
      BY <1>1, <1>8, <2>1, <2>2 DEF Knows, Fetching, Writing, IsChosen
  <1>9. CASE pc[t] \in {"rename", "use"}
    <2>1. pc'[t] \in {"idle", "use"}
      BY <1>9, Path DEF Rename, Succeed, Fail
    <2> QED
      BY <1>1, <2>1 DEF Knows, Fetching, Writing
  <1> QED
    BY <1>1, <1>2, <1>3, <1>4, <1>5, <1>6, <1>7, <1>8, <1>9 DEF Label

\* A layer that a task found of no use lacks what it wants.
LEMMA UselessLacks ==
  ASSUME CleanInv, NEW t \in Task, pc[t] = "check",
         ~Usable(t)
  PROVE  Lacks(at[t], want[t])
  <1>0. TypeInv /\ MutexInv /\ LockHeld /\ Knows(t) /\ Settled /\ at[t] \in Layer
    BY DEF CleanInv, MutexInv, TypeInv, AtLayer, Locked
  <1> SUFFICES ASSUME dir[at[t]].state = "complete" PROVE dir[at[t]].sha # want[t]
    BY DEF Lacks
  <1>1. dir[at[t]] # NoDir /\ Validates(dir[at[t]])
    BY DEF NoDir, Validates
  <1>2. \A u \in Task : Writing(u) => at[u] # at[t]
    BY <1>0, OneAtATime DEF Locked, Writing
  <1>3. dir[at[t]].sha = meta[at[t]].sha
    <2>1. dir[at[t]] = Complete(meta[at[t]].sha)
      BY <1>0, <1>1, <1>2 DEF Settled
    <2> QED
      BY <2>1 DEF Complete
  <1>4. Sha256Mismatch(want[t], seen[t].sha) /\ seen[t] = meta[at[t]]
    BY <1>0, <1>1 DEF Usable, Here, Knows
  <1> QED
    BY <1>3, <1>4 DEF Sha256Mismatch

\* A step of another task writes only to the layer that is chosen for both.
LEMMA OthersPassed ==
  ASSUME CleanInv, OneArchive, NEW t \in Task, Step(t), NEW u \in Task, u # t PROVE Passed(u)'
  <1>0. TypeInv /\ MutexInv /\ LockHeld /\ Passed(u) /\ Knows(t)
    BY DEF CleanInv, MutexInv
  <1>1. /\ pc'[u] = pc[u] /\ at'[u] = at[u] /\ want'[u] = want[u] /\ fetchfn'[u] = fetchfn[u]
    BY <1>0, Frame
  <1>2. ASSUME pc[u] \notin {"idle", "use"}, NEW l \in Accepting[want[u]], Behind(u, l)
        PROVE  IsChosen(want[u], l) \/ Lacks(l, want[u])'
    <2>1. l \in Layer
      BY <1>0 DEF TypeInv, TypeOK
    <2>2. CASE Fetching(t) /\ at[t] = l
      <3>1. want[u] = want[t]
        BY <1>0, <1>2, Frame DEF LockHeld, AwaitedHeld, OneArchive
      <3> QED
        BY <1>0, <2>2, <3>1 DEF Knows
    <2>3. CASE ~(Fetching(t) /\ at[t] = l)
      <3>1. dir'[l] = dir[l]
        BY <1>0, <2>1, <2>3, Frame DEF Fetching
      <3> QED
        BY <1>0, <1>1, <1>2, <3>1 DEF Passed, Lacks
    <2> QED
      BY <2>2, <2>3
  <1>3. ASSUME pc[u] \in {"rev", "sha", "permit", "fetch"} PROVE Lacks(at[u], want[u])'
    <2>1. Locked(u) /\ at[u] \in Layer
      BY <1>0, <1>3 DEF Locked, TypeInv, AtLayer
    <2>2. dir'[at[u]] = dir[at[u]]
      BY <1>0, <2>1, Alone, Frame DEF Fetching
    <2> QED
      BY <1>0, <1>1, <1>3, <2>2 DEF Passed, Lacks
  <1> QED
    BY <1>1, <1>2, <1>3 DEF Passed, Behind, IsChosen, Lacks

\* The walk of a task over the layers.
LEMMA TaskPassed ==
  ASSUME CleanInv, NEW t \in Task, Step(t) PROVE Passed(t)'
  <1>0. TypeInv /\ MutexInv /\ LockHeld /\ Passed(t) /\ Knows(t) /\ at[t] \in 1..(NLayers + 1)
        /\ Accepting[want[t]] \subseteq Layer
    BY DEF CleanInv, MutexInv, TypeInv, TypeOK
  <1> USE <1>0 DEF TypeInv, TypeOK, AtLayer, Locked, Goto
  <1>1. want'[t] = want[t] /\ want[t] \in Sha /\ pc[t] # "idle"
    BY Frame DEF Knows
  <1>2. CASE pc[t] = "scan"
    <2>1. UNCHANGED dir
      BY <1>2, Path DEF ScanLayer, ChooseLayer
    <2>2. \A l \in Accepting[want[t]] : l < at[t] => IsChosen(want[t], l) \/ Lacks(l, want[t])
      BY <1>2 DEF Passed, Behind
    <2>3. CASE ScanLayer(t)
      <3>1. fetchfn'[t] = FALSE /\ pc'[t] \in {"scan", "lock"}
        BY <1>2, <2>3 DEF ScanLayer
      <3>2. \/ at' = at
            \/ /\ at'[t] = at[t] + 1
               /\ at[t] \notin Accepting[want[t]] \/ dir[at[t]] = NoDir
        BY <2>3 DEF ScanLayer, Here
      <3>3. \A l \in Accepting[want[t]] : l < at'[t] => IsChosen(want[t], l) \/ Lacks(l, want[t])
        BY <2>2, <3>2 DEF Lacks, NoDir
      <3> QED
        BY <1>1, <2>1, <3>1, <3>3 DEF Passed, Behind, IsChosen, Lacks
    <2>4. CASE ChooseLayer(t)
      <3>1. at[t] > NLayers /\ pc'[t] \in {"idle", "lock"}
        BY <1>2, <2>4 DEF ChooseLayer
      <3>2. \A l \in Accepting[want[t]] : IsChosen(want[t], l) \/ Lacks(l, want[t])
        BY <2>2, <3>1
      <3> QED
        BY <1>1, <2>1, <3>1, <3>2 DEF Passed, IsChosen, Lacks
    <2> QED
      BY <1>2, <2>3, <2>4, Path
  <1>3. CASE pc[t] \in {"lock", "read"}
    <2>1. UNCHANGED <<dir, at, fetchfn>> /\ pc'[t] \in {"read", "check", "idle"}
      BY <1>3, Path DEF LockEntry, ReadMetadata
    <2> QED
      BY <1>1, <1>3, <2>1 DEF Passed, Behind, IsChosen, Lacks
  <1>4. CASE pc[t] = "check"
    <2>1. CheckEntry(t) /\ UNCHANGED <<dir, fetchfn>> /\ at[t] \in Layer
      BY <1>4, Path DEF CheckEntry
    <2>2. IF Usable(t) THEN pc'[t] \in {"idle", "use"}
          ELSE \/ fetchfn[t] /\ pc'[t] = "rev" /\ at' = at
               \/ pc'[t] = "scan" /\ at'[t] = at[t] + 1
      BY <1>4, <2>1 DEF CheckEntry, Succeed
    <2>3. CASE Usable(t)
      BY <2>2, <2>3 DEF Passed
    <2>4. CASE ~Usable(t)
      <3>1. Lacks(at[t], want[t])
        BY <1>4, <2>2, <2>4, UselessLacks
      <3>2. \A l \in Accepting[want[t]] : Behind(t, l) \/ l = at[t] =>
              IsChosen(want[t], l) \/ Lacks(l, want[t])
        BY <1>4, <3>1 DEF Passed
      <3>3. \A l \in Accepting[want[t]] : Behind(t, l)' => Behind(t, l) \/ l = at[t]
        BY <1>4, <2>1, <2>2, <2>4 DEF Behind
      <3> QED
        BY <1>1, <2>1, <2>2, <2>4, <3>1, <3>2, <3>3 DEF Passed, IsChosen, Lacks
    <2> QED
      BY <2>3, <2>4
  <1>5. CASE Fetching(t)
    <2>1. pc'[t] \in {"idle", "use"} \/ (pc'[t] # "scan" /\ UNCHANGED <<at, fetchfn>>)
      <3>1. CASE pc[t] \in {"rev", "sha", "permit"}
        BY <3>1, Path DEF WriteRevision, WriteSha, StartFetch
      <3>2. CASE pc[t] = "fetch"
        BY <3>2, Path DEF FetchOk, FetchErr, Fail
      <3>3. CASE pc[t] \in {"remove", "removing"}
        BY <3>3, Path DEF RemoveOld, RemovedOld
      <3>4. CASE pc[t] = "rename"
        BY <3>4, Path DEF Rename, Succeed, Fail
      <3> QED
        BY <1>5, <3>1, <3>2, <3>3, <3>4 DEF Fetching, Writing
    <2>2. pc[t] # "scan" /\ pc[t] \notin {"idle", "use"} /\ IsChosen(want[t], at[t])
      BY <1>5 DEF Fetching, Writing, Knows
    <2>3. ASSUME pc'[t] \notin {"idle", "use"}, NEW l \in Accepting[want[t]], Behind(t, l)'
          PROVE  IsChosen(want[t], l) \/ Lacks(l, want[t])'
      <3>1. Behind(t, l)
        BY <2>1, <2>2, <2>3 DEF Behind
      <3>2. CASE l = at[t]
        BY <2>2, <3>2
      <3>3. CASE l # at[t]
        <4>1. dir'[l] = dir[l]
          BY <3>3, Frame
        <4> QED
          BY <1>1, <2>2, <3>1, <4>1 DEF Passed, Lacks
      <3> QED
        BY <3>2, <3>3
    <2>4. ASSUME pc'[t] \in {"rev", "sha", "permit", "fetch"}
          PROVE  Lacks(at[t], want[t])' /\ at' = at
      <3>1. pc[t] \in {"rev", "sha", "permit"} /\ UNCHANGED <<dir, at>>
        <4>1. CASE pc[t] \in {"rev", "sha", "permit"}
          BY <4>1, Path DEF WriteRevision, WriteSha, StartFetch
        <4>2. CASE pc[t] = "fetch"
          BY <2>4, <4>2, Path DEF FetchErr, Fail
        <4>3. CASE pc[t] \in {"remove", "removing"}
          BY <2>4, <4>3, Path
        <4>4. CASE pc[t] = "rename"
          BY <2>4, <4>4, Path DEF Rename, Succeed, Fail
        <4> QED
          BY <1>5, <4>1, <4>2, <4>3, <4>4 DEF Fetching, Writing
      <3> QED
        BY <1>1, <3>1 DEF Passed, Lacks
    <2> QED
      BY <1>1, <2>3, <2>4 DEF Passed, IsChosen, Lacks
  <1>6. CASE pc[t] = "use"
    BY <1>6, Path DEF Passed
  <1> QED
    BY <1>1, <1>2, <1>3, <1>4, <1>5, <1>6 DEF Fetching, Writing, Label

\* A task that checks an entry which another one uses has no cause to fetch it.
LEMMA UsedIsWanted ==
  ASSUME CleanInv, OneArchive, NEW t \in Task, CheckEntry(t), NEW u \in Task, pc[u] = "use",
         at[u] = at[t]
  PROVE  pc'[t] # "rev"
  <1>0. TypeInv /\ MutexInv /\ LockHeld /\ Knows(t) /\ Settled /\ at[t] \in Layer /\ UseMatches(u)
        /\ pc[t] = "check"
    BY DEF CleanInv, MutexInv, TypeInv, AtLayer, Locked, CheckEntry
  <1>1. want[t] = want[u]
    BY <1>0 DEF LockHeld, AwaitedHeld, OneArchive
  <1>2. dir[at[t]].state = "complete" /\ dir[at[t]].sha = want[t]
    <2>1. dir[at[t]] = Complete(want[t])
      BY <1>0, <1>1 DEF UseMatches
    <2> QED
      BY <2>1 DEF Complete
  <1>3. Usable(t)
    BY <1>0, <1>2, UselessLacks DEF Lacks
  <1>4. Succeed(t, seen[t].rev)
    BY <1>3 DEF CheckEntry
  <1> QED
    BY <1>0, <1>4 DEF Succeed, Goto, TypeInv, TypeOK

\* What is handed out is what was asked for, ...
LEMMA ServesMatch ==
  ASSUME CleanInv, NEW t \in Task, Step(t), pc[t] # "use", pc'[t] = "use"
  PROVE  dir'[at'[t]] = Complete(want'[t]) /\ Locked(t) /\ at'[t] = at[t] /\ at[t] \in Layer
  <1>0. TypeInv /\ MutexInv /\ LockHeld /\ Knows(t) /\ Settled
    BY DEF CleanInv, MutexInv
  <1> USE <1>0 DEF TypeInv, TypeOK, AtLayer, Locked, Goto
  <1>1. want'[t] = want[t] /\ want[t] \in Sha /\ pc[t] # "idle"
    BY Frame DEF Knows
  <1>2. CASE pc[t] = "check"
    <2>1. CheckEntry(t) /\ UNCHANGED dir /\ at[t] \in Layer /\ seen[t] = meta[at[t]]
      BY <1>2, Path DEF CheckEntry, Knows
    <2>2. Usable(t) /\ UNCHANGED at
      BY <1>2, <2>1 DEF CheckEntry
    <2>3. \A u \in Task : Writing(u) => at[u] # at[t]
      BY <1>2, OneAtATime DEF Writing
    <2>4. meta[at[t]].sha \in Sha /\ dir[at[t]] = Complete(meta[at[t]].sha)
      BY <2>1, <2>2, <2>3 DEF Settled, Usable, Here
    <2>5. meta[at[t]].sha = want[t]
      BY <1>1, <2>1, <2>2, <2>4 DEF Usable, Sha256Mismatch
    <2> QED
      BY <1>1, <1>2, <2>1, <2>2, <2>4, <2>5
  <1>3. CASE pc[t] = "rename"
    <2>1. Rename(t) /\ at' = at /\ at[t] \in Layer /\ tmp[t] = want[t]
      BY <1>3, Path DEF Rename, Knows
    <2>2. dir' = [dir EXCEPT ![at[t]] = Complete(tmp[t])]
      BY <1>3, <2>1 DEF Rename, Fail
    <2> QED
      BY <1>1, <1>3, <2>1, <2>2
  <1> QED
    BY <1>1, <1>2, <1>3, Path DEF Label, FetchErr, Fail

\* ... and stays so.
LEMMA StepUseMatches ==
  ASSUME CleanInv, OneArchive, NEW t \in Task, Step(t), NEW u \in Task PROVE UseMatches(u)'
  <1>0. TypeInv /\ MutexInv /\ LockHeld /\ UseMatches(u)
    BY DEF CleanInv, MutexInv
  <1> SUFFICES ASSUME pc'[u] = "use"
               PROVE  /\ dir'[at'[u]] = Complete(want'[u])
                      /\ \A v \in Task : Fetching(v)' => at'[v] # at'[u]
    BY DEF UseMatches
  <1>1. \A v \in Task : v # t /\ Fetching(v)' => Fetching(v) /\ Locked(v) /\ at'[v] = at[v]
    BY <1>0, Frame DEF Fetching, Writing, Locked
  <1>2. Fetching(t)' => /\ at'[t] = at[t]
                        /\ Fetching(t) \/ (CheckEntry(t) /\ pc'[t] = "rev")
    <2> SUFFICES ASSUME Fetching(t)'
                 PROVE  at'[t] = at[t] /\ (Fetching(t) \/ (CheckEntry(t) /\ pc'[t] = "rev"))
      OBVIOUS
    <2> USE <1>0 DEF TypeInv, TypeOK, Goto
    <2>1. CASE pc[t] = "check"
      <3>1. CheckEntry(t)
        BY <2>1, Path
      <3>2. pc'[t] \in {"use", "idle", "scan"} \/ (pc'[t] = "rev" /\ at' = at)
        BY <2>1, <3>1 DEF CheckEntry, Succeed
      <3> QED
        BY <3>1, <3>2 DEF Fetching, Writing
    <2>2. CASE Fetching(t)
      BY <2>2, Path DEF Fetching, Writing, FetchErr
    <2>3. CASE pc[t] \in {"scan", "lock", "read", "use"}
      BY <2>3, Path DEF Fetching, Writing
    <2> QED
      BY <2>1, <2>2, <2>3, Path DEF Label, Fetching, Writing
  <1>3. CASE pc[u] = "use"
    <2>1. u # t
      BY <1>0, <1>3, Path
    <2>2. at'[u] = at[u] /\ want'[u] = want[u] /\ at[u] \in Layer
      BY <1>0, <1>3, <2>1, Frame DEF TypeInv, AtLayer
    <2>3. dir'[at[u]] = dir[at[u]]
      BY <1>0, <1>3, <2>2, Frame DEF UseMatches, Fetching
    <2>4. ASSUME NEW v \in Task, Fetching(v)' PROVE at'[v] # at[u]
      <3>1. CASE v # t
        BY <1>0, <1>1, <1>3, <2>4, <3>1 DEF UseMatches
      <3>2. CASE v = t
        BY <1>0, <1>2, <1>3, <2>4, <3>2, UsedIsWanted DEF UseMatches
      <3> QED
        BY <3>1, <3>2
    <2> QED
      BY <1>0, <1>3, <2>2, <2>3, <2>4 DEF UseMatches
  <1>4. CASE pc[u] # "use"
    <2>1. u = t
      BY <1>0, <1>4, Frame
    <2>2. dir'[at'[t]] = Complete(want'[t]) /\ Locked(t) /\ at'[t] = at[t]
      BY <1>4, <2>1, ServesMatch
    <2>3. ASSUME NEW v \in Task, Fetching(v)' PROVE at'[v] # at[t]
      BY <1>0, <1>1, <2>1, <2>2, <2>3, OneAtATime DEF Fetching, Writing
    <2> QED
      BY <2>1, <2>2, <2>3
  <1> QED
    BY <1>3, <1>4

\* With hashed requests, CleanInv is kept until a download fails.
LEMMA StepClean ==
  ASSUME AllLocked, Undisturbed, CleanInv, OneArchive, [Next]_vars, ~failed' PROVE CleanInv'
  <1>0. TypeInv /\ MutexInv /\ LockHeld
    BY DEF CleanInv, MutexInv
  <1>1. MutexInv' /\ LockHeld'
    BY <1>0, StepMutex, StepLockHeld
  <1>2. ASSUME NEW t \in Task, Step(t) PROVE CleanInv'
    <2>1. ShaWritten' /\ Settled'
      BY <1>2, StepShaWritten, StepSettled DEF CleanInv
    <2>2. \A u \in Task : Knows(u)' /\ Passed(u)' /\ UseMatches(u)'
      BY <1>2, OthersKnow, TaskKnows, OthersPassed, TaskPassed, StepUseMatches
    <2> QED
      BY <1>1, <2>1, <2>2 DEF CleanInv
  <1>3. ASSUME \/ \E p \in Proc : AcquireGlobalLock(p) \/ ReleaseGlobalLock(p)
                                  \/ InstallReturnsEarly(p) \/ Crash(p)
               \/ \E t \in Task : \E s \in Want[t] : GetOrFetch(t, s)
               \/ UNCHANGED vars
        PROVE  CleanInv'
    <2>1. /\ UNCHANGED <<dir, meta, fetchfn, seen, tmp>>
          /\ \A u \in Task : /\ pc'[u] \in {pc[u], "idle", "scan"}
                             /\ pc'[u] = "scan" /\ pc[u] # "scan" => at'[u] = 1 /\ want'[u] \in Sha
                             /\ pc'[u] = pc[u] /\ pc[u] # "idle" =>
                                  at'[u] = at[u] /\ want'[u] = want[u]
      BY <1>0, <1>3, OtherSteps DEF Undisturbed
    <2>2. \A u \in Task : Writing(u)' => Writing(u) /\ at'[u] = at[u]
      BY <2>1 DEF Writing
    <2>3. \A u \in Task : Writing(u) => Writing(u)'
      BY <1>0, <1>3 DEF Writing, AllLocked, Undisturbed, AcquireGlobalLock, ReleaseGlobalLock,
         InstallReturnsEarly, Crash, GetOrFetch, vars, TypeInv, TypeOK
    <2>4. ShaWritten'
      BY <2>1 DEF CleanInv, ShaWritten
    <2>5. Settled'
      BY <2>1, <2>2, <2>3 DEF CleanInv, Settled
    <2>6. ASSUME NEW u \in Task PROVE Knows(u)' /\ Passed(u)'
      <3>1. Knows(u) /\ Passed(u)
        BY DEF CleanInv
      <3>2. CASE pc'[u] = "idle"
        BY <3>2 DEF Knows, Passed, Fetching, Writing
      <3>3. CASE pc'[u] = "scan" /\ pc[u] # "scan"
        <4>1. at'[u] = 1 /\ want'[u] \in Sha /\ Accepting[want'[u]] \subseteq Layer
          BY <2>1, <3>3
        <4> QED
          BY <3>3, <4>1 DEF Knows, Passed, Behind, Fetching, Writing
      <3>4. CASE pc'[u] = pc[u] /\ pc[u] # "idle"
        BY <2>1, <3>1, <3>4 DEF Knows, Passed, Behind, Lacks, IsChosen, Fetching, Writing
      <3> QED
        BY <2>1, <3>2, <3>3, <3>4
    <2>7. ASSUME NEW u \in Task PROVE UseMatches(u)'
      BY <2>1 DEF CleanInv, UseMatches, Fetching, Writing
    <2> QED
      BY <1>1, <2>4, <2>5, <2>6, <2>7 DEF CleanInv
  <1> QED
    BY <1>2, <1>3 DEF Next

\* A layer that somebody has populated earlier says what it holds.
LEMMA InitClean == Init => CleanInv
  <1> SUFFICES ASSUME Init PROVE CleanInv
    OBVIOUS
  <1>1. MutexInv /\ LockHeld
    BY InitMutex DEF Init, LockHeld, AwaitedHeld
  <1>2. Settled
    BY DEF Init, Settled, NoDir, EmptyMeta
  <1>3. ShaWritten /\ \A t \in Task : Knows(t) /\ Passed(t) /\ UseMatches(t)
    BY DEF Init, ShaWritten, Knows, Passed, UseMatches, Fetching, Writing
  <1> QED
    BY <1>1, <1>2, <1>3 DEF CleanInv

\* CleanInv holds until a download fails.
THEOREM CleanInvariance ==
  ASSUME AllLocked, Undisturbed PROVE Spec /\ []OneArchive => [](failed \/ CleanInv)
  <1>1. (failed \/ CleanInv) /\ OneArchive /\ [Next]_vars => (failed \/ CleanInv)'
    <2>1. [Next]_vars /\ failed => failed'
      BY DEF Next, Step, vars, AcquireGlobalLock, ReleaseGlobalLock, InstallReturnsEarly, Crash,
         GetOrFetch, ScanLayer, ChooseLayer, LockEntry, ReadMetadata, CheckEntry, WriteRevision,
         WriteSha, StartFetch, FetchOk, FetchErr, RemoveOld, RemovedOld, Rename, EndUse
    <2> QED
      BY <2>1, AllLocked, Undisturbed, StepClean
  <1> QED
    BY <1>1, InitClean, PTL DEF Spec

\* The sha256 of a request identifies what is handed out: archives that share
\* name, version and build string do not collide, in any number of layers and
\* processes and whatever the validation mode, as long as no download has
\* failed.
THEOREM ServedIsWanted ==
  ASSUME AllLocked, Undisturbed PROVE Spec /\ []OneArchive => []ServedMatchesUnlessFailed
  <1>1. failed \/ CleanInv => ServedMatchesUnlessFailed
    <2> SUFFICES ASSUME CleanInv, NEW t \in Task, pc[t] = "use" PROVE Here(t).sha = want[t]
      BY DEF ServedMatchesUnlessFailed, ServedMatches
    <2>1. dir[at[t]] = Complete(want[t])
      BY DEF CleanInv, UseMatches
    <2> QED
      BY <2>1 DEF Complete, Here
  <1> QED
    BY <1>1, CleanInvariance, PTL

\* As long as no download has failed, a package is downloaded only if no layer
\* that accepts the request has it:
\* a task that waited for the entry finds what the other one has fetched.
THEOREM FetchesWhenNeeded ==
  ASSUME AllLocked, Undisturbed PROVE Spec /\ []OneArchive => []FetchOnlyWhenNeeded
  <1>1. failed \/ CleanInv => FetchOnlyWhenNeeded
    <2> SUFFICES ASSUME CleanInv, NEW t \in Task, pc[t] \in {"rev", "sha", "permit", "fetch"},
                        NEW l \in Accepting[want[t]], dir[l].state = "complete"
                 PROVE  want[t] # NoSha /\ dir[l].sha # want[t]
      BY DEF FetchOnlyWhenNeeded
    <2>1. Knows(t) /\ Passed(t) /\ Fetching(t) /\ TypeInv
      BY DEF CleanInv, MutexInv, Fetching, Writing
    <2>2. want[t] \in Sha /\ fetchfn[t] /\ IsChosen(want[t], at[t]) /\ Lacks(at[t], want[t])
      BY <2>1 DEF Knows, Passed
    <2>3. CASE l = at[t]
      BY <2>2, <2>3 DEF Lacks
    <2>4. CASE l # at[t]
      <3>1. l \in Layer /\ at[t] \in Layer /\ Accepting[want[t]] \subseteq Layer
        BY <2>2 DEF IsChosen
      <3>2. ~IsChosen(want[t], l)
        BY <2>2, <2>4, <3>1 DEF IsChosen
      <3>3. Lacks(l, want[t])
        BY <2>1, <2>2, <3>2 DEF Passed, Behind
      <3> QED
        BY <2>2, <3>3 DEF Lacks
    <2> QED
      BY <2>3, <2>4
  <1> QED
    BY <1>1, CleanInvariance, PTL
=============================================================================
