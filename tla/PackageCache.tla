---------------------------- MODULE PackageCache ----------------------------
(***************************************************************************)
(* The on-disk cache of extracted packages (rattler_cache::package_cache): *)
(* get_or_fetch over a list of layers, validate_package_common, the        *)
(* metadata file of an entry and the global lock file of the cache.        *)
(*                                                                         *)
(* The model follows one bucket, i.e. one directory name                   *)
(* name-version-build in every layer.  Buckets share nothing but the       *)
(* global lock and the download permits.  Archives that share the bucket   *)
(* are told apart by their sha256; an extracted directory is identified    *)
(* with the sha256 of the archive it came from.                            *)
(*                                                                         *)
(* A process is one user of a cache directory: an Installer, which holds   *)
(* the global lock for the whole installation, or another caller (the run  *)
(* exports extractor of the gateway), which does not take it.  Its tasks   *)
(* share the in-memory entry of the bucket, an async Mutex<Entry>.         *)
(***************************************************************************)
EXTENDS Integers, FiniteSets

CONSTANTS
  Task, Proc, NoTask, NoProc,
  ProcOf,          \* [Task -> Proc]
  Installer,       \* processes that take the global lock
  Sha, NoSha,      \* hashes a request may carry, and none
  Want,            \* [Task -> SUBSET (Sha \cup {NoSha})]: what a task may ask for
  NLayers,         \* layers 1..NLayers, queried in this order
  Accepting,       \* per requested hash: the layers whose filter accepts the request
  ReadOnly,        \* layers that are not writable
  RoMount,         \* those of them that sit on a read-only mount
  Mode,            \* ValidationMode of the layers
  Permits,         \* size of the download semaphore of a process
  FetchMayFail,    \* downloads may fail
  MayCrash,        \* a process may die anywhere
  MayDetach,       \* install() may return early and leave spawned tasks behind
  MaxRequests      \* bound: number of calls of get_or_fetch

Layer == 1..NLayers

ASSUME ConstantsAssumption ==
  /\ NoTask \notin Task /\ NoProc \notin Proc /\ NoSha \notin Sha
  /\ ProcOf \in [Task -> Proc] /\ Installer \subseteq Proc
  /\ Want \in [Task -> SUBSET (Sha \cup {NoSha})]
  /\ NLayers \in Nat /\ MaxRequests \in Nat
  /\ Accepting \in [Sha \cup {NoSha} -> SUBSET Layer]
  /\ ReadOnly \subseteq Layer /\ RoMount \subseteq ReadOnly
  /\ Mode \in {"Skip", "Fast", "Full"}
  /\ Permits \in Nat \ {0}
  /\ {FetchMayFail, MayCrash, MayDetach} \subseteq BOOLEAN

VARIABLES
  dir,       \* per layer: the package directory, or NoDir
  meta,      \* per layer: the metadata file, revision and sha256
  glock,     \* the process that holds the file lock .cache.lock
  last,      \* in memory, per process and layer: Entry.last_revision
  mutex,     \* in memory, per process and layer: the task that holds the entry
  pc, want, at, fetchfn, seen, tmp, res,   \* the tasks, see TypeOK
  detached,  \* spawned tasks whose installation has returned
  begun,     \* number of calls so far
  failed     \* history: some download has failed

diskVars == <<dir, meta>>
memVars == <<last, mutex>>
vars == <<dir, meta, glock, last, mutex, pc, want, at, fetchfn, seen, tmp, res,
          detached, begun, failed>>

NoDir == [sha |-> NoSha, state |-> "none"]
Complete(s) == [sha |-> s, state |-> "complete"]

\* What is left of a directory that is removed file by file.  Trimmed: only
\* files that paths.json does not list are gone (info/link.json,
\* info/run_exports.json); gutted: listed files are gone; ruined: index.json is
\* gone, or paths.json with the older files it can be reconstructed from.
Remains == [complete |-> {"trimmed", "gutted", "ruined"},
            trimmed |-> {"trimmed", "gutted", "ruined"},
            gutted |-> {"gutted", "ruined"},
            ruined |-> {"ruined"}]

Dir == {NoDir} \cup [sha : Sha, state : DOMAIN Remains]

\* No revision remembered (Option::None).
NoRev == -1

\* A missing or short metadata file reads as revision 0 without a sha256.
EmptyMeta == [rev |-> 0, sha |-> NoSha]

\* Read-only layers may have been populated by somebody earlier.
Init ==
  /\ \E pre \in [ReadOnly -> {NoSha} \cup Sha] :
       /\ dir = [l \in Layer |-> IF l \in ReadOnly /\ pre[l] # NoSha
                                  THEN Complete(pre[l]) ELSE NoDir]
       /\ meta = [l \in Layer |-> IF l \in ReadOnly /\ pre[l] # NoSha
                                   THEN [rev |-> 1, sha |-> pre[l]] ELSE EmptyMeta]
  /\ glock = NoProc
  /\ last = [p \in Proc |-> [l \in Layer |-> NoRev]]
  /\ mutex = [p \in Proc |-> [l \in Layer |-> NoTask]]
  /\ pc = [t \in Task |-> "idle"]
  /\ want = [t \in Task |-> NoSha]
  /\ at = [t \in Task |-> 1]
  /\ fetchfn = [t \in Task |-> FALSE]
  /\ seen = [t \in Task |-> EmptyMeta]
  /\ tmp = [t \in Task |-> NoSha]
  /\ res = [t \in Task |-> "none"]
  /\ detached = {}
  /\ begun = 0
  /\ failed = FALSE

TasksOf(p) == {t \in Task : ProcOf[t] = p}
Here(t) == dir[at[t]]

-----------------------------------------------------------------------------
(* The global lock *)

\* Defect: the lock is taken for reading, which several processes may do.
AcquireGlobalLockShared(p) ==
  /\ p \in Installer
  /\ glock' = p
  /\ UNCHANGED <<dir, meta, last, mutex, pc, want, at, fetchfn, seen, tmp, res,
                 detached, begun, failed>>

\* acquire_global_lock: an exclusive lock on .cache.lock of the first
\* writable layer.
AcquireGlobalLock(p) ==
  /\ p \in Installer
  /\ glock = NoProc
  /\ glock' = p
  /\ UNCHANGED <<dir, meta, last, mutex, pc, want, at, fetchfn, seen, tmp, res,
                 detached, begun, failed>>

\* Defect: the lock is dropped once nobody writes to the cache, before the
\* packages are linked.
ReleaseGlobalLockEarly(p) ==
  /\ glock = p
  /\ \A t \in TasksOf(p) \ detached : pc[t] \in {"idle", "use"}
  /\ glock' = NoProc
  /\ UNCHANGED <<dir, meta, last, mutex, pc, want, at, fetchfn, seen, tmp, res,
                 detached, begun, failed>>

\* The installation ends: CacheGlobalLock is dropped.
ReleaseGlobalLock(p) ==
  /\ glock = p
  /\ \A t \in TasksOf(p) \ detached : pc[t] = "idle"
  /\ glock' = NoProc
  /\ UNCHANGED <<dir, meta, last, mutex, pc, want, at, fetchfn, seen, tmp, res,
                 detached, begun, failed>>

\* install() returns early with an error.  The futures it polled itself are
\* dropped, but populate_cache runs in tokio::spawn: dropping the JoinHandle
\* detaches the task, which goes on without the lock.
InstallReturnsEarly(p) ==
  /\ MayDetach
  /\ glock = p
  /\ \E t \in TasksOf(p) : pc[t] \notin {"idle", "use"}
  /\ glock' = NoProc
  /\ pc' = [t \in Task |-> IF ProcOf[t] = p /\ pc[t] = "use" THEN "idle" ELSE pc[t]]
  /\ detached' = detached \cup {t \in TasksOf(p) : pc[t] \notin {"idle", "use"}}
  /\ UNCHANGED <<dir, meta, last, mutex, want, at, fetchfn, seen, tmp, res, begun, failed>>

-----------------------------------------------------------------------------
(* get_or_fetch: the walk over the layers *)

\* A call begins with the first layer.  A task that was left behind makes no
\* other call.
GetOrFetch(t, s) ==
  /\ begun < MaxRequests
  /\ pc[t] = "idle" /\ t \notin detached
  /\ ProcOf[t] \in Installer => glock = ProcOf[t]
  /\ begun' = begun + 1
  /\ pc' = [pc EXCEPT ![t] = "scan"]
  /\ want' = [want EXCEPT ![t] = s]
  /\ at' = [at EXCEPT ![t] = 1]
  /\ res' = [res EXCEPT ![t] = "none"]
  /\ UNCHANGED <<dir, meta, glock, last, mutex, fetchfn, seen, tmp, detached, failed>>

Goto(t, label) == pc' = [pc EXCEPT ![t] = label]

\* Defect: read-only layers are not consulted.
ScanLayerWritable(t) ==
  /\ pc[t] = "scan" /\ at[t] <= NLayers
  /\ IF at[t] \in Accepting[want[t]] \ ReadOnly /\ Here(t) # NoDir
     THEN Goto(t, "lock") /\ UNCHANGED at
     ELSE at' = [at EXCEPT ![t] = @ + 1] /\ UNCHANGED pc
  /\ fetchfn' = [fetchfn EXCEPT ![t] = FALSE]
  /\ UNCHANGED <<dir, meta, glock, last, mutex, want, seen, tmp, res, detached, begun, failed>>

\* An accepting layer with the directory on disk is tried, any other skipped.
ScanLayer(t) ==
  /\ pc[t] = "scan" /\ at[t] <= NLayers
  /\ IF at[t] \in Accepting[want[t]] /\ Here(t) # NoDir
     THEN Goto(t, "lock") /\ UNCHANGED at
     ELSE at' = [at EXCEPT ![t] = @ + 1] /\ UNCHANGED pc
  /\ fetchfn' = [fetchfn EXCEPT ![t] = FALSE]
  /\ UNCHANGED <<dir, meta, glock, last, mutex, want, seen, tmp, res, detached, begun, failed>>

\* The layers the package may be written to.
Writable(t) == Accepting[want[t]] \ ReadOnly

\* No layer has it: the first of those, if there is one.
ChooseLayer(t) ==
  /\ pc[t] = "scan" /\ at[t] > NLayers
  /\ \/ \E l \in Writable(t) :
          /\ \A k \in Writable(t) : l <= k
          /\ at' = [at EXCEPT ![t] = l]
          /\ Goto(t, "lock")
          /\ UNCHANGED res
     \/ /\ Writable(t) = {}
        /\ Goto(t, "idle")
        /\ res' = [res EXCEPT ![t] = "no_writable_layers"]
        /\ UNCHANGED at
  /\ fetchfn' = [fetchfn EXCEPT ![t] = TRUE]
  /\ UNCHANGED <<dir, meta, glock, last, mutex, want, seen, tmp, detached, begun, failed>>

-----------------------------------------------------------------------------
(* try_validate, validate_or_fetch, validate_package_common *)

\* Defect: the tasks of a process do not share the entry of the bucket.
LockEntryUnshared(t) ==
  /\ pc[t] = "lock"
  /\ mutex' = [mutex EXCEPT ![ProcOf[t]][at[t]] = t]
  /\ Goto(t, "read")
  /\ UNCHANGED <<dir, meta, glock, last, want, at, fetchfn, seen, tmp, res, detached, begun, failed>>

\* The entry of the bucket is locked for the whole of the validation.
LockEntry(t) ==
  /\ pc[t] = "lock"
  /\ mutex[ProcOf[t]][at[t]] = NoTask
  /\ mutex' = [mutex EXCEPT ![ProcOf[t]][at[t]] = t]
  /\ Goto(t, "read")
  /\ UNCHANGED <<dir, meta, glock, last, want, at, fetchfn, seen, tmp, res, detached, begun, failed>>

UnlockEntry(t) == mutex' = [mutex EXCEPT ![ProcOf[t]][at[t]] = NoTask]

\* Defect: an error path keeps the entry locked.
FailKeepsEntry(t, error) ==
  /\ Goto(t, "idle")
  /\ res' = [res EXCEPT ![t] = error]
  /\ UNCHANGED mutex

\* The call ends with an error.
Fail(t, error) ==
  /\ UnlockEntry(t)
  /\ Goto(t, "idle")
  /\ res' = [res EXCEPT ![t] = error]

\* The call ends with CacheMetadata of revision r, and the caller goes on to
\* use the directory; nobody is left to use the result of a detached task.
Succeed(t, r) ==
  /\ UnlockEntry(t)
  /\ last' = [last EXCEPT ![ProcOf[t]][at[t]] = r]
  /\ Goto(t, IF t \in detached THEN "idle" ELSE "use")
  /\ res' = [res EXCEPT ![t] = "ok"]

\* CacheMetadataFile::acquire opens for reading and writing, which a
\* read-only mount refuses; then read_revision and read_sha256.
ReadMetadata(t) ==
  /\ pc[t] = "read"
  /\ \/ at[t] \in RoMount /\ Fail(t, "lock_error") /\ UNCHANGED seen
     \/ /\ at[t] \notin RoMount
        /\ seen' = [seen EXCEPT ![t] = meta[at[t]]]
        /\ Goto(t, "check")
        /\ UNCHANGED <<mutex, res>>
  /\ UNCHANGED <<dir, meta, glock, last, want, at, fetchfn, tmp, detached, begun, failed>>

\* Defect: the recorded hash is not looked at.
Sha256MismatchNever(wanted, cached) == FALSE

\* A mismatch requires both hashes to be known.
Sha256Mismatch(wanted, cached) ==
  wanted # NoSha /\ cached # NoSha /\ wanted # cached

\* validate_package_directory reads index.json and paths.json; Fast and Full
\* also look at every file that paths.json lists, Skip at none.
Validates(d) ==
  \/ d.state \in {"complete", "trimmed"}
  \/ d.state = "gutted" /\ Mode = "Skip"

\* Defect: the remembered revision is not compared with the one on disk.
UsableIfRemembered(t) ==
  /\ Here(t) # NoDir
  /\ ~Sha256Mismatch(want[t], seen[t].sha)
  /\ last[ProcOf[t]][at[t]] # NoRev \/ Validates(Here(t))

\* Valid at once if the revision is the remembered one, else by validation.
Usable(t) ==
  /\ Here(t) # NoDir
  /\ ~Sha256Mismatch(want[t], seen[t].sha)
  /\ last[ProcOf[t]][at[t]] = seen[t].rev \/ Validates(Here(t))

\* What is found decides: return it, fetch it anew, or try the next layer.
CheckEntry(t) ==
  /\ pc[t] = "check"
  /\ IF Usable(t)
     THEN Succeed(t, seen[t].rev) /\ UNCHANGED at
     ELSE /\ UNCHANGED <<last, res>>
          /\ IF fetchfn[t]
             THEN Goto(t, "rev") /\ UNCHANGED <<mutex, at>>
             ELSE \* InvalidPackage: try the next layer
                  /\ UnlockEntry(t)
                  /\ Goto(t, "scan")
                  /\ at' = [at EXCEPT ![t] = @ + 1]
  /\ UNCHANGED <<dir, meta, glock, want, fetchfn, seen, tmp, detached, begun, failed>>

-----------------------------------------------------------------------------
(* Fetching *)

\* Defect: the revision is left alone when a package is fetched again.
WriteRevisionKept(t) ==
  /\ pc[t] = "rev"
  /\ Goto(t, "sha")
  /\ UNCHANGED <<dir, meta, glock, last, mutex, want, at, fetchfn, seen, tmp, res,
                 detached, begun, failed>>

\* write_revision_and_sha: first the revision, counted up from the one read ...
WriteRevision(t) ==
  /\ pc[t] = "rev"
  /\ meta' = [meta EXCEPT ![at[t]] = [rev |-> seen[t].rev + 1, sha |-> @.sha]]
  /\ Goto(t, "sha")
  /\ UNCHANGED <<dir, glock, last, mutex, want, at, fetchfn, seen, tmp, res, detached, begun, failed>>

\* ... then the sha256 of the request; set_len cuts off an old one.
WriteSha(t) ==
  /\ pc[t] = "sha"
  /\ meta' = [meta EXCEPT ![at[t]] = [rev |-> @.rev, sha |-> want[t]]]
  /\ Goto(t, "permit")
  /\ UNCHANGED <<dir, glock, last, mutex, want, at, fetchfn, seen, tmp, res, detached, begun, failed>>

\* The fetch waits for a permit and extracts into a temporary directory.
StartFetch(t) ==
  /\ pc[t] = "permit"
  /\ Cardinality({u \in TasksOf(ProcOf[t]) : pc[u] = "fetch"}) < Permits
  /\ Goto(t, "fetch")
  /\ UNCHANGED <<dir, meta, glock, last, mutex, want, at, fetchfn, seen, tmp, res,
                 detached, begun, failed>>

\* The archive arrived and, if the request carries a sha256, has that one.
\* Without one, whatever the origin serves is accepted.
FetchOk(t) ==
  /\ pc[t] = "fetch"
  /\ \E s \in (IF want[t] = NoSha THEN Sha ELSE {want[t]}) :
       tmp' = [tmp EXCEPT ![t] = s]
  /\ Goto(t, "remove")
  /\ UNCHANGED <<dir, meta, glock, last, mutex, want, at, fetchfn, seen, res, detached, begun, failed>>

\* Download, retries, extraction or hash check failed: the temporary
\* directory is dropped, the metadata stays as written.
FetchErr(t) ==
  /\ FetchMayFail
  /\ pc[t] = "fetch"
  /\ Fail(t, "fetch_error")
  /\ failed' = TRUE
  /\ UNCHANGED <<dir, meta, glock, last, want, at, fetchfn, seen, tmp, detached, begun>>

\* remove_dir_all of what is there, file by file ...
RemoveOld(t) ==
  /\ pc[t] = "remove"
  /\ IF Here(t) = NoDir
     THEN Goto(t, "rename") /\ UNCHANGED dir
     ELSE /\ Goto(t, "removing")
          /\ \E left \in Remains[Here(t).state] :
               dir' = [dir EXCEPT ![at[t]] = [sha |-> @.sha, state |-> left]]
  /\ UNCHANGED <<meta, glock, last, mutex, want, at, fetchfn, seen, tmp, res, detached, begun, failed>>

\* ... until it is gone.
RemovedOld(t) ==
  /\ pc[t] = "removing"
  /\ dir' = [dir EXCEPT ![at[t]] = NoDir]
  /\ Goto(t, "rename")
  /\ UNCHANGED <<meta, glock, last, mutex, want, at, fetchfn, seen, tmp, res, detached, begun, failed>>

\* The temporary directory is renamed into place, which fails if a directory
\* has appeared there.
Rename(t) ==
  /\ pc[t] = "rename"
  /\ \/ /\ Here(t) = NoDir
        /\ dir' = [dir EXCEPT ![at[t]] = Complete(tmp[t])]
        /\ Succeed(t, seen[t].rev + 1)
     \/ /\ Here(t) # NoDir
        /\ Fail(t, "other_error")
        /\ UNCHANGED <<dir, last>>
  /\ UNCHANGED <<meta, glock, want, at, fetchfn, seen, tmp, detached, begun, failed>>

\* The caller is done with the directory (the package is linked).
EndUse(t) ==
  /\ pc[t] = "use"
  /\ Goto(t, "idle")
  /\ UNCHANGED <<dir, meta, glock, last, mutex, want, at, fetchfn, seen, tmp, res,
                 detached, begun, failed>>

\* The process dies: its memory and locks are gone, the disk stays.
Crash(p) ==
  /\ MayCrash
  /\ \E t \in TasksOf(p) : pc[t] # "idle"
  /\ glock' = IF glock = p THEN NoProc ELSE glock
  /\ last' = [last EXCEPT ![p] = [l \in Layer |-> NoRev]]
  /\ mutex' = [mutex EXCEPT ![p] = [l \in Layer |-> NoTask]]
  /\ pc' = [t \in Task |-> IF ProcOf[t] = p THEN "idle" ELSE pc[t]]
  /\ UNCHANGED <<dir, meta, want, at, fetchfn, seen, tmp, res, detached, begun, failed>>

Step(t) ==
  \/ ScanLayer(t) \/ ChooseLayer(t) \/ LockEntry(t) \/ ReadMetadata(t) \/ CheckEntry(t)
  \/ WriteRevision(t) \/ WriteSha(t) \/ StartFetch(t) \/ FetchOk(t) \/ FetchErr(t)
  \/ RemoveOld(t) \/ RemovedOld(t) \/ Rename(t) \/ EndUse(t)

Next ==
  \/ \E p \in Proc : \/ AcquireGlobalLock(p) \/ ReleaseGlobalLock(p)
                     \/ InstallReturnsEarly(p) \/ Crash(p)
  \/ \E t \in Task : Step(t) \/ \E s \in Want[t] : GetOrFetch(t, s)

Spec == Init /\ [][Next]_vars

(* Tasks are polled until they end, and downloads end.  Nobody has to call, *)
(* crash or return early.  As calls are finitely many, a task that waits for *)
(* an entry or a permit needs no more than that.                            *)
Fairness == /\ \A t \in Task : WF_vars(Step(t))
            /\ \A p \in Proc : WF_vars(ReleaseGlobalLock(p))
FairSpec == Spec /\ Fairness

-----------------------------------------------------------------------------
(* Properties *)

Label == {"idle", "scan", "lock", "read", "check", "rev", "sha", "permit", "fetch",
          "remove", "removing", "rename", "use"}

\* Every variable keeps its type.
TypeOK ==
  /\ dir \in [Layer -> Dir]
  /\ meta \in [Layer -> [rev : Nat, sha : Sha \cup {NoSha}]]
  /\ glock \in Proc \cup {NoProc}
  /\ last \in [Proc -> [Layer -> Nat \cup {NoRev}]]
  /\ mutex \in [Proc -> [Layer -> Task \cup {NoTask}]]
  /\ pc \in [Task -> Label]
  /\ want \in [Task -> Sha \cup {NoSha}]
  /\ at \in [Task -> 1..(NLayers + 1)]
  /\ fetchfn \in [Task -> BOOLEAN]
  /\ seen \in [Task -> [rev : Nat, sha : Sha \cup {NoSha}]]
  /\ tmp \in [Task -> Sha \cup {NoSha}]
  /\ res \in [Task -> {"none", "ok", "fetch_error", "lock_error", "other_error",
                       "no_writable_layers"}]
  /\ detached \subseteq Task
  /\ begun \in 0..MaxRequests
  /\ failed \in BOOLEAN

Locked(t) == pc[t] \in {"read", "check", "rev", "sha", "permit", "fetch", "remove",
                        "removing", "rename"}
Writing(t) == pc[t] \in {"sha", "permit", "fetch", "remove", "removing", "rename"}

\* "Since we hold the global cache lock, we can safely update the metadata and
\* fetch the package without worrying about concurrent modifications": two
\* tasks of installations that hold it never replace the same directory at the
\* same time.
WritersExclusive ==
  \A t, u \in Task \ detached : (Writing(t) /\ Writing(u) /\ at[t] = at[u]) => t = u

\* The async mutex of the entry alone: without any file lock, two tasks of one
\* process never replace the same directory at the same time.
EntryMutexExclusive ==
  \A t, u \in Task :
    (Writing(t) /\ Writing(u) /\ at[t] = at[u] /\ ProcOf[t] = ProcOf[u]) => t = u

\* No installation has left a task behind that goes on without the lock.
AllAwaited == detached = {}

\* A directory that is handed out has all its files for as long as it is used,
\* although nobody looks at them in the default mode Skip.
ServedComplete ==
  AllAwaited => \A t \in Task : pc[t] = "use" => Here(t).state = "complete"

\* Whatever failed or crashed before, a directory that is handed out passes the
\* validation of the mode for as long as it is used.
ServedValid ==
  AllAwaited => \A t \in Task : pc[t] = "use" => Validates(Here(t))

\* The sha256 of the request identifies the package: packages that share the
\* name, version and build string do not collide in the cache.
ServedMatches ==
  AllAwaited => \A t \in Task : (pc[t] = "use" /\ want[t] # NoSha) => Here(t).sha = want[t]

\* They do not as long as no download has failed.
ServedMatchesUnlessFailed == failed \/ ServedMatches

\* The shortcut on the remembered revision is sound: where it is taken, the
\* validation it replaces would have passed, also when the directory was
\* replaced or left half removed since it was looked at.
KnownRevisionIsValid ==
  AllAwaited => \A p \in Proc, l \in Layer : last[p][l] = meta[l].rev => Validates(dir[l])

\* As long as no download has failed, a fetch is started only if no accepting
\* layer already holds the package.
FetchOnlyWhenNeeded ==
  AllAwaited /\ ~failed =>
    \A t \in Task : pc[t] \in {"rev", "sha", "permit", "fetch"} =>
      \A l \in Accepting[want[t]] : dir[l].state = "complete" =>
                             want[t] # NoSha /\ dir[l].sha # want[t]

\* The revision of an entry only grows, so a remembered one is never reused.
RevisionGrows == [][\A l \in Layer : meta'[l].rev >= meta[l].rev]_vars

\* Every call of get_or_fetch ends.
CallsEnd == \A t \in Task : pc[t] = "scan" ~> pc[t] \in {"idle", "use"}
=============================================================================
