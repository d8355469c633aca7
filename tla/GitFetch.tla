------------------------------- MODULE GitFetch -------------------------------
(***************************************************************************)
(* Git sources (rattler_git): GitResolver::fetch and GitSource::fetch for  *)
(* one branch of one repository, called by tasks of several processes that *)
(* share a cache.  The cache has one database, a clone of the remote, and  *)
(* one checkout per commit.  A guard file keeps the tasks apart; of it     *)
(* only the lock counts, as nobody reads its state here.                   *)
(*                                                                         *)
(* Commits are numbered.  The branch moves, with or without force, the     *)
(* remote may be out of reach, processes die at any step, and the database *)
(* may lose objects, which fetch alone cannot repair.  LFS is not asked    *)
(* for.                                                                    *)
(***************************************************************************)
EXTENDS Integers, FiniteSets

CONSTANTS
  Process, Task, NoTask,
  TasksOf,       \* the tasks of a process
  MaxCommit,     \* bound: commits of the branch
  MaxFetch,      \* bound: calls of fetch
  MaxCrash,      \* bound: processes that die
  MaxDamage,     \* bound: times the database loses objects
  RemoteMayFail  \* the remote may be out of reach

ASSUME GitAssumption ==
  /\ NoTask \notin Task /\ TasksOf \in [Process -> SUBSET Task]
  /\ \A t \in Task : \E p \in Process : t \in TasksOf[p]
  /\ {MaxCommit, MaxFetch, MaxCrash, MaxDamage} \subseteq Nat /\ MaxCommit > 0
  /\ RemoteMayFail \in BOOLEAN

VARIABLES
  head,       \* the commit of the branch
  offered,    \* commits that the remote can send
  resolver,   \* per process: the commit the branch was resolved to, 0 if not yet
  lock,       \* the task that holds the guard
  db,         \* [state, has, connected, locked: lock files of a git that was killed]
  checkout,   \* per commit: is it there, does it have the marker .ok, is it really whole
  pc,         \* per task
  precise,    \* the commit that is asked for, 0 for the branch
  rev,        \* actual_rev
  rebuilt,    \* the database has been rebuilt after a failed checkout
  adrift,     \* tasks whose future was dropped while the blocking thread runs
  excused,    \* something out of reach of the code went wrong for the task
  needless,   \* a fetch failed although nothing was in its way
  answers,    \* per process: commits that were returned
  fetches, crashes, damages

remote == <<head, offered>>
disk == <<db, checkout>>
counters == <<fetches, crashes, damages>>
vars == <<remote, resolver, lock, disk, pc, precise, rev, rebuilt, adrift, excused, needless,
          answers, counters>>

Commit == 1..MaxCommit
ProcessOf(t) == CHOOSE p \in Process : t \in TasksOf[p]

\* torn: a directory that is half removed, or half written.
NoDb == [state |-> "none", has |-> {}, connected |-> TRUE, locked |-> FALSE]
Torn == [state |-> "torn", has |-> {}, connected |-> FALSE, locked |-> FALSE]
NoCheckout == [there |-> FALSE, ok |-> FALSE, whole |-> FALSE]

Init ==
  /\ head = 1 /\ offered = {1}
  /\ resolver = [p \in Process |-> 0] /\ lock = NoTask
  /\ db = NoDb /\ checkout = [c \in Commit |-> NoCheckout]
  /\ pc = [t \in Task |-> "idle"] /\ precise = [t \in Task |-> 0] /\ rev = [t \in Task |-> 0]
  /\ rebuilt = [t \in Task |-> FALSE] /\ adrift = {}
  /\ excused = [t \in Task |-> FALSE] /\ needless = FALSE
  /\ answers = [p \in Process |-> {}]
  /\ fetches = 0 /\ crashes = 0 /\ damages = 0

-----------------------------------------------------------------------------
(* The world *)

\* The branch moves; with force the commits before are lost.
Push(force) ==
  /\ head < MaxCommit
  /\ head' = head + 1
  /\ offered' = IF force THEN {head + 1} ELSE offered \cup {head + 1}
  /\ UNCHANGED <<resolver, lock, disk, pc, precise, rev, rebuilt, adrift, excused, needless,
                 answers, counters>>

\* The database loses objects.  A fetch that has rebuilt it does not do so again.
LoseObjects ==
  /\ db.state = "valid" /\ db.connected /\ damages < MaxDamage
  /\ damages' = damages + 1
  /\ db' = [db EXCEPT !.connected = FALSE]
  /\ excused' = [t \in Task |-> excused[t] \/ rebuilt[t]]
  /\ UNCHANGED <<remote, resolver, lock, checkout, pc, precise, rev, rebuilt, adrift, needless,
                 answers, fetches, crashes>>

-----------------------------------------------------------------------------
(* GitResolver::fetch *)

Go(t, step) == pc' = [pc EXCEPT ![t] = step]

\* The commit is looked up before there is a lock.
Fetch(t) ==
  /\ pc[t] = "idle" /\ fetches < MaxFetch
  /\ fetches' = fetches + 1
  /\ precise' = [precise EXCEPT ![t] = resolver[ProcessOf(t)]]
  /\ Go(t, "lock")
  /\ UNCHANGED <<remote, resolver, lock, disk, rev, rebuilt, adrift, excused, needless, answers,
                 crashes, damages>>

Lock(t) ==
  /\ pc[t] = "lock" /\ lock = NoTask
  /\ lock' = t /\ Go(t, "open")
  /\ UNCHANGED <<remote, resolver, disk, precise, rev, rebuilt, adrift, excused, needless,
                 answers, counters>>

Forget(t) ==
  /\ precise' = [precise EXCEPT ![t] = 0] /\ rev' = [rev EXCEPT ![t] = 0]
  /\ rebuilt' = [rebuilt EXCEPT ![t] = FALSE] /\ excused' = [excused EXCEPT ![t] = FALSE]
  /\ adrift' = adrift \ {t}

\* Defect: the guard is kept when a fetch fails.
UnlockIfDone(t) == lock' = IF lock = t /\ pc[t] = "finish" THEN NoTask ELSE lock

\* The guard is dropped with the future.
Unlock(t) == lock' = IF lock = t THEN NoTask ELSE lock

\* An error is returned.
Fail(t, cause) ==
  /\ Go(t, "idle") /\ Unlock(t) /\ Forget(t)
  /\ needless' = (needless \/ ~(cause \/ excused[t]))
  /\ UNCHANGED <<resolver, answers>>

\* A step that fails nothing, of the lock holder.
Proceed(t, step) ==
  /\ Go(t, step)
  /\ UNCHANGED <<resolver, lock, precise, adrift, needless, answers>>

Insert(t) ==
  /\ pc[t] = "insert"
  /\ resolver' = IF t \in adrift THEN resolver ELSE [resolver EXCEPT ![ProcessOf(t)] = rev[t]]
  /\ Go(t, "finish")
  /\ UNCHANGED <<remote, lock, disk, precise, rev, rebuilt, adrift, excused, needless, answers,
                 counters>>

\* write_guard.finish, and the fetch is returned.
Finish(t) ==
  /\ pc[t] = "finish"
  /\ answers' = IF t \in adrift THEN answers
                ELSE [answers EXCEPT ![ProcessOf(t)] = @ \cup {rev[t]}]
  /\ Go(t, "idle") /\ Unlock(t) /\ Forget(t)
  /\ UNCHANGED <<remote, resolver, disk, needless, counters>>

-----------------------------------------------------------------------------
(* GitSource::fetch: the database *)

\* What git fetch is asked for.
Wanted(t) == IF precise[t] # 0 THEN precise[t] ELSE head
Sent(t) == Wanted(t) \in offered

\* db_at, and the cache hit.  A torn database may or may not open.
OpenDb(t) ==
  /\ pc[t] = "open"
  /\ \E opens \in IF db.state = "torn" THEN BOOLEAN ELSE {db.state = "valid"} :
       IF opens /\ precise[t] # 0 /\ precise[t] \in db.has
       THEN Proceed(t, "copy") /\ rev' = [rev EXCEPT ![t] = precise[t]]
       ELSE Proceed(t, IF opens THEN "fetch" ELSE "populate") /\ UNCHANGED rev
  /\ UNCHANGED <<remote, disk, rebuilt, excused, counters>>

\* A database that misses objects is rebuilt, any other error is returned.
CannotFetch(t, cause) ==
  IF db.connected THEN Fail(t, cause)
  ELSE /\ Proceed(t, "populate")
       /\ excused' = [excused EXCEPT ![t] = @ \/ cause]
       /\ UNCHANGED <<rev, rebuilt>>

\* GitRemote::checkout into a database that is there.  Without some of its
\* objects git fails, unless there is nothing to transfer.  It may also fail on
\* lock files: if no object is missing that is the end, and counts as a cause.
FetchInto(t) ==
  /\ pc[t] = "fetch"
  /\ \/ /\ Sent(t) /\ (db.connected \/ Wanted(t) \in db.has)
        /\ db' = [db EXCEPT !.has = @ \cup {Wanted(t)}]
        /\ rev' = [rev EXCEPT ![t] = Wanted(t)]
        /\ Proceed(t, "copy")
        /\ UNCHANGED <<rebuilt, excused>>
     \/ /\ Sent(t) /\ ~db.connected /\ Wanted(t) \notin db.has
        /\ CannotFetch(t, FALSE)
        /\ UNCHANGED db
     \/ /\ ~Sent(t) \/ RemoteMayFail
        /\ CannotFetch(t, TRUE)
        /\ UNCHANGED db
     \/ /\ db.locked
        /\ CannotFetch(t, db.connected)
        /\ UNCHANGED db
  /\ UNCHANGED <<remote, checkout, counters>>

\* populate: a new database in a staging directory.
Populate(t) ==
  /\ pc[t] = "populate"
  /\ \/ /\ Sent(t)
        /\ rev' = [rev EXCEPT ![t] = Wanted(t)]
        /\ Proceed(t, "remove")
        /\ UNCHANGED <<rebuilt, excused>>
     \/ /\ ~Sent(t) \/ RemoteMayFail
        /\ Fail(t, TRUE)
  /\ UNCHANGED <<remote, disk, counters>>

\* The old database is removed, file by file, ...
RemoveDb(t) ==
  /\ pc[t] = "remove"
  /\ db' = IF db.state = "none" THEN db ELSE Torn
  /\ Proceed(t, "rename")
  /\ UNCHANGED <<remote, checkout, rev, rebuilt, excused, counters>>

\* ... and the new one takes its place.
RenameDb(t) ==
  /\ pc[t] = "rename"
  /\ db' = [state |-> "valid", has |-> {rev[t]}, connected |-> TRUE, locked |-> FALSE]
  /\ Proceed(t, "copy")
  /\ UNCHANGED <<remote, checkout, rev, rebuilt, excused, counters>>

-----------------------------------------------------------------------------
(* GitSource::fetch: the checkout *)

\* Defect: HEAD alone tells that a checkout is done.
IsFreshByHead(c) == checkout[c].there

IsFresh(c) == checkout[c].ok

\* copy_to: a fresh checkout is used, another one is removed.
CopyTo(t) ==
  /\ pc[t] = "copy"
  /\ IF IsFresh(rev[t]) THEN Proceed(t, "insert") /\ UNCHANGED checkout
     ELSE Proceed(t, "clone") /\ checkout' = [checkout EXCEPT ![rev[t]] = NoCheckout]
  /\ UNCHANGED <<remote, db, rev, rebuilt, excused, counters>>

\* Defect: a checkout that fails is the end.
CannotCopyFails(t, cause) == Fail(t, cause)

\* The first time a checkout fails from a database that misses objects, the
\* database is rebuilt.
CannotCopy(t, cause) ==
  IF db.connected \/ rebuilt[t] THEN Fail(t, cause)
  ELSE /\ Proceed(t, "populate")
       /\ rebuilt' = [rebuilt EXCEPT ![t] = TRUE]
       /\ excused' = [excused EXCEPT ![t] = @ \/ cause]
       /\ UNCHANGED rev

\* A clone needs all the objects the refs of the database point at.
CloneInto(t) ==
  /\ pc[t] = "clone"
  /\ IF db.connected /\ rev[t] \in db.has
     THEN /\ checkout' = [checkout EXCEPT ![rev[t]].there = TRUE]
          /\ Proceed(t, "reset")
          /\ UNCHANGED <<rev, rebuilt, excused>>
     ELSE CannotCopy(t, FALSE) /\ UNCHANGED checkout
  /\ UNCHANGED <<remote, db, counters>>

\* reset --hard and the submodules, which may fail for their own reasons.
Reset(t) ==
  /\ pc[t] = "reset"
  /\ \/ /\ checkout' = [checkout EXCEPT ![rev[t]].whole = TRUE]
        /\ Proceed(t, "mark")
        /\ UNCHANGED <<rev, rebuilt, excused>>
     \/ /\ RemoteMayFail
        /\ CannotCopy(t, TRUE)
        /\ UNCHANGED checkout
  /\ UNCHANGED <<remote, db, counters>>

\* The file .ok is created in whatever is there.
MarkReady(t) ==
  /\ pc[t] = "mark"
  /\ checkout' = [checkout EXCEPT ![rev[t]].ok = TRUE]
  /\ Proceed(t, "insert")
  /\ UNCHANGED <<remote, db, rev, rebuilt, excused, counters>>

-----------------------------------------------------------------------------

\* git fetch writes into the database.  Killed on the way it has or has not
\* got the commit, and leaves its lock files.
KillGit(t) ==
  /\ pc[t] = "fetch"
  /\ \E got \in SUBSET (IF Sent(t) /\ db.connected THEN {Wanted(t)} ELSE {}) :
       db' = [db EXCEPT !.has = @ \cup got, !.locked = TRUE]

\* A process dies, with all of its tasks.
Crash(p) ==
  LET ts == TasksOf[p] IN
  /\ crashes < MaxCrash /\ \E t \in ts : pc[t] # "idle"
  /\ crashes' = crashes + 1
  /\ pc' = [t \in Task |-> IF t \in ts THEN "idle" ELSE pc[t]]
  /\ lock' = IF lock \in ts THEN NoTask ELSE lock
  /\ precise' = [t \in Task |-> IF t \in ts THEN 0 ELSE precise[t]]
  /\ rev' = [t \in Task |-> IF t \in ts THEN 0 ELSE rev[t]]
  /\ rebuilt' = [t \in Task |-> t \notin ts /\ rebuilt[t]]
  /\ excused' = [t \in Task |-> t \notin ts /\ excused[t]]
  /\ adrift' = adrift \ ts
  /\ resolver' = [resolver EXCEPT ![p] = 0] /\ answers' = [answers EXCEPT ![p] = {}]
  /\ UNCHANGED db \/ \E t \in ts : KillGit(t)
  /\ UNCHANGED <<remote, checkout, needless, fetches, damages>>

\* The future is dropped: the guard with it, while the blocking thread goes on.
DropFuture(t) ==
  /\ pc[t] \notin {"idle", "lock", "finish"} /\ t \notin adrift
  /\ adrift' = adrift \cup {t} /\ Unlock(t)
  /\ UNCHANGED <<remote, resolver, disk, pc, precise, rev, rebuilt, excused, needless, answers,
                 counters>>

Step(t) ==
  \/ Lock(t) \/ OpenDb(t) \/ FetchInto(t) \/ Populate(t) \/ RemoveDb(t) \/ RenameDb(t)
  \/ CopyTo(t) \/ CloneInto(t) \/ Reset(t) \/ MarkReady(t) \/ Insert(t) \/ Finish(t)

Next ==
  \/ \E force \in BOOLEAN : Push(force)
  \/ LoseObjects
  \/ \E p \in Process : Crash(p)
  \/ \E t \in Task : Fetch(t) \/ Step(t)

Spec == Init /\ [][Next]_vars

\* git commands end; the number of callers is finite, so the lock is got.
FairSpec == Spec /\ \A t \in Task : WF_vars(Step(t))

\* Callers may also give up waiting.  ReturnedIsWhole does not hold then: the
\* thread goes on without the guard.
DroppingSpec == Init /\ [][Next \/ \E t \in Task : DropFuture(t)]_vars

-----------------------------------------------------------------------------
(* Properties *)

\* Every variable keeps its type.
TypeOK ==
  /\ head \in Commit /\ offered \subseteq Commit /\ db.has \subseteq Commit
  /\ checkout \in [Commit -> [there : BOOLEAN, ok : BOOLEAN, whole : BOOLEAN]]
  /\ lock \in Task \cup {NoTask} /\ rev \in [Task -> 0..MaxCommit]

\* A checkout that was returned is whole, and stays so while others fetch,
\* fail and die: it is neither removed nor written again.
ReturnedIsWhole ==
  \A p \in Process : \A c \in answers[p] : checkout[c].whole

\* What a death or a loss of objects leaves behind does not make a fetch fail
\* while the remote answers: the database and the checkout are made anew.  The
\* lock files of a git that was killed are an exception.
NoNeedlessFailure == ~needless

\* ... and this does not hold because of them (with RemoteMayFail = FALSE): a
\* fetch that fails in a database that misses nothing is not repaired.
DeathIsRepaired ==
  [][\A t \in Task : pc[t] = "fetch" /\ FetchInto(t) /\ Sent(t) => pc'[t] # "idle"]_vars

\* "ensure that all fetches within a single process are consistent".  This does
\* not hold: two calls may both look the branch up before either has inserted
\* what it resolved to, and the branch may move in between.
ProcessIsConsistent == \A p \in Process : Cardinality(answers[p]) <= 1

\* Every fetch ends: the guard is released on all paths.
FetchEnds == \A t \in Task : pc[t] = "lock" ~> pc[t] = "idle"
=============================================================================
