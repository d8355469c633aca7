# Verification of rattler

TLA+ models of the parts of rattler (a Rust library to fetch, cache and install conda
packages) whose correctness depends on the order in which things happen: callers that
share a computation, processes that share a cache, a repository or a channel, packages that
share files, detectors that share an environment, queries whose channels turn up while they
run. Each component is a module translated from the code, checked
with TLC on small instances; the main results are proved with TLAPS for every value of
the constants. Paths below are relative to `src/crates/`.

## 1. The system

rattler is a set of crates. An application resolves an environment with the *gateway*
(repodata of channels, loaded on demand) and a *solver*, and hands the resulting records
to the *installer*, which fetches archives through the *package cache* and links them
into a *prefix*.

| Component | State it keeps | Operations | Talks to |
|---|---|---|---|
| Coalescing map (`coalesced_map`) | per key a pending broadcast or a value | `get_or_try_init`, `get`, `retain`, `clear` | used by the gateway for subdirs and records |
| Barrier cell (`rattler_repodata_gateway/src/gateway/barrier_cell.rs`) | a write-once cell, an atomic state, a `Notify` | `set`, `wait` | gateway queries wait for subdirs |
| Package cache (`rattler_cache/src/package_cache`) | directories and metadata files in layers on disk; per process an entry mutex and a remembered revision; a global file lock | `get_or_fetch*`, `acquire_global_lock` | installer, run exports extractor |
| Path resolver (`path_resolver`) | a trie of paths with the packages that want them | `insert_package`, `unregister_package`, `reprioritize_packages`, `sync_clobbers` | clobber registry |
| Clobber registry and transaction (`rattler/src/install`) | the prefix, its `conda-meta` records, the registry | unlink, link, `post_process` | path resolver, package cache |
| Prefix guard (`rattler_prefix_guard`) | a guard file with a state, a file lock | `write`, `begin`, `finish`, drop | detector environments, git sources |
| Detector environments (`rattler_virtual_package_detectors`) | a prefix per digest, guarded | `ensure_environment` | prefix guard, installer |
| Repodata fetch (`rattler_repodata_gateway/src/fetch`) | repodata and a state file on disk, under a lock | `fetch_repo_data` | gateway |
| Gateway queries (`gateway/query.rs`) | names seen, active extras, fetches under way, buckets of records | `QueryExecutor::run` | coalescing map, barrier cell, channel relations |
| Channel relations (`gateway/channel_*.rs`) | channels found, their depth, edges between them | `observe`, `finalize`, `anchors` | gateway queries |
| Sharded repodata | an index and shards on disk | fetch | gateway |
| Git sources (`rattler_git`) | resolved references, a database, checkouts | `fetch` | prefix guard |
| Networking (`rattler_networking`) | mirror failure counts, tokens | middlewares | everything that downloads |
| Indexing (`rattler_index`) | the four index files of a subdirectory in object storage, a cache of records | `index_subdir`, `ensure_channel_initialized` | – |
| Versions, match specs, topological sort | none | pure algorithms | solver, installer |
| Solver, lock files, shells, menus, uploads, command line | none that is shared | translation, formats, I/O | external programs and services |

What is hard to test here:

* **interleavings** of tasks on a runtime, blocking threads and rayon jobs, and of
  processes that meet only in the file system;
* **futures that are dropped** while a thread works on for them, tasks and jobs that
  outlive the call that started them;
* **crashes** between two writes, and failures that leave one of several steps done;
* **remembered values** (revisions, candidates, records) that are used after the world
  has changed;
* **answers in any order**: metadata of channels, records, 304s and 404s, retries of what was
  half done;
* **long sequences** of transactions in which a wrong record is harmful only later.

`PROJECT.json` lists these hazards one by one, at the line where each bites, with the
properties that cover it.

What makes each component correct, in a sentence: the map never loses a waiter and never
serves a failure; the cell is written once and never read early; the cache never has two
writers of one directory and serves only what was asked for and passes validation; the prefix agrees
with its records and the last package in topological order wins a shared path; an
environment that is marked ready is complete and stays so; the cached repodata and its state
describe one response; a query returns the closure of what was asked for, in an order that
does not depend on who answered first; an index that was published is never replaced by an
older one; a git checkout that was returned is whole.

## 2. Modules

| Module | Models | Proofs | Instances |
|---|---|---|---|
| `CoalescedMap` | `coalesced_map/src/lib.rs` | `CoalescedMapProofs` | `MCCoalescedMap` |
| `AtomicMap` | what a coalescing map promises (abstract) | `CoalescedMapProofs` | through `CoalescedMap` |
| `BarrierCell` | `gateway/barrier_cell.rs` | `BarrierCellProofs` | `MCBarrierCell` |
| `PackageCache` | `package_cache/{mod,cache_lock}.rs`, the lock's use in `installer/mod.rs` | `PackageCacheProofs` | `MCPackageCache` |
| `PathTrie` | `path_resolver/src/lib.rs`, as operators | – | through `ClobberRegistry` |
| `ClobberRegistry` (extends `PathTrie`) | `install/{clobber_registry,driver,unlink,transaction,mod}.rs`, `installer/mod.rs` | – | `MCClobberRegistry` |
| `PrefixGuard` | `rattler_prefix_guard/src/lib.rs`, as actions | with its user | with its user |
| `DetectorEnvironment` (extends `PrefixGuard`) | `environment.rs` and what it uses of the installer | `DetectorEnvironmentProofs` | `MCDetectorEnvironment` |
| `RepodataFetch` | `fetch/with_cache.rs`, `fetch/cache`, `gateway/remote_subdir/tokio.rs` | `RepodataFetchProofs` | `MCRepodataFetch` |
| `ChannelExpander` | `gateway/{channel_expander,channel_relations}.rs`, the final ordering of `query.rs` | `GatewayQueryProofs` | through `GatewayQuery` |
| `GatewayQuery` (extends `ChannelExpander`) | `gateway/query.rs`, `gateway/channel_expansion.rs` | `GatewayQueryProofs` | `MCGatewayQuery` |
| `ChannelIndex` | `rattler_index/src/{lib,cache,utils}.rs` | `ChannelIndexProofs` | `MCChannelIndex` |
| `GitFetch` | `rattler_git/src/{resolver,source,git}.rs` | `GitFetchProofs` | `MCGitFetch` |

Every module has a type invariant `TypeOK`. The runs do not list it, to spend their time on
the properties; most proof modules prove it, and any configuration can add it.

Operators named after a fault and commented *Defect* are seeded faults: each stands in
for the definition that follows it and shows that a property notices.

### CoalescedMap

A key is vacant, pending on a broadcast channel, or fetched. The dashmap entry lock is the
grain of atomicity: `GetOrTryInit` is one look at the entry (return the value, subscribe, or
become the initializer); `InsertFetched` stores the value and `Publish` sends it, two steps
as in the code; `InitFails` and `CancelInit` drop the sender and leave the pending entry
behind, which the next caller takes over because the `Weak` no longer upgrades. `Receive`,
`CancelWait`, `Get`, `RetainRejects` and `Clear` are the rest of the interface. Initializations are
numbered by their channel; `displaced`, `floor` and `asked` are auxiliary and only record
which of them a `retain` has overtaken.

`AtomicMap` is what callers may rely on: a map that is read and written in single steps. A
call that finds no value returns one that was put into the map while the call was under way,
or nothing; a value enters the map once, and what was dropped never comes back. The refinement
mapping is at the end of `CoalescedMap`: an entry is a value once it is fetched, a call is
under way while its caller initializes or waits, and its answer is chosen at the instant of
`InsertFetched`, before anybody has received it. `ImplementsAtomicMap` is the abstract
specification under that mapping.

### BarrierCell

`set` is the compare-exchange, a write of the value in two halves (so a reader that is too
early can see a torn value), the store of the state, and `notify_waiters`. `wait` creates its
`Notified`, loads the state, and awaits or reads. tokio's `Notify` is external: whoever has
created its future before `notify_waiters` is woken.

### PackageCache

One bucket (name, version and build string) of a cache with layers, shared by processes.
Archives are identified by their sha256; two archives may share the bucket. `dir` and `meta`
are on disk, `last` and `mutex` in the memory of each process. A directory that is being removed
loses its files one by one, and what is left matters to validation (`Remains`): *trimmed* lacks
only files that `paths.json` does not list (`info/link.json`, `info/run_exports.json`), *gutted*
lacks listed files, *ruined* lacks what validation itself reads. `Validates` is
`validate_package_directory`: every mode accepts a trimmed directory, `Skip` (the default) also a
gutted one. A task walks the layers
(`ScanLayer`, `LockEntry`, `ReadMetadata`, `CheckEntry`), chooses a writable one and fetches:
`WriteRevision`, `WriteSha`, `StartFetch` (with a download permit), `FetchOk` or `FetchErr`,
`RemoveOld`, `RemovedOld`, `Rename`. The order is the code's: the metadata is rewritten
*before* the fetch. `InstallReturnsEarly` releases the global lock and leaves its spawned tasks
behind (`detached`); `Crash` forgets what is in memory and releases the file lock. `failed` is
auxiliary: some download has failed.

### PathTrie and ClobberRegistry

`PathTrie` defines what the trie of `path_resolver` answers: conflicts of an insertion,
candidates when a package is unregistered, and the moves a reordering asks for. The trie is
represented by the paths that each package inserted and the order of insertion, from which
the answers of the recursive code are computed as sets.

`ClobberRegistry` is the transaction of `Installer::install` around it: `Begin` builds the
registry from the records; `UnlinkPackage` unregisters and unlinks; `EndUnlink` removes empty
directories; each package is linked by a job (`RegisterPaths` under the registry's lock, then
`MakeDirectories` and `LinkFiles` outside it); `PostProcess` reads the records back, moves
files, rewrites records. Each has a failing form that leaves any part of its work done (in the
transactions of `Failing`, or where the prefix makes it fail). Jobs are on a thread pool: those of
a failed transaction go on while the next one runs, which does not wait for them (`Awaited`);
they go only when the process dies. `disturbed` and `spoilt` are auxiliary: a transaction began
beside such jobs, and the paths at which the registry was misled (`Contested`: the middle one of
three packages was removed, or a file meets a directory). The
prefix is a set of files (which carry the build they came from) and directories, in the
prefix or under `__clobbers__/<package>`. The topological order is given (`Rank`).

### PrefixGuard and DetectorEnvironment

`PrefixGuard` has the guard file down to its two writes (`write_all`, `set_len`: the shorter
`"ready"` over `"installing"` is not JSON until the file is cut) and the blocking threads that own the file while
a future waits; `dropped` are the tasks whose future is gone meanwhile.
`DetectorEnvironment` is `ensure_environment`: lock, read, reuse or begin, install, finish.
Installation is abstracted to the packages that are whole, the packages that are recorded and
whether post-processing has run since. An installation that fails or is dropped gives up the guard
and leaves its link jobs in the pool (`LeaveJobs`): they take files away and put their own there
at any later time (`StrayLinks`, `StrayEnds`), also in an environment that somebody else has
completed. `stray` counts them, `strayed` remembers the packages.

### RepodataFetch

Calls of `fetch_repo_data` in several processes share a lock, `repodata.json` and its state
file. A call takes the lock, validates what is cached (`ValidateCachedState` has the order of
the code's tests), finds out which encodings exist (`CheckVariantAvailability`: remembered for
14 days, or a HEAD request, of which any failure counts as absent), and requests the
candidates in turn: 404, 304, 200 and failure are actions of their own. A broken download is
requested again. `Persist` renames the json, `ToPathCreates` and `ToPathWrites` rewrite the
state in place, so that a crash can leave it torn; the caller then parses the json under the
lock. The server (external) publishes numbered contents at up to three URLs and may remove
them; the stamp of a file stands for ETag and Last-Modified. The clock of the machine may move
on or be set back. `DroppingSpec` adds futures that are dropped while a thread works on.

### ChannelExpander and GatewayQuery

`ChannelExpander` is the discovery of channels by their `base` and `overrides` relations:
`Arrived` is `observe`, which notes the declarations of a channel; `Relax` takes one channel
from the worklist, follows its references (`Follow`: depth limit, improvement of a known
depth) and, when the worklist is empty in strict mode, looks for a cycle; `Finalize` resolves
the order. Edges are inserted in the code's order, and an edge that would close a cycle is
dropped. `Anchor`, `Placement` and `BucketBefore` give the order of the results.

`GatewayQuery` is `QueryExecutor::run` around it: the arms of its `select_biased!` are
`SubdirArrives`, `RecordsArrive` and `RecordsFail`, followed by `ObserveRelations` (which
schedules newly found subdirs and fetches from them all names that are known) and
`QueueDependency` one by one, in any order, since they come out of hash maps;
`SpawnPackageFetches` is the top of the loop, `Complete` its end. A fetch from a discovered
subdir waits for a barrier that `OpenBarrier` opens also when the metadata failed to load.
Which records match a spec and what they depend on are constants of the instance.

### ChannelIndex

`index_subdir` of processes without any lock. Each attempt stats the files it is going to
write, reads the previous records and timestamps, lists the packages, reads those that are
new (`GetOrStat`, `ReadPackage`, through a cache that survives attempts), and writes
`repodata_from_packages.json`, `.zst`, `repodata.json` and the shard index, each on condition
that its ETag is still the one of the stat; otherwise `Retry` starts over. A listing is stamped
with a clock that only the properties and new timestamps read. `Upload` and `Remove` are the
owner of the channel, `Initialize` is a second program, `Crash` leaves whatever was written.
The storage is one with conditional reads and writes; the fallback for storage without them, an
unconditional read that is cached under earlier metadata (`cache.rs:200-209`), is outside.

### GitFetch

`GitResolver::fetch` for one branch and the steps of `GitSource::fetch` under the guard: open
the database, fetch into it or populate a new one, remove the old one, rename; then clone the
checkout, reset, write the marker `.ok`. A database that misses objects is rebuilt, after a
failed checkout only once. `git fetch` writes into the database in place: a process that dies in
it (`KillGit`) may leave lock files (`db.locked`), on which any later fetch into this database may
fail. The branch moves, with force old commits vanish from the remote.
`needless` is auxiliary: a fetch has failed although the remote had answered and had the commit.
`DroppingSpec` adds futures that are dropped while git runs on its thread.

## 3. Runs

All bounds are named constants of the modules.

| Run | Instance | Shows |
|---|---|---|
| `coalesced_map` | 3 callers, 1 key, 3 channels | the map implements `AtomicMap`; one undisplaced initialization at a time; a waiter always has a live or finished source and is answered; a value older than a clear is only served by an initialization the clear has overtaken |
| `package_cache` | 2 processes, 3 tasks, 3 layers (one on a read-only mount), 2 archives, mode `Skip`, failing downloads, 5 calls | one writer; what is used is complete; until a download fails it is the archive that was asked for and no fetch is needless; every call ends |
| `package_cache_crash` | 2 processes, 3 tasks, 2 layers, mode `Fast`, downloads fail, processes die, installations return early | what is used passes validation; the revision shortcut is sound; the entry mutex alone keeps the tasks of a process apart. Passes with `Skip` too |
| `package_cache_failed_fetch` | 1 failed fetch | *violation*: the old directory is served under the new hash |
| `barrier_cell` | 2 setters, 2 waiters, 2 values | `wait` returns the whole value that was set; every waiter returns |
| `clobber` | 3 packages, one with 2 builds of different rank, all with a file in common, 3 transactions, failures anywhere in the second | records, files and winners agree, except where three packages share a path and the middle one was removed; the assertion of `reprioritize_packages` holds unless jobs of a failed transaction are about. Passes with `FilesOf <- FileAgainstDirectory`, `Failing = {1}`, `MaxTransactions = 2` too |
| `clobber_three` | the same without failures | *violation*: removing the middle one of three packages costs another one its file |
| `detector_environment` | 3 tasks, 2 processes, 2 packages, 3 calls, everything fails, link jobs are left behind | one installer at a time; ready and used environments have all records, and all files but those that such jobs have in hand; every call ends |
| `repodata_fetch` | 2 tasks, plain and zst, 3 changes on the server, a retry, a crash | the state never pairs validators with another response's hash; an answer was on the server during the call; state and json agree while the lock is held; "not found" is true |
| `gateway_query` | 5 channels, 2 of the user, depth 2; all ways in which 3 of them name a base, and a chain beyond them, with outages; and 7 queries over 4 packages with extras, a glob and a channel found late | the result is the closure, without duplicates; the final set of channels is canonical; the order respects every edge it keeps and buckets follow it; the query ends |
| `channel_index` | 2 indexers, 2 packages, 2 uploads or removals, 2 attempts, a crash | `repodata.json` only advances; the compressed file is never behind it; files agree at rest; timestamps are kept; the cache is honest |
| `git_fetch` | 3 tasks in 2 processes, 3 commits, 3 calls, a death (also inside `git fetch`), two losses of objects | returned checkouts are and stay whole; lost objects and half-done work are repaired while the remote answers, but for lock files of a killed git; every fetch ends |

Why the bounds are enough for the cases of interest: three callers give an initializer, a
waiter and one who comes after a failure or a clear; three layers give a read-only one in front,
the one that is written and one behind it; two archives in one bucket are needed for a hash
mismatch, five requests for a third revision, three for one that is torn down by a death, found
and replaced; three transactions install, reorder and remove, or install, fail and go on beside
what was left; three packages on one path have a first, a middle and a last, and let a link job be
under way next to finished ones. Three calls of `ensure_environment` are one that is abandoned, one
that completes the environment and one that uses it while jobs of the first still run. Three changes on a server
publish, compress and replace (or remove) a file, with one call that holds old validators and
one that retries. Five channels with a depth limit of two have a channel that is refused
first and reached on a shorter way later, cycles of every length up to five and edges against
the user's order; the record world is small because the properties of discovery and of the
closure are independent, so the two are varied separately (`Worlds`). Two indexers with
two attempts each lose a race, retry and win; a third process would repeat what the second
does, since they meet only in the files. Three commits let a branch move twice, so that a
forced push can strand a resolved commit.

Symmetry is used only where no liveness property is checked (`repodata_fetch` and
`channel_index`, whose tasks are interchangeable; the action property `JsonAdvances` names no task).

Deadlock is not checked where a system may come to rest when the bounded number of requests
is used up. That nobody is left waiting is what the liveness properties say.

Fairness. `FairSpec` of each module assumes weak fairness of the steps a task or a thread can
take: a future that is woken is polled, a blocking thread and a rayon job run on, a request
and a git command end in success or failure. Nothing is assumed of cancellations, failures and
crashes, nor that a caller calls. Locks (`flock`, tokio mutexes, semaphores) get weak fairness
only: the number of requests is bounded, so a lock that is wanted is free for good in the end.
With unbounded requests `flock` may starve a waiter, and nothing is claimed about that.

## 4. Proofs

| Theorem | Statement | Assumptions |
|---|---|---|
| `CoalescedMapProofs!AtMostOneInitializer`, `NoOrphanedWaiter`, `StaleNeedsDisplacement` | `SingleInitializer`, `WaiterHasSource`, `StaleOnlyIfDisplaced` | none beyond the constants' types |
| `CoalescedMapProofs!TypeCorrect`, `NoBroadcastMissed`, `FailuresAreNotServed`, `FetchedStability` | types; no broadcast is missed (`PendingNotSent`); failures are never served; values are stable until `retain` | the same |
| `CoalescedMapProofs!Linearizable` | `Spec => ImplementsAtomicMap`: the map implements `AtomicMap` | the same |
| `BarrierCellProofs!SetSucceedsOnce`, `WaitReturnsValue` | `SetOnce`, `ReadsWhatWasSet` | – |
| `PackageCacheProofs!TypeCorrect`, `MutexKeepsTasksApart` | `TypeOK`, `EntryMutexExclusive` | none: also with crashes and early returns |
| `PackageCacheProofs!GlobalLockKeepsWritersApart` | `WritersExclusive`: of tasks that were not left behind | every process takes the global lock (`AllInstall`) |
| `PackageCacheProofs!ShortcutIsSound`, `RevisionsOnlyGrow` | `KnownRevisionIsValid`, `RevisionGrows` | the same, and no installation returns early (`AllLocked`); every mode, with crashes and failures |
| `PackageCacheProofs!ServedIsValid` | `ServedValid` | `AllLocked`, `[]OneArchive`; every mode, with crashes and failures |
| `PackageCacheProofs!ServedIsComplete` | `ServedComplete` | `AllLocked`, `[]OneArchive`, no process dies; every mode, downloads fail |
| `PackageCacheProofs!ServedIsWanted`, `FetchesWhenNeeded` | `ServedMatchesUnlessFailed`, `FetchOnlyWhenNeeded`: both speak of the time until a download fails | `AllLocked`, `[]OneArchive`; requests carry a hash and no process dies (`Undisturbed`); every mode |
| `DetectorEnvironmentProofs!EnvironmentTypeCorrect`, `InstallersExclude` | types, `OneInstaller` | none: with failures, dropped futures, crashes and jobs left behind |
| `DetectorEnvironmentProofs!ReadyMeansInstalled`, `UsedMeansInstalled`, `ReadyStays` | `ReadyIsInstalled`, `UsedIsInstalled`, and that a ready environment stays ready with its records and is not touched but by jobs left behind (`ReadyIsFinal`) | none; of packages for which an abandoned installation left a job, only the records are claimed |
| `ChannelIndexProofs!IndexTypeCorrect`, `IndexOnlyAdvances`, `CompressedIsNotOlder`, `CacheStaysHonest` | `TypeOK`, `JsonAdvances`, `ZstNotOlder`, `CacheIsHonest` | – |
| `ChannelIndexProofs!FilesAgreeInTheEnd`, `TimestampsAreKept` | `FilesAgree`, `TimestampIsKept` | – |
| `GitFetchProofs!GitTypeCorrect`, `ReturnedStaysWhole`, `FetchRepairs` | `TypeOK`, `ReturnedIsWhole`, `NoNeedlessFailure` (lock files of a killed git are an excuse) | no future is dropped (`Spec`) |
| `GatewayQueryProofs!ExpanderInvariant`, `FinalStateDoesNotDependOnOrder` | `ExpanderInv`, `FinalStateIsCanonical` | the types of `ExpanderAssumption` |
| `GatewayQueryProofs!ResolvedInvariant`, `PriorityIsSound` | the recorded order is the resolved one; `OrderIsSound` | the same, and that there are finitely many channels |
| `GatewayQueryProofs!ResultsFollowPriority` | `BucketsFollowOrder` | the same |
| `GatewayQueryProofs!QueryInvariant`, `RecordsAreReportedOnce` | `QueryInv`, `NoDuplicates` | `QueryAssumption`: types, and that there are finitely many names and extras |
| `GatewayQueryProofs!FoundInvariant`, `NothingElseIsReported` | at any time, only records that are in the channel and belong to `Closure(TRUE)` have been accumulated | the same |
| `GatewayQueryProofs!QueryFindsTheClosure` | `ResultIsClosure` | the same, and that no name is asked for both exactly and by a pattern (`Unmixed`, see Exposures) |
| `RepodataFetchProofs!FetchTypeCorrect`, `StateStaysHonest`, `HolderIsInSync`, `AnswerIsCurrent`, `NotFoundIsCurrent` | `TypeOK`, `StateIsHonest`, `InSync`, `AnswerWasServed`, `NotFoundIsTrue` | no future is dropped; `AbsenceAssumption` (no state file, or a torn one, is no state) |

*CoalescedMap.* `SingleInitializer` alone is not inductive: who owns an entry follows from who
owns its channel. `IInv` adds that channels are created in order, that an open channel has
exactly one sender, that entries name channels in the state that fits their tag, and that an
initializer owns its entry unless it was displaced. Staleness needs a second invariant about the
age of what is in the map (`AgeInv`).

*Refinement.* `StepMaps` maps every step of the map to a step of `AtomicMap` or a stutter, from
`IInv` alone: a channel whose initializer is still at work has no value yet (`NotInserted`), and
whoever drives or listens to it is in a call for the same key (`SameKey`). `InsertFetched` is
`Put` and chooses the answer of the initializer and of all who wait on its channel; `Publish`
and `Receive` are `Return`, failures `Return` nothing, cancellations are `Abandon`,
`RetainRejects` and `Clear` are `Drop`.

*BarrierCell.* `CellInv`: where the successful setter stands determines the state, the state is
never ahead of the value, and nobody is woken or reads before the state is `Initialized`.

*PackageCache.* Three layers of invariants: a task past the lookup holds the mutex of its entry
(`MutexInv`); under the assumptions its process holds the global lock; then what a task has read
is what is on disk (`SeenCurrent`), and a remembered revision is never ahead of the disk and
differs from it whenever the directory may fail the validation of the mode (`RevInv`). The
revision is counted up before anything is destroyed; this is what makes the shortcut sound, in
`Skip` as in the other modes.

What is handed out needs one more assumption, `OneArchive`: the tasks of one installation that
are inside a call, or use its result, ask for the same archive of the bucket. An installation
installs one record per package name, so it does; the global lock keeps installations with other
records out. It is stated of every state of a behaviour (`Spec /\ []OneArchive => ...`) and
restricts neither the layers nor what other processes ask for. Every behaviour of the instances
`package_cache` and `package_cache_crash` satisfies it (two tasks of one process ask for one
archive, the tasks of different processes for different ones), so it is not vacuous. Then
(`ServeInv`) a directory in use validates and nobody is about to replace it, because a second
task finds the hash it asks for recorded (`ShaWritten`) and the directory valid. It has all its
files as long as nobody dies while removing one (`OnlyRemovedLack`); after such a death validation
may accept what is left (section 5). `ServedMatches` is false after a failed fetch (section 5), so
`CleanInv` is shown up to the first one: what the
metadata says of a directory is true unless somebody is replacing it (`Settled`), and a task
knows of the layers it has passed that they lack its archive (`Passed`), also if it waited for
the mutex in between, since whoever held it wrote to the layer that the waiting task looks at
next.

*DetectorEnvironment.* `IInv`: the lock is held exactly by those who have the file at hand or in
a thread (`HoldsLock`); what they read is still in the file (`SeenIsFile`); what a thread is
about to write is right even if nobody waits for it (`ThreadsAreRight`); an installation has to
do exactly what is not recorded (`CallsAreRight`), and what is recorded is whole unless a job for
it was left behind (`RecordedIsWhole`). Without the third part a dropped future would break the
induction: its thread still writes *Ready* after the call is gone.

*ChannelIndex.* Neither `JsonAdvances` nor `ZstNotOlder` says why a write that succeeds is
newer. `IInv` does (`CurrentIsNewer`): an indexer remembers the ETag of a file before it lists,
so if it has listed and the ETag is still that of the file, the file was computed from an
earlier listing. ETags count the writes (`Dated`), so a write by anybody else makes the premise
false for all others. `ZstIsAhead` carries the compressed file's write over to the one of
`repodata.json`, and needs that nobody can put an older compressed file there in between, which
is again `CurrentIsNewer`.

`FilesAgree` speaks of three files that are written in three conditional writes. `AgreeInv`:
listings have distinct stamps, and a file has an indexer's stamp only after that one has written
it (`StampsDiffer`, `Authored`), so files of one listing have the same records (`SameListing`);
an indexer that is going to succeed has its files in place, or another one is at work and will
replace them or put them right (`OwnOrBusy`). When all are done without a failure the files are
therefore from one listing (`OneListing`).

`TimestampIsKept` is about two files: a patch may hide a package from `repodata.json`, and then
its timestamp lives only in the history, `repodata_from_packages.json`. `KeepInv` says that a
timestamp to be kept is in one of the two (`Somewhere`), and for each indexer what it has read
so far: if the ETag it remembers of `repodata.json` is still that of the file, it has all
timestamps of the file (`HasJson`), likewise of the history (`HasRaw`), and if it has the
history, also what only the history has (`HasAll`, `Secured`). A write that succeeds replaces a
file whose content the writer has read, so nothing is lost by it, and one that fails changes
nothing.

*GitFetch.* The properties follow from `IInv`: whoever is inside `fetch` holds the guard and
nobody else touches the disk (`Guarded`); so what a task has brought about is there at its next
step (`Achieved`); a marker means a whole checkout (`MarkedIsWhole`), and what was returned has
its marker (`ReturnedIsMarked`). Crashes are steps of the same induction: a task that dies
before the marker leaves a checkout that the next one removes. `NoNeedlessFailure` needs that a
database that was rebuilt in this call has all objects, unless they were lost again since
(`RebuiltIsGood`); a fetch that fails on lock files in a database that misses nothing is excused,
since the code returns that error. With dropped futures `Guarded` is false, which is the exposure of section 5.

*ChannelExpander.* "The final state never depends on fetch completion order" is a statement
about shortest paths, so it needs induction over the number of hops. The prover cannot
instantiate an induction schema, but it can use that a non-empty set of numbers has a least
element (`Least`, from the library's well-foundedness of the naturals): the least counterexample
of a claim is refuted from its predecessor. In this way recursively defined functions are shown
to exist (`Recursion`), hence what `Within` is (`WithinIs`). `ExpanderInv`: a channel that is
known is being fetched, about to be, stored, or declares nothing (`Covered`); each known depth
is witnessed by a chain of declarations and edges come from channels within reach (`Sound`); and
a stored declaration has been followed at the present depth of its channel, or the channel is on
the worklist (`Relaxing`). `Relaxing` survives a depth that improves only because `Follow` puts
the channel back on the worklist; without that (the seeded fault `FollowOnce`) the induction
fails there. At the end the worklist and the fetches are empty, and the least n for which a
channel of `Within[n]` is deeper than n cannot exist (`NearIsFound`).

The priority of channels (`OrderIsSound`) is about two loops that run to the end of their data.
What can be reached in a graph is what a growing chain of sets reaches; a chain in a finite set
that stops growing once never grows again, and it stops within as many rounds as there are
elements (`GrowthStops`, `Settled`), so the reached set is closed and the least such
(`Closed`, `LeastClosed`). With this `GraphIs` shows of the greedy insertion that after each
edge the graph is acyclic and holds every earlier edge that it could take, which gives both
halves of the property: no overrides are lost except those that would close a cycle. The
depth-first search is a sequence of steps on a stack and a listing. Its invariant
(`Searching`) says that the stack is a path, that nothing on it is listed, and that what a
listed node leads to is listed before it; the number of pushes and pops is bounded by twice the
number of channels, so it ends (`ResolvedOrderIs`), and the reversed listing is an order in
which every arc leads down (`ArcsLeadDown`). `BucketsFollowOrder` needs in addition that every
channel that has a slot has an anchor among the channels of the query (`AnchorIs`), because the
one that introduced it was known before it (`AllIntroduced`).

*GatewayQuery.* `QueryInv`: a name that no pattern matches is wanted once and queued once
(`Queueing`); a channel gets its slot once, when it was not known before (`Slots`); a fetch
under way is for a name and channel without an answer and carries the request that is queued for
the name, so there is only one (`InFlight`); what was accumulated comes from channels that have
answered (`Accumulated`). The two ways to spawn a fetch, for a new name on all slots and for a
new slot on all queued names, exclude each other because a slot is new only once.

That the result is the dependency closure (`ResultIsClosure`) is two inclusions. *Nothing else*
(`BoundInv`): whatever world of names, dependencies and active extras contains the specs and is
closed under the dependencies of its records (`Bounding`) also contains all that the query
knows, has queued, requested and accumulated, at any time. `Reached(TRUE)` is such a world:
each round adds marks (a name, a dependency, an extra of a name) within a finite set, so the
rounds have settled by its bound (`GrowthStops` again). *Nothing missing* (`CompleteInv`): every
request covers all the specs of its name (`Requests`); a name that is known is wanted or queued,
and one that is queued has been answered by, or is on its way to, every channel that has a slot
(`Everywhere`); what has been answered is accumulated, and its dependencies have been dealt with
or are in the set of those to be queued (`Answered`); patterns have been tried on the names of
every channel that arrived (`Patterns`). `Answered` makes an exception for a name that is asked
for again: a pattern may want a name that a dependency brought in before, and activates extras
without a walk of the records that are there; the new answers make up for it. When the query
ends nothing is wanted, queued or under way, so the exception is void and the least round of
`Reached(FALSE)` that holds something not found cannot exist. `Requests` is what needs
`Unmixed`: a name asked for in both ways is fetched by one request for each, neither of which
covers all its specs, and `late_walk` keeps the specs of the first answer.

*RepodataFetch.* The properties speak of a call that is done; `IInv` says what a call knows on
the way (`TaskInv`): past the lock it holds it, so nobody else changes the files (`Bystander`);
the validators it kept came with the json that is on disk (`CachedTrue`); a response is of a
file the server had during the call (`GotTrue`); the state it is about to write describes the
json (`NewTrue`). That a 304 confirms what is cached rests on `StampsGrow`: validators of one
URL are never used twice and never go back (`NotModifiedMeansSame`). The queue of candidates
ends with the plain file (`CandidatesEnd`), hence `NotFoundIsTrue`. All of it holds for `Spec`,
in which no future is dropped (see Exposures).

Only model-checked: all liveness properties (fairness is beyond the prover); and
`ClobberRegistry`, whose properties rest on what sorting, the fold over the sorted records and the
answers of the trie compute. For these the data has to be reasoned about by induction in every
operator, as is done for distances in `GatewayQueryProofs`. `NothingLost` is no theorem: it fails
once three packages share a path and the middle one is removed (section 5), and the other
properties of the run make an exception for such paths.

## 5. Where code and documentation disagree

With a run and an entry under `findings`:

* `rattler_cache/src/package_cache/mod.rs:1185`. The metadata is rewritten before the fetch; a
  failed fetch leaves the old package under the new hash (`package_cache_failed_fetch`).
* `rattler/src/install/clobber_registry.rs:215`. The next candidate for a path is collected
  although the removed package was not the one in place (`path_resolver/src/lib.rs:289-295`); the
  file is not moved, since the place is taken, but the record is renamed. The record then claims
  the winner's file, and removing its package deletes that file (`clobber_three`; comment at
  `clobber_registry.rs:149-152`).

### Exposures

The models also have the following behaviours. The runs leave each out by its specification or
instance, which the entries under `hazards` name; to see one, check the given property
with the change in the last column, in a configuration otherwise like the module's own.

| Where | What happens | What is said | To reproduce |
|---|---|---|---|
| `coalesced_map/src/lib.rs:255` | a load under way survives `clear_repodata_cache` and fills the cache again with data from before it | `gateway/mod.rs:394` | `INVARIANT FreshAfterClear` |
| `rattler_cache/src/validation.rs:107-160` | a process dies while it removes a directory; what is left lacks files that are not listed, or in `Skip` any but the two that are read, passes validation and is handed out | `validation.rs:28-30` ("minimal guarantees" in `Skip`), `validation.rs:4-6` for the others | `ServedComplete` in `MCPackageCacheCrash.cfg` |
| `path_resolver/src/lib.rs:478` | a link job left over from a failed transaction writes its record while the next one runs; the registry does not know the package and the assertion panics | `path_resolver/src/lib.rs:478` | `INVARIANT JustReorderingAlways` |
| `rattler/src/install/installer/mod.rs:942-975` | a link job left behind by an abandoned installation replaces files of an environment that another call has completed and uses | `environment.rs:14-17` | `INVARIANT UsedIsWhole` |
| `rattler/src/install/installer/mod.rs:672` | an interrupted installation is completed by an empty transaction, without post-processing | `environment.rs:14-17` | `INVARIANT UsedIsSettled` |
| `fetch/with_cache.rs:477` | the thread of a dropped fetch renames its download over `repodata.json` under the lock of the next caller; the next validation notices by the hash | `with_cache.rs:158` | `SPECIFICATION DroppingSpec`, `InSync`, `MaxDrop = 1` |
| `rattler_git/src/resolver.rs:65` | two fetches of a branch that moves in between return two commits | `resolver.rs:62-63` | `INVARIANT ProcessIsConsistent` |
| `rattler_git/src/git.rs:346` | `git fetch` is killed in the database and leaves a lock file; the next fetch fails on it, no object is missing, and the error is returned each time | `git.rs:323-324` | `PROPERTY DeathIsRepaired`, `RemoteMayFail = FALSE` |
| `rattler_git/src/resolver.rs:92` | the thread of a dropped fetch goes on without the guard and may mark a checkout as done that another fetch has just removed | `resolver.rs:72` | `SPECIFICATION DroppingSpec`, `ReturnedIsWhole` |

Behaviours about which the code promises nothing, or that a model excludes by an assumption:

* tasks that outlive `install()` write to the cache without the global lock
  (`installer/mod.rs:811`), so most properties of the cache are stated for installations that
  have left none behind (`AllAwaited`); the run exports extractor never takes the lock
  (`run_exports_extractor.rs:344`); a layer on a read-only mount makes a lookup fail; an entry
  recorded without a sha256 satisfies a request for any hash (`cache_lock.rs:51`);
* directories for clobbered paths are made outside the registry's lock (`install/mod.rs:746`);
  where the file of one package is a directory of another, an empty directory left by the loser
  keeps the winner's file in `__clobbers__` (`path_resolver/src/lib.rs:553`), and nothing is
  claimed of such paths (`spoilt`); after an interrupted link the registry takes the
  topologically last record for the one in place (`clobber_registry.rs:166`), and files and
  records are compared only up to the first failure;
* a query that names a package both exactly and by a pattern (`query.rs:1012`): `late_walk`
  uses the specs of the first answer, records may be reported twice, and a channel that is found
  later is asked only with the request that was queued last, the pattern's, so that records that
  only the exact spec matches are missing from it; the instance of the run and
  `QueryFindsTheClosure` leave such queries out (`Unmixed`);
* a package that is uploaded again under its name is not read again without `force`
  (`rattler_index/src/lib.rs:860`); storage that has no ETag, or derives it from the
  content, does not protect the index (`utils.rs:74`).

## 6. What is not modelled, and the plan

Not modelled because there is no state or order to get wrong, or because it is
pure I/O, data formats or external programs: parsing and serialization, lock files, archives,
prefix replacement, menus, shells, uploads, cloud storage, signing, the search of
the solvers, bindings and the command line. These are most of the repository's lines. Power
loss (data that was written but not synced) is left out everywhere: a crash is the death of a
process. Within the modelled components: `file://` sources of repodata, sharded repodata,
queries over several platforms and direct URLs, newer repodata revisions and attestations of an
index, git LFS.

Planned, in this order:

1. A proof of the registry's `JustReordering`; the abstract cache that `PackageCache`
   implements.
2. `DetectorPipeline` on top of `DetectorEnvironment`: consent before anything runs, the
   semaphore, the expiry of cached results, the watched paths that are observed after the run.
3. `RunExportsCache`, mirror selection and token refresh of the networking crate, sharded
   repodata.
4. Pure algorithms against reference definitions: topological sort (then in place of `Rank`),
   the order of versions.
