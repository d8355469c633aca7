----------------------------- MODULE ChannelIndex -----------------------------
(***************************************************************************)
(* Concurrent indexing of one subdirectory of a channel in object storage  *)
(* (rattler_index).  Several processes run index_subdir while packages are *)
(* uploaded and removed.  There is no lock: an indexer remembers the ETags *)
(* of the files it is going to write, computes their new content from what *)
(* it reads and lists, writes each file on condition that it has not       *)
(* changed, and starts over when a condition fails.                        *)
(*                                                                         *)
(* A listing is stamped with a clock, and so is all that is computed from  *)
(* it.  ETags are unique per write (Azure, and the backend of the          *)
(* repository's tests).  All indexers write repodata.json.zst and shards,  *)
(* with PreconditionChecks::Enabled.                                       *)
(***************************************************************************)
EXTENDS Integers, FiniteSets

CONSTANTS
  Indexer, Package,
  Options,      \* [patch, force] a process may be started with
  Hidden,       \* packages that the repodata patch removes
  MaxChange,    \* bound: uploads and removals of packages
  MaxRuns,      \* bound: processes that are started
  MaxTry,       \* attempts within the ten minutes of write_retry_policy
  MaxCrash,     \* bound: processes that are killed
  Legacy        \* the sets of packages that may be published, without a timestamp, at first

ASSUME IndexAssumption ==
  /\ Options \subseteq [patch : BOOLEAN, force : BOOLEAN]
  /\ Hidden \subseteq Package /\ Legacy \subseteq SUBSET Package
  /\ {MaxChange, MaxRuns, MaxTry, MaxCrash} \subseteq Nat /\ MaxTry > 0

File == {"raw", "zst", "json", "shards"}

VARIABLES
  stored,    \* per package: the version in storage, 0 if there is none
  changes,   \* uploads and removals so far, which number the versions
  file,      \* per file: its ETag (0: does not exist), the stamp of its listing, its records
  clock, runs, crashes,
  pc,        \* per indexer: the next step of index_subdir_inner
  option, try,
  meta,      \* RepodataMetadataCollection: ETags that were found
  source,    \* packages of the ExistingRepodata that is built upon
  times,     \* indexed_timestamps, as a set of pairs
  listing,   \* uploaded_packages, and when they were listed
  asked,     \* per package: the ETag a read is conditional on
  got,       \* results: records that were read from packages
  cache,     \* PackageRecordCache: [pkg, etag, ver]
  failed,    \* some process has failed or was killed
  born       \* per package: the timestamp it was first published with, -1 before, -2 if unknown

storage == <<stored, changes, file, clock>>
locals == <<option, meta, source, times, listing, asked, got>>
ghosts == <<failed, born>>
vars == <<storage, runs, crashes, pc, try, locals, cache, ghosts>>

Record == [pkg : Package, ver : 0..(MaxChange + 1), ts : Nat]

Nobody == [p \in Package |-> 0]
Forget(i) ==
  /\ option' = [option EXCEPT ![i] = [patch |-> FALSE, force |-> FALSE]]
  /\ meta' = [meta EXCEPT ![i] = [f \in File |-> 0]]
  /\ source' = [source EXCEPT ![i] = {}] /\ times' = [times EXCEPT ![i] = {}]
  /\ listing' = [listing EXCEPT ![i] = [stamp |-> 0, pkgs |-> {}]]
  /\ asked' = [asked EXCEPT ![i] = Nobody] /\ got' = [got EXCEPT ![i] = {}]

\* The channel has no repodata, or one from before there were timestamps (0).
InitWith(old) ==
  /\ stored = [p \in Package |-> IF p \in old THEN 1 ELSE 0] /\ changes = 0
  /\ file = [f \in File |-> IF f = "json" /\ old # {}
                            THEN [etag |-> 1, listing |-> 0,
                                  recs |-> {[pkg |-> p, ver |-> 1, ts |-> 0] : p \in old}]
                            ELSE [etag |-> 0, listing |-> 0, recs |-> {}]]
  /\ clock = 0 /\ runs = 0 /\ crashes = 0 /\ failed = FALSE
  /\ pc = [i \in Indexer |-> "idle"] /\ try = [i \in Indexer |-> 0]
  /\ option = [i \in Indexer |-> [patch |-> FALSE, force |-> FALSE]]
  /\ meta = [i \in Indexer |-> [f \in File |-> 0]]
  /\ source = [i \in Indexer |-> {}] /\ times = [i \in Indexer |-> {}]
  /\ listing = [i \in Indexer |-> [stamp |-> 0, pkgs |-> {}]]
  /\ asked = [i \in Indexer |-> Nobody] /\ got = [i \in Indexer |-> {}]
  /\ cache = [i \in Indexer |-> {}]
  /\ born = [p \in Package |-> IF p \in old THEN 0 ELSE -1]

Init == \E old \in Legacy : InitWith(old)

-----------------------------------------------------------------------------
(* The owner of the channel *)

Upload(p) ==
  /\ changes < MaxChange /\ changes' = changes + 1
  /\ stored' = [stored EXCEPT ![p] = changes + 2]
  /\ UNCHANGED <<file, clock, runs, crashes, pc, try, locals, cache, ghosts>>

Remove(p) ==
  /\ stored[p] # 0 /\ changes < MaxChange /\ changes' = changes + 1
  /\ stored' = [stored EXCEPT ![p] = 0]
  /\ born' = [born EXCEPT ![p] = -2]
  /\ UNCHANGED <<file, clock, runs, crashes, pc, try, locals, cache, failed>>

-----------------------------------------------------------------------------
(* index_subdir *)

Go(i, step) == pc' = [pc EXCEPT ![i] = step]

Begin(i, o) ==
  /\ pc[i] = "idle" /\ runs < MaxRuns
  /\ runs' = runs + 1
  /\ Go(i, "stat_json") /\ try' = [try EXCEPT ![i] = 1]
  /\ option' = [option EXCEPT ![i] = o]
  /\ UNCHANGED <<storage, crashes, meta, source, times, listing, asked, got, cache, ghosts>>

\* An attempt ended: with an error that is not to be retried, or too late.
Fail(i) ==
  /\ Go(i, "idle") /\ try' = [try EXCEPT ![i] = 0] /\ Forget(i)
  /\ cache' = [cache EXCEPT ![i] = {}]
  /\ failed' = TRUE

\* ConditionNotMatch: the next attempt starts from nothing but the cache.
Retry(i) ==
  IF try[i] = MaxTry THEN Fail(i)
  ELSE /\ Go(i, "stat_json") /\ try' = [try EXCEPT ![i] = @ + 1]
       /\ meta' = [meta EXCEPT ![i] = [f \in File |-> 0]]
       /\ source' = [source EXCEPT ![i] = {}] /\ times' = [times EXCEPT ![i] = {}]
       /\ listing' = [listing EXCEPT ![i] = [stamp |-> 0, pkgs |-> {}]]
       /\ asked' = [asked EXCEPT ![i] = Nobody] /\ got' = [got EXCEPT ![i] = {}]
       /\ UNCHANGED <<option, cache, failed>>

\* RepodataMetadataCollection::new, one file after the other.
Stat(i, f, step, next) ==
  /\ pc[i] = step /\ Go(i, next)
  /\ meta' = [meta EXCEPT ![i][f] = file[f].etag]
  /\ UNCHANGED <<storage, runs, crashes, try, option, source, times, listing, asked, got, cache,
                 ghosts>>

StatJson(i) == Stat(i, "json", "stat_json", IF option[i].patch THEN "stat_raw" ELSE "stat_zst")
StatRaw(i) == Stat(i, "raw", "stat_raw", "stat_zst")
StatZst(i) == Stat(i, "zst", "stat_zst", "stat_shards")
StatShards(i) == Stat(i, "shards", "stat_shards", "read_source")

\* Defect: what was published first is forgotten when the index is rebuilt.
TimesUnlessForced(i, recs) == IF option[i].force THEN {} ELSE {<<r.pkg, r.ts>> : r \in recs}

TimesOf(i, recs) == {<<r.pkg, r.ts>> : r \in recs}

\* read_with_metadata_check: a file that was there must be the same.
Readable(i, f) == meta[i][f] \in {0, file[f].etag}

\* The records to build upon: from packages only if there is a patch.
ReadSource(i) ==
  LET f == IF option[i].patch THEN "raw" ELSE "json" IN
  /\ pc[i] = "read_source"
  /\ IF ~Readable(i, f) THEN Retry(i)
     ELSE /\ source' = [source EXCEPT ![i] = IF option[i].force THEN {} ELSE file[f].recs]
          /\ times' = [times EXCEPT ![i] = TimesOf(i, file[f].recs)]
          /\ Go(i, IF option[i].patch THEN "read_history" ELSE "stat_history")
          /\ UNCHANGED <<try, option, meta, listing, asked, got, cache, failed>>
  /\ UNCHANGED <<storage, runs, crashes, born>>

StatHistory(i) == Stat(i, "raw", "stat_history", "read_history")

\* Timestamps of the other file: published ones win.
Joined(winner, other) ==
  winner \cup {t \in other : \A u \in winner : u[1] # t[1]}

ReadHistory(i) ==
  LET f == IF option[i].patch THEN "json" ELSE "raw" IN
  /\ pc[i] = "read_history"
  /\ IF ~Readable(i, f) THEN Retry(i)
     ELSE /\ times' = [times EXCEPT ![i] = IF option[i].patch
                                           THEN Joined(TimesOf(i, file[f].recs), @)
                                           ELSE Joined(@, TimesOf(i, file[f].recs))]
          /\ Go(i, "list")
          /\ UNCHANGED <<try, option, meta, source, listing, asked, got, cache, failed>>
  /\ UNCHANGED <<storage, runs, crashes, born>>

List(i) ==
  /\ pc[i] = "list" /\ Go(i, "packages")
  /\ clock' = clock + 1
  /\ listing' = [listing EXCEPT ![i] = [stamp |-> clock + 1,
                                        pkgs |-> {p \in Package : stored[p] # 0}]]
  /\ UNCHANGED <<stored, changes, file, runs, crashes, try, option, meta, source, times, asked,
                 got, cache, ghosts>>

Registered(i) == {r \in source[i] : r.pkg \in listing[i].pkgs}
ToAdd(i) == listing[i].pkgs \ {r.pkg : r \in Registered(i)}
Missing(i) == ToAdd(i) \ {r.pkg : r \in got[i]}

Obtain(i, p, v) == got' = [got EXCEPT ![i] = @ \cup {[pkg |-> p, ver |-> v]}]

\* get_or_stat: a hit, or the ETag to read under.  Without the file the read
\* that follows fails as well.
GetOrStat(i, p) ==
  /\ pc[i] = "packages" /\ p \in Missing(i) /\ asked[i][p] = 0
  /\ IF stored[p] = 0 THEN Fail(i)
     ELSE /\ IF \E c \in cache[i] : c.pkg = p /\ c.etag = stored[p]
             THEN /\ Obtain(i, p, (CHOOSE c \in cache[i] : c.pkg = p /\ c.etag = stored[p]).ver)
                  /\ UNCHANGED asked
             ELSE asked' = [asked EXCEPT ![i][p] = stored[p]] /\ UNCHANGED got
          /\ UNCHANGED <<pc, try, option, meta, source, times, listing, cache, failed>>
  /\ UNCHANGED <<storage, runs, crashes, born>>

\* Defect: the package is read without a condition.
SameAnyway(i, p) == TRUE

Same(i, p) == stored[p] = asked[i][p]

\* read_package_with_retry, and the entry in the cache.
ReadPackage(i, p) ==
  /\ pc[i] = "packages" /\ p \in Missing(i) /\ asked[i][p] # 0
  /\ IF stored[p] = 0 THEN Fail(i)
     ELSE /\ IF Same(i, p)
             THEN /\ Obtain(i, p, stored[p])
                  /\ cache' = [cache EXCEPT ![i] = {c \in @ : c.pkg # p} \cup
                                 {[pkg |-> p, etag |-> asked[i][p], ver |-> stored[p]]}]
                  /\ asked' = [asked EXCEPT ![i][p] = 0]
             ELSE asked' = [asked EXCEPT ![i][p] = stored[p]] /\ UNCHANGED <<got, cache>>
          /\ UNCHANGED <<pc, try, option, meta, source, times, listing, failed>>
  /\ UNCHANGED <<storage, runs, crashes, born>>

\* Timestamps are given when all records are there.
Stamped(i, r) ==
  [pkg |-> r.pkg, ver |-> r.ver,
   ts |-> IF \E t \in times[i] : t[1] = r.pkg THEN (CHOOSE t \in times[i] : t[1] = r.pkg)[2]
          ELSE listing[i].stamp]
Unpatched(i) == {Stamped(i, r) : r \in Registered(i) \cup got[i]}
Patched(i) ==
  IF option[i].patch THEN {r \in Unpatched(i) : r.pkg \notin Hidden} ELSE Unpatched(i)

-----------------------------------------------------------------------------
(* write_repodata *)

\* Defect: repodata.json is written without a condition.
UnchangedButJson(i, f) == f = "json" \/ meta[i][f] = file[f].etag

\* Defect: the index of the shards is written without a condition.
UnchangedButShards(i, f) == f = "shards" \/ meta[i][f] = file[f].etag

\* write_with_metadata_check: the same file, or still none.
Unchanged(i, f) == meta[i][f] = file[f].etag

\* Defect: the compressed file is written only along with a patch.
ComposeWithoutZst(i) ==
  /\ pc[i] = "packages" /\ Missing(i) = {}
  /\ Go(i, IF option[i].patch THEN "write_raw" ELSE "write_json")
  /\ UNCHANGED <<storage, runs, crashes, try, locals, cache, ghosts>>

\* All packages have been read and the content is known.
Compose(i) ==
  /\ pc[i] = "packages" /\ Missing(i) = {}
  /\ Go(i, IF option[i].patch THEN "write_raw" ELSE "write_zst")
  /\ UNCHANGED <<storage, runs, crashes, try, locals, cache, ghosts>>

Write(i, f, recs) ==
  file' = [file EXCEPT ![f] = [etag |-> @.etag + 1, listing |-> listing[i].stamp, recs |-> recs]]

WriteRaw(i) ==
  /\ pc[i] = "write_raw"
  /\ IF Unchanged(i, "raw")
     THEN /\ Write(i, "raw", Unpatched(i)) /\ Go(i, "write_zst")
          /\ UNCHANGED <<try, locals, cache, failed>>
     ELSE Retry(i) /\ UNCHANGED file
  /\ UNCHANGED <<stored, changes, clock, runs, crashes, born>>

WriteZst(i) ==
  /\ pc[i] = "write_zst"
  /\ IF Unchanged(i, "zst")
     THEN /\ Write(i, "zst", Patched(i)) /\ Go(i, "write_json")
          /\ UNCHANGED <<try, locals, cache, failed>>
     ELSE Retry(i) /\ UNCHANGED file
  /\ UNCHANGED <<stored, changes, clock, runs, crashes, born>>

WriteJson(i) ==
  /\ pc[i] = "write_json"
  /\ IF Unchanged(i, "json")
     THEN /\ Write(i, "json", Patched(i)) /\ Go(i, "write_shards")
          /\ born' = [p \in Package |->
               IF born[p] = -1 /\ \E r \in Patched(i) : r.pkg = p
               THEN (CHOOSE r \in Patched(i) : r.pkg = p).ts ELSE born[p]]
          /\ UNCHANGED <<try, locals, cache, failed>>
     ELSE Retry(i) /\ UNCHANGED <<file, born>>
  /\ UNCHANGED <<stored, changes, clock, runs, crashes>>

\* The shards have names of their content and are written before their index.
WriteShards(i) ==
  /\ pc[i] = "write_shards"
  /\ IF Unchanged(i, "shards")
     THEN /\ Write(i, "shards", Patched(i)) /\ Go(i, "idle")
          /\ try' = [try EXCEPT ![i] = 0] /\ Forget(i) /\ cache' = [cache EXCEPT ![i] = {}]
          /\ UNCHANGED failed
     ELSE Retry(i) /\ UNCHANGED file
  /\ UNCHANGED <<stored, changes, clock, runs, crashes, born>>

\* The process is killed, or storage fails.
Crash(i) ==
  /\ pc[i] # "idle" /\ crashes < MaxCrash
  /\ crashes' = crashes + 1
  /\ Fail(i)
  /\ UNCHANGED <<storage, runs, born>>

\* ensure_channel_initialized: if_not_exists decides.
Initialize ==
  /\ file["json"].etag = 0
  /\ file' = [file EXCEPT !["json"] = [etag |-> 1, listing |-> 0, recs |-> {}]]
  /\ UNCHANGED <<stored, changes, clock, runs, crashes, pc, try, locals, cache, ghosts>>

Next ==
  \/ \E p \in Package : Upload(p) \/ Remove(p)
  \/ \E i \in Indexer :
       \/ \E o \in Options : Begin(i, o)
       \/ StatJson(i) \/ StatRaw(i) \/ StatZst(i) \/ StatShards(i)
       \/ ReadSource(i) \/ StatHistory(i) \/ ReadHistory(i) \/ List(i)
       \/ \E p \in Package : GetOrStat(i, p) \/ ReadPackage(i, p)
       \/ Compose(i) \/ WriteRaw(i) \/ WriteZst(i) \/ WriteJson(i) \/ WriteShards(i)
       \/ Crash(i)
  \/ Initialize

Spec == Init /\ [][Next]_vars

-----------------------------------------------------------------------------
(* Properties *)

\* Every variable keeps its type.
TypeOK ==
  /\ stored \in [Package -> 0..(MaxChange + 1)] /\ changes \in 0..MaxChange
  /\ \A f \in File : file[f].etag \in Nat /\ file[f].listing \in 0..clock
                     /\ file[f].recs \subseteq Record
  /\ \A i \in Indexer : try[i] \in 0..MaxTry /\ meta[i] \in [File -> Nat]
                        /\ got[i] \subseteq [pkg : Package, ver : 1..(MaxChange + 1)]

\* No update is lost: repodata.json is only ever replaced by one that is
\* computed from a later listing, so a package that was indexed stays, and one
\* that was dropped does not come back.
JsonAdvances == [][file'["json"].listing >= file["json"].listing]_file

\* The compressed file, which clients prefer, is never older than
\* repodata.json, whoever is in the middle of writing or was killed there.
ZstNotOlder == file["zst"].listing >= file["json"].listing

\* When no process is at work and none has failed, the files that clients may
\* choose from say the same.
FilesAgree ==
  (runs > 0 /\ ~failed /\ \A i \in Indexer : pc[i] = "idle") =>
    file["zst"].recs = file["json"].recs /\ file["shards"].recs = file["json"].recs

\* A package keeps the timestamp it was first published with, through patches
\* that hide it, forced rebuilds, retries and indexers that do not know of
\* each other, as long as its file is not removed.
TimestampIsKept ==
  \A r \in file["json"].recs : born[r.pkg] \in {r.ts, -2}

\* The cache that survives an attempt has the record of the package that its
\* ETag belongs to.
CacheIsHonest == \A i \in Indexer : \A c \in cache[i] : c.ver = c.etag
=============================================================================
