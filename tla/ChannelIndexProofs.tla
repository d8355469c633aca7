-------------------------- MODULE ChannelIndexProofs --------------------------
(***************************************************************************)
(* What indexers that share a subdirectory without a lock keep, for any    *)
(* number of indexers, packages, attempts, failures and options.           *)
(*                                                                         *)
(* No older index is published over a newer one: an indexer remembers the  *)
(* ETag of a file before it lists the packages.  If the ETag is still that *)
(* of the file when it comes to write, nobody has written the file since,  *)
(* so what is there was computed from an earlier listing (IInv).           *)
(*                                                                         *)
(* The files agree in the end: no two listings have the same stamp, so     *)
(* files with one stamp have one content; whoever writes the shards last   *)
(* has the other files in place or leaves another indexer behind that is   *)
(* still to write them (AgreeInv).                                         *)
(*                                                                         *)
(* Timestamps are kept: each one is in repodata.json or in the history     *)
(* beside it, and an indexer that replaces the one under its ETag has read *)
(* both (KeepInv).                                                         *)
(***************************************************************************)
EXTENDS ChannelIndex, TLAPS

Label ==
  {"idle", "stat_json", "stat_raw", "stat_zst", "stat_shards", "read_source", "stat_history",
   "read_history", "list", "packages", "write_raw", "write_zst", "write_json", "write_shards"}

Version == 0..(MaxChange + 1)
Present == 1..(MaxChange + 1)
Option == [patch : BOOLEAN, force : BOOLEAN]
FileState == [etag : Nat, listing : Nat, recs : SUBSET Record]

\* The types of storage, and those of what an indexer keeps.
StorageType ==
  /\ stored \in [Package -> Version] /\ changes \in 0..MaxChange
  /\ clock \in Nat
  /\ file \in [File -> FileState]

LocalType ==
  /\ pc \in [Indexer -> Label] /\ try \in [Indexer -> 0..MaxTry]
  /\ option \in [Indexer -> Option]
  /\ meta \in [Indexer -> [File -> Nat]]
  /\ source \in [Indexer -> SUBSET Record]
  /\ times \in [Indexer -> SUBSET (Package \X Nat)]
  /\ listing \in [Indexer -> [stamp : Nat, pkgs : SUBSET Package]]
  /\ asked \in [Indexer -> [Package -> Version]]
  /\ got \in [Indexer -> SUBSET [pkg : Package, ver : Present]]
  /\ cache \in [Indexer -> SUBSET [pkg : Package, etag : Version, ver : Present]]

IndexType == StorageType /\ LocalType

\* The steps at which an indexer has listed the packages and is still to
\* write the file f.
Before(f) ==
  CASE f = "raw"    -> {"packages", "write_raw"}
    [] f = "zst"    -> {"packages", "write_raw", "write_zst"}
    [] f = "json"   -> {"packages", "write_raw", "write_zst", "write_json"}
    [] f = "shards" -> {"packages", "write_raw", "write_zst", "write_json", "write_shards"}

\* Nothing is ahead of the clock, and no indexer ahead of the ETags.
Dated ==
  /\ \A f \in File : file[f].listing <= clock /\ (file[f].etag = 0 => file[f].listing = 0)
  /\ \A i \in Indexer : listing[i].stamp <= clock
  /\ \A i \in Indexer, f \in File : meta[i][f] <= file[f].etag

\* Who still has the ETag of a file has listed after the file was computed.
CurrentIsNewer ==
  \A i \in Indexer, f \in File :
    pc[i] \in Before(f) /\ meta[i][f] = file[f].etag => listing[i].stamp > file[f].listing

\* The compressed file has at least the listing that is about to be published.
ZstIsAhead == \A i \in Indexer : pc[i] = "write_json" => file["zst"].listing >= listing[i].stamp

IInv == IndexType /\ Dated /\ CurrentIsNewer /\ ZstIsAhead /\ ZstNotOlder

-----------------------------------------------------------------------------
(* Types *)

\* A channel is well-formed to begin with.
LEMMA InitType == Init => IndexType
  <1> SUFFICES ASSUME NEW old \in Legacy, InitWith(old) PROVE IndexType
    BY DEF Init
  <1> USE IndexAssumption DEF InitWith
  <1>1. old \subseteq Package
    OBVIOUS
  <1>2. file \in [File -> FileState]
    BY <1>1 DEF FileState, Record, File
  <1>3. StorageType
    BY <1>1, <1>2 DEF StorageType, Version
  <1>4. LocalType
    BY DEF LocalType, Label, Option, Nobody, Version, File
  <1> QED
    BY <1>3, <1>4 DEF IndexType

\* The records an indexer composes.
LEMMA ComposedType ==
  ASSUME IndexType, NEW i \in Indexer
  PROVE  Unpatched(i) \subseteq Record /\ Patched(i) \subseteq Record
  <1> USE DEF IndexType, LocalType
  <1>1. ASSUME NEW r \in Registered(i) \cup got[i]
        PROVE  Stamped(i, r) \in Record
    <2>1. r.pkg \in Package /\ r.ver \in Version
      <3>1. CASE r \in Registered(i)
        BY <3>1 DEF Registered, Record, Version
      <3>2. CASE r \in got[i]
        BY <3>2, IndexAssumption DEF Version, Present
      <3> QED
        BY <3>1, <3>2
    <2>2. CASE \E t \in times[i] : t[1] = r.pkg
      <3> DEFINE t == CHOOSE t \in times[i] : t[1] = r.pkg
      <3>1. t \in times[i]
        BY <2>2
      <3>2. t[2] \in Nat
        BY <3>1
      <3> QED
        BY <2>1, <2>2, <3>2 DEF Stamped, Record, Version
    <2>3. CASE ~\E t \in times[i] : t[1] = r.pkg
      BY <2>1, <2>3 DEF Stamped, Record, Version
    <2> QED
      BY <2>2, <2>3
  <1> QED
    BY <1>1 DEF Unpatched, Patched

\* What an attempt starts from.
LEMMA EmptyType ==
  /\ Nobody \in [Package -> Version] /\ [f \in File |-> 0] \in [File -> Nat]
  /\ [stamp |-> 0, pkgs |-> {}] \in [stamp : Nat, pkgs : SUBSET Package]
  BY IndexAssumption DEF Nobody, Version

\* Nothing is left of an attempt.
LEMMA ForgetType ==
  ASSUME IndexType, NEW i \in Indexer, Forget(i), pc' = [pc EXCEPT ![i] = "idle"],
         try' = [try EXCEPT ![i] = 0], cache' = [cache EXCEPT ![i] = {}]
  PROVE  LocalType'
  <1>1. LocalType
    BY DEF IndexType
  <1>2. pc' \in [Indexer -> Label] /\ try' \in [Indexer -> 0..MaxTry]
    BY <1>1, IndexAssumption DEF LocalType, Label
  <1>3. option' \in [Indexer -> Option]
    BY <1>1 DEF LocalType, Forget, Option
  <1>4. /\ meta' \in [Indexer -> [File -> Nat]]
        /\ listing' \in [Indexer -> [stamp : Nat, pkgs : SUBSET Package]]
        /\ asked' \in [Indexer -> [Package -> Version]]
    BY <1>1, EmptyType DEF LocalType, Forget
  <1> QED
    BY <1>1, <1>2, <1>3, <1>4 DEF LocalType, Forget

\* An attempt that ends, ...
LEMMA FailType == ASSUME IndexType, NEW i \in Indexer, Fail(i) PROVE LocalType'
  BY ForgetType DEF Fail, Go

\* ... and one that starts over.
LEMMA RetryType == ASSUME IndexType, NEW i \in Indexer, Retry(i) PROVE LocalType'
  <1>1. CASE try[i] = MaxTry
    BY <1>1, FailType DEF Retry
  <1>2. CASE try[i] # MaxTry
    <2>1. /\ pc' = [pc EXCEPT ![i] = "stat_json"] /\ try' = [try EXCEPT ![i] = @ + 1]
          /\ meta' = [meta EXCEPT ![i] = [f \in File |-> 0]]
          /\ source' = [source EXCEPT ![i] = {}] /\ times' = [times EXCEPT ![i] = {}]
          /\ listing' = [listing EXCEPT ![i] = [stamp |-> 0, pkgs |-> {}]]
          /\ asked' = [asked EXCEPT ![i] = Nobody] /\ got' = [got EXCEPT ![i] = {}]
          /\ UNCHANGED <<option, cache>>
      BY <1>2 DEF Retry, Go
    <2>2. LocalType
      BY DEF IndexType
    <2>3. pc' \in [Indexer -> Label]
      BY <2>1, <2>2 DEF LocalType, Label
    <2>4. try[i] \in 0..MaxTry /\ try[i] + 1 \in 0..MaxTry
      <3>1. try[i] \in 0..MaxTry
        BY <2>2 DEF LocalType
      <3>2. MaxTry \in Nat
        BY IndexAssumption
      <3> QED
        BY <1>2, <3>1, <3>2
    <2>5. try' \in [Indexer -> 0..MaxTry]
      BY <2>1, <2>2, <2>4 DEF LocalType
    <2>6. /\ meta' \in [Indexer -> [File -> Nat]]
          /\ listing' \in [Indexer -> [stamp : Nat, pkgs : SUBSET Package]]
          /\ asked' \in [Indexer -> [Package -> Version]]
      BY <2>1, <2>2, EmptyType DEF LocalType
    <2> QED
      BY <2>1, <2>2, <2>3, <2>5, <2>6 DEF LocalType
  <1> QED
    BY <1>1, <1>2

\* An ETag that is remembered.
LEMMA StatType ==
  ASSUME IndexType, NEW i \in Indexer, NEW f \in File, NEW step, NEW next \in Label,
         Stat(i, f, step, next)
  PROVE  IndexType'
  BY DEF IndexType, StorageType, LocalType, Stat, Go, storage, FileState

\* A file that is written.
LEMMA WriteType ==
  ASSUME IndexType, NEW i \in Indexer, NEW f \in File, NEW recs \in SUBSET Record,
         Write(i, f, recs), UNCHANGED <<stored, changes, clock>>
  PROVE  StorageType'
  BY DEF IndexType, StorageType, LocalType, Write, FileState

\* Every step keeps the types.
LEMMA TypeStep == IndexType /\ [Next]_vars => IndexType'
  <1> SUFFICES ASSUME IndexType, [Next]_vars PROVE IndexType'
    OBVIOUS
  <1> USE IndexAssumption DEF storage, locals, ghosts
  <1>1. ASSUME NEW p \in Package, Upload(p) \/ Remove(p) PROVE IndexType'
    <2>1. /\ UNCHANGED <<file, clock, pc, try, option, meta, source, times, listing, asked, got,
                        cache>>
          /\ changes < MaxChange /\ changes' = changes + 1
          /\ stored' = [stored EXCEPT ![p] = changes + 2] \/ stored' = [stored EXCEPT ![p] = 0]
      BY <1>1 DEF Upload, Remove
    <2>2. LocalType'
      BY <2>1 DEF IndexType, LocalType
    <2>3. changes' \in 0..MaxChange /\ changes + 2 \in Version /\ 0 \in Version
      BY <2>1 DEF IndexType, StorageType, Version
    <2>4. StorageType'
      BY <2>1, <2>3 DEF IndexType, StorageType
    <2> QED
      BY <2>2, <2>4 DEF IndexType
  <1>2. ASSUME NEW i \in Indexer, NEW o \in Options, Begin(i, o) PROVE IndexType'
    <2>1. pc' \in [Indexer -> Label] /\ try' \in [Indexer -> 0..MaxTry]
      BY <1>2 DEF IndexType, LocalType, Begin, Go, Label
    <2>2. option' \in [Indexer -> Option]
      BY <1>2 DEF IndexType, LocalType, Begin, Option
    <2> QED
      BY <1>2, <2>1, <2>2 DEF IndexType, StorageType, LocalType, Begin
  <1>3. ASSUME NEW i \in Indexer,
               StatJson(i) \/ StatRaw(i) \/ StatZst(i) \/ StatShards(i) \/ StatHistory(i)
        PROVE  IndexType'
    BY <1>3, StatType DEF StatJson, StatRaw, StatZst, StatShards, StatHistory, File, Label
  <1>4. ASSUME NEW i \in Indexer, ReadSource(i) PROVE IndexType'
    <2> DEFINE f == IF option[i].patch THEN "raw" ELSE "json"
    <2>1. StorageType'
      BY <1>4 DEF ReadSource, IndexType, StorageType
    <2>2. CASE ~Readable(i, f)
      BY <1>4, <2>1, <2>2, RetryType DEF ReadSource, IndexType
    <2>3. CASE Readable(i, f)
      <3>1. file[f].recs \in SUBSET Record
        BY DEF IndexType, StorageType, FileState, File
      <3>2. TimesOf(i, file[f].recs) \in SUBSET (Package \X Nat)
        BY <3>1 DEF TimesOf, Record
      <3>3. LocalType'
        <4>1. pc' \in [Indexer -> Label]
          BY <1>4, <2>3 DEF ReadSource, IndexType, LocalType, Go, Label
        <4>2. source' \in [Indexer -> SUBSET Record]
          BY <1>4, <2>3, <3>1 DEF ReadSource, IndexType, LocalType
        <4>3. times' \in [Indexer -> SUBSET (Package \X Nat)]
          BY <1>4, <2>3, <3>2 DEF ReadSource, IndexType, LocalType
        <4> QED
          BY <1>4, <2>3, <4>1, <4>2, <4>3 DEF ReadSource, IndexType, LocalType
      <3> QED
        BY <2>1, <3>3 DEF IndexType
    <2> QED
      BY <2>2, <2>3
  <1>5. ASSUME NEW i \in Indexer, ReadHistory(i) PROVE IndexType'
    <2> DEFINE f == IF option[i].patch THEN "json" ELSE "raw"
    <2>1. StorageType'
      BY <1>5 DEF ReadHistory, IndexType, StorageType
    <2>2. CASE ~Readable(i, f)
      BY <1>5, <2>1, <2>2, RetryType DEF ReadHistory, IndexType
    <2>3. CASE Readable(i, f)
      <3>1. file[f].recs \in SUBSET Record
        BY DEF IndexType, StorageType, FileState, File
      <3>2. TimesOf(i, file[f].recs) \in SUBSET (Package \X Nat)
        BY <3>1 DEF TimesOf, Record
      <3>3. times[i] \in SUBSET (Package \X Nat)
        BY DEF IndexType, LocalType
      <3>4. /\ Joined(TimesOf(i, file[f].recs), times[i]) \in SUBSET (Package \X Nat)
            /\ Joined(times[i], TimesOf(i, file[f].recs)) \in SUBSET (Package \X Nat)
        BY <3>2, <3>3 DEF Joined
      <3>5. LocalType'
        <4>1. pc' \in [Indexer -> Label]
          BY <1>5, <2>3 DEF ReadHistory, IndexType, LocalType, Go, Label
        <4>2. times' \in [Indexer -> SUBSET (Package \X Nat)]
          BY <1>5, <2>3, <3>4 DEF ReadHistory, IndexType, LocalType
        <4> QED
          BY <1>5, <2>3, <4>1, <4>2 DEF ReadHistory, IndexType, LocalType
      <3> QED
        BY <2>1, <3>5 DEF IndexType
    <2> QED
      BY <2>2, <2>3
  <1>6. ASSUME NEW i \in Indexer, List(i) PROVE IndexType'
    BY <1>6 DEF IndexType, StorageType, LocalType, List, Go, Label
  <1>7. ASSUME NEW i \in Indexer, NEW p \in Package, GetOrStat(i, p) PROVE IndexType'
    <2>1. StorageType'
      BY <1>7 DEF GetOrStat, IndexType, StorageType
    <2>2. CASE stored[p] = 0
      BY <1>7, <2>1, <2>2, FailType DEF GetOrStat, IndexType
    <2>3. CASE stored[p] # 0 /\ \E c \in cache[i] : c.pkg = p /\ c.etag = stored[p]
      <3> DEFINE c == CHOOSE c \in cache[i] : c.pkg = p /\ c.etag = stored[p]
      <3>1. c \in cache[i]
        BY <2>3
      <3>2. c.ver \in Present
        BY <3>1 DEF IndexType, LocalType
      <3>3. LocalType'
        <4>1. got' = [got EXCEPT ![i] = @ \cup {[pkg |-> p, ver |-> c.ver]}] /\ UNCHANGED asked
          BY <1>7, <2>3 DEF GetOrStat, Obtain
        <4>2. got' \in [Indexer -> SUBSET [pkg : Package, ver : Present]]
          BY <3>2, <4>1 DEF IndexType, LocalType
        <4> HIDE DEF c
        <4> QED
          BY <1>7, <2>3, <4>1, <4>2 DEF GetOrStat, IndexType, LocalType
      <3> QED
        BY <2>1, <3>3 DEF IndexType
    <2>4. CASE stored[p] # 0 /\ ~\E c \in cache[i] : c.pkg = p /\ c.etag = stored[p]
      <3>1. asked' = [asked EXCEPT ![i][p] = stored[p]] /\ UNCHANGED got
        BY <1>7, <2>4 DEF GetOrStat
      <3>2. asked' \in [Indexer -> [Package -> Version]]
        BY <3>1 DEF IndexType, StorageType, LocalType
      <3> QED
        BY <1>7, <2>1, <2>4, <3>1, <3>2 DEF GetOrStat, IndexType, LocalType
    <2> QED
      BY <2>2, <2>3, <2>4
  <1>8. ASSUME NEW i \in Indexer, NEW p \in Package, ReadPackage(i, p) PROVE IndexType'
    <2>1. StorageType'
      BY <1>8 DEF ReadPackage, IndexType, StorageType
    <2>2. CASE stored[p] = 0
      BY <1>8, <2>1, <2>2, FailType DEF ReadPackage, IndexType
    <2>3. CASE stored[p] # 0
      <3>1. stored[p] \in Present /\ asked[i][p] \in Version /\ 0 \in Version
        BY <2>3 DEF IndexType, StorageType, LocalType, Version, Present
      <3>2. stored[p] \in Version
        BY <3>1 DEF Version, Present
      <3>3. LocalType'
        <4>1. /\ UNCHANGED <<pc, try, option, meta, source, times, listing>>
              /\ \/ /\ got' = [got EXCEPT ![i] = @ \cup {[pkg |-> p, ver |-> stored[p]]}]
                    /\ cache' = [cache EXCEPT ![i] = {c \in @ : c.pkg # p} \cup
                                   {[pkg |-> p, etag |-> asked[i][p], ver |-> stored[p]]}]
                    /\ asked' = [asked EXCEPT ![i][p] = 0]
                 \/ asked' = [asked EXCEPT ![i][p] = stored[p]] /\ UNCHANGED <<got, cache>>
          BY <1>8, <2>3 DEF ReadPackage, Obtain
        <4>2. LocalType
          BY DEF IndexType
        <4>3. /\ asked \in [Indexer -> [Package -> Version]]
              /\ got \in [Indexer -> SUBSET [pkg : Package, ver : Present]]
              /\ cache \in [Indexer -> SUBSET [pkg : Package, etag : Version, ver : Present]]
          BY <4>2 DEF LocalType
        <4>4. /\ [pkg |-> p, ver |-> stored[p]] \in [pkg : Package, ver : Present]
              /\ [pkg |-> p, etag |-> asked[i][p], ver |-> stored[p]]
                   \in [pkg : Package, etag : Version, ver : Present]
          BY <3>1
        <4>5. asked' \in [Indexer -> [Package -> Version]]
          <5>1. PICK v \in Version : asked' = [asked EXCEPT ![i][p] = v]
            BY <3>1, <3>2, <4>1
          <5> QED
            BY <4>3, <5>1
        <4>6. got' \in [Indexer -> SUBSET [pkg : Package, ver : Present]]
          BY <4>1, <4>3, <4>4
        <4>7. cache' \in [Indexer -> SUBSET [pkg : Package, etag : Version, ver : Present]]
          BY <4>1, <4>3, <4>4
        <4> QED
          BY <4>1, <4>2, <4>5, <4>6, <4>7 DEF LocalType
      <3> QED
        BY <2>1, <3>3 DEF IndexType
    <2> QED
      BY <2>2, <2>3
  <1>9. ASSUME NEW i \in Indexer, Compose(i) PROVE IndexType'
    BY <1>9 DEF IndexType, StorageType, LocalType, Compose, Go, Label
  <1>10. ASSUME NEW i \in Indexer, WriteRaw(i) PROVE IndexType'
    <2>1. CASE Unchanged(i, "raw")
      <3>1. StorageType'
        BY <1>10, <2>1, WriteType, ComposedType DEF WriteRaw, File
      <3> QED
        BY <1>10, <2>1, <3>1 DEF WriteRaw, IndexType, LocalType, Go, Label
    <2>2. CASE ~Unchanged(i, "raw")
      BY <1>10, <2>2, RetryType DEF WriteRaw, IndexType, StorageType
    <2> QED
      BY <2>1, <2>2
  <1>11. ASSUME NEW i \in Indexer, WriteZst(i) PROVE IndexType'
    <2>1. CASE Unchanged(i, "zst")
      <3>1. StorageType'
        BY <1>11, <2>1, WriteType, ComposedType DEF WriteZst, File
      <3> QED
        BY <1>11, <2>1, <3>1 DEF WriteZst, IndexType, LocalType, Go, Label
    <2>2. CASE ~Unchanged(i, "zst")
      BY <1>11, <2>2, RetryType DEF WriteZst, IndexType, StorageType
    <2> QED
      BY <2>1, <2>2
  <1>12. ASSUME NEW i \in Indexer, WriteJson(i) PROVE IndexType'
    <2>1. CASE Unchanged(i, "json")
      <3>1. StorageType'
        BY <1>12, <2>1, WriteType, ComposedType DEF WriteJson, File
      <3> QED
        BY <1>12, <2>1, <3>1 DEF WriteJson, IndexType, LocalType, Go, Label
    <2>2. CASE ~Unchanged(i, "json")
      BY <1>12, <2>2, RetryType DEF WriteJson, IndexType, StorageType
    <2> QED
      BY <2>1, <2>2
  <1>13. ASSUME NEW i \in Indexer, WriteShards(i) PROVE IndexType'
    <2>1. CASE Unchanged(i, "shards")
      <3>1. StorageType'
        BY <1>13, <2>1, WriteType, ComposedType DEF WriteShards, File
      <3>2. LocalType'
        <4>1. /\ pc' = [pc EXCEPT ![i] = "idle"] /\ try' = [try EXCEPT ![i] = 0]
              /\ Forget(i) /\ cache' = [cache EXCEPT ![i] = {}]
          BY <1>13, <2>1 DEF WriteShards, Go
        <4> QED
          BY <4>1, ForgetType
      <3> QED
        BY <3>1, <3>2 DEF IndexType
    <2>2. CASE ~Unchanged(i, "shards")
      BY <1>13, <2>2, RetryType DEF WriteShards, IndexType, StorageType
    <2> QED
      BY <2>1, <2>2
  <1>14. ASSUME NEW i \in Indexer, Crash(i) PROVE IndexType'
    BY <1>14, FailType DEF Crash, IndexType, StorageType
  <1>15. CASE Initialize
    BY <1>15 DEF Initialize, IndexType, StorageType, LocalType, FileState, File
  <1>16. CASE UNCHANGED vars
    BY <1>16 DEF vars, IndexType, StorageType, LocalType
  <1> QED
    BY <1>1, <1>2, <1>3, <1>4, <1>5, <1>6, <1>7, <1>8, <1>9, <1>10, <1>11, <1>12, <1>13, <1>14,
       <1>15, <1>16 DEF Next

-----------------------------------------------------------------------------
(* The order of the files *)

\* A step that writes no file, after which no indexer but i is elsewhere, and i
\* has nothing listed that it could write.
LEMMA QuietStep ==
  ASSUME IInv, IndexType', NEW i \in Indexer, UNCHANGED <<file, clock>>,
         \A j \in Indexer \ {i} : /\ pc'[j] = pc[j] /\ meta'[j] = meta[j]
                                  /\ listing'[j] = listing[j],
         pc'[i] \notin {"packages", "write_raw", "write_zst", "write_json", "write_shards"},
         listing'[i].stamp <= clock,
         \A f \in File : meta'[i][f] <= file[f].etag
  PROVE  IInv'
  <1>1. Dated'
    BY DEF IInv, Dated
  <1>2. CurrentIsNewer'
    BY DEF IInv, CurrentIsNewer, Before, File
  <1>3. ZstIsAhead'
    BY DEF IInv, ZstIsAhead
  <1>4. ZstNotOlder'
    BY DEF IInv, ZstNotOlder
  <1> QED
    BY <1>1, <1>2, <1>3, <1>4 DEF IInv

\* An attempt that ends, ...
LEMMA FailStep ==
  ASSUME IInv, IndexType', NEW i \in Indexer, Fail(i), UNCHANGED <<file, clock>>
  PROVE  IInv'
  <1>1. /\ \A j \in Indexer \ {i} : /\ pc'[j] = pc[j] /\ meta'[j] = meta[j]
                                    /\ listing'[j] = listing[j]
        /\ pc'[i] = "idle" /\ listing'[i].stamp = 0 /\ meta'[i] = [f \in File |-> 0]
    BY DEF IInv, IndexType, LocalType, Fail, Forget, Go
  <1>2. \A f \in File : file[f].etag \in Nat /\ meta'[i][f] = 0
    BY <1>1 DEF IInv, IndexType, StorageType, FileState
  <1>3. clock \in Nat
    BY DEF IInv, IndexType, StorageType
  <1> QED
    BY <1>1, <1>2, <1>3, QuietStep

\* ... and one that starts over.
LEMMA RetryStep ==
  ASSUME IInv, IndexType', NEW i \in Indexer, Retry(i), UNCHANGED <<file, clock>>
  PROVE  IInv'
  <1>1. CASE try[i] = MaxTry
    BY <1>1, FailStep DEF Retry
  <1>2. CASE try[i] # MaxTry
    <2>1. /\ \A j \in Indexer \ {i} : /\ pc'[j] = pc[j] /\ meta'[j] = meta[j]
                                      /\ listing'[j] = listing[j]
          /\ pc'[i] = "stat_json" /\ listing'[i].stamp = 0 /\ meta'[i] = [f \in File |-> 0]
      BY <1>2 DEF IInv, IndexType, LocalType, Retry, Go
    <2>2. \A f \in File : file[f].etag \in Nat /\ meta'[i][f] = 0
      BY <2>1 DEF IInv, IndexType, StorageType, FileState
    <2>3. clock \in Nat
      BY DEF IInv, IndexType, StorageType
    <2> QED
      BY <2>1, <2>2, <2>3, QuietStep
  <1> QED
    BY <1>1, <1>2

\* An ETag that is remembered is that of the file, and nothing is listed yet.
LEMMA StatStep ==
  ASSUME IInv, IndexType', NEW i \in Indexer, NEW f \in File, NEW step,
         NEW next \in {"stat_raw", "stat_zst", "stat_shards", "read_source", "read_history"},
         Stat(i, f, step, next)
  PROVE  IInv'
  <1>1. /\ UNCHANGED <<file, clock, listing>>
        /\ pc' = [pc EXCEPT ![i] = next] /\ meta' = [meta EXCEPT ![i][f] = file[f].etag]
    BY DEF Stat, Go, storage
  <1>2. /\ \A j \in Indexer \ {i} : pc'[j] = pc[j] /\ meta'[j] = meta[j]
        /\ pc'[i] = next
        /\ \A g \in File : meta'[i][g] = IF g = f THEN file[f].etag ELSE meta[i][g]
    BY <1>1 DEF IInv, IndexType, LocalType
  <1>3. \A g \in File : meta'[i][g] <= file[g].etag
    BY <1>2 DEF IInv, Dated, IndexType, StorageType, FileState
  <1>4. listing'[i].stamp <= clock
    BY <1>1 DEF IInv, Dated
  <1> QED
    BY <1>1, <1>2, <1>3, <1>4, QuietStep

\* A step that moves i on to where the same or fewer files are to be written.
LEMMA MoveStep ==
  ASSUME IInv, IndexType', NEW i \in Indexer, UNCHANGED <<file, clock, meta, listing>>,
         \A j \in Indexer \ {i} : pc'[j] = pc[j],
         \A f \in File : pc'[i] \in Before(f) => pc[i] \in Before(f),
         pc'[i] = "write_json" => pc[i] = "write_json"
  PROVE  IInv'
  <1>1. Dated'
    BY DEF IInv, Dated
  <1>2. CurrentIsNewer'
    BY DEF IInv, CurrentIsNewer
  <1>3. ZstIsAhead'
    BY DEF IInv, ZstIsAhead
  <1>4. ZstNotOlder'
    BY DEF IInv, ZstNotOlder
  <1> QED
    BY <1>1, <1>2, <1>3, <1>4 DEF IInv

\* A file that is written by somebody who still has its ETag, and who goes on
\* to the next.
LEMMA WriteStep ==
  ASSUME IInv, IndexType', NEW i \in Indexer, NEW f \in File, NEW recs, NEW next \in Label,
         pc[i] \in Before(f), Unchanged(i, f), Write(i, f, recs),
         UNCHANGED <<clock, meta, listing>>,
         pc' = [pc EXCEPT ![i] = next], next \notin Before(f),
         \A g \in File : next \in Before(g) => pc[i] \in Before(g),
         next = "write_json" <=> f = "zst",
         f = "json" => pc[i] = "write_json"
  PROVE  IInv'
  <1>1. /\ \A g \in File \ {f} : file'[g] = file[g]
        /\ file'[f].etag = file[f].etag + 1 /\ file'[f].listing = listing[i].stamp
    BY DEF IInv, IndexType, StorageType, FileState, Write
  <1>2. \A g \in File : file[g].etag \in Nat /\ file[g].listing \in Nat
    BY DEF IInv, IndexType, StorageType, FileState
  <1>3. /\ \A j \in Indexer : listing[j].stamp \in Nat /\ \A g \in File : meta[j][g] \in Nat
        /\ clock \in Nat
    BY DEF IInv, IndexType, StorageType, LocalType
  <1>4. \A j \in Indexer : pc'[j] = IF j = i THEN next ELSE pc[j]
    BY DEF IInv, IndexType, LocalType
  <1>5. listing[i].stamp > file[f].listing
    BY DEF IInv, CurrentIsNewer, Unchanged
  <1>6. Dated'
    BY <1>1, <1>2, <1>3 DEF IInv, Dated
  <1>7. CurrentIsNewer'
    BY <1>1, <1>2, <1>3, <1>4 DEF IInv, Dated, CurrentIsNewer
  <1>8. "zst" \in File /\ "json" \in File /\ "zst" # "json"
    BY DEF File
  <1>9. ZstIsAhead'
    <2> SUFFICES ASSUME NEW j \in Indexer, pc'[j] = "write_json"
                 PROVE  file'["zst"].listing >= listing'[j].stamp
      BY DEF ZstIsAhead
    <2>1. CASE j = i
      BY <1>1, <1>3, <1>4, <2>1
    <2>2. CASE j # i
      BY <1>1, <1>2, <1>3, <1>4, <1>5, <1>8, <2>2 DEF IInv, ZstIsAhead
    <2> QED
      BY <2>1, <2>2
  <1>10. ZstNotOlder'
    BY <1>1, <1>2, <1>3, <1>5, <1>8 DEF IInv, ZstNotOlder, ZstIsAhead
  <1> QED
    BY <1>6, <1>7, <1>9, <1>10 DEF IInv

\* The last file: the attempt has succeeded and is forgotten.
LEMMA ShardsStep ==
  ASSUME IInv, IndexType', NEW i \in Indexer, NEW recs, Write(i, "shards", recs),
         pc[i] = "write_shards", Unchanged(i, "shards"), Go(i, "idle"), Forget(i), UNCHANGED clock
  PROVE  IInv'
  <1>1. /\ \A g \in File \ {"shards"} : file'[g] = file[g]
        /\ file'["shards"].etag = file["shards"].etag + 1
        /\ file'["shards"].listing = listing[i].stamp
        /\ "shards" \in File /\ "zst" \in File \ {"shards"} /\ "json" \in File \ {"shards"}
    BY DEF IInv, IndexType, StorageType, FileState, Write, File
  <1>2. /\ \A j \in Indexer \ {i} : /\ pc'[j] = pc[j] /\ meta'[j] = meta[j]
                                    /\ listing'[j] = listing[j]
        /\ pc'[i] = "idle" /\ listing'[i].stamp = 0 /\ \A f \in File : meta'[i][f] = 0
    BY DEF IInv, IndexType, LocalType, Forget, Go
  <1>3. /\ clock \in Nat
        /\ \A f \in File : file[f].listing \in Nat /\ file[f].etag \in Nat
        /\ \A j \in Indexer : listing[j].stamp \in Nat /\ \A f \in File : meta[j][f] \in Nat
    BY DEF IInv, IndexType, StorageType, LocalType, FileState
  <1>4. Dated'
    BY <1>1, <1>2, <1>3 DEF IInv, Dated
  <1>5. \A f \in File : "idle" \notin Before(f)
    BY DEF Before, File
  <1>6. CurrentIsNewer'
    BY <1>1, <1>2, <1>3, <1>5 DEF IInv, Dated, CurrentIsNewer
  <1>7. ZstIsAhead' /\ ZstNotOlder'
    BY <1>1, <1>2 DEF IInv, ZstIsAhead, ZstNotOlder
  <1> QED
    BY <1>4, <1>6, <1>7 DEF IInv

\* All files are as old as the channel.
LEMMA InitOrder == Init => IInv
  <1> SUFFICES ASSUME NEW old \in Legacy, InitWith(old), IndexType PROVE IInv
    BY InitType DEF Init
  <1>1. \A i \in Indexer : pc[i] = "idle" /\ listing[i].stamp = 0 /\ \A f \in File : meta[i][f] = 0
    BY DEF InitWith
  <1>2. \A f \in File : file[f].listing = 0 /\ file[f].etag \in Nat
    BY DEF InitWith
  <1>3. clock = 0
    BY DEF InitWith
  <1>4. Dated
    BY <1>1, <1>2, <1>3 DEF Dated
  <1>5. CurrentIsNewer /\ ZstIsAhead
    BY <1>1 DEF CurrentIsNewer, ZstIsAhead, Before, File
  <1>6. ZstNotOlder
    BY <1>2 DEF ZstNotOlder, File
  <1> QED
    BY <1>4, <1>5, <1>6 DEF IInv

\* Every step keeps the order.
LEMMA OrderStep == IInv /\ [Next]_vars => IInv'
  <1> SUFFICES ASSUME IInv, [Next]_vars PROVE IInv'
    OBVIOUS
  <1> USE DEF storage, locals, ghosts
  <1>0. IndexType /\ IndexType'
    BY TypeStep DEF IInv
  <1>1. ASSUME NEW p \in Package, Upload(p) \/ Remove(p) PROVE IInv'
    <2>1. UNCHANGED <<file, clock, pc, meta, listing>>
      BY <1>1 DEF Upload, Remove
    <2> QED
      BY <1>0, <2>1 DEF IInv, Dated, CurrentIsNewer, ZstIsAhead, ZstNotOlder
  <1>2. ASSUME NEW i \in Indexer, NEW o \in Options, Begin(i, o) PROVE IInv'
    <2>1. UNCHANGED <<file, clock, meta, listing>> /\ pc' = [pc EXCEPT ![i] = "stat_json"]
      BY <1>2 DEF Begin, Go
    <2>2. pc'[i] = "stat_json" /\ \A j \in Indexer \ {i} : pc'[j] = pc[j]
      BY <1>0, <2>1 DEF IndexType, LocalType
    <2> QED
      BY <1>0, <2>1, <2>2, MoveStep DEF Before, File
  <1>3. ASSUME NEW i \in Indexer,
               StatJson(i) \/ StatRaw(i) \/ StatZst(i) \/ StatShards(i) \/ StatHistory(i)
        PROVE  IInv'
    BY <1>0, <1>3, StatStep DEF StatJson, StatRaw, StatZst, StatShards, StatHistory, File
  <1>4. ASSUME NEW i \in Indexer, ReadSource(i) \/ ReadHistory(i) PROVE IInv'
    <2>1. CASE Retry(i)
      BY <1>0, <1>4, <2>1, RetryStep DEF ReadSource, ReadHistory
    <2>2. CASE ~Retry(i)
      <3>1. /\ UNCHANGED <<file, clock, meta, listing>>
            /\ \E l \in {"stat_history", "read_history", "list"} : pc' = [pc EXCEPT ![i] = l]
        BY <1>4, <2>2 DEF ReadSource, ReadHistory, Go
      <3>2. /\ pc'[i] \in {"stat_history", "read_history", "list"}
            /\ \A j \in Indexer \ {i} : pc'[j] = pc[j]
        BY <1>0, <3>1 DEF IndexType, LocalType
      <3> QED
        BY <1>0, <3>1, <3>2, MoveStep DEF Before, File
    <2> QED
      BY <2>1, <2>2
  <1>5. ASSUME NEW i \in Indexer, List(i) PROVE IInv'
    <2>1. /\ UNCHANGED <<file, meta>> /\ clock' = clock + 1
          /\ pc' = [pc EXCEPT ![i] = "packages"]
          /\ listing' = [listing EXCEPT ![i] = [stamp |-> clock + 1,
                                                pkgs |-> {p \in Package : stored[p] # 0}]]
      BY <1>5 DEF List, Go
    <2>2. /\ \A j \in Indexer \ {i} : pc'[j] = pc[j] /\ listing'[j] = listing[j]
          /\ pc'[i] = "packages" /\ listing'[i].stamp = clock + 1
      BY <1>0, <2>1 DEF IndexType, LocalType
    <2>3. /\ clock \in Nat
          /\ \A f \in File : file[f].listing \in Nat
          /\ \A j \in Indexer : listing[j].stamp \in Nat
      BY <1>0 DEF IndexType, StorageType, LocalType, FileState
    <2>4. Dated'
      BY <2>1, <2>2, <2>3 DEF IInv, Dated
    <2>5. CurrentIsNewer'
      BY <2>1, <2>2, <2>3 DEF IInv, Dated, CurrentIsNewer
    <2>6. ZstIsAhead' /\ ZstNotOlder'
      BY <2>1, <2>2 DEF IInv, ZstIsAhead, ZstNotOlder
    <2> QED
      BY <1>0, <2>4, <2>5, <2>6 DEF IInv
  <1>6. ASSUME NEW i \in Indexer, NEW p \in Package, GetOrStat(i, p) \/ ReadPackage(i, p)
        PROVE  IInv'
    <2>1. CASE Fail(i)
      BY <1>0, <1>6, <2>1, FailStep DEF GetOrStat, ReadPackage
    <2>2. CASE ~Fail(i)
      <3>1. UNCHANGED <<file, clock, meta, listing, pc>>
        BY <1>6, <2>2 DEF GetOrStat, ReadPackage
      <3> QED
        BY <1>0, <3>1, MoveStep
    <2> QED
      BY <2>1, <2>2
  <1>7. ASSUME NEW i \in Indexer, Compose(i) PROVE IInv'
    <2>1. /\ UNCHANGED <<file, clock, meta, listing>>
          /\ pc[i] = "packages"
          /\ \E l \in {"write_raw", "write_zst"} : pc' = [pc EXCEPT ![i] = l]
      BY <1>7 DEF Compose, Go
    <2>2. /\ pc'[i] \in {"write_raw", "write_zst"}
          /\ \A j \in Indexer \ {i} : pc'[j] = pc[j]
      BY <1>0, <2>1 DEF IndexType, LocalType
    <2> QED
      BY <1>0, <2>1, <2>2, MoveStep DEF Before, File
  <1>8. ASSUME NEW i \in Indexer, WriteRaw(i) PROVE IInv'
    <2>1. CASE Unchanged(i, "raw")
      <3>1. /\ pc[i] = "write_raw" /\ Write(i, "raw", Unpatched(i))
            /\ UNCHANGED <<clock, meta, listing>> /\ pc' = [pc EXCEPT ![i] = "write_zst"]
        BY <1>8, <2>1 DEF WriteRaw, Go
      <3> QED
        BY <1>0, <2>1, <3>1, WriteStep DEF Before, File, Label
    <2>2. CASE ~Unchanged(i, "raw")
      BY <1>0, <1>8, <2>2, RetryStep DEF WriteRaw
    <2> QED
      BY <2>1, <2>2
  <1>9. ASSUME NEW i \in Indexer, WriteZst(i) PROVE IInv'
    <2>1. CASE Unchanged(i, "zst")
      <3>1. /\ pc[i] = "write_zst" /\ Write(i, "zst", Patched(i))
            /\ UNCHANGED <<clock, meta, listing>> /\ pc' = [pc EXCEPT ![i] = "write_json"]
        BY <1>9, <2>1 DEF WriteZst, Go
      <3> QED
        BY <1>0, <2>1, <3>1, WriteStep DEF Before, File, Label
    <2>2. CASE ~Unchanged(i, "zst")
      BY <1>0, <1>9, <2>2, RetryStep DEF WriteZst
    <2> QED
      BY <2>1, <2>2
  <1>10. ASSUME NEW i \in Indexer, WriteJson(i) PROVE IInv'
    <2>1. CASE Unchanged(i, "json")
      <3>1. /\ pc[i] = "write_json" /\ Write(i, "json", Patched(i))
            /\ UNCHANGED <<clock, meta, listing>> /\ pc' = [pc EXCEPT ![i] = "write_shards"]
        BY <1>10, <2>1 DEF WriteJson, Go
      <3> QED
        BY <1>0, <2>1, <3>1, WriteStep DEF Before, File, Label
    <2>2. CASE ~Unchanged(i, "json")
      BY <1>0, <1>10, <2>2, RetryStep DEF WriteJson
    <2> QED
      BY <2>1, <2>2
  <1>11. ASSUME NEW i \in Indexer, WriteShards(i) PROVE IInv'
    <2>1. CASE Unchanged(i, "shards")
      BY <1>0, <1>11, <2>1, ShardsStep DEF WriteShards
    <2>2. CASE ~Unchanged(i, "shards")
      BY <1>0, <1>11, <2>2, RetryStep DEF WriteShards
    <2> QED
      BY <2>1, <2>2
  <1>12. ASSUME NEW i \in Indexer, Crash(i) PROVE IInv'
    BY <1>0, <1>12, FailStep DEF Crash
  <1>13. CASE Initialize
    <2>1. /\ UNCHANGED <<clock, pc, meta, listing>> /\ file["json"].etag = 0
          /\ file' = [file EXCEPT !["json"] = [etag |-> 1, listing |-> 0, recs |-> {}]]
      BY <1>13 DEF Initialize
    <2>2. /\ \A f \in File \ {"json"} : file'[f] = file[f]
          /\ file'["json"].etag = 1 /\ file'["json"].listing = 0 /\ "json" \in File
          /\ "zst" \in File \ {"json"}
      BY <1>0, <2>1 DEF IndexType, StorageType, File
    <2>3. /\ clock \in Nat
          /\ \A f \in File : file[f].listing \in Nat
          /\ \A j \in Indexer, f \in File : meta[j][f] \in Nat
      BY <1>0 DEF IndexType, StorageType, LocalType, FileState
    <2>4. Dated'
      BY <2>1, <2>2, <2>3 DEF IInv, Dated
    <2>5. CurrentIsNewer'
      BY <2>1, <2>2, <2>3 DEF IInv, Dated, CurrentIsNewer
    <2>6. ZstIsAhead' /\ ZstNotOlder'
      BY <2>1, <2>2, <2>3 DEF IInv, ZstIsAhead, ZstNotOlder
    <2> QED
      BY <1>0, <2>4, <2>5, <2>6 DEF IInv
  <1>14. CASE UNCHANGED vars
    BY <1>0, <1>14 DEF vars, IInv, Dated, CurrentIsNewer, ZstIsAhead, ZstNotOlder
  <1> QED
    BY <1>1, <1>2, <1>3, <1>4, <1>5, <1>6, <1>7, <1>8, <1>9, <1>10, <1>11, <1>12, <1>13, <1>14
       DEF Next

-----------------------------------------------------------------------------
(* Theorems *)

\* The inductive invariant: who still has the ETag of a file has listed later.
THEOREM OrderInvariant == Spec => []IInv
  BY InitOrder, OrderStep, PTL DEF Spec

\* Type correctness.
THEOREM IndexTypeCorrect == Spec => []TypeOK
  <1>1. IInv => TypeOK
    <2> SUFFICES ASSUME IInv PROVE TypeOK
      OBVIOUS
    <2>1. \A f \in File : file[f].etag \in Nat /\ file[f].listing \in 0..clock
                          /\ file[f].recs \subseteq Record
      BY DEF IInv, IndexType, StorageType, FileState, Dated
    <2> QED
      BY <2>1 DEF IInv, IndexType, StorageType, LocalType, TypeOK, Version, Present
  <1> QED
    BY <1>1, OrderInvariant, PTL

\* The compressed file is never behind repodata.json: write_repodata writes it
\* first, and both only under the ETag that was found before the listing.
THEOREM CompressedIsNotOlder == Spec => []ZstNotOlder
  <1>1. IInv => ZstNotOlder
    BY DEF IInv
  <1> QED
    BY <1>1, OrderInvariant, PTL

\* No update is lost: write_with_metadata_check replaces repodata.json only by
\* what was computed from a later listing.
THEOREM IndexOnlyAdvances == Spec => JsonAdvances
  <1>1. IInv /\ [Next]_vars => [file'["json"].listing >= file["json"].listing]_file
    <2> SUFFICES ASSUME IInv, Next, file' # file
                 PROVE  file'["json"].listing >= file["json"].listing
      BY DEF vars, storage
    <2> USE DEF storage, locals, ghosts
    <2>0. /\ file \in [File -> FileState] /\ "json" \in File /\ file["json"].listing \in Nat
          /\ \A i \in Indexer : listing[i].stamp \in Nat
      BY DEF IInv, IndexType, StorageType, LocalType, FileState, File
    <2>1. CASE Initialize
      BY <2>0, <2>1 DEF Initialize, IInv, Dated
    <2>2. ASSUME NEW i \in Indexer, WriteJson(i)
          PROVE  file'["json"].listing >= file["json"].listing
      <3>1. pc[i] = "write_json" /\ Unchanged(i, "json") /\ Write(i, "json", Patched(i))
        BY <2>2 DEF WriteJson
      <3>2. pc[i] \in Before("json")
        BY <3>1 DEF Before
      <3>3. listing[i].stamp > file["json"].listing
        BY <2>0, <3>1, <3>2 DEF IInv, CurrentIsNewer, Unchanged
      <3>4. file'["json"].listing = listing[i].stamp
        BY <2>0, <3>1 DEF Write
      <3> QED
        BY <2>0, <3>3, <3>4
    <2>3. ASSUME NEW i \in Indexer, WriteRaw(i) \/ WriteZst(i) \/ WriteShards(i)
          PROVE  file'["json"].listing >= file["json"].listing
      <3>1. PICK f \in File \ {"json"} : \E recs : Write(i, f, recs)
        BY <2>3 DEF WriteRaw, WriteZst, WriteShards, File
      <3>2. file'["json"] = file["json"]
        BY <2>0, <3>1 DEF Write
      <3> QED
        BY <2>0, <3>2
    <2>4. \/ Initialize
          \/ \E i \in Indexer : WriteRaw(i) \/ WriteZst(i) \/ WriteJson(i) \/ WriteShards(i)
      BY DEF Next, Upload, Remove, Begin, StatJson, StatRaw, StatZst, StatShards, StatHistory, Stat,
             ReadSource, ReadHistory, List, GetOrStat, ReadPackage, Compose, Crash
    <2> QED
      BY <2>1, <2>2, <2>3, <2>4
  <1> QED
    BY <1>1, OrderInvariant, PTL DEF Spec, JsonAdvances

\* The cache of package records has, under an ETag, the record of that very
\* file: read_package_with_retry reads on condition of the ETag it stores.
THEOREM CacheStaysHonest == Spec => []CacheIsHonest
  <1>1. Init => CacheIsHonest
    BY DEF Init, InitWith, CacheIsHonest
  <1>2. IInv /\ CacheIsHonest /\ [Next]_vars => CacheIsHonest'
    <2> SUFFICES ASSUME IInv, CacheIsHonest, [Next]_vars PROVE CacheIsHonest'
      OBVIOUS
    <2> USE DEF storage, locals, ghosts
    <2>0. cache \in [Indexer -> SUBSET [pkg : Package, etag : Version, ver : Present]]
      BY DEF IInv, IndexType, LocalType
    <2>1. ASSUME NEW i \in Indexer, cache' = [cache EXCEPT ![i] = {}] PROVE CacheIsHonest'
      BY <2>0, <2>1 DEF CacheIsHonest
    <2>2. CASE UNCHANGED cache
      BY <2>2 DEF CacheIsHonest
    <2>3. ASSUME NEW i \in Indexer, NEW p \in Package, ReadPackage(i, p) PROVE CacheIsHonest'
      <3>1. CASE stored[p] = 0
        BY <2>1, <2>3, <3>1 DEF ReadPackage, Fail
      <3>2. CASE stored[p] # 0 /\ ~Same(i, p)
        BY <2>2, <2>3, <3>2 DEF ReadPackage
      <3>3. CASE stored[p] # 0 /\ Same(i, p)
        <4>1. cache' = [cache EXCEPT ![i] = {c \in @ : c.pkg # p} \cup
                          {[pkg |-> p, etag |-> asked[i][p], ver |-> stored[p]]}]
          BY <2>3, <3>3 DEF ReadPackage
        <4>2. asked[i][p] = stored[p]
          BY <3>3 DEF Same
        <4> QED
          BY <2>0, <4>1, <4>2 DEF CacheIsHonest
      <3> QED
        BY <3>1, <3>2, <3>3
    <2>4. ASSUME NEW i \in Indexer, Fail(i) \/ Retry(i) PROVE CacheIsHonest'
      BY <2>1, <2>2, <2>4 DEF Fail, Retry
    <2>5. ASSUME NEW i \in Indexer,
                 ReadSource(i) \/ ReadHistory(i) \/ WriteRaw(i) \/ WriteZst(i) \/ WriteJson(i)
          PROVE  CacheIsHonest'
      BY <2>2, <2>4, <2>5 DEF ReadSource, ReadHistory, WriteRaw, WriteZst, WriteJson
    <2>6. ASSUME NEW i \in Indexer, WriteShards(i) PROVE CacheIsHonest'
      BY <2>1, <2>4, <2>6 DEF WriteShards
    <2>7. ASSUME NEW i \in Indexer, NEW p \in Package, GetOrStat(i, p) PROVE CacheIsHonest'
      BY <2>2, <2>4, <2>7 DEF GetOrStat
    <2>8. ASSUME NEW i \in Indexer, Crash(i) PROVE CacheIsHonest'
      BY <2>4, <2>8 DEF Crash
    <2>9. ASSUME NEW i \in Indexer,
                 \/ \E o \in Options : Begin(i, o)
                 \/ StatJson(i) \/ StatRaw(i) \/ StatZst(i) \/ StatShards(i) \/ StatHistory(i)
                 \/ List(i) \/ Compose(i)
          PROVE  CacheIsHonest'
      BY <2>2, <2>9 DEF Begin, StatJson, StatRaw, StatZst, StatShards, StatHistory, Stat, List,
                        Compose
    <2>10. CASE Initialize \/ UNCHANGED vars \/ \E p \in Package : Upload(p) \/ Remove(p)
      BY <2>2, <2>10 DEF Initialize, vars, Upload, Remove
    <2> QED
      BY <2>3, <2>5, <2>6, <2>7, <2>8, <2>9, <2>10 DEF Next
  <1> QED
    BY <1>1, <1>2, OrderInvariant, PTL DEF Spec

-----------------------------------------------------------------------------
(* The files agree in the end *)

\* The steps of an indexer that has listed the packages.
Listed == Before("shards")

\* Listings are told apart by their stamps, and a file has the stamp of an
\* indexer only after that one has written it.
StampsDiffer ==
  /\ \A i \in Indexer : pc[i] \in Listed => listing[i].stamp > 0
  /\ \A i, j \in Indexer : i # j /\ pc[i] \in Listed /\ pc[j] \in Listed =>
                           listing[i].stamp # listing[j].stamp
  /\ \A i \in Indexer, f \in File : pc[i] \in Before(f) => file[f].listing # listing[i].stamp

\* What has the stamp of an indexer is what that one has computed.
Authored ==
  \A i \in Indexer :
    /\ pc[i] \in {"write_json", "write_shards"} /\ file["zst"].listing = listing[i].stamp =>
         file["zst"].recs = Patched(i)
    /\ pc[i] = "write_shards" /\ file["json"].listing = listing[i].stamp =>
         file["json"].recs = Patched(i)
    /\ pc[i] = "write_shards" => file["json"].etag > 0

\* Files from one listing have the same records.
SameListing ==
  \A f \in {"zst", "shards"} :
    file[f].listing = file["json"].listing /\ file[f].listing > 0 =>
      file[f].recs = file["json"].recs

\* An indexer that is going to succeed has its files in place, or there is
\* another one at work, which will replace them or put them right.
OwnOrBusy ==
  \A i \in Indexer :
    (/\ pc[i] \in {"write_json", "write_shards"} /\ ~failed
     /\ meta[i]["shards"] = file["shards"].etag) =>
      \/ /\ file["zst"].listing = listing[i].stamp
         /\ pc[i] = "write_shards" => file["json"].listing = listing[i].stamp
      \/ \E j \in Indexer \ {i} : pc[j] # "idle"

\* When all are done, the files are from one listing.
OneListing ==
  (runs > 0 /\ ~failed /\ \A i \in Indexer : pc[i] = "idle") =>
    /\ file["zst"].listing = file["json"].listing /\ file["shards"].listing = file["json"].listing
    /\ file["json"].listing > 0

AgreeInv ==
  IInv /\ StampsDiffer /\ Authored /\ SameListing /\ OwnOrBusy /\ OneListing

\* The others neither move nor learn anything.
Others(i) ==
  \A j \in Indexer \ {i} :
    /\ pc'[j] = pc[j] /\ option'[j] = option[j] /\ meta'[j] = meta[j] /\ source'[j] = source[j]
    /\ times'[j] = times[j] /\ listing'[j] = listing[j] /\ got'[j] = got[j]

\* What an indexer is going to write depends on what it knows.
LEMMA PatchedStays ==
  ASSUME NEW i \in Indexer, option'[i] = option[i], source'[i] = source[i], times'[i] = times[i],
         listing'[i] = listing[i], got'[i] = got[i]
  PROVE  Patched(i)' = Patched(i) /\ Unpatched(i)' = Unpatched(i)
  BY DEF Patched, Unpatched, Stamped, Registered

\* Types, for arithmetic.
LEMMA Numbers ==
  ASSUME IInv
  PROVE  /\ clock \in Nat
         /\ \A f \in File : file[f].listing \in Nat /\ file[f].etag \in Nat
         /\ \A j \in Indexer : listing[j].stamp \in Nat /\ \A f \in File : meta[j][f] \in Nat
         /\ {"raw", "zst", "json", "shards"} \subseteq File
         /\ "raw" # "zst" /\ "raw" # "json" /\ "raw" # "shards" /\ "zst" # "json"
         /\ "zst" # "shards" /\ "json" # "shards"
         /\ Listed = {"packages", "write_raw", "write_zst", "write_json", "write_shards"}
         /\ \A f \in File : Before(f) \subseteq Listed
  BY DEF IInv, IndexType, StorageType, LocalType, FileState, File, Listed, Before

\* A step of an indexer that has not listed, or that fails.
LEMMA AgreeQuiet ==
  ASSUME AgreeInv, IInv', NEW i \in Indexer, UNCHANGED file, Others(i), pc'[i] \notin Listed,
         failed => failed', pc'[i] = "idle" => failed'
  PROVE  AgreeInv'
  <1>0. IInv
    BY DEF AgreeInv
  <1>1. \A j \in Indexer : pc'[j] \in Listed => j # i /\ pc'[j] = pc[j] /\ listing'[j] = listing[j]
    BY DEF Others
  <1>2. StampsDiffer'
    BY <1>0, <1>1, Numbers DEF AgreeInv, StampsDiffer
  <1>3. Authored'
    <2>1. \A j \in Indexer : pc'[j] \in Listed => Patched(j)' = Patched(j)
      BY <1>1, PatchedStays DEF Others
    <2> QED
      BY <1>0, <1>1, <2>1, Numbers DEF AgreeInv, Authored
  <1>4. SameListing'
    BY DEF AgreeInv, SameListing
  <1>5. OwnOrBusy'
    <2> SUFFICES ASSUME NEW j \in Indexer, pc'[j] \in {"write_json", "write_shards"}, ~failed'
                 PROVE  \E k \in Indexer \ {j} : pc'[k] # "idle"
      BY DEF OwnOrBusy
    <2>1. j # i
      BY <1>0, <1>1, Numbers
    <2> QED
      BY <2>1
  <1>6. OneListing'
    BY DEF OneListing
  <1> QED
    BY <1>2, <1>3, <1>4, <1>5, <1>6 DEF AgreeInv

\* A step that changes nothing these conditions are about.
LEMMA AgreeStays ==
  ASSUME AgreeInv, IInv',
         UNCHANGED <<file, pc, option, meta, source, times, listing, got, failed, runs>>
  PROVE  AgreeInv'
  <1>1. \A j \in Indexer : Patched(j)' = Patched(j)
    BY PatchedStays
  <1>2. StampsDiffer' /\ Authored' /\ SameListing'
    BY <1>1 DEF AgreeInv, StampsDiffer, Authored, SameListing
  <1>3. OwnOrBusy' /\ OneListing'
    BY DEF AgreeInv, OwnOrBusy, OneListing
  <1> QED
    BY <1>2, <1>3 DEF AgreeInv

\* The listing gets a stamp of its own.
LEMMA AgreeList ==
  ASSUME AgreeInv, IInv', NEW i \in Indexer, List(i)
  PROVE  AgreeInv'
  <1> USE DEF storage, locals, ghosts
  <1>0. IInv
    BY DEF AgreeInv
  <1>1. /\ UNCHANGED <<file, option, meta, source, times, got, failed, runs>>
        /\ pc' = [pc EXCEPT ![i] = "packages"] /\ clock' = clock + 1
        /\ listing' = [listing EXCEPT ![i] = [stamp |-> clock + 1,
                                              pkgs |-> {p \in Package : stored[p] # 0}]]
    BY DEF List, Go
  <1>2. /\ \A j \in Indexer \ {i} : pc'[j] = pc[j] /\ listing'[j] = listing[j]
        /\ pc'[i] = "packages" /\ listing'[i].stamp = clock + 1
    BY <1>0, <1>1 DEF IInv, IndexType, LocalType
  <1>3. \A f \in File, j \in Indexer : file[f].listing <= clock /\ listing[j].stamp <= clock
    BY <1>0 DEF IInv, Dated
  <1>4. StampsDiffer'
    BY <1>0, <1>1, <1>2, <1>3, Numbers DEF AgreeInv, StampsDiffer
  <1>5. \A j \in Indexer \ {i} : Patched(j)' = Patched(j)
    BY <1>1, <1>2, PatchedStays
  <1>6. Authored' /\ SameListing'
    BY <1>1, <1>2, <1>5 DEF AgreeInv, Authored, SameListing
  <1>7. OwnOrBusy'
    BY <1>1, <1>2 DEF AgreeInv, OwnOrBusy
  <1>8. OneListing'
    BY <1>2 DEF OneListing
  <1> QED
    BY <1>4, <1>6, <1>7, <1>8 DEF AgreeInv

\* An indexer that has listed goes on, without writing what clients read.
LEMMA AgreeMove ==
  ASSUME AgreeInv, IInv', NEW i \in Indexer, Others(i), pc[i] \in Listed,
         pc'[i] \in {"packages", "write_raw", "write_zst"}, UNCHANGED <<listing, failed>>,
         \A f \in File : pc'[i] \in Before(f) => pc[i] \in Before(f),
         \A f \in File \ {"raw"} : file'[f] = file[f],
         file'["raw"] = file["raw"] \/
           (file'["raw"].listing = listing[i].stamp /\ pc'[i] = "write_zst")
  PROVE  AgreeInv'
  <1>0. IInv
    BY DEF AgreeInv
  <1>1. \A j \in Indexer \ {i} : pc'[j] = pc[j] /\ Patched(j)' = Patched(j) /\ meta'[j] = meta[j]
    BY PatchedStays DEF Others
  <1>2. "write_zst" \notin Before("raw")
    BY DEF Before
  <1>3. StampsDiffer'
    <2>1. \A j \in Indexer : pc'[j] \in Listed => pc[j] \in Listed
      BY <1>1
    <2>2. \A j \in Indexer, f \in File : pc'[j] \in Before(f) => pc[j] \in Before(f)
      BY <1>1
    <2>3. ASSUME NEW j \in Indexer, NEW f \in File, pc'[j] \in Before(f)
          PROVE  file'[f].listing # listing[j].stamp
      <3>1. CASE file'[f] = file[f]
        BY <2>2, <2>3, <3>1 DEF AgreeInv, StampsDiffer
      <3>2. CASE file'[f] # file[f]
        <4>1. f = "raw" /\ file'[f].listing = listing[i].stamp /\ pc'[i] = "write_zst"
          BY <3>2
        <4>2. j # i /\ pc[j] \in Listed
          BY <1>0, <1>2, <2>2, <2>3, <4>1, Numbers
        <4> QED
          BY <4>1, <4>2 DEF AgreeInv, StampsDiffer
      <3> QED
        BY <3>1, <3>2
    <2> QED
      BY <2>1, <2>3 DEF AgreeInv, StampsDiffer
  <1>4. /\ file'["zst"] = file["zst"] /\ file'["json"] = file["json"]
        /\ file'["shards"] = file["shards"]
    BY <1>0, Numbers
  <1>5. Authored' /\ SameListing'
    BY <1>1, <1>4 DEF AgreeInv, Authored, SameListing
  <1>6. OwnOrBusy'
    <2> SUFFICES ASSUME NEW j \in Indexer, pc'[j] \in {"write_json", "write_shards"}
                 PROVE  \E k \in Indexer \ {j} : pc'[k] # "idle"
      BY DEF OwnOrBusy
    <2> QED
      OBVIOUS
  <1>7. OneListing'
    BY DEF OneListing
  <1> QED
    BY <1>3, <1>5, <1>6, <1>7 DEF AgreeInv

\* A file has the stamp and the records of whoever wrote it, the others stay.
LEMMA Written ==
  ASSUME IInv, NEW i \in Indexer, NEW f \in File, NEW recs, Write(i, f, recs)
  PROVE  /\ \A g \in File \ {f} : file'[g] = file[g]
         /\ file'[f].etag = file[f].etag + 1 /\ file'[f].listing = listing[i].stamp
         /\ file'[f].recs = recs
  BY DEF IInv, IndexType, StorageType, FileState, Write

\* Whoever writes a file gives it a stamp that nobody else has.
LEMMA StampsAfterWrite ==
  ASSUME AgreeInv, NEW i \in Indexer, NEW f \in File, NEW recs, Write(i, f, recs),
         pc[i] \in Listed, UNCHANGED listing,
         \A j \in Indexer \ {i} : pc'[j] = pc[j],
         pc'[i] \in Listed, pc'[i] \notin Before(f),
         \A g \in File : pc'[i] \in Before(g) => pc[i] \in Before(g)
  PROVE  StampsDiffer'
  <1>0. IInv
    BY DEF AgreeInv
  <1>1. \A j \in Indexer, g \in File :
          pc'[j] \in Before(g) => pc[j] \in Before(g) /\ pc[j] \in Listed
    BY <1>0, Numbers
  <1>2. ASSUME NEW j \in Indexer, NEW g \in File, pc'[j] \in Before(g)
        PROVE  file'[g].listing # listing[j].stamp
    <2>1. CASE g # f
      BY <1>0, <1>1, <1>2, <2>1, Written DEF AgreeInv, StampsDiffer
    <2>2. CASE g = f
      BY <1>0, <1>1, <1>2, <2>2, Written DEF AgreeInv, StampsDiffer
    <2> QED
      BY <2>1, <2>2
  <1> QED
    BY <1>2 DEF AgreeInv, StampsDiffer

\* The compressed file is written.
LEMMA AgreeZst ==
  ASSUME AgreeInv, IInv', NEW i \in Indexer, pc[i] = "write_zst", Write(i, "zst", Patched(i)),
         pc' = [pc EXCEPT ![i] = "write_json"],
         UNCHANGED <<option, meta, source, times, listing, got, failed>>
  PROVE  AgreeInv'
  <1>0. IInv
    BY DEF AgreeInv
  <1>1. /\ pc'[i] = "write_json" /\ \A j \in Indexer \ {i} : pc'[j] = pc[j]
    BY <1>0 DEF IInv, IndexType, LocalType
  <1>2. \A j \in Indexer : Patched(j)' = Patched(j)
    BY PatchedStays
  <1>3. /\ file'["json"] = file["json"] /\ file'["shards"] = file["shards"]
        /\ file'["zst"].listing = listing[i].stamp /\ file'["zst"].recs = Patched(i)
    BY <1>0, Written, Numbers
  <1>4. StampsDiffer'
    <2>1. "write_json" \notin Before("zst") /\ pc[i] \in Listed
          /\ \A g \in File : "write_json" \in Before(g) => pc[i] \in Before(g)
      BY <1>0, Numbers DEF Before, File
    <2> QED
      BY <1>0, <1>1, <2>1, StampsAfterWrite, Numbers
  <1>5. pc[i] \in Before("json") /\ pc[i] \in Before("shards") /\ pc[i] \in Listed
    BY <1>0, Numbers DEF Before
  <1>6. file["json"].listing # listing[i].stamp
    BY <1>0, <1>5, Numbers DEF AgreeInv, StampsDiffer
  <1>7. \A j \in Indexer : j # i /\ pc[j] \in Listed => listing[j].stamp # listing[i].stamp
    BY <1>5 DEF AgreeInv, StampsDiffer
  <1>8. Authored'
    BY <1>0, <1>1, <1>2, <1>3, <1>7, Numbers DEF AgreeInv, Authored
  <1>9. SameListing'
    BY <1>3, <1>6 DEF AgreeInv, SameListing
  <1>10. OwnOrBusy'
    BY <1>1, <1>3 DEF OwnOrBusy
  <1>11. OneListing'
    BY <1>1 DEF OneListing
  <1> QED
    BY <1>4, <1>8, <1>9, <1>10, <1>11 DEF AgreeInv

\* repodata.json is written.
LEMMA AgreeJson ==
  ASSUME AgreeInv, IInv', NEW i \in Indexer, pc[i] = "write_json", Write(i, "json", Patched(i)),
         pc' = [pc EXCEPT ![i] = "write_shards"],
         UNCHANGED <<option, meta, source, times, listing, got, failed>>
  PROVE  AgreeInv'
  <1>0. IInv
    BY DEF AgreeInv
  <1>1. /\ pc'[i] = "write_shards" /\ \A j \in Indexer \ {i} : pc'[j] = pc[j]
    BY <1>0 DEF IInv, IndexType, LocalType
  <1>2. \A j \in Indexer : Patched(j)' = Patched(j)
    BY PatchedStays
  <1>3. /\ file'["zst"] = file["zst"] /\ file'["shards"] = file["shards"]
        /\ file'["json"].listing = listing[i].stamp /\ file'["json"].recs = Patched(i)
        /\ file'["json"].etag = file["json"].etag + 1
    BY <1>0, Written, Numbers
  <1>4. StampsDiffer'
    <2>1. "write_shards" \notin Before("json") /\ pc[i] \in Listed
          /\ \A g \in File : "write_shards" \in Before(g) => pc[i] \in Before(g)
      BY <1>0, Numbers DEF Before, File
    <2> QED
      BY <1>0, <1>1, <2>1, StampsAfterWrite, Numbers
  <1>5. pc[i] \in Before("shards") /\ pc[i] \in Listed
    BY <1>0, Numbers DEF Before
  <1>6. file["shards"].listing # listing[i].stamp
    BY <1>0, <1>5, Numbers DEF AgreeInv, StampsDiffer
  <1>7. \A j \in Indexer : j # i /\ pc[j] \in Listed => listing[j].stamp # listing[i].stamp
    BY <1>5 DEF AgreeInv, StampsDiffer
  <1>8. file["zst"].listing = listing[i].stamp => file["zst"].recs = Patched(i)
    BY DEF AgreeInv, Authored
  <1>9. Authored'
    <2>1. file'["json"].etag > 0
      BY <1>0, <1>3, Numbers
    <2> QED
      BY <1>0, <1>1, <1>2, <1>3, <1>7, <1>8, <2>1, Numbers DEF AgreeInv, Authored
  <1>10. SameListing'
    BY <1>3, <1>6, <1>8 DEF SameListing
  <1>11. OwnOrBusy'
    <2> SUFFICES ASSUME NEW j \in Indexer, pc'[j] \in {"write_json", "write_shards"},
                        meta[j]["shards"] = file["shards"].etag, ~failed,
                        \A k \in Indexer \ {j} : pc'[k] = "idle"
                 PROVE  /\ file["zst"].listing = listing[j].stamp
                        /\ file'["json"].listing = listing[j].stamp
      BY <1>3 DEF OwnOrBusy
    <2>1. j = i
      BY <1>1
    <2>2. ~\E k \in Indexer \ {i} : pc[k] # "idle"
      BY <1>1, <2>1
    <2> QED
      BY <1>3, <2>1, <2>2 DEF AgreeInv, OwnOrBusy
  <1>12. OneListing'
    BY <1>1 DEF OneListing
  <1> QED
    BY <1>4, <1>9, <1>10, <1>11, <1>12 DEF AgreeInv

\* The index of the shards is written, and the indexer is done.
LEMMA AgreeShards ==
  ASSUME AgreeInv, IInv', NEW i \in Indexer, pc[i] = "write_shards", Unchanged(i, "shards"),
         Write(i, "shards", Patched(i)), Go(i, "idle"), Forget(i), UNCHANGED failed
  PROVE  AgreeInv'
  <1>0. IInv
    BY DEF AgreeInv
  <1>1. pc'[i] = "idle" /\ Others(i)
    BY <1>0 DEF Go, Forget, Others, IInv, IndexType, LocalType
  <1>2. \A j \in Indexer \ {i} : Patched(j)' = Patched(j)
    BY <1>1, PatchedStays DEF Others
  <1>3. /\ file'["zst"] = file["zst"] /\ file'["json"] = file["json"]
        /\ file'["shards"].listing = listing[i].stamp /\ file'["shards"].recs = Patched(i)
        /\ file'["shards"].etag = file["shards"].etag + 1
        /\ \A f \in File \ {"shards"} : file'[f] = file[f]
    BY <1>0, Written, Numbers
  <1>4. pc[i] \in Listed /\ pc[i] \in Before("shards")
    BY <1>0, Numbers DEF Before
  <1>5. \A j \in Indexer : j # i /\ pc[j] \in Listed => listing[j].stamp # listing[i].stamp
    BY <1>4 DEF AgreeInv, StampsDiffer
  <1>6. \A j \in Indexer : pc'[j] \in Listed => j # i /\ pc'[j] = pc[j] /\ listing'[j] = listing[j]
    BY <1>0, <1>1, Numbers DEF Others
  <1>7. StampsDiffer'
    <2>1. ASSUME NEW j \in Indexer, NEW f \in File, pc'[j] \in Before(f)
          PROVE  file'[f].listing # listing'[j].stamp
      BY <1>0, <1>3, <1>5, <1>6, <2>1, Numbers DEF AgreeInv, StampsDiffer
    <2> QED
      BY <1>6, <2>1 DEF AgreeInv, StampsDiffer
  <1>8. Authored'
    BY <1>0, <1>2, <1>3, <1>6, Numbers DEF AgreeInv, Authored
  <1>9. SameListing'
    BY <1>3 DEF AgreeInv, SameListing, Authored
  <1>10. OwnOrBusy'
    <2> SUFFICES ASSUME NEW j \in Indexer, pc'[j] \in {"write_json", "write_shards"},
                        meta'[j]["shards"] = file'["shards"].etag
                 PROVE  FALSE
      BY DEF OwnOrBusy
    <2>1. j # i /\ meta'[j] = meta[j]
      BY <1>1 DEF Others
    <2>2. meta[j]["shards"] <= file["shards"].etag
      BY <1>0, Numbers DEF IInv, Dated
    <2> QED
      BY <1>0, <1>3, <2>1, <2>2, Numbers
  <1>11. OneListing'
    <2> SUFFICES ASSUME ~failed, \A j \in Indexer : pc'[j] = "idle"
                 PROVE  /\ file["zst"].listing = listing[i].stamp
                        /\ file["json"].listing = listing[i].stamp /\ listing[i].stamp > 0
      BY <1>3 DEF OneListing
    <2>1. ~\E j \in Indexer \ {i} : pc[j] # "idle"
      BY <1>1 DEF Others
    <2> QED
      BY <1>4, <2>1 DEF AgreeInv, OwnOrBusy, Unchanged, StampsDiffer
  <1> QED
    BY <1>7, <1>8, <1>9, <1>10, <1>11 DEF AgreeInv

\* A channel is initialized when nobody has published anything.
LEMMA AgreeInitialize ==
  ASSUME AgreeInv, IInv', Initialize
  PROVE  AgreeInv'
  <1> USE DEF storage, locals, ghosts
  <1>0. IInv
    BY DEF AgreeInv
  <1>1. /\ UNCHANGED <<pc, option, meta, source, times, listing, got, failed, runs>>
        /\ file["json"].etag = 0
        /\ file' = [file EXCEPT !["json"] = [etag |-> 1, listing |-> 0, recs |-> {}]]
    BY DEF Initialize
  <1>2. /\ \A f \in File \ {"json"} : file'[f] = file[f]
        /\ file'["json"].listing = 0 /\ file["json"].listing = 0
    BY <1>0, <1>1, Numbers DEF IInv, IndexType, StorageType, Dated
  <1>3. \A j \in Indexer : Patched(j)' = Patched(j)
    BY <1>1, PatchedStays
  <1>4. \A j \in Indexer : pc[j] # "write_shards"
    BY <1>1 DEF AgreeInv, Authored
  <1>5. StampsDiffer'
    BY <1>0, <1>1, <1>2, Numbers DEF AgreeInv, StampsDiffer
  <1>6. Authored'
    BY <1>0, <1>1, <1>2, <1>3, <1>4, Numbers DEF AgreeInv, Authored
  <1>7. SameListing'
    BY <1>0, <1>2, Numbers DEF SameListing
  <1>8. OwnOrBusy'
    BY <1>0, <1>1, <1>2, <1>4, Numbers DEF AgreeInv, OwnOrBusy
  <1>9. OneListing'
    BY <1>0, <1>1, <1>2, Numbers DEF AgreeInv, OneListing
  <1> QED
    BY <1>5, <1>6, <1>7, <1>8, <1>9 DEF AgreeInv

\* At first nobody has listed, and no process was started.
LEMMA InitAgree == Init => AgreeInv
  <1> SUFFICES ASSUME NEW old \in Legacy, InitWith(old), IInv PROVE AgreeInv
    BY InitOrder DEF Init
  <1>1. runs = 0 /\ \A i \in Indexer : pc[i] = "idle"
    BY DEF InitWith
  <1>2. \A f \in File : file[f].listing = 0
    BY DEF InitWith
  <1>3. "idle" \notin Listed /\ \A f \in File : "idle" \notin Before(f)
    BY Numbers
  <1>4. StampsDiffer /\ Authored /\ OwnOrBusy
    BY <1>1, <1>3 DEF StampsDiffer, Authored, OwnOrBusy
  <1>5. SameListing /\ OneListing
    BY <1>1, <1>2, Numbers DEF SameListing, OneListing
  <1> QED
    BY <1>4, <1>5 DEF AgreeInv

\* An attempt that fails or starts over leaves the others alone.
LEMMA GiveUp ==
  ASSUME IInv, NEW i \in Indexer, Fail(i) \/ Retry(i)
  PROVE  Others(i) /\ pc'[i] \in {"idle", "stat_json"} /\ (pc'[i] = "idle" => failed')
         /\ (failed => failed') /\ pc'[i] \notin Listed
  <1>1. ASSUME Fail(i) PROVE Others(i) /\ pc'[i] = "idle" /\ failed'
    BY <1>1 DEF Fail, Forget, Go, Others, IInv, IndexType, LocalType
  <1>2. ASSUME Retry(i), ~Fail(i) PROVE Others(i) /\ pc'[i] = "stat_json" /\ failed' = failed
    BY <1>2 DEF Retry, Go, Others, IInv, IndexType, LocalType
  <1> QED
    BY <1>1, <1>2, Numbers

\* Every step keeps the agreement.
LEMMA AgreeStep == AgreeInv /\ [Next]_vars => AgreeInv'
  <1> SUFFICES ASSUME AgreeInv, [Next]_vars PROVE AgreeInv'
    OBVIOUS
  <1> USE DEF storage, locals, ghosts
  <1>0. IInv /\ IInv' /\ LocalType
    BY OrderStep DEF AgreeInv, IInv, IndexType
  <1>1. ASSUME NEW p \in Package, Upload(p) \/ Remove(p) PROVE AgreeInv'
    BY <1>0, <1>1, AgreeStays DEF Upload, Remove
  <1>2. ASSUME NEW i \in Indexer, NEW o \in Options, Begin(i, o) PROVE AgreeInv'
    <2>1. Others(i) /\ pc'[i] = "stat_json" /\ UNCHANGED <<file, failed>>
      BY <1>0, <1>2 DEF Begin, Go, Others, LocalType
    <2> QED
      BY <1>0, <2>1, AgreeQuiet, Numbers
  <1>3. ASSUME NEW i \in Indexer,
               StatJson(i) \/ StatRaw(i) \/ StatZst(i) \/ StatShards(i) \/ StatHistory(i)
        PROVE  AgreeInv'
    <2>1. PICK f \in File, step \in Label,
               next \in {"stat_raw", "stat_zst", "stat_shards", "read_source", "read_history"} :
            Stat(i, f, step, next)
      BY <1>3 DEF StatJson, StatRaw, StatZst, StatShards, StatHistory, File, Label
    <2>2. Others(i) /\ pc'[i] = next /\ UNCHANGED <<file, failed>>
      BY <1>0, <2>1 DEF Stat, Go, Others, LocalType
    <2> QED
      BY <1>0, <2>2, AgreeQuiet, Numbers
  <1>4. ASSUME NEW i \in Indexer, ReadSource(i) \/ ReadHistory(i) PROVE AgreeInv'
    <2>0. UNCHANGED file
      BY <1>4 DEF ReadSource, ReadHistory
    <2>1. CASE Retry(i)
      BY <1>0, <2>0, <2>1, GiveUp, AgreeQuiet
    <2>2. CASE ~Retry(i)
      <3>1. Others(i) /\ pc'[i] \in {"stat_history", "read_history", "list"} /\ UNCHANGED failed
        BY <1>0, <1>4, <2>2 DEF ReadSource, ReadHistory, Go, Others, LocalType
      <3> QED
        BY <1>0, <2>0, <3>1, AgreeQuiet, Numbers
    <2> QED
      BY <2>1, <2>2
  <1>5. ASSUME NEW i \in Indexer, List(i) PROVE AgreeInv'
    BY <1>0, <1>5, AgreeList
  <1>6. ASSUME NEW i \in Indexer, NEW p \in Package, GetOrStat(i, p) \/ ReadPackage(i, p)
        PROVE  AgreeInv'
    <2>0. UNCHANGED file /\ pc[i] = "packages"
      BY <1>6 DEF GetOrStat, ReadPackage
    <2>1. CASE Fail(i)
      BY <1>0, <2>0, <2>1, GiveUp, AgreeQuiet
    <2>2. CASE ~Fail(i)
      <3>1. Others(i) /\ UNCHANGED <<pc, listing, failed>>
        BY <1>0, <1>6, <2>2 DEF GetOrStat, ReadPackage, Obtain, Others, LocalType
      <3> QED
        BY <1>0, <2>0, <3>1, AgreeMove, Numbers
    <2> QED
      BY <2>1, <2>2
  <1>7. ASSUME NEW i \in Indexer, Compose(i) PROVE AgreeInv'
    <2>1. /\ Others(i) /\ pc[i] = "packages" /\ pc'[i] \in {"write_raw", "write_zst"}
          /\ UNCHANGED <<file, listing, failed>>
      BY <1>0, <1>7 DEF Compose, Go, Others, LocalType
    <2>2. \A f \in File : pc'[i] \in Before(f) => pc[i] \in Before(f)
      BY <2>1 DEF Before, File
    <2> QED
      BY <1>0, <2>1, <2>2, AgreeMove, Numbers
  <1>8. ASSUME NEW i \in Indexer, WriteRaw(i) PROVE AgreeInv'
    <2>1. CASE Unchanged(i, "raw")
      <3>1. /\ Write(i, "raw", Unpatched(i)) /\ pc[i] = "write_raw" /\ pc'[i] = "write_zst"
            /\ Others(i) /\ UNCHANGED <<listing, failed>>
        BY <1>0, <1>8, <2>1 DEF WriteRaw, Go, Others, LocalType
      <3>2. \A f \in File : pc'[i] \in Before(f) => pc[i] \in Before(f)
        BY <3>1 DEF Before, File
      <3>3. /\ \A f \in File \ {"raw"} : file'[f] = file[f]
            /\ file'["raw"].listing = listing[i].stamp
        BY <1>0, <3>1, Written, Numbers
      <3> QED
        BY <1>0, <3>1, <3>2, <3>3, AgreeMove, Numbers
    <2>2. CASE ~Unchanged(i, "raw")
      BY <1>0, <1>8, <2>2, GiveUp, AgreeQuiet DEF WriteRaw
    <2> QED
      BY <2>1, <2>2
  <1>9. ASSUME NEW i \in Indexer, WriteZst(i) PROVE AgreeInv'
    <2>1. CASE Unchanged(i, "zst")
      BY <1>0, <1>9, <2>1, AgreeZst DEF WriteZst, Go
    <2>2. CASE ~Unchanged(i, "zst")
      BY <1>0, <1>9, <2>2, GiveUp, AgreeQuiet DEF WriteZst
    <2> QED
      BY <2>1, <2>2
  <1>10. ASSUME NEW i \in Indexer, WriteJson(i) PROVE AgreeInv'
    <2>1. CASE Unchanged(i, "json")
      BY <1>0, <1>10, <2>1, AgreeJson DEF WriteJson, Go
    <2>2. CASE ~Unchanged(i, "json")
      BY <1>0, <1>10, <2>2, GiveUp, AgreeQuiet DEF WriteJson
    <2> QED
      BY <2>1, <2>2
  <1>11. ASSUME NEW i \in Indexer, WriteShards(i) PROVE AgreeInv'
    <2>1. CASE Unchanged(i, "shards")
      BY <1>0, <1>11, <2>1, AgreeShards DEF WriteShards
    <2>2. CASE ~Unchanged(i, "shards")
      BY <1>0, <1>11, <2>2, GiveUp, AgreeQuiet DEF WriteShards
    <2> QED
      BY <2>1, <2>2
  <1>12. ASSUME NEW i \in Indexer, Crash(i) PROVE AgreeInv'
    BY <1>0, <1>12, GiveUp, AgreeQuiet DEF Crash
  <1>13. CASE Initialize
    BY <1>0, <1>13, AgreeInitialize
  <1>14. CASE UNCHANGED vars
    BY <1>0, <1>14, AgreeStays DEF vars
  <1> QED
    BY <1>1, <1>2, <1>3, <1>4, <1>5, <1>6, <1>7, <1>8, <1>9, <1>10, <1>11, <1>12, <1>13, <1>14
       DEF Next

\* When all indexers are done and none has failed, repodata.json, its
\* compressed form and the shards say the same, however their conditional
\* writes were interleaved: whoever was the last to write the compressed file
\* has also been the last to write the others.
THEOREM FilesAgreeInTheEnd == Spec => []FilesAgree
  <1>1. AgreeInv => FilesAgree
    BY DEF AgreeInv, OneListing, SameListing, FilesAgree
  <1> QED
    BY <1>1, InitAgree, AgreeStep, PTL DEF Spec

-----------------------------------------------------------------------------
(* Timestamps *)

\* The history has the timestamp that the package p was first published with.
InRaw(p) == \E r \in file["raw"].recs : r.pkg = p /\ r.ts = born[p]

\* One timestamp per package in each file.
OneTime == \A f \in {"raw", "json"} : \A r, s \in file[f].recs : r.pkg = s.pkg => r.ts = s.ts

\* A package that has a timestamp to keep is stored, and what the history has
\* is stored or was removed.
SeenIsStored ==
  /\ born \in [Package -> Nat \cup {-1, -2}]
  /\ \A p \in Package : born[p] \in Nat => stored[p] # 0
  /\ \A r \in file["raw"].recs : stored[r.pkg] # 0 \/ born[r.pkg] = -2
  /\ file["json"].etag = 0 => file["json"].recs = {}

\* A timestamp that is to be kept is in one of the two files.
Somewhere ==
  \A p \in Package :
    born[p] \in Nat => (\E r \in file["json"].recs : r.pkg = p) \/ InRaw(p)

Shared == OneTime /\ SeenIsStored /\ Somewhere /\ TimestampIsKept

Writing == {"write_raw", "write_zst", "write_json", "write_shards"}

\* Records are read for what is listed, and before anything is written there
\* is one for every package of the listing.
Collected(i) ==
  /\ \A t, u \in times[i] : t[1] = u[1] => t[2] = u[2]
  /\ \A p \in listing[i].pkgs : stored[p] # 0 \/ born[p] = -2
  /\ pc[i] \notin Listed => got[i] = {}
  /\ \A r \in got[i] : r.pkg \in listing[i].pkgs
  /\ pc[i] \in Writing => Missing(i) = {}
  /\ pc[i] = "write_raw" => option[i].patch
  /\ pc[i] = "stat_history" => ~option[i].patch

\* An indexer without a patch has read what is published, ...
HasJson(i) ==
  pc[i] \in {"stat_history", "read_history"} /\ ~option[i].patch /\ Unchanged(i, "json") =>
    times[i] = TimesOf(i, file["json"].recs)

\* ... one with a patch knows the packages of the history, ...
HasRaw(i) ==
  (/\ pc[i] \in {"read_history", "list", "packages", "write_raw"}
   /\ option[i].patch /\ Unchanged(i, "raw")) =>
    \A r \in file["raw"].recs : born[r.pkg] # -2 =>
      /\ <<r.pkg, r.ts>> \in times[i] \/ <<r.pkg, born[r.pkg]>> \in times[i]
      /\ pc[i] \in Listed => r.pkg \in listing[i].pkgs

\* ... and who is going to publish knows all timestamps that are to be kept.
HasAll(i) ==
  (/\ pc[i] \in {"list", "packages", "write_raw", "write_zst", "write_json"}
   /\ Unchanged(i, "json")
   /\ option[i].patch /\ pc[i] \in {"list", "packages", "write_raw"} => Unchanged(i, "raw")) =>
    \A p \in Package : born[p] \in Nat =>
      /\ <<p, born[p]>> \in times[i]
      /\ pc[i] \in Listed => p \in listing[i].pkgs

\* What a patch hides is safe in the history.
Secured(i) ==
  option[i].patch /\ pc[i] \in {"write_zst", "write_json"} /\ Unchanged(i, "json") =>
    \A p \in Package : born[p] \in Nat => InRaw(p)

Own(i) == Collected(i) /\ HasJson(i) /\ HasRaw(i) /\ HasAll(i) /\ Secured(i)

KeepInv == IInv /\ Shared /\ \A i \in Indexer : Own(i)

\* The timestamp that an indexer gives to a package.
TimeOf(i, p) ==
  IF \E t \in times[i] : t[1] = p THEN (CHOOSE t \in times[i] : t[1] = p)[2]
  ELSE listing[i].stamp

\* What an indexer composes: packages of its listing, each with one timestamp.
LEMMA ComposedTime ==
  ASSUME NEW i \in Indexer, Collected(i), NEW r \in Unpatched(i)
  PROVE  r.pkg \in listing[i].pkgs /\ r.ts = TimeOf(i, r.pkg)
  <1>1. PICK a \in Registered(i) \cup got[i] : r = Stamped(i, a)
    BY DEF Unpatched
  <1>2. r.pkg = a.pkg /\ r.ts = TimeOf(i, a.pkg)
    BY <1>1 DEF Stamped, TimeOf
  <1>3. a.pkg \in listing[i].pkgs
    BY DEF Registered, Collected
  <1> QED
    BY <1>2, <1>3

\* A timestamp that was read is the one that is given.
LEMMA ReadTime ==
  ASSUME NEW i \in Indexer, Collected(i), NEW p, NEW n, <<p, n>> \in times[i]
  PROVE  TimeOf(i, p) = n
  <1> DEFINE t == CHOOSE t \in times[i] : t[1] = p
  <1>1. t \in times[i] /\ t[1] = p
    <2>1. \E u \in times[i] : u[1] = p
      <3>1. <<p, n>>[1] = p
        OBVIOUS
      <3> QED
        BY <3>1
    <2> QED
      BY <2>1
  <1>2. t[2] = <<p, n>>[2]
    BY <1>1 DEF Collected
  <1>3. \E u \in times[i] : u[1] = p
    BY <1>1
  <1> QED
    BY <1>2, <1>3 DEF TimeOf

\* Every package of the listing has a record.
LEMMA ComposedAll ==
  ASSUME NEW i \in Indexer, Collected(i), pc[i] \in Writing, NEW p \in listing[i].pkgs
  PROVE  \E r \in Unpatched(i) : r.pkg = p /\ r.ts = TimeOf(i, p)
  <1>1. PICK a \in Registered(i) \cup got[i] : a.pkg = p
    BY DEF Collected, Missing, ToAdd
  <1>2. Stamped(i, a) \in Unpatched(i)
    BY DEF Unpatched
  <1>3. Stamped(i, a).pkg = p
    BY <1>1 DEF Stamped
  <1> QED
    BY <1>2, <1>3, ComposedTime

\* The indexers' knowledge, when nothing happens that they could know of.
LEMMA OwnStays ==
  ASSUME NEW j \in Indexer, Own(j), UNCHANGED <<stored, born>>,
         file'["raw"] = file["raw"], file'["json"] = file["json"],
         pc'[j] = pc[j], option'[j] = option[j], meta'[j] = meta[j], source'[j] = source[j],
         times'[j] = times[j], listing'[j] = listing[j], got'[j] = got[j]
  PROVE  Own(j)'
  <1>1. Collected(j)'
    BY DEF Own, Collected, Missing, ToAdd, Registered
  <1>2. HasJson(j)'
    BY DEF Own, HasJson, Unchanged, TimesOf
  <1>3. HasRaw(j)'
    BY DEF Own, HasRaw, Unchanged
  <1>4. HasAll(j)'
    BY DEF Own, HasAll, Unchanged
  <1>5. Secured(j)'
    BY DEF Own, Secured, Unchanged, InRaw
  <1> QED
    BY <1>1, <1>2, <1>3, <1>4, <1>5 DEF Own

\* A step that one indexer takes by itself.
LEMMA KeepLocal ==
  ASSUME KeepInv, IInv', NEW i \in Indexer, Others(i), UNCHANGED <<stored, born>>,
         file'["raw"] = file["raw"], file'["json"] = file["json"], Own(i)'
  PROVE  KeepInv'
  <1>1. \A j \in Indexer \ {i} : Own(j)'
    BY OwnStays DEF KeepInv, Others
  <1>2. OneTime' /\ SeenIsStored'
    BY DEF KeepInv, Shared, OneTime, SeenIsStored
  <1>3. Somewhere' /\ TimestampIsKept'
    BY DEF KeepInv, Shared, Somewhere, InRaw, TimestampIsKept
  <1> QED
    BY <1>1, <1>2, <1>3 DEF KeepInv, Shared

\* Steps at which an indexer has not read yet.
Early == {"idle", "stat_json", "stat_raw", "stat_zst", "stat_shards", "read_source"}

\* An indexer that has not read anything has nothing to know.
LEMMA OwnEarly ==
  ASSUME NEW i \in Indexer, pc'[i] \in Early, got'[i] = {}, UNCHANGED <<stored, born>>, Own(i),
         times'[i] = times[i] \/ times'[i] = {},
         listing'[i] = listing[i] \/ listing'[i].pkgs = {}
  PROVE  Own(i)'
  <1>1. Collected(i)'
    BY DEF Own, Collected, Early, Writing
  <1>2. HasJson(i)' /\ HasRaw(i)'
    BY DEF HasJson, HasRaw, Early
  <1>3. HasAll(i)' /\ Secured(i)'
    BY DEF HasAll, Secured, Early
  <1> QED
    BY <1>1, <1>2, <1>3 DEF Own

\* An attempt that fails or starts over.
LEMMA KeepGiveUp ==
  ASSUME KeepInv, IInv', NEW i \in Indexer, Fail(i) \/ Retry(i), UNCHANGED <<stored, born>>,
         file'["raw"] = file["raw"], file'["json"] = file["json"]
  PROVE  KeepInv'
  <1>0. IInv
    BY DEF KeepInv
  <1>1. Others(i) /\ pc'[i] \in Early
    BY <1>0, GiveUp DEF Early
  <1>2. times'[i] = {} /\ listing'[i].pkgs = {} /\ got'[i] = {}
    <2>1. CASE Fail(i)
      BY <1>0, <2>1 DEF Fail, Forget, IInv, IndexType, LocalType
    <2>2. CASE Retry(i) /\ ~Fail(i)
      BY <1>0, <2>2 DEF Retry, IInv, IndexType, LocalType
    <2> QED
      BY <2>1, <2>2
  <1>3. Own(i)'
    BY <1>1, <1>2, OwnEarly DEF KeepInv
  <1> QED
    BY <1>0, <1>1, <1>3, KeepLocal

\* The records to build upon are read.
LEMMA KeepReadSource ==
  ASSUME KeepInv, IInv', NEW i \in Indexer, ReadSource(i)
  PROVE  KeepInv'
  <1> USE DEF storage, locals, ghosts
  <1> DEFINE f == IF option[i].patch THEN "raw" ELSE "json"
  <1>0. IInv /\ LocalType /\ Own(i) /\ Shared
    BY DEF KeepInv, IInv, IndexType
  <1>1. UNCHANGED <<file, stored, born>> /\ pc[i] = "read_source"
    BY DEF ReadSource
  <1>2. CASE ~Readable(i, f)
    BY <1>1, <1>2, KeepGiveUp DEF ReadSource
  <1>3. CASE Readable(i, f)
    <2>1. /\ times'[i] = TimesOf(i, file[f].recs)
          /\ pc'[i] = IF option[i].patch THEN "read_history" ELSE "stat_history"
          /\ option'[i] = option[i] /\ meta'[i] = meta[i] /\ listing'[i] = listing[i]
          /\ got'[i] = got[i]
      BY <1>0, <1>3 DEF ReadSource, Go, LocalType
    <2>2. Others(i)
      BY <1>0, <1>3 DEF ReadSource, Go, LocalType, Others
    <2>3. f \in {"raw", "json"}
      OBVIOUS
    <2>4. got[i] = {} /\ pc'[i] \notin Listed /\ pc'[i] \notin Writing
      BY <1>0, <1>1, <2>1, Numbers DEF Own, Collected, Writing
    <2>5. \A t, u \in times'[i] : t[1] = u[1] => t[2] = u[2]
      <3> SUFFICES ASSUME NEW r \in file[f].recs, NEW s \in file[f].recs,
                          <<r.pkg, r.ts>>[1] = <<s.pkg, s.ts>>[1]
                   PROVE  <<r.pkg, r.ts>>[2] = <<s.pkg, s.ts>>[2]
        BY <2>1 DEF TimesOf
      <3> QED
        BY <1>0, <2>3 DEF Shared, OneTime
    <2>6. Collected(i)'
      <3>1. \A p \in listing'[i].pkgs : stored'[p] # 0 \/ born'[p] = -2
        BY <1>0, <1>1, <2>1 DEF Own, Collected
      <3>2. pc'[i] # "write_raw" /\ (pc'[i] = "stat_history" => ~option'[i].patch)
        BY <2>1
      <3> QED
        BY <2>1, <2>4, <2>5, <3>1, <3>2 DEF Collected
    <2>7. HasJson(i)'
      BY <1>1, <2>1 DEF HasJson, TimesOf
    <2>8. HasRaw(i)'
      <3> SUFFICES ASSUME option[i].patch, NEW r \in file["raw"].recs
                   PROVE  <<r.pkg, r.ts>> \in times'[i]
        BY <1>1, <2>1, <2>4 DEF HasRaw
      <3> QED
        BY <2>1 DEF TimesOf
    <2>9. HasAll(i)' /\ Secured(i)'
      BY <2>1 DEF HasAll, Secured
    <2> QED
      BY <1>1, <2>2, <2>6, <2>7, <2>8, <2>9, KeepLocal DEF Own
  <1> QED
    BY <1>2, <1>3

\* Of two sets of timestamps, the first decides.
LEMMA JoinedTimes ==
  ASSUME NEW W, NEW O,
         \A t, u \in W : t[1] = u[1] => t[2] = u[2],
         \A t, u \in O : t[1] = u[1] => t[2] = u[2]
  PROVE  /\ \A t, u \in Joined(W, O) : t[1] = u[1] => t[2] = u[2]
         /\ W \subseteq Joined(W, O)
         /\ \A t \in O : t \in Joined(W, O) \/ \E u \in W : u[1] = t[1]
  BY DEF Joined

\* The timestamps of a file.
LEMMA FileTimes ==
  ASSUME NEW i \in Indexer, Shared, NEW f \in {"raw", "json"}
  PROVE  /\ \A t, u \in TimesOf(i, file[f].recs) : t[1] = u[1] => t[2] = u[2]
         /\ \A r \in file[f].recs : <<r.pkg, r.ts>> \in TimesOf(i, file[f].recs)
         /\ \A t \in TimesOf(i, file[f].recs) :
              \E r \in file[f].recs : t = <<r.pkg, r.ts>> /\ t[1] = r.pkg
  <1>1. ASSUME NEW r \in file[f].recs, NEW s \in file[f].recs,
               <<r.pkg, r.ts>>[1] = <<s.pkg, s.ts>>[1]
        PROVE  <<r.pkg, r.ts>>[2] = <<s.pkg, s.ts>>[2]
    BY <1>1 DEF Shared, OneTime
  <1> QED
    BY <1>1 DEF TimesOf

\* The timestamps of the other file are added.
LEMMA KeepReadHistory ==
  ASSUME KeepInv, IInv', NEW i \in Indexer, ReadHistory(i)
  PROVE  KeepInv'
  <1> USE DEF storage, locals, ghosts
  <1> DEFINE f == IF option[i].patch THEN "json" ELSE "raw"
  <1> DEFINE W == IF option[i].patch THEN TimesOf(i, file["json"].recs) ELSE times[i]
  <1> DEFINE O == IF option[i].patch THEN times[i] ELSE TimesOf(i, file["raw"].recs)
  <1>0. IInv /\ LocalType /\ Own(i) /\ Shared
    BY DEF KeepInv, IInv, IndexType
  <1>1. UNCHANGED <<file, stored, born>> /\ pc[i] = "read_history"
    BY DEF ReadHistory
  <1>2. CASE ~Readable(i, f)
    BY <1>1, <1>2, KeepGiveUp DEF ReadHistory
  <1>3. CASE Readable(i, f)
    <2>1. /\ times'[i] = Joined(W, O) /\ pc'[i] = "list"
          /\ option'[i] = option[i] /\ meta'[i] = meta[i] /\ listing'[i] = listing[i]
          /\ got'[i] = got[i]
      BY <1>0, <1>3 DEF ReadHistory, Go, LocalType
    <2>2. Others(i)
      BY <1>0, <1>3 DEF ReadHistory, Go, LocalType, Others
    <2>3. /\ \A t, u \in W : t[1] = u[1] => t[2] = u[2]
          /\ \A t, u \in O : t[1] = u[1] => t[2] = u[2]
      BY <1>0, FileTimes DEF Own, Collected
    <2>4. /\ \A t, u \in times'[i] : t[1] = u[1] => t[2] = u[2]
          /\ W \subseteq times'[i]
          /\ \A t \in O : t \in times'[i] \/ \E u \in W : u[1] = t[1]
      BY <2>1, <2>3, JoinedTimes
    <2> HIDE DEF W, O
    <2>5. got[i] = {} /\ pc'[i] \notin Listed /\ pc'[i] \notin Writing
      BY <1>0, <1>1, <2>1, Numbers DEF Own, Collected, Writing
    <2>6. Collected(i)'
      <3>1. \A p \in listing'[i].pkgs : stored'[p] # 0 \/ born'[p] = -2
        BY <1>0, <1>1, <2>1 DEF Own, Collected
      <3> QED
        BY <2>1, <2>4, <2>5, <3>1 DEF Collected
    <2>7. HasJson(i)' /\ Secured(i)'
      BY <2>1 DEF HasJson, Secured
    <2>8. \A p \in Package : (\E r \in file["json"].recs : r.pkg = p) /\ born[p] # -2 =>
                               <<p, born[p]>> \in TimesOf(i, file["json"].recs)
      BY <1>0, FileTimes DEF Shared, TimestampIsKept, SeenIsStored
    <2>9. ASSUME option[i].patch, Unchanged(i, "raw"), NEW r \in file["raw"].recs,
                 born[r.pkg] # -2
          PROVE  <<r.pkg, r.ts>> \in times'[i] \/ <<r.pkg, born[r.pkg]>> \in times'[i]
      <3>0. W = TimesOf(i, file["json"].recs) /\ O = times[i] /\ r.pkg \in Package
        BY <1>0, <2>9, Numbers DEF W, O, IInv, IndexType, StorageType, FileState, Record
      <3>1. <<r.pkg, r.ts>> \in times[i] \/ <<r.pkg, born[r.pkg]>> \in times[i]
        BY <1>0, <1>1, <2>9 DEF Own, HasRaw
      <3>2. CASE \E u \in W : u[1] = r.pkg
        <4>1. \E s \in file["json"].recs : s.pkg = r.pkg
          BY <1>0, <3>0, <3>2, FileTimes
        <4> QED
          BY <2>4, <2>8, <2>9, <3>0, <4>1
      <3>3. CASE ~\E u \in W : u[1] = r.pkg
        <4>1. <<r.pkg, r.ts>>[1] = r.pkg /\ <<r.pkg, born[r.pkg]>>[1] = r.pkg
          OBVIOUS
        <4> QED
          BY <2>4, <3>0, <3>1, <3>3, <4>1
      <3> QED
        BY <3>2, <3>3
    <2>10. HasRaw(i)'
      BY <1>1, <2>1, <2>5, <2>9 DEF HasRaw, Unchanged
    <2>11. ASSUME NEW p \in Package, born[p] \in Nat, Unchanged(i, "json"),
                  option[i].patch => Unchanged(i, "raw")
           PROVE  <<p, born[p]>> \in times'[i]
      <3>0. born[p] # -2
        BY <2>11
      <3>1. CASE option[i].patch
        <4>1. CASE \E r \in file["json"].recs : r.pkg = p
          BY <2>4, <2>8, <3>0, <3>1, <4>1 DEF W
        <4>2. CASE InRaw(p)
          BY <2>9, <2>11, <3>0, <3>1, <4>2 DEF InRaw
        <4> QED
          BY <1>0, <2>11, <4>1, <4>2 DEF Shared, Somewhere
      <3>2. CASE ~option[i].patch
        <4>1. W = TimesOf(i, file["json"].recs) /\ O = TimesOf(i, file["raw"].recs)
          BY <1>0, <1>1, <2>11, <3>2 DEF W, O, Own, HasJson
        <4>2. CASE \E r \in file["json"].recs : r.pkg = p
          BY <2>4, <2>8, <3>0, <4>1, <4>2
        <4>3. CASE InRaw(p) /\ ~\E r \in file["json"].recs : r.pkg = p
          <5>1. <<p, born[p]>> \in O /\ <<p, born[p]>>[1] = p
            BY <1>0, <4>1, <4>3, FileTimes DEF InRaw
          <5>2. ~\E u \in W : u[1] = p
            BY <1>0, <4>1, <4>3, FileTimes
          <5> QED
            BY <2>4, <5>1, <5>2
        <4> QED
          BY <1>0, <2>11, <4>2, <4>3 DEF Shared, Somewhere
      <3> QED
        BY <3>1, <3>2
    <2>12. HasAll(i)'
      BY <1>1, <2>1, <2>5, <2>11 DEF HasAll, Unchanged
    <2> QED
      BY <1>1, <2>2, <2>6, <2>7, <2>10, <2>12, KeepLocal DEF Own
  <1> QED
    BY <1>2, <1>3

\* The packages are listed.
LEMMA KeepList ==
  ASSUME KeepInv, IInv', NEW i \in Indexer, List(i)
  PROVE  KeepInv'
  <1> USE DEF storage, locals, ghosts
  <1>0. IInv /\ LocalType /\ Own(i) /\ Shared
    BY DEF KeepInv, IInv, IndexType
  <1>1. /\ UNCHANGED <<file, stored, born>> /\ pc[i] = "list" /\ pc'[i] = "packages"
        /\ listing'[i].pkgs = {p \in Package : stored[p] # 0}
        /\ option'[i] = option[i] /\ meta'[i] = meta[i] /\ times'[i] = times[i] /\ got'[i] = got[i]
    BY <1>0 DEF List, Go, LocalType
  <1>2. Others(i)
    BY <1>0 DEF List, Go, LocalType, Others
  <1>3. got[i] = {}
    BY <1>0, <1>1, Numbers DEF Own, Collected
  <1>4. Collected(i)'
    BY <1>0, <1>1, <1>3 DEF Own, Collected, Writing
  <1>5. HasJson(i)' /\ Secured(i)'
    BY <1>1 DEF HasJson, Secured
  <1>6. HasRaw(i)'
    <2>1. \A r \in file["raw"].recs : r.pkg \in Package
      BY <1>0, Numbers DEF IInv, IndexType, StorageType, FileState, Record
    <2> QED
      BY <1>0, <1>1, <2>1 DEF Own, HasRaw, Unchanged, Shared, SeenIsStored
  <1>7. HasAll(i)'
    BY <1>0, <1>1 DEF Own, HasAll, Unchanged, Shared, SeenIsStored
  <1> QED
    BY <1>1, <1>2, <1>4, <1>5, <1>6, <1>7, KeepLocal DEF Own

\* Records are read and composed; nothing is written that the timestamps are in.
LEMMA KeepMove ==
  ASSUME KeepInv, IInv', NEW i \in Indexer, Others(i), UNCHANGED <<stored, born>>,
         file'["raw"] = file["raw"], file'["json"] = file["json"],
         option'[i] = option[i], meta'[i] = meta[i], source'[i] = source[i],
         times'[i] = times[i], listing'[i] = listing[i],
         pc[i] \in Listed, \A r \in got'[i] : r.pkg \in listing[i].pkgs,
         \/ pc'[i] = "packages" /\ pc[i] = "packages"
         \/ pc'[i] = "write_raw" /\ pc[i] = "packages" /\ option[i].patch
         \/ pc'[i] = "write_zst" /\ pc[i] = "packages" /\ ~option[i].patch
         \/ pc'[i] = "write_json" /\ pc[i] = "write_zst",
         pc'[i] # "packages" => Missing(i) = {} /\ got'[i] = got[i]
  PROVE  KeepInv'
  <1>0. IInv /\ Own(i)
    BY DEF KeepInv
  <1>1. pc'[i] \in Listed /\ pc[i] \in Listed
    BY <1>0, Numbers
  <1>2. Collected(i)'
    <2>1. pc'[i] \in Writing => Missing(i)' = {}
      BY DEF Missing, ToAdd, Registered, Writing
    <2> QED
      BY <1>0, <1>1, <2>1 DEF Own, Collected
  <1>3. HasJson(i)'
    BY <1>0 DEF HasJson
  <1>4. HasRaw(i)'
    BY <1>0, <1>1 DEF Own, HasRaw, Unchanged
  <1>5. HasAll(i)'
    BY <1>0, <1>1 DEF Own, HasAll, Unchanged
  <1>6. Secured(i)'
    BY <1>0 DEF Own, Secured, Unchanged, InRaw
  <1> QED
    BY <1>2, <1>3, <1>4, <1>5, <1>6, KeepLocal DEF Own

\* The history is written: what it had to keep, it still has.
LEMMA KeepWriteRaw ==
  ASSUME KeepInv, IInv', NEW i \in Indexer, WriteRaw(i)
  PROVE  KeepInv'
  <1> USE DEF storage, locals, ghosts
  <1>0. IInv /\ LocalType /\ Own(i) /\ Collected(i) /\ Shared
    BY DEF KeepInv, IInv, IndexType, Own
  <1>1. CASE ~Unchanged(i, "raw")
    BY <1>1, KeepGiveUp DEF WriteRaw
  <1>2. CASE Unchanged(i, "raw")
    <2>1. /\ Write(i, "raw", Unpatched(i)) /\ UNCHANGED <<stored, born>> /\ pc[i] = "write_raw"
          /\ pc'[i] = "write_zst" /\ UNCHANGED <<option, meta, source, times, listing, got>>
      BY <1>0, <1>2 DEF WriteRaw, Go, LocalType
    <2>2. \A j \in Indexer \ {i} : pc'[j] = pc[j]
      BY <1>0, <1>2 DEF WriteRaw, Go, LocalType
    <2>3. /\ file'["json"] = file["json"] /\ file'["raw"].recs = Unpatched(i)
          /\ file'["raw"].etag = file["raw"].etag + 1
      BY <1>0, <2>1, Written, Numbers
    <2>4. option[i].patch /\ pc[i] \in Writing /\ pc[i] \in Listed
      BY <1>0, <2>1, Numbers DEF Collected, Writing
    <2>5. ASSUME NEW p \in Package, <<p, born[p]>> \in times[i], p \in listing[i].pkgs
          PROVE  InRaw(p)'
      BY <1>0, <2>1, <2>3, <2>4, <2>5, ComposedAll, ReadTime DEF InRaw
    <2>6. ASSUME NEW p \in Package, born[p] \in Nat, InRaw(p) PROVE InRaw(p)'
      <3>1. PICK r \in file["raw"].recs : r.pkg = p /\ r.ts = born[p]
        BY <2>6 DEF InRaw
      <3>2. <<p, born[p]>> \in times[i] /\ p \in listing[i].pkgs
        BY <1>0, <1>2, <2>1, <2>4, <2>6, <3>1 DEF Own, HasRaw
      <3> QED
        BY <2>5, <3>2
    <2>7. OneTime'
      BY <1>0, <2>3, ComposedTime DEF Shared, OneTime
    <2>8. SeenIsStored'
      BY <1>0, <2>1, <2>3, ComposedTime DEF Shared, SeenIsStored, Collected
    <2>9. Somewhere'
      BY <1>0, <2>1, <2>3, <2>6 DEF Shared, Somewhere
    <2>10. TimestampIsKept'
      BY <1>0, <2>1, <2>3 DEF Shared, TimestampIsKept
    <2>11. \A j \in Indexer : ~Unchanged(j, "raw")'
      BY <1>0, <2>1, <2>3, Numbers DEF Unchanged, IInv, Dated
    <2>12. ASSUME NEW j \in Indexer PROVE Collected(j)' /\ HasJson(j)' /\ HasRaw(j)'
      <3>0. Own(j)
        BY DEF KeepInv
      <3>1. CASE j # i
        <4>1. Collected(j)'
          BY <2>1, <2>2, <3>0, <3>1 DEF Own, Collected, Missing, ToAdd, Registered
        <4>2. HasJson(j)'
          BY <2>1, <2>2, <2>3, <3>0, <3>1 DEF Own, HasJson, Unchanged, TimesOf
        <4> QED
          BY <2>11, <4>1, <4>2 DEF HasRaw
      <3>2. CASE j = i
        <4>1. Missing(i)' = {}
          BY <1>0, <2>1, <2>4 DEF Collected, Missing, ToAdd, Registered
        <4>2. pc'[i] \in Listed
          BY <1>0, <2>1, Numbers
        <4>3. Collected(i)'
          BY <1>0, <2>1, <4>1, <4>2 DEF Collected
        <4> QED
          BY <2>1, <2>11, <3>2, <4>3 DEF HasJson, HasRaw
      <3> QED
        BY <3>1, <3>2
    <2>13. ASSUME NEW j \in Indexer PROVE HasAll(j)' /\ Secured(j)'
      <3>0. Own(j)
        BY DEF KeepInv
      <3>1. CASE j # i
        <4>1. HasAll(j)'
          BY <2>1, <2>2, <2>3, <2>11, <3>0, <3>1 DEF Own, HasAll, Unchanged
        <4>2. Secured(j)'
          BY <2>1, <2>2, <2>3, <2>6, <3>0, <3>1 DEF Own, Secured, Unchanged
        <4> QED
          BY <4>1, <4>2
      <3>2. CASE j = i
        <4>1. ASSUME Unchanged(i, "json"), NEW p \in Package, born[p] \in Nat
              PROVE  <<p, born[p]>> \in times[i] /\ p \in listing[i].pkgs
          BY <1>0, <1>2, <2>1, <2>4, <4>1 DEF Own, HasAll
        <4>2. HasAll(i)'
          BY <2>1, <2>3, <4>1 DEF HasAll, Unchanged
        <4>3. Secured(i)'
          BY <2>1, <2>3, <2>5, <4>1 DEF Secured, Unchanged
        <4> QED
          BY <3>2, <4>2, <4>3
      <3> QED
        BY <3>1, <3>2
    <2> QED
      BY <2>7, <2>8, <2>9, <2>10, <2>12, <2>13 DEF KeepInv, Shared, Own
  <1> QED
    BY <1>1, <1>2

\* repodata.json is written: what was published keeps its timestamp, and what
\* is left out is in the history.
LEMMA KeepWriteJson ==
  ASSUME KeepInv, IInv', NEW i \in Indexer, WriteJson(i)
  PROVE  KeepInv'
  <1> USE DEF storage, locals, ghosts
  <1>0. IInv /\ LocalType /\ Own(i) /\ Collected(i) /\ Shared
    BY DEF KeepInv, IInv, IndexType, Own
  <1>1. CASE ~Unchanged(i, "json")
    BY <1>1, KeepGiveUp DEF WriteJson
  <1>2. CASE Unchanged(i, "json")
    <2>1. /\ Write(i, "json", Patched(i)) /\ UNCHANGED stored /\ pc[i] = "write_json"
          /\ pc'[i] = "write_shards" /\ UNCHANGED <<option, meta, source, times, listing, got>>
      BY <1>0, <1>2 DEF WriteJson, Go, LocalType
    <2>2. \A j \in Indexer \ {i} : pc'[j] = pc[j]
      BY <1>0, <1>2 DEF WriteJson, Go, LocalType
    <2>3. /\ file'["raw"] = file["raw"] /\ file'["json"].recs = Patched(i)
          /\ file'["json"].etag = file["json"].etag + 1
      BY <1>0, <2>1, Written, Numbers
    <2>4. born' = [p \in Package |->
                     IF born[p] = -1 /\ \E r \in Patched(i) : r.pkg = p
                     THEN (CHOOSE r \in Patched(i) : r.pkg = p).ts ELSE born[p]]
      BY <1>2 DEF WriteJson
    <2>5. Patched(i) \subseteq Unpatched(i) /\ Patched(i) \subseteq Record
      BY <1>0, ComposedType DEF Patched, IInv
    <2>6. ASSUME NEW r \in Patched(i)
          PROVE  r.pkg \in listing[i].pkgs /\ r.ts = TimeOf(i, r.pkg)
                 /\ r.pkg \in Package /\ r.ts \in Nat
      BY <1>0, <2>5, ComposedTime DEF Record
    <2>7. ASSUME NEW p \in Package, born[p] = -1, NEW r \in Patched(i), r.pkg = p
          PROVE  born'[p] = r.ts
      <3> DEFINE s == CHOOSE s \in Patched(i) : s.pkg = p
      <3>1. s \in Patched(i) /\ s.pkg = p
        BY <2>7
      <3>2. s.ts = r.ts
        BY <2>6, <2>7, <3>1
      <3> QED
        BY <2>4, <2>7, <3>2
    <2>8. \A p \in Package :
            \/ born'[p] = born[p]
            \/ born[p] = -1 /\ \E r \in Patched(i) : r.pkg = p /\ born'[p] = r.ts
      BY <2>4, <2>7
    <2>9. \A p \in Package : born[p] # -1 => born'[p] = born[p]
      BY <2>8
    <2>10. ASSUME NEW p \in Package, born[p] \in Nat
           PROVE  <<p, born[p]>> \in times[i] /\ p \in listing[i].pkgs
      <3>1. pc[i] \in Listed
        BY <1>0, <2>1, Numbers
      <3> QED
        BY <1>0, <1>2, <2>1, <2>10, <3>1 DEF Own, HasAll
    <2>11. TimestampIsKept'
      <3> SUFFICES ASSUME NEW r \in Patched(i) PROVE born'[r.pkg] \in {r.ts, -2}
        BY <2>3 DEF TimestampIsKept
      <3>0. r.pkg \in Package /\ r.ts = TimeOf(i, r.pkg)
            /\ born[r.pkg] \in Nat \cup {-1, -2}
        BY <1>0, <2>6 DEF Shared, SeenIsStored
      <3>1. CASE born[r.pkg] = -1
        BY <2>7, <3>0, <3>1
      <3>2. CASE born[r.pkg] = -2
        BY <2>9, <3>0, <3>2
      <3>3. CASE born[r.pkg] \in Nat
        <4>1. TimeOf(i, r.pkg) = born[r.pkg]
          BY <1>0, <2>10, <3>0, <3>3, ReadTime
        <4>2. born'[r.pkg] = born[r.pkg]
          BY <2>9, <3>0, <3>3
        <4> QED
          BY <3>0, <4>1, <4>2
      <3> QED
        BY <3>0, <3>1, <3>2, <3>3
    <2>12. Somewhere'
      <3> SUFFICES ASSUME NEW p \in Package, born'[p] \in Nat, ~\E r \in Patched(i) : r.pkg = p
                   PROVE  InRaw(p)'
        BY <2>3 DEF Somewhere
      <3>1. born'[p] = born[p]
        BY <2>8
      <3>2. <<p, born[p]>> \in times[i] /\ p \in listing[i].pkgs
        BY <2>10, <3>1
      <3>3. \E r \in Unpatched(i) : r.pkg = p
        BY <1>0, <2>1, <3>2, ComposedAll DEF Writing
      <3>4. option[i].patch
        BY <3>3 DEF Patched
      <3>5. InRaw(p)
        BY <1>0, <1>2, <2>1, <3>1, <3>4 DEF Own, Secured
      <3> QED
        BY <2>3, <3>1, <3>5 DEF InRaw
    <2>13. OneTime'
      BY <1>0, <2>3, <2>6 DEF Shared, OneTime
    <2>14. SeenIsStored'
      <3>1. born' \in [Package -> Nat \cup {-1, -2}]
        <4>1. \A p \in Package : born'[p] \in Nat \cup {-1, -2}
          BY <1>0, <2>6, <2>8 DEF Shared, SeenIsStored
        <4> QED
          BY <2>4, <4>1
      <3>2. \A p \in Package : born'[p] \in Nat => stored[p] # 0
        <4> SUFFICES ASSUME NEW p \in Package, born'[p] \in Nat PROVE stored[p] # 0
          OBVIOUS
        <4>1. CASE born'[p] = born[p]
          BY <1>0, <4>1 DEF Shared, SeenIsStored
        <4>2. CASE born[p] = -1 /\ \E r \in Patched(i) : r.pkg = p
          BY <1>0, <2>6, <4>2 DEF Collected
        <4> QED
          BY <2>8, <4>1, <4>2
      <3>3. \A r \in file["raw"].recs : stored[r.pkg] # 0 \/ born'[r.pkg] = -2
        <4>1. \A r \in file["raw"].recs : r.pkg \in Package
          BY <1>0, Numbers DEF IInv, IndexType, StorageType, FileState, Record
        <4> QED
          BY <1>0, <2>9, <4>1 DEF Shared, SeenIsStored
      <3>4. file'["json"].etag # 0
        BY <1>0, <2>3, Numbers
      <3> QED
        BY <2>1, <2>3, <3>1, <3>2, <3>3, <3>4 DEF SeenIsStored
    <2>15. \A j \in Indexer : ~Unchanged(j, "json")'
      BY <1>0, <2>1, <2>3, Numbers DEF Unchanged, IInv, Dated
    <2>16. ASSUME NEW j \in Indexer PROVE HasJson(j)' /\ HasAll(j)' /\ Secured(j)'
      BY <2>15 DEF HasJson, HasAll, Secured
    <2>17. ASSUME NEW j \in Indexer PROVE Collected(j)'
      <3>0. Collected(j) /\ listing[j].pkgs \subseteq Package
        BY <1>0 DEF KeepInv, Own, LocalType
      <3>1. \A p \in listing'[j].pkgs : stored'[p] # 0 \/ born'[p] = -2
        BY <2>1, <2>9, <3>0 DEF Collected
      <3>2. Missing(j)' = Missing(j)
        BY <2>1 DEF Missing, ToAdd, Registered
      <3>3. pc[i] \in Listed /\ pc'[i] \in Listed /\ pc[i] \in Writing
        BY <1>0, <2>1, Numbers DEF Writing
      <3>4. /\ pc'[j] \notin Listed => pc[j] \notin Listed
            /\ pc'[j] \in Writing => pc[j] \in Writing
            /\ pc'[j] \in {"write_raw", "stat_history"} => pc'[j] = pc[j]
        BY <2>1, <2>2, <3>3
      <3> QED
        BY <2>1, <3>0, <3>1, <3>2, <3>4 DEF Collected
    <2>18. ASSUME NEW j \in Indexer PROVE HasRaw(j)'
      <3>1. CASE j = i
        BY <2>1, <3>1 DEF HasRaw
      <3>2. CASE j # i
        <4> SUFFICES ASSUME pc[j] \in {"read_history", "list", "packages", "write_raw"},
                            option[j].patch, Unchanged(j, "raw"),
                            NEW r \in file["raw"].recs, born'[r.pkg] # -2
                     PROVE  /\ \/ <<r.pkg, r.ts>> \in times[j]
                               \/ <<r.pkg, born'[r.pkg]>> \in times[j]
                            /\ pc[j] \in Listed => r.pkg \in listing[j].pkgs
          BY <2>1, <2>2, <2>3, <3>2 DEF HasRaw, Unchanged
        <4>1. r.pkg \in Package
          BY <1>0, Numbers DEF IInv, IndexType, StorageType, FileState, Record
        <4>2. born[r.pkg] # -2
          BY <2>9, <4>1
        <4>3. /\ <<r.pkg, r.ts>> \in times[j] \/ <<r.pkg, born[r.pkg]>> \in times[j]
              /\ pc[j] \in Listed => r.pkg \in listing[j].pkgs
          BY <4>2 DEF KeepInv, Own, HasRaw
        <4>4. CASE born[r.pkg] = -1
          <5>1. times[j] \subseteq Package \X Nat
            BY <1>0 DEF LocalType
          <5>2. <<r.pkg, born[r.pkg]>> \notin times[j]
            BY <4>4, <5>1
          <5> QED
            BY <4>3, <5>2
        <4>5. CASE born[r.pkg] # -1
          BY <2>9, <4>1, <4>3, <4>5
        <4> QED
          BY <4>4, <4>5
      <3> QED
        BY <3>1, <3>2
    <2> QED
      BY <2>11, <2>12, <2>13, <2>14, <2>16, <2>17, <2>18 DEF KeepInv, Shared, Own
  <1> QED
    BY <1>1, <1>2

\* The owner adds, replaces or removes a package.
LEMMA KeepOwner ==
  ASSUME KeepInv, IInv', NEW p \in Package, Upload(p) \/ Remove(p)
  PROVE  KeepInv'
  <1> USE DEF storage, locals, ghosts
  <1>0. IInv /\ Shared /\ StorageType
    BY DEF KeepInv, IInv, IndexType
  <1>1. UNCHANGED <<file, pc, option, meta, source, times, listing, got>>
    BY DEF Upload, Remove
  <1>2. \A q \in Package : \/ born'[q] = born[q] /\ (stored[q] # 0 => stored'[q] # 0)
                           \/ born'[q] = -2
    <2>1. CASE Upload(p)
      <3>1. born' = born /\ stored' = [stored EXCEPT ![p] = changes + 2] /\ changes \in Nat
        BY <1>0, <2>1, IndexAssumption DEF Upload, StorageType
      <3> QED
        BY <1>0, <3>1 DEF StorageType
    <2>2. CASE Remove(p)
      <3>1. born' = [born EXCEPT ![p] = -2] /\ stored' = [stored EXCEPT ![p] = 0]
        BY <2>2 DEF Remove
      <3>2. born'[p] = -2 /\ \A q \in Package \ {p} : born'[q] = born[q] /\ stored'[q] = stored[q]
        BY <1>0, <3>1 DEF StorageType, Shared, SeenIsStored
      <3> QED
        BY <3>2
    <2> QED
      BY <2>1, <2>2
  <1>3. born' \in [Package -> Nat \cup {-1, -2}]
    BY <1>0 DEF Upload, Remove, Shared, SeenIsStored
  <1>4. \A q \in Package : (born'[q] \in Nat => born'[q] = born[q])
                           /\ (born'[q] # -2 => born'[q] = born[q])
    BY <1>2
  <1>5. /\ \A r \in file["raw"].recs : r.pkg \in Package
        /\ \A r \in file["json"].recs : r.pkg \in Package
    BY <1>0, Numbers DEF StorageType, FileState, Record
  <1>6. OneTime' /\ TimestampIsKept'
    BY <1>0, <1>1, <1>4, <1>5 DEF Shared, OneTime, TimestampIsKept
  <1>7. SeenIsStored'
    BY <1>0, <1>1, <1>2, <1>3, <1>4, <1>5 DEF Shared, SeenIsStored
  <1>8. \A q \in Package : born'[q] \in Nat /\ InRaw(q) => InRaw(q)'
    BY <1>1, <1>4 DEF InRaw
  <1>9. Somewhere'
    BY <1>0, <1>1, <1>4, <1>8 DEF Shared, Somewhere
  <1>10. ASSUME NEW j \in Indexer PROVE Own(j)'
    <2>0. Own(j) /\ listing[j].pkgs \subseteq Package
      BY <1>0 DEF KeepInv, IInv, IndexType, LocalType
    <2>1. Missing(j)' = Missing(j)
      BY <1>1 DEF Missing, ToAdd, Registered
    <2>2. Collected(j)'
      <3>1. \A q \in listing[j].pkgs : stored'[q] # 0 \/ born'[q] = -2
        BY <1>2, <2>0 DEF Own, Collected
      <3> QED
        BY <1>1, <2>0, <2>1, <3>1 DEF Own, Collected
    <2>3. HasJson(j)'
      BY <1>1, <2>0 DEF Own, HasJson, Unchanged, TimesOf
    <2>4. HasRaw(j)'
      BY <1>1, <1>4, <1>5, <2>0 DEF Own, HasRaw, Unchanged
    <2>5. HasAll(j)'
      BY <1>1, <1>4, <2>0 DEF Own, HasAll, Unchanged
    <2>6. Secured(j)'
      BY <1>1, <1>4, <1>8, <2>0 DEF Own, Secured, Unchanged
    <2> QED
      BY <2>2, <2>3, <2>4, <2>5, <2>6 DEF Own
  <1> QED
    BY <1>6, <1>7, <1>9, <1>10 DEF KeepInv, Shared

\* A channel that is initialized has published nothing.
LEMMA KeepInitialize ==
  ASSUME KeepInv, IInv', Initialize
  PROVE  KeepInv'
  <1> USE DEF storage, locals, ghosts
  <1>0. IInv /\ Shared
    BY DEF KeepInv
  <1>1. /\ UNCHANGED <<stored, born, pc, option, meta, source, times, listing, got>>
        /\ file["json"].etag = 0
        /\ file' = [file EXCEPT !["json"] = [etag |-> 1, listing |-> 0, recs |-> {}]]
    BY DEF Initialize
  <1>2. /\ file'["raw"] = file["raw"] /\ file'["json"].recs = {} /\ file["json"].recs = {}
        /\ file'["json"].etag = 1
    BY <1>0, <1>1, Numbers DEF IInv, IndexType, StorageType, Shared, SeenIsStored
  <1>3. OneTime' /\ SeenIsStored'
    BY <1>0, <1>1, <1>2 DEF Shared, OneTime, SeenIsStored
  <1>4. Somewhere' /\ TimestampIsKept'
    BY <1>0, <1>1, <1>2 DEF Shared, Somewhere, InRaw, TimestampIsKept
  <1>5. \A j \in Indexer : ~Unchanged(j, "json")'
    BY <1>0, <1>1, <1>2, Numbers DEF Unchanged, IInv, Dated
  <1>6. ASSUME NEW j \in Indexer PROVE Own(j)'
    <2>0. Own(j)
      BY DEF KeepInv
    <2>1. Collected(j)'
      BY <1>1, <2>0 DEF Own, Collected, Missing, ToAdd, Registered
    <2>2. HasRaw(j)'
      BY <1>1, <1>2, <2>0 DEF Own, HasRaw, Unchanged
    <2>3. HasJson(j)' /\ HasAll(j)' /\ Secured(j)'
      BY <1>5 DEF HasJson, HasAll, Secured
    <2> QED
      BY <2>1, <2>2, <2>3 DEF Own
  <1> QED
    BY <1>3, <1>4, <1>6 DEF KeepInv, Shared

\* The ETag of a file is remembered.
LEMMA KeepStat ==
  ASSUME KeepInv, IInv', NEW i \in Indexer,
         StatJson(i) \/ StatRaw(i) \/ StatZst(i) \/ StatShards(i) \/ StatHistory(i)
  PROVE  KeepInv'
  <1> USE DEF storage, locals, ghosts
  <1>0. IInv /\ LocalType /\ Own(i)
    BY DEF KeepInv, IInv, IndexType
  <1>1. CASE StatHistory(i)
    <2>1. /\ UNCHANGED <<file, stored, born, option, times, listing, got>>
          /\ pc[i] = "stat_history" /\ pc'[i] = "read_history"
          /\ meta'[i]["json"] = meta[i]["json"]
      BY <1>0, <1>1, Numbers DEF StatHistory, Stat, Go, LocalType
    <2>2. Others(i)
      BY <1>0, <1>1 DEF StatHistory, Stat, Go, LocalType, Others
    <2>3. ~option[i].patch /\ pc[i] \notin Listed /\ pc'[i] \notin Listed
      BY <1>0, <2>1, Numbers DEF Own, Collected
    <2>4. Collected(i)'
      BY <1>0, <2>1, <2>3 DEF Own, Collected, Writing
    <2>5. HasJson(i)'
      BY <1>0, <2>1 DEF Own, HasJson, Unchanged, TimesOf
    <2>6. HasRaw(i)' /\ HasAll(i)' /\ Secured(i)'
      BY <2>1, <2>3 DEF HasRaw, HasAll, Secured
    <2> QED
      BY <2>1, <2>2, <2>4, <2>5, <2>6, KeepLocal DEF Own
  <1>2. CASE StatJson(i) \/ StatRaw(i) \/ StatZst(i) \/ StatShards(i)
    <2>1. PICK f \in File, step \in Early, next \in Early : Stat(i, f, step, next)
      BY <1>2 DEF StatJson, StatRaw, StatZst, StatShards, File, Early
    <2>2. /\ UNCHANGED <<file, stored, born, times, listing, got>>
          /\ pc[i] \in Early /\ pc'[i] \in Early
      BY <1>0, <2>1 DEF Stat, Go, LocalType
    <2>3. Others(i)
      BY <1>0, <2>1 DEF Stat, Go, LocalType, Others
    <2>4. got[i] = {}
      BY <1>0, <2>2, Numbers DEF Own, Collected, Early
    <2> QED
      BY <1>0, <2>2, <2>3, <2>4, OwnEarly, KeepLocal
  <1> QED
    BY <1>1, <1>2

\* A package is looked up or read.
LEMMA KeepPackage ==
  ASSUME KeepInv, IInv', NEW i \in Indexer, NEW p \in Package, GetOrStat(i, p) \/ ReadPackage(i, p)
  PROVE  KeepInv'
  <1> USE DEF storage, locals, ghosts
  <1>0. IInv /\ LocalType /\ Own(i)
    BY DEF KeepInv, IInv, IndexType
  <1>1. UNCHANGED <<file, stored, born>> /\ pc[i] = "packages" /\ p \in Missing(i)
    BY DEF GetOrStat, ReadPackage
  <1>2. CASE Fail(i)
    BY <1>1, <1>2, KeepGiveUp
  <1>3. CASE ~Fail(i)
    <2>1. UNCHANGED <<pc, option, meta, source, times, listing>>
      BY <1>3 DEF GetOrStat, ReadPackage
    <2>2. got' = got \/ \E v : got' = [got EXCEPT ![i] = @ \cup {[pkg |-> p, ver |-> v]}]
      BY <1>3 DEF GetOrStat, ReadPackage, Obtain
    <2>3. Others(i)
      BY <1>0, <2>1, <2>2 DEF LocalType, Others
    <2>4. p \in listing[i].pkgs
      BY <1>1 DEF Missing, ToAdd
    <2>5. \A r \in got'[i] : r.pkg \in listing[i].pkgs
      BY <1>0, <2>2, <2>4 DEF Own, Collected, LocalType
    <2> QED
      BY <1>0, <1>1, <2>1, <2>3, <2>5, KeepMove, Numbers
  <1> QED
    BY <1>2, <1>3

\* At first what is published has the timestamp 0, and is stored.
LEMMA InitKeep == Init => KeepInv
  <1> SUFFICES ASSUME NEW old \in Legacy, InitWith(old), IInv PROVE KeepInv
    BY InitOrder DEF Init
  <1>0. old \subseteq Package /\ "raw" \in File /\ "json" \in File
    BY IndexAssumption DEF File
  <1>1. /\ file["raw"].recs = {}
        /\ file["json"].recs = {[pkg |-> p, ver |-> 1, ts |-> 0] : p \in old}
        /\ file["json"].etag = 0 => old = {}
    <2>1. file["raw"] = [etag |-> 0, listing |-> 0, recs |-> {}]
      BY <1>0 DEF InitWith
    <2>2. CASE old = {}
      BY <1>0, <2>1, <2>2 DEF InitWith
    <2>3. CASE old # {}
      <3>1. file["json"] = [etag |-> 1, listing |-> 0,
                            recs |-> {[pkg |-> p, ver |-> 1, ts |-> 0] : p \in old}]
        BY <1>0, <2>3 DEF InitWith
      <3> QED
        BY <2>1, <3>1
    <2> QED
      BY <2>2, <2>3
  <1>2. /\ born = [p \in Package |-> IF p \in old THEN 0 ELSE -1]
        /\ stored = [p \in Package |-> IF p \in old THEN 1 ELSE 0]
    BY DEF InitWith
  <1>3. OneTime /\ TimestampIsKept
    BY <1>0, <1>1, <1>2 DEF OneTime, TimestampIsKept
  <1>4. SeenIsStored
    <2>1. born \in [Package -> Nat \cup {-1, -2}]
      BY <1>2
    <2> QED
      BY <1>1, <1>2, <2>1 DEF SeenIsStored
  <1>5. Somewhere
    <2> SUFFICES ASSUME NEW p \in Package, born[p] \in Nat
                 PROVE  \E r \in file["json"].recs : r.pkg = p
      BY DEF Somewhere
    <2>1. p \in old
      BY <1>2
    <2>2. [pkg |-> p, ver |-> 1, ts |-> 0] \in file["json"].recs
      BY <1>1, <2>1
    <2>3. [pkg |-> p, ver |-> 1, ts |-> 0].pkg = p
      OBVIOUS
    <2> QED
      BY <2>2, <2>3
  <1>6. ASSUME NEW i \in Indexer PROVE Own(i)
    <2>1. pc[i] = "idle" /\ got[i] = {} /\ times[i] = {} /\ listing[i].pkgs = {}
      BY DEF InitWith
    <2>2. Collected(i)
      BY <2>1 DEF Collected, Writing
    <2>3. HasJson(i) /\ HasRaw(i) /\ HasAll(i) /\ Secured(i)
      BY <2>1 DEF HasJson, HasRaw, HasAll, Secured
    <2> QED
      BY <2>2, <2>3 DEF Own
  <1> QED
    BY <1>3, <1>4, <1>5, <1>6 DEF KeepInv, Shared

\* Every step keeps the timestamps.
LEMMA KeepStep == KeepInv /\ [Next]_vars => KeepInv'
  <1> SUFFICES ASSUME KeepInv, [Next]_vars PROVE KeepInv'
    OBVIOUS
  <1> USE DEF storage, locals, ghosts
  <1>0. IInv /\ IInv' /\ LocalType
    BY OrderStep DEF KeepInv, IInv, IndexType
  <1>1. ASSUME NEW p \in Package, Upload(p) \/ Remove(p) PROVE KeepInv'
    BY <1>0, <1>1, KeepOwner
  <1>2. ASSUME NEW i \in Indexer, NEW o \in Options, Begin(i, o) PROVE KeepInv'
    <2>1. /\ UNCHANGED <<file, stored, born, times, listing, got>>
          /\ pc[i] = "idle" /\ pc'[i] = "stat_json" /\ Others(i)
      BY <1>0, <1>2 DEF Begin, Go, LocalType, Others
    <2>2. got[i] = {} /\ Own(i)
      BY <1>0, <2>1, Numbers DEF KeepInv, Own, Collected
    <2> QED
      BY <1>0, <2>1, <2>2, OwnEarly, KeepLocal DEF Early
  <1>3. ASSUME NEW i \in Indexer,
               StatJson(i) \/ StatRaw(i) \/ StatZst(i) \/ StatShards(i) \/ StatHistory(i)
        PROVE  KeepInv'
    BY <1>0, <1>3, KeepStat
  <1>4. ASSUME NEW i \in Indexer, ReadSource(i) \/ ReadHistory(i) \/ List(i) PROVE KeepInv'
    BY <1>0, <1>4, KeepReadSource, KeepReadHistory, KeepList
  <1>5. ASSUME NEW i \in Indexer, NEW p \in Package, GetOrStat(i, p) \/ ReadPackage(i, p)
        PROVE  KeepInv'
    BY <1>0, <1>5, KeepPackage
  <1>6. ASSUME NEW i \in Indexer, Compose(i) PROVE KeepInv'
    <2>1. /\ UNCHANGED <<file, stored, born, option, meta, source, times, listing, got>>
          /\ pc[i] = "packages" /\ Missing(i) = {} /\ Others(i)
          /\ pc'[i] = IF option[i].patch THEN "write_raw" ELSE "write_zst"
      BY <1>0, <1>6 DEF Compose, Go, LocalType, Others
    <2>2. \A r \in got[i] : r.pkg \in listing[i].pkgs
      BY DEF KeepInv, Own, Collected
    <2> QED
      BY <1>0, <2>1, <2>2, KeepMove, Numbers
  <1>7. ASSUME NEW i \in Indexer, WriteRaw(i) \/ WriteJson(i) PROVE KeepInv'
    BY <1>0, <1>7, KeepWriteRaw, KeepWriteJson
  <1>8. ASSUME NEW i \in Indexer, WriteZst(i) PROVE KeepInv'
    <2>1. CASE Unchanged(i, "zst")
      <3>1. /\ UNCHANGED <<stored, born, option, meta, source, times, listing, got>>
            /\ pc[i] = "write_zst" /\ pc'[i] = "write_json" /\ Others(i)
            /\ Write(i, "zst", Patched(i))
        BY <1>0, <1>8, <2>1 DEF WriteZst, Go, LocalType, Others
      <3>2. file'["raw"] = file["raw"] /\ file'["json"] = file["json"]
        BY <1>0, <3>1, Written, Numbers
      <3>3. Missing(i) = {} /\ \A r \in got[i] : r.pkg \in listing[i].pkgs
        BY <3>1 DEF KeepInv, Own, Collected, Writing
      <3> QED
        BY <1>0, <3>1, <3>2, <3>3, KeepMove, Numbers
    <2>2. CASE ~Unchanged(i, "zst")
      BY <1>0, <1>8, <2>2, KeepGiveUp DEF WriteZst
    <2> QED
      BY <2>1, <2>2
  <1>9. ASSUME NEW i \in Indexer, WriteShards(i) PROVE KeepInv'
    <2>1. CASE Unchanged(i, "shards")
      <3>1. UNCHANGED <<stored, born>> /\ Write(i, "shards", Patched(i)) /\ pc'[i] = "idle"
            /\ Others(i)
        BY <1>0, <1>9, <2>1 DEF WriteShards, Go, Forget, LocalType, Others
      <3>2. times'[i] = {} /\ listing'[i].pkgs = {} /\ got'[i] = {}
        BY <1>0, <1>9, <2>1 DEF WriteShards, Forget, LocalType
      <3>3. file'["raw"] = file["raw"] /\ file'["json"] = file["json"]
        BY <1>0, <3>1, Written, Numbers
      <3>4. Own(i)'
        BY <3>1, <3>2, OwnEarly DEF KeepInv, Early
      <3> QED
        BY <1>0, <3>1, <3>3, <3>4, KeepLocal
    <2>2. CASE ~Unchanged(i, "shards")
      BY <1>0, <1>9, <2>2, KeepGiveUp DEF WriteShards
    <2> QED
      BY <2>1, <2>2
  <1>10. ASSUME NEW i \in Indexer, Crash(i) PROVE KeepInv'
    BY <1>0, <1>10, KeepGiveUp DEF Crash
  <1>11. CASE Initialize
    BY <1>0, <1>11, KeepInitialize
  <1>12. CASE UNCHANGED vars
    <2>1. \A j \in Indexer : Own(j)'
      BY <1>12, OwnStays DEF vars, KeepInv
    <2>2. OneTime' /\ SeenIsStored' /\ Somewhere' /\ TimestampIsKept'
      BY <1>12 DEF vars, KeepInv, Shared, OneTime, SeenIsStored, Somewhere, InRaw, TimestampIsKept
    <2> QED
      BY <1>0, <2>1, <2>2 DEF KeepInv, Shared
  <1> QED
    BY <1>1, <1>2, <1>3, <1>4, <1>5, <1>6, <1>7, <1>8, <1>9, <1>10, <1>11, <1>12 DEF Next

\* A package keeps the timestamp it was first published with as long as its
\* file is not removed, whether or not patches hide it in between, indexers
\* rebuild from nothing, lose races or are killed: a timestamp that is to be
\* kept is in repodata.json or in the history, and whoever replaces the one
\* file under the ETag it has read has also read the other.
THEOREM TimestampsAreKept == Spec => []TimestampIsKept
  <1>1. KeepInv => TimestampIsKept
    BY DEF KeepInv, Shared
  <1> QED
    BY <1>1, InitKeep, KeepStep, PTL DEF Spec
=============================================================================
