---------------------------- MODULE RepodataFetch ----------------------------
(***************************************************************************)
(* The repodata of one subdirectory and its cache on disk                  *)
(* (rattler_repodata_gateway: fetch/with_cache.rs, fetch/cache,            *)
(* gateway/remote_subdir/tokio.rs).                                        *)
(*                                                                         *)
(* Calls of fetch_repo_data, in several processes, share three files of    *)
(* one cache key: the lock, repodata.json and its state (.info.json).  A   *)
(* call looks at the cache, finds out which encodings the server has,      *)
(* tries them one after the other with the validators of the state, and    *)
(* replaces json and state, each on a blocking thread of its own.  The     *)
(* caller then parses the json under the returned lock.                    *)
(*                                                                         *)
(* The server is external.  It publishes contents, numbered in order, at   *)
(* up to three URLs; every file it has carries the time it was put there   *)
(* (stamp), which stands for ETag and Last-Modified.                       *)
(***************************************************************************)
EXTENDS Integers, Sequences

CONSTANTS
  Task, NoTask,
  None, Missing, Torn,   \* no value, no .info.json, bytes that do not parse
  Options,       \* the FetchRepoDataOptions calls use: [action, zst, bz2]
  Variants,      \* the compressed variants the server may publish: zst, bz2
  Controls,      \* the Cache-Control headers the server sends, see CacheControl
  MaxStamp,      \* bound: how often the server changes a file
  MaxRetry,      \* downloads the retry policy allows after a failed one
  MaxCrash,      \* bound: processes that die
  MaxDrop        \* bound: futures that are dropped

ASSUME RepodataFetchAssumption ==
  /\ NoTask \notin Task /\ Missing # Torn
  /\ {MaxStamp, MaxRetry, MaxCrash, MaxDrop} \subseteq Nat
  /\ Variants \subseteq {"zst", "bz2"}
  /\ Controls \subseteq {"max_age", "no_cache", "unparsable"}
  /\ Options \subseteq [action : {"CacheOrFetch", "UseCacheOnly", "ForceCacheOnly", "NoCache"},
                        zst : BOOLEAN, bz2 : BOOLEAN]

VARIABLES
  server,    \* per encoding: the file at its URL
  clock,     \* the last stamp
  json,      \* repodata.json in the cache: content (0: no file) and age by its mtime
  state,     \* .info.json: Missing, Torn, or a RepoDataState
  lock,      \* the task that holds the lock file
  pc,        \* per task: where it is
  call,      \* per task: the locals of its call, see NoCall
  late,      \* jobs on blocking threads whose future is gone: [kind, task, content, state]
  crashes, drops,
  history    \* every file the server ever had (read by properties only)

diskVars == <<json, state>>
serverVars == <<server, clock, history>>
faultVars == <<late, crashes, drops>>
vars == <<serverVars, diskVars, lock, pc, call, faultVars>>

Encoding == {"zst", "bz2", "plain"}
Content == 0..MaxStamp          \* 0: there is no such file
File == [content : Content, stamp : 0..MaxStamp]
NotThere == [content |-> 0, stamp |-> 0]

\* How validate_cached_state understands the Cache-Control that came with a file.
CacheControl == {"max_age", "no_cache", "unparsable"}

\* Option<Expiring<bool>>: checked within the last 14 days, or longer ago.
Availability == {"unknown", "yes", "no", "yes_expired", "no_expired"}
HasVariant == {"yes", "yes_expired"}
Unknown == [zst |-> "unknown", bz2 |-> "unknown"]

\* RepoDataState: URL, validators, Cache-Control, hash and known variants.
State == [url : Encoding, stamp : 0..MaxStamp, cc : CacheControl, hash : Content,
          zst : Availability, bz2 : Availability]

ASSUME AbsenceAssumption == {Missing, Torn, None} \cap State = {}

(* The locals of fetch_repo_data: cached is cache_state, the state that was  *)
(* validated under the lock; avail is variant_availability; todo are the     *)
(* candidates that are left; got is the response and temporary file of the   *)
(* current one; tries counts its failed downloads; new is the state that is  *)
(* written and returned; ret is how the call ends.  past is no local: what   *)
(* the server had since the call began, for the properties.                  *)
NoCall ==
  [action |-> None, zst |-> FALSE, bz2 |-> FALSE, cached |-> None, avail |-> Unknown,
   todo |-> <<>>, got |-> None, tries |-> 0, new |-> None, ret |-> None, past |-> {}]

Init ==
  /\ server = [e \in Encoding |-> NotThere] /\ clock = 0
  /\ history = {}
  /\ json = [content |-> 0, age |-> "young"] /\ state = Missing
  /\ lock = NoTask
  /\ pc = [t \in Task |-> "idle"] /\ call = [t \in Task |-> NoCall]
  /\ late = {} /\ crashes = 0 /\ drops = 0

Goto(t, label) == pc' = [pc EXCEPT ![t] = label]

\* The lock file goes with the call that owns it.
DropLock(t) == lock' = IF lock = t THEN NoTask ELSE lock

\* The call returns an error.
Fail(t, error) ==
  /\ call' = [call EXCEPT ![t].ret = error]
  /\ DropLock(t)
  /\ Goto(t, "failed")

\* Nothing is left of the call.
Forget(t) ==
  /\ call' = [call EXCEPT ![t] = NoCall]
  /\ DropLock(t)
  /\ Goto(t, "idle")

\* All that is left to do is to write the state st and to return it.
Conclude(t, result, st) ==
  call' = [call EXCEPT ![t] = [NoCall EXCEPT !.new = st, !.ret = result, !.past = call[t].past]]

-----------------------------------------------------------------------------
(* The server and the clock *)

Serve(e, file) ==
  /\ clock < MaxStamp
  /\ clock' = clock + 1
  /\ server' = [server EXCEPT ![e] = file]
  /\ history' = history \cup {<<e, file>>}
  /\ call' = [t \in Task |-> IF pc[t] = "idle" THEN call[t]
                             ELSE [call[t] EXCEPT !.past = @ \cup {<<e, file.content>>}]]
  /\ UNCHANGED <<diskVars, lock, pc, faultVars>>

\* New repodata, at first uncompressed; then its compressed variants.
PublishPlain == Serve("plain", [content |-> clock + 1, stamp |-> clock + 1])
PublishVariant ==
  \E e \in Variants :
    /\ server["plain"].content # 0 /\ server[e].content # server["plain"].content
    /\ Serve(e, [content |-> server["plain"].content, stamp |-> clock + 1])
RemoveFile == \E e \in Encoding : server[e] # NotThere /\ Serve(e, NotThere)

\* The clock of the machine moves on, or is set.  Only the next look at the
\* cache can tell, so between two locks is time enough.
ClockMoves ==
  /\ lock = NoTask /\ json.content # 0
  /\ \E age \in {"young", "old", "future"} \ {json.age} : json' = [json EXCEPT !.age = age]
  /\ UNCHANGED <<serverVars, state, lock, pc, call, faultVars>>

Expired(a) == CASE a = "yes" -> "yes_expired" [] a = "no" -> "no_expired" [] OTHER -> a

TwoWeeksPass ==
  /\ lock = NoTask /\ state \in State
  /\ {state.zst, state.bz2} \cap {"yes", "no"} # {}
  /\ state' = [state EXCEPT !.zst = Expired(@), !.bz2 = Expired(@)]
  /\ UNCHANGED <<serverVars, json, lock, pc, call, faultVars>>

-----------------------------------------------------------------------------
(* fetch_repo_data *)

Call(t) ==
  /\ pc[t] = "idle"
  /\ \E o \in Options :
       call' = [call EXCEPT ![t] = [NoCall EXCEPT !.action = o.action, !.zst = o.zst,
                                    !.bz2 = o.bz2, !.past = {<<e, server[e].content>> : e \in Encoding}]]
  /\ Goto(t, "locking")
  /\ UNCHANGED <<serverVars, diskVars, lock, faultVars>>

\* LockedFile::open_rw
Lock(t) ==
  /\ pc[t] = "locking" /\ lock = NoTask
  /\ lock' = t
  /\ Goto(t, IF call[t].action = "NoCache" THEN "probing" ELSE "validating")
  /\ UNCHANGED <<serverVars, diskVars, call, faultVars>>

\* Defect: the state is believed without a look at the json's hash.
ValidateCachedStateNoHash ==
  IF json.content = 0 \/ state \notin State THEN "InvalidOrMissing"
  ELSE IF json.age = "future" \/ state.cc = "unparsable" THEN "Mismatched"
  ELSE IF state.cc = "no_cache" \/ json.age = "old" THEN "OutOfDate"
  ELSE "UpToDate"

\* validate_cached_state.  The URL in the state is of this subdirectory, which
\* has a cache key of its own, and the state was written with a hash.
ValidateCachedState ==
  IF json.content = 0 \/ state \notin State THEN "InvalidOrMissing"
  ELSE IF state.hash # json.content THEN "InvalidOrMissing"
  ELSE IF json.age = "future" \/ state.cc = "unparsable" THEN "Mismatched"
  ELSE IF state.cc = "no_cache" \/ json.age = "old" THEN "OutOfDate"
  ELSE "UpToDate"

Hit(t) == \/ ValidateCachedState = "UpToDate"
          \/ ValidateCachedState = "OutOfDate" /\ call[t].action = "ForceCacheOnly"
CacheOnly(t) == call[t].action \in {"UseCacheOnly", "ForceCacheOnly"}

CacheHit(t) ==
  /\ pc[t] = "validating" /\ Hit(t)
  /\ call' = [call EXCEPT ![t].new = state, ![t].ret = "CacheHit"]
  /\ Goto(t, "holding")
  /\ UNCHANGED <<serverVars, diskVars, lock, faultVars>>

NoCacheAvailable(t) ==
  /\ pc[t] = "validating" /\ ~Hit(t) /\ CacheOnly(t)
  /\ Fail(t, "NoCacheAvailable")
  /\ UNCHANGED <<serverVars, diskVars, faultVars>>

\* Defect: the validators of a state that does not match the json are kept.
KeepStateAnyway(t) ==
  /\ pc[t] = "validating" /\ ~Hit(t) /\ ~CacheOnly(t)
  /\ call' = [call EXCEPT ![t].cached =
                IF json.content = 0 \/ state \notin State THEN None ELSE state]
  /\ Goto(t, "probing")
  /\ UNCHANGED <<serverVars, diskVars, lock, faultVars>>

KeepState(t) ==
  /\ pc[t] = "validating" /\ ~Hit(t) /\ ~CacheOnly(t)
  /\ call' = [call EXCEPT ![t].cached =
                IF ValidateCachedState = "InvalidOrMissing" THEN None ELSE state]
  /\ Goto(t, "probing")
  /\ UNCHANGED <<serverVars, diskVars, lock, faultVars>>

\* What the state knows; Expiring::value yields nothing after 14 days.
CachedAvail(t, e) == IF call[t].cached = None THEN "unknown" ELSE call[t].cached[e]
Known(t, e) ==
  IF ~call[t][e] THEN "no"
  ELSE IF CachedAvail(t, e) \in {"yes", "no"} THEN CachedAvail(t, e)
  ELSE "unknown"

\* check_valid_download_target: a HEAD request, any failure counts as absent.
HeadRequest(e) == {IF server[e] # NotThere THEN "yes" ELSE "no", "no"}

Candidates(t, a) ==
     (IF call[t].zst /\ a.zst \in HasVariant THEN <<"zst">> ELSE <<>>)
  \o (IF call[t].bz2 /\ a.bz2 \in HasVariant THEN <<"bz2">> ELSE <<>>)
  \o <<"plain">>

\* check_variant_availability, and the candidates that follow from it.
CheckVariantAvailability(t) ==
  /\ pc[t] = "probing"
  /\ \E z \in IF Known(t, "zst") = "unknown" THEN HeadRequest("zst")
              ELSE {CachedAvail(t, "zst")},
        b \in IF Known(t, "zst") # "yes" /\ Known(t, "bz2") = "unknown"
              THEN HeadRequest("bz2") ELSE {CachedAvail(t, "bz2")} :
       call' = [call EXCEPT ![t].avail = [zst |-> z, bz2 |-> b],
                            ![t].todo = Candidates(t, [zst |-> z, bz2 |-> b])]
  /\ Goto(t, "request")
  /\ UNCHANGED <<serverVars, diskVars, lock, faultVars>>

\* Defect: the validators are sent to whatever URL is asked.
ConditionalAnyUrl(t, e) == call[t].cached # None

\* Validators are sent only to the URL they came from.
Conditional(t, e) == call[t].cached # None /\ call[t].cached.url = e

\* The server compares the validators: If-Modified-Since, or the same ETag.
NotModified(t, e) == Conditional(t, e) /\ server[e].stamp <= call[t].cached.stamp

Current(t) == call[t].todo[1]

\* Defect: the first 404 ends the call.
ResponseNotFoundGivesUp(t) ==
  /\ pc[t] = "request" /\ server[Current(t)] = NotThere
  /\ Fail(t, "NotFound")
  /\ UNCHANGED <<serverVars, diskVars, faultVars>>

\* 404: a variant is noted as missing and the next candidate is tried.
ResponseNotFound(t) ==
  /\ pc[t] = "request" /\ server[Current(t)] = NotThere
  /\ IF Current(t) = "plain"
     THEN Fail(t, "NotFound")
     ELSE /\ call' = [call EXCEPT ![t].avail[Current(t)] = "no", ![t].todo = Tail(@),
                                  ![t].tries = 0]
          /\ UNCHANGED <<pc, lock>>
  /\ UNCHANGED <<serverVars, diskVars, faultVars>>

\* 304: the state is written again with what is known of the variants.
ResponseNotModified(t) ==
  /\ pc[t] = "request" /\ server[Current(t)] # NotThere
  /\ NotModified(t, Current(t))
  /\ Conclude(t, "CacheHitAfterFetch",
              [call[t].cached EXCEPT !.url = Current(t), !.zst = call[t].avail.zst,
                                     !.bz2 = call[t].avail.bz2])
  /\ Goto(t, "truncating")
  /\ UNCHANGED <<serverVars, diskVars, lock, faultVars>>

\* 200: the headers are kept and the body is streamed to a temporary file.
ResponseSuccess(t) ==
  /\ pc[t] = "request" /\ server[Current(t)] # NotThere
  /\ ~NotModified(t, Current(t))
  /\ \E cc \in Controls :
       call' = [call EXCEPT ![t].got = [file |-> server[Current(t)], cc |-> cc]]
  /\ Goto(t, "streaming")
  /\ UNCHANGED <<serverVars, diskVars, lock, faultVars>>

\* Any other status, or no response.
RequestFails(t) ==
  /\ pc[t] = "request"
  /\ Fail(t, "HttpError")
  /\ UNCHANGED <<serverVars, diskVars, faultVars>>

\* stream_and_decode_to_file
StreamCompletes(t) ==
  /\ pc[t] = "streaming"
  /\ Goto(t, "persisting")
  /\ UNCHANGED <<serverVars, diskVars, lock, call, faultVars>>

\* FailedToDownload: the request is sent again as long as the policy allows.
StreamFails(t) ==
  /\ pc[t] = "streaming"
  /\ IF call[t].tries < MaxRetry
     THEN /\ call' = [call EXCEPT ![t].tries = @ + 1, ![t].got = None]
          /\ Goto(t, "request")
          /\ UNCHANGED lock
     ELSE Fail(t, "FailedToDownload")
  /\ UNCHANGED <<serverVars, diskVars, faultVars>>

\* new_cache_state
NewState(t) ==
  [url |-> Current(t), cc |-> call[t].got.cc, hash |-> call[t].got.file.content,
   stamp |-> call[t].got.file.stamp,
   zst |-> call[t].avail.zst, bz2 |-> call[t].avail.bz2]

\* Blocking thread: the temporary file is renamed to repodata.json.
Persist(t) ==
  /\ pc[t] = "persisting"
  /\ json' = [content |-> call[t].got.file.content, age |-> "young"]
  /\ Conclude(t, IF call[t].cached = None THEN "CacheNotPresent" ELSE "CacheOutdated",
              NewState(t))
  /\ Goto(t, "truncating")
  /\ UNCHANGED <<serverVars, state, lock, faultVars>>

\* RepoDataState::to_path, on a blocking thread: File::create, then the text.
ToPathCreates(t) ==
  /\ pc[t] = "truncating"
  /\ state' = Torn
  /\ Goto(t, "writing")
  /\ UNCHANGED <<serverVars, json, lock, call, faultVars>>

ToPathWrites(t) ==
  /\ pc[t] = "writing"
  /\ state' = call[t].new
  /\ Goto(t, "holding")
  /\ UNCHANGED <<serverVars, json, lock, call, faultVars>>

\* The rename or one of the writes fails.
DiskFails(t) ==
  /\ pc[t] \in {"persisting", "truncating", "writing"}
  /\ Fail(t, "IoError")
  /\ UNCHANGED <<serverVars, diskVars, faultVars>>

\* RemoteSubdirClient::new: the json is opened on a blocking thread that owns
\* the lock, which is released after it.
Parsed(t) ==
  /\ pc[t] = "holding"
  /\ Forget(t)
  /\ UNCHANGED <<serverVars, diskVars, faultVars>>

\* The caller is told; NotFound becomes a SubdirNotFoundError.
ErrorReported(t) ==
  /\ pc[t] = "failed"
  /\ Forget(t)
  /\ UNCHANGED <<serverVars, diskVars, faultVars>>

-----------------------------------------------------------------------------
(* clear_cache *)

Clear(t) ==
  /\ pc[t] = "idle" /\ lock = NoTask
  /\ lock' = t
  /\ Goto(t, "clearing_json")
  /\ UNCHANGED <<serverVars, diskVars, call, faultVars>>

ClearJson(t) ==
  /\ pc[t] = "clearing_json"
  /\ json' = [content |-> 0, age |-> "young"]
  /\ Goto(t, "clearing_info")
  /\ UNCHANGED <<serverVars, state, lock, call, faultVars>>

ClearInfo(t) ==
  /\ pc[t] = "clearing_info"
  /\ state' = Missing
  /\ Forget(t)
  /\ UNCHANGED <<serverVars, json, faultVars>>

-----------------------------------------------------------------------------
(* Crashes and dropped futures *)

\* A process dies, and with it its locks, its temporary file and its threads.
Crash(t) ==
  /\ crashes < MaxCrash /\ pc[t] # "idle"
  /\ crashes' = crashes + 1
  /\ Forget(t)
  /\ late' = {j \in late : j.task # t}
  /\ UNCHANGED <<serverVars, diskVars, drops>>

\* What the blocking thread at work goes on to do when nobody awaits it.
LateJob(t) ==
  CASE pc[t] = "persisting" ->
         {[kind |-> "persist", task |-> t, content |-> call[t].got.file.content, state |-> None]}
    [] pc[t] \in {"truncating", "writing"} ->
         {[kind |-> "state", task |-> t, content |-> 0, state |-> call[t].new]}
    [] OTHER -> {}

\* The future is dropped at an await: the lock file goes with it, the thread
\* that is at work does not.
DropFuture(t) ==
  /\ drops < MaxDrop
  /\ pc[t] \in {"locking", "validating", "probing", "request", "streaming", "persisting",
                "truncating", "writing"}
  /\ drops' = drops + 1
  /\ late' = late \cup LateJob(t)
  /\ Forget(t)
  /\ UNCHANGED <<serverVars, diskVars, crashes>>

LateWrite ==
  \E j \in late :
    /\ late' = late \ {j}
    /\ IF j.kind = "persist"
       THEN json' = [content |-> j.content, age |-> "young"] /\ UNCHANGED state
       ELSE state' = j.state /\ UNCHANGED json
    /\ UNCHANGED <<serverVars, lock, pc, call, crashes, drops>>

Step(t) ==
  \/ Lock(t) \/ CacheHit(t) \/ NoCacheAvailable(t) \/ KeepState(t)
  \/ CheckVariantAvailability(t)
  \/ ResponseNotFound(t) \/ ResponseNotModified(t) \/ ResponseSuccess(t) \/ RequestFails(t)
  \/ StreamCompletes(t) \/ StreamFails(t)
  \/ Persist(t) \/ ToPathCreates(t) \/ ToPathWrites(t) \/ DiskFails(t)
  \/ Parsed(t) \/ ErrorReported(t) \/ ClearJson(t) \/ ClearInfo(t)

Next ==
  \/ \E t \in Task : Step(t) \/ Call(t) \/ Clear(t) \/ Crash(t)
  \/ PublishPlain \/ PublishVariant \/ RemoveFile \/ ClockMoves \/ TwoWeeksPass

Spec == Init /\ [][Next]_vars

\* The same with futures that are dropped.  InSync does not hold then: the
\* blocking thread replaces the file under the lock of the next caller.
DroppingSpec == Init /\ [][Next \/ (\E t \in Task : DropFuture(t)) \/ LateWrite]_vars

-----------------------------------------------------------------------------
(* Properties *)

\* Every variable keeps its type.
TypeOK ==
  /\ server \in [Encoding -> File] /\ clock \in 0..MaxStamp
  /\ history \subseteq Encoding \X File
  /\ json \in [content : Content, age : {"young", "old", "future"}]
  /\ state \in State \cup {Missing, Torn}
  /\ lock \in Task \cup {NoTask}
  /\ pc \in [Task -> {"idle", "locking", "validating", "probing", "request", "streaming",
                      "persisting", "truncating", "writing", "holding", "failed",
                      "clearing_json", "clearing_info"}]
  /\ \A t \in Task :
       /\ call[t].cached \in State \cup {None} /\ call[t].new \in State \cup {None}
       /\ call[t].avail \in [zst : Availability, bz2 : Availability]
       /\ call[t].todo \in Seq(Encoding) /\ call[t].tries \in 0..MaxRetry
       /\ call[t].got \in [file : File, cc : CacheControl] \cup {None}
       /\ call[t].past \subseteq Encoding \X Content
  /\ late \subseteq [kind : {"persist", "state"}, task : Task, content : Content,
                     state : State \cup {None}]
  /\ crashes \in 0..MaxCrash /\ drops \in 0..MaxDrop

\* The state never pairs the validators of one response with the hash of
\* another: whatever is on disk was sent for that URL, with these validators,
\* as one file.  Otherwise a 304 would confirm data the server never had there.
StateIsHonest ==
  state \in State =>
    <<state.url, [content |-> state.hash, stamp |-> state.stamp]>> \in history

\* A call that asked the server answers with what the server had, at one of
\* its URLs, at some time during the call: a 304 to an old validator and a
\* late download included.
AnswerWasServed ==
  \A t \in Task :
    pc[t] = "holding" /\ call[t].ret \in {"CacheHitAfterFetch", "CacheNotPresent", "CacheOutdated"} =>
      <<call[t].new.url, json.content>> \in call[t].past

\* fetch_repo_data "returns a lockfile which ensures that both the state and
\* the repodata that is pointed to remain in sync".
InSync ==
  \A t \in Task : pc[t] = "holding" => state = call[t].new /\ call[t].new.hash = json.content

\* A subdirectory is reported missing only if repodata.json itself was missing
\* at some time during the call, however the variants came and went.
NotFoundIsTrue ==
  \A t \in Task : pc[t] = "failed" /\ call[t].ret = "NotFound" => <<"plain", 0>> \in call[t].past
=============================================================================
