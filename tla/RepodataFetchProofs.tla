------------------------- MODULE RepodataFetchProofs -------------------------
(***************************************************************************)
(* What the repodata cache promises, for any number of calls, options,     *)
(* versions on the server, retries and crashes.                            *)
(*                                                                         *)
(* The argument: only the holder of the lock changes json and state, so    *)
(* what a call has found out about them stays true until it has written    *)
(* both; and stamps on the server only grow, so that a 304 means that the  *)
(* server still has what the validators came with.                         *)
(***************************************************************************)
EXTENDS RepodataFetch, TLAPS

Label ==
  {"idle", "locking", "validating", "probing", "request", "streaming", "persisting", "truncating",
   "writing", "holding", "failed", "clearing_json", "clearing_info"}
HasLock ==
  {"validating", "probing", "request", "streaming", "persisting", "truncating", "writing",
   "holding", "clearing_json", "clearing_info"}
InCall ==
  {"locking", "validating", "probing", "request", "streaming", "persisting", "truncating",
   "writing", "holding", "failed"}

Response == [file : File, cc : CacheControl]
Asked == {"CacheHitAfterFetch", "CacheNotPresent", "CacheOutdated"}
Outcome == Asked \cup {"CacheHit", "NoCacheAvailable", "NotFound", "HttpError", "FailedToDownload",
                       "IoError", None}
Queue == {q \in Seq(Encoding) : Len(q) > 0 /\ \A i \in 1..Len(q) : q[i] = "plain" <=> i = Len(q)}

CallType ==
  [action : {"CacheOrFetch", "UseCacheOnly", "ForceCacheOnly", "NoCache", None},
   zst : BOOLEAN, bz2 : BOOLEAN, cached : State \cup {None},
   avail : [zst : Availability, bz2 : Availability], todo : Seq(Encoding),
   got : Response \cup {None}, tries : 0..MaxRetry, new : State \cup {None}, ret : Outcome,
   past : SUBSET (Encoding \X Content)]

FetchType ==
  /\ server \in [Encoding -> File] /\ clock \in 0..MaxStamp
  /\ history \subseteq Encoding \X File
  /\ json \in [content : Content, age : {"young", "old", "future"}]
  /\ state \in State \cup {Missing, Torn}
  /\ lock \in Task \cup {NoTask}
  /\ pc \in [Task -> Label]
  /\ call \in [Task -> CallType]

\* Stamps grow, and tell the files of a URL apart.
StampsGrow ==
  /\ \A e \in Encoding : server[e] = NotThere \/ <<e, server[e]>> \in history
  /\ \A e \in Encoding, f \in File : <<e, f>> \in history =>
       /\ f.stamp <= clock
       /\ f.stamp = 0 => f = NotThere
       /\ server[e] # NotThere => f.stamp <= server[e].stamp
  /\ \A e \in Encoding, f, g \in File :
       <<e, f>> \in history /\ <<e, g>> \in history /\ f.stamp = g.stamp => f = g

\* The validators and the hash of a state belong to one file of its URL.
Honest(s) == <<s.url, [content |-> s.hash, stamp |-> s.stamp]>> \in history

\* What is true of a call, by how far it has come.
LockHeld(t) == pc[t] \in HasLock => lock = t
PastKnown(t) == pc[t] \in InCall => \A e \in Encoding : <<e, server[e].content>> \in call[t].past
CachedTrue(t) ==
  /\ pc[t] = "locking" => call[t].cached = None
  /\ pc[t] \in {"probing", "request", "streaming", "persisting"} /\ call[t].cached # None =>
       call[t].cached \in State /\ Honest(call[t].cached) /\ call[t].cached.hash = json.content
TodoEnds(t) == pc[t] \in {"request", "streaming", "persisting"} => call[t].todo \in Queue
GotTrue(t) ==
  pc[t] \in {"streaming", "persisting"} =>
    /\ call[t].got \in Response
    /\ <<Current(t), call[t].got.file>> \in history
    /\ <<Current(t), call[t].got.file.content>> \in call[t].past
NewTrue(t) ==
  /\ pc[t] \in {"truncating", "writing", "holding"} =>
       /\ call[t].new \in State /\ Honest(call[t].new) /\ call[t].new.hash = json.content
       /\ call[t].ret \in Asked => <<call[t].new.url, call[t].new.hash>> \in call[t].past
  /\ pc[t] = "holding" => state = call[t].new
ErrorTrue(t) ==
  pc[t] = "failed" /\ call[t].ret = "NotFound" => <<"plain", 0>> \in call[t].past

TaskInv(t) ==
  LockHeld(t) /\ PastKnown(t) /\ CachedTrue(t) /\ TodoEnds(t) /\ GotTrue(t) /\ NewTrue(t)
    /\ ErrorTrue(t)

IInv == FetchType /\ StampsGrow /\ StateIsHonest /\ \A t \in Task : TaskInv(t)

-----------------------------------------------------------------------------

\* A call begins with nothing.
LEMMA NoCallType == NoCall \in CallType
  <1>1. 0 \in 0..MaxRetry /\ <<>> \in Seq(Encoding)
    BY RepodataFetchAssumption
  <1> QED
    BY <1>1 DEF NoCall, CallType, Unknown, Availability, Outcome

\* An empty cache, and a server without files.
LEMMA InitInv == Init => IInv
  <1> SUFFICES ASSUME Init PROVE IInv
    OBVIOUS
  <1> USE RepodataFetchAssumption DEF Init
  <1>1. NotThere \in File /\ 0 \in Content /\ 0 \in 0..MaxStamp
    BY DEF NotThere, File, Content
  <1>2. FetchType
    BY <1>1, NoCallType DEF FetchType, Label
  <1>3. StampsGrow
    BY DEF StampsGrow
  <1>4. StateIsHonest
    BY AbsenceAssumption DEF StateIsHonest
  <1>5. \A t \in Task : TaskInv(t)
    BY DEF TaskInv, LockHeld, PastKnown, CachedTrue, TodoEnds, GotTrue, NewTrue, ErrorTrue, HasLock,
           InCall
  <1> QED
    BY <1>2, <1>3, <1>4, <1>5 DEF IInv

\* A call that did nothing keeps what it knows, as long as no file is changed
\* under its lock and the server and its history stay.
LEMMA Bystander ==
  ASSUME IInv, NEW u \in Task, pc'[u] = pc[u], call'[u] = call[u], UNCHANGED serverVars,
         pc[u] \in HasLock => UNCHANGED <<json, state, lock>>
  PROVE  TaskInv(u)'
  <1> USE DEF serverVars
  <1>1. TaskInv(u)
    BY DEF IInv
  <1>2. LockHeld(u)' /\ PastKnown(u)' /\ TodoEnds(u)' /\ ErrorTrue(u)'
    BY <1>1 DEF TaskInv, LockHeld, PastKnown, TodoEnds, ErrorTrue
  <1>3. CachedTrue(u)'
    BY <1>1 DEF TaskInv, CachedTrue, HasLock, Honest
  <1>4. GotTrue(u)'
    BY <1>1 DEF TaskInv, GotTrue, Current
  <1>5. NewTrue(u)'
    BY <1>1 DEF TaskInv, NewTrue, HasLock, Honest
  <1> QED
    BY <1>2, <1>3, <1>4, <1>5 DEF TaskInv

\* A step of one call, which changes files only under the lock.
LEMMA TaskStep ==
  ASSUME IInv, NEW t \in Task, UNCHANGED serverVars,
         NEW l \in Label, pc' = [pc EXCEPT ![t] = l],
         NEW c \in CallType, call' = [call EXCEPT ![t] = c],
         lock = t \/ UNCHANGED <<json, state>>,
         lock' = lock \/ lock = t \/ (lock = NoTask /\ lock' = t),
         lock' \in Task \cup {NoTask},
         json' \in [content : Content, age : {"young", "old", "future"}],
         state' \in State \cup {Missing, Torn},
         StateIsHonest', TaskInv(t)'
  PROVE  IInv'
  <1>1. FetchType'
    BY DEF IInv, FetchType, serverVars
  <1>2. StampsGrow'
    BY DEF IInv, StampsGrow, serverVars
  <1>3. ASSUME NEW u \in Task, u # t PROVE TaskInv(u)'
    <2>1. pc'[u] = pc[u] /\ call'[u] = call[u]
      BY <1>3 DEF IInv, FetchType
    <2>2. pc[u] \in HasLock => lock = u
      BY DEF IInv, TaskInv, LockHeld
    <2>3. pc[u] \in HasLock => UNCHANGED <<json, state, lock>>
      BY <1>3, <2>2, RepodataFetchAssumption
    <2> QED
      BY <2>1, <2>3, Bystander
  <1> QED
    BY <1>1, <1>2, <1>3 DEF IInv

-----------------------------------------------------------------------------
(* How a call ends *)

\* An error is returned.
LEMMA FailStep ==
  ASSUME IInv, NEW t \in Task, pc[t] \in InCall,
         NEW error \in {"NoCacheAvailable", "NotFound", "HttpError", "FailedToDownload", "IoError"},
         error = "NotFound" => server["plain"] = NotThere,
         Fail(t, error), UNCHANGED <<serverVars, diskVars>>
  PROVE  IInv'
  <1> DEFINE c == [call[t] EXCEPT !.ret = error]
  <1>1. call[t] \in CallType
    BY DEF IInv, FetchType
  <1>2. c \in CallType /\ c.past = call[t].past /\ c.ret = error
    BY <1>1 DEF CallType, Outcome
  <1>3. /\ call' = [call EXCEPT ![t] = c] /\ pc' = [pc EXCEPT ![t] = "failed"]
        /\ lock' = IF lock = t THEN NoTask ELSE lock
        /\ UNCHANGED <<json, state, server, clock, history>>
    BY DEF Fail, DropLock, Goto, serverVars, diskVars
  <1>4. pc'[t] = "failed" /\ call'[t] = c
    BY <1>3 DEF IInv, FetchType
  <1>5. \A e \in Encoding : <<e, server[e].content>> \in call[t].past
    BY DEF IInv, TaskInv, PastKnown
  <1>6. error = "NotFound" => <<"plain", 0>> \in call[t].past
    BY <1>5 DEF NotThere, Encoding
  <1> HIDE DEF c
  <1>7. TaskInv(t)'
    BY <1>2, <1>3, <1>4, <1>5, <1>6
       DEF TaskInv, LockHeld, PastKnown, CachedTrue, TodoEnds, GotTrue, NewTrue, ErrorTrue, HasLock
  <1>8. /\ lock' = lock \/ lock = t
        /\ lock' \in Task \cup {NoTask} /\ json' \in [content : Content, age : {"young", "old", "future"}]
        /\ state' \in State \cup {Missing, Torn} /\ StateIsHonest'
    BY <1>3 DEF IInv, FetchType, StateIsHonest
  <1>9. "failed" \in Label
    BY DEF Label
  <1> QED
    BY <1>2, <1>3, <1>7, <1>8, <1>9, TaskStep DEF serverVars

\* Nothing is left of the call, and the files are as they were or written
\* under its lock.
LEMMA ForgetStep ==
  ASSUME IInv, NEW t \in Task, Forget(t), UNCHANGED serverVars,
         lock = t \/ UNCHANGED <<json, state>>,
         json' \in [content : Content, age : {"young", "old", "future"}],
         state' \in State \cup {Missing, Torn}, StateIsHonest'
  PROVE  IInv'
  <1>1. /\ call' = [call EXCEPT ![t] = NoCall] /\ pc' = [pc EXCEPT ![t] = "idle"]
        /\ lock' = IF lock = t THEN NoTask ELSE lock
    BY DEF Forget, DropLock, Goto
  <1>2. pc'[t] = "idle"
    BY <1>1 DEF IInv, FetchType
  <1>3. TaskInv(t)'
    BY <1>2 DEF TaskInv, LockHeld, PastKnown, CachedTrue, TodoEnds, GotTrue, NewTrue, ErrorTrue, HasLock,
                InCall
  <1>4. lock' = lock \/ lock = t
    BY <1>1
  <1>5. lock' \in Task \cup {NoTask}
    BY <1>1 DEF IInv, FetchType
  <1>6. "idle" \in Label
    BY DEF Label
  <1> QED
    BY <1>1, <1>3, <1>4, <1>5, <1>6, NoCallType, TaskStep

\* The call goes on: the lock and the files stay.
LEMMA GoStep ==
  ASSUME IInv, NEW t \in Task, NEW l \in Label, pc' = [pc EXCEPT ![t] = l],
         NEW c \in CallType, call' = [call EXCEPT ![t] = c],
         UNCHANGED <<serverVars, diskVars, lock>>, TaskInv(t)'
  PROVE  IInv'
  <1>1. /\ UNCHANGED <<json, state, lock>>
        /\ lock' \in Task \cup {NoTask} /\ json' \in [content : Content, age : {"young", "old", "future"}]
        /\ state' \in State \cup {Missing, Torn} /\ StateIsHonest'
    BY DEF IInv, FetchType, StateIsHonest, diskVars, serverVars
  <1> QED
    BY <1>1, TaskStep

-----------------------------------------------------------------------------
(* fetch_repo_data, up to the response *)

\* What a call knows before its step.
LEMMA CallKnown ==
  ASSUME IInv, NEW t \in Task
  PROVE  /\ call[t] \in CallType /\ TaskInv(t)
         /\ \A l : pc' = [pc EXCEPT ![t] = l] => pc'[t] = l
         /\ \A c : call' = [call EXCEPT ![t] = c] => call'[t] = c
         /\ call' = call => call' = [call EXCEPT ![t] = call[t]]
         /\ pc' = pc => pc' = [pc EXCEPT ![t] = pc[t]]
  BY DEF IInv, FetchType

\* What the server has when the call begins is in its past.
LEMMA CallInv == ASSUME IInv, NEW t \in Task, Call(t) PROVE IInv'
  <1> DEFINE past == {<<e, server[e].content>> : e \in Encoding}
  <1>1. PICK o \in Options :
          call' = [call EXCEPT ![t] = [NoCall EXCEPT !.action = o.action, !.zst = o.zst,
                                       !.bz2 = o.bz2, !.past = past]]
    BY DEF Call
  <1> DEFINE c == [NoCall EXCEPT !.action = o.action, !.zst = o.zst, !.bz2 = o.bz2, !.past = past]
  <1>2. past \in SUBSET (Encoding \X Content)
    BY DEF IInv, FetchType, File
  <1>3. o.action \in {"CacheOrFetch", "UseCacheOnly", "ForceCacheOnly", "NoCache"}
        /\ o.zst \in BOOLEAN /\ o.bz2 \in BOOLEAN
    BY RepodataFetchAssumption
  <1>4. c \in CallType /\ c.past = past /\ c.cached = None
    <2> HIDE DEF past
    <2> QED
      BY <1>2, <1>3, NoCallType DEF CallType, NoCall
  <1>5. call' = [call EXCEPT ![t] = c] /\ pc' = [pc EXCEPT ![t] = "locking"]
        /\ UNCHANGED <<server, clock, history, json, state, lock>>
    BY <1>1 DEF Call, Goto, serverVars, diskVars
  <1> HIDE DEF c
  <1>6. pc'[t] = "locking" /\ call'[t] = c
    BY <1>5, CallKnown
  <1>7. PastKnown(t)'
    BY <1>4, <1>5, <1>6 DEF PastKnown
  <1>8. TaskInv(t)'
    BY <1>4, <1>6, <1>7
       DEF TaskInv, LockHeld, CachedTrue, TodoEnds, GotTrue, NewTrue, ErrorTrue, HasLock
  <1>9. "locking" \in Label
    BY DEF Label
  <1> QED
    BY <1>4, <1>5, <1>8, <1>9, GoStep DEF serverVars, diskVars

\* A call that will look at the cache or at the server takes the lock.
LEMMA LockInv == ASSUME IInv, NEW t \in Task, Lock(t) PROVE IInv'
  <1> DEFINE l == IF call[t].action = "NoCache" THEN "probing" ELSE "validating"
  <1>1. /\ lock = NoTask /\ lock' = t /\ pc[t] = "locking" /\ pc' = [pc EXCEPT ![t] = l]
        /\ UNCHANGED <<server, clock, history, json, state, call>>
    BY DEF Lock, Goto, serverVars, diskVars
  <1>2. l \in {"probing", "validating"}
    OBVIOUS
  <1> HIDE DEF l
  <1>3. pc'[t] = l /\ call'[t] = call[t] /\ call' = [call EXCEPT ![t] = call[t]]
        /\ call[t] \in CallType
    BY <1>1, CallKnown
  <1>4. l \in Label
    BY <1>2 DEF Label
  <1>5. TaskInv(t)'
    <2>1. TaskInv(t)
      BY CallKnown
    <2>2. LockHeld(t)' /\ TodoEnds(t)' /\ GotTrue(t)' /\ NewTrue(t)' /\ ErrorTrue(t)'
      BY <1>1, <1>2, <1>3 DEF LockHeld, TodoEnds, GotTrue, NewTrue, ErrorTrue
    <2>3. PastKnown(t)' /\ CachedTrue(t)'
      BY <1>1, <1>2, <1>3, <2>1 DEF TaskInv, PastKnown, CachedTrue, InCall
    <2> QED
      BY <2>2, <2>3 DEF TaskInv
  <1>6. /\ lock' \in Task \cup {NoTask}
        /\ json' \in [content : Content, age : {"young", "old", "future"}]
        /\ state' \in State \cup {Missing, Torn} /\ StateIsHonest'
    BY <1>1 DEF IInv, FetchType, StateIsHonest
  <1> QED
    BY <1>1, <1>3, <1>4, <1>5, <1>6, TaskStep DEF serverVars

\* A state that is not rejected describes the json.
LEMMA Validated ==
  /\ ValidateCachedState # "InvalidOrMissing" => state \in State /\ state.hash = json.content
  /\ \A t : Hit(t) => ValidateCachedState # "InvalidOrMissing"
  <1>1. ValidateCachedState # "InvalidOrMissing" => state \in State /\ state.hash = json.content
    BY DEF ValidateCachedState
  <1>2. \A t : Hit(t) => ValidateCachedState # "InvalidOrMissing"
    BY DEF Hit
  <1> QED
    BY <1>1, <1>2

\* The state that was validated is returned.
LEMMA CacheHitInv == ASSUME IInv, NEW t \in Task, CacheHit(t) PROVE IInv'
  <1> DEFINE c == [call[t] EXCEPT !.new = state, !.ret = "CacheHit"]
  <1>1. state \in State /\ state.hash = json.content /\ Honest(state)
    BY Validated DEF CacheHit, IInv, StateIsHonest, Honest
  <1>2. /\ pc[t] = "validating" /\ pc' = [pc EXCEPT ![t] = "holding"]
        /\ call' = [call EXCEPT ![t] = c]
        /\ UNCHANGED <<server, clock, history, json, state, lock>>
    BY DEF CacheHit, Goto, serverVars, diskVars
  <1>3. call[t] \in CallType /\ TaskInv(t)
    BY CallKnown
  <1>4. c \in CallType /\ c.new = state /\ c.ret = "CacheHit" /\ c.past = call[t].past
    BY <1>1, <1>3 DEF CallType, Outcome
  <1> HIDE DEF c
  <1>5. pc'[t] = "holding" /\ call'[t] = c
    BY <1>2, CallKnown
  <1>6. LockHeld(t)' /\ PastKnown(t)'
    BY <1>2, <1>3, <1>4, <1>5 DEF TaskInv, LockHeld, PastKnown, HasLock, InCall
  <1>7. CachedTrue(t)' /\ TodoEnds(t)' /\ GotTrue(t)' /\ ErrorTrue(t)'
    BY <1>5 DEF CachedTrue, TodoEnds, GotTrue, ErrorTrue
  <1>8. NewTrue(t)'
    BY <1>1, <1>2, <1>4, <1>5 DEF NewTrue, Honest, Asked
  <1>9. TaskInv(t)' /\ "holding" \in Label
    BY <1>6, <1>7, <1>8 DEF TaskInv, Label
  <1> QED
    BY <1>2, <1>4, <1>9, GoStep DEF serverVars, diskVars

\* A call that may use the cache only gives up.
LEMMA NoCacheAvailableInv == ASSUME IInv, NEW t \in Task, NoCacheAvailable(t) PROVE IInv'
  BY FailStep DEF NoCacheAvailable, InCall

\* The validators that are kept came with the json that is in the cache.
LEMMA KeepStateInv == ASSUME IInv, NEW t \in Task, KeepState(t) PROVE IInv'
  <1> DEFINE kept == IF ValidateCachedState = "InvalidOrMissing" THEN None ELSE state
             c == [call[t] EXCEPT !.cached = kept]
  <1>1. kept # None => kept \in State /\ Honest(kept) /\ kept.hash = json.content
    BY Validated DEF IInv, StateIsHonest, Honest
  <1>2. /\ pc[t] = "validating" /\ pc' = [pc EXCEPT ![t] = "probing"]
        /\ call' = [call EXCEPT ![t] = c]
        /\ UNCHANGED <<server, clock, history, json, state, lock>>
    BY DEF KeepState, Goto, serverVars, diskVars
  <1>3. call[t] \in CallType /\ TaskInv(t)
    BY CallKnown
  <1> HIDE DEF kept
  <1>4. c \in CallType /\ c.cached = kept /\ c.past = call[t].past
    BY <1>1, <1>3 DEF CallType
  <1> HIDE DEF c
  <1>5. pc'[t] = "probing" /\ call'[t] = c
    BY <1>2, CallKnown
  <1>6. LockHeld(t)' /\ PastKnown(t)'
    BY <1>2, <1>3, <1>4, <1>5 DEF TaskInv, LockHeld, PastKnown, HasLock, InCall
  <1>7. NewTrue(t)' /\ TodoEnds(t)' /\ GotTrue(t)' /\ ErrorTrue(t)'
    BY <1>5 DEF NewTrue, TodoEnds, GotTrue, ErrorTrue
  <1>8. CachedTrue(t)'
    BY <1>1, <1>2, <1>4, <1>5 DEF CachedTrue, Honest
  <1>9. TaskInv(t)' /\ "probing" \in Label
    BY <1>6, <1>7, <1>8 DEF TaskInv, Label
  <1> QED
    BY <1>2, <1>4, <1>9, GoStep DEF serverVars, diskVars

\* repodata.json is always the last candidate.
LEMMA CandidatesEnd ==
  ASSUME NEW t, NEW a
  PROVE  Candidates(t, a) \in Queue
  <1> DEFINE z == IF call[t].zst /\ a.zst \in HasVariant THEN <<"zst">> ELSE <<>>
             b == IF call[t].bz2 /\ a.bz2 \in HasVariant THEN <<"bz2">> ELSE <<>>
             Optional(s) == /\ s \in Seq(Encoding) /\ Len(s) \in Nat
                            /\ \A i \in 1..Len(s) : s[i] \in Encoding /\ s[i] # "plain"
  <1>1. Candidates(t, a) = (z \o b) \o <<"plain">>
    BY DEF Candidates
  <1>2. Optional(<<>>) /\ Optional(<<"zst">>) /\ Optional(<<"bz2">>)
    BY DEF Encoding
  <1>3. Optional(z) /\ Optional(b)
    BY <1>2
  <1> HIDE DEF z, b
  <1>4. Optional(z \o b)
    BY <1>3
  <1> DEFINE s == z \o b
             q == s \o <<"plain">>
  <1> HIDE DEF s
  <1>5. Optional(s)
    BY <1>4 DEF s
  <1>6. q \in Seq(Encoding) /\ Len(q) = Len(s) + 1 /\ q[Len(s) + 1] = "plain"
    BY <1>5 DEF Encoding
  <1>7. \A i \in 1..Len(s) : q[i] = s[i]
    BY <1>5
  <1>8. \A i \in 1..Len(q) : q[i] = "plain" <=> i = Len(q)
    BY <1>5, <1>6, <1>7
  <1>9. Candidates(t, a) = q
    BY <1>1 DEF s
  <1>10. Len(q) > 0
    BY <1>5, <1>6
  <1> HIDE DEF q
  <1>11. q \in Queue
    BY <1>6, <1>8, <1>10 DEF Queue
  <1> QED
    BY <1>9, <1>11

\* What a queue holds.
LEMMA QueueFacts ==
  ASSUME NEW q \in Queue
  PROVE  /\ q \in Seq(Encoding) /\ q[1] \in Encoding
         /\ q[1] # "plain" => Tail(q) \in Queue /\ q[1] \in {"zst", "bz2"}
  <1>1. q \in Seq(Encoding) /\ Len(q) \in Nat /\ Len(q) > 0
        /\ \A i \in 1..Len(q) : q[i] = "plain" <=> i = Len(q)
    BY DEF Queue
  <1>2. q[1] \in Encoding
    BY <1>1
  <1>3. ASSUME q[1] # "plain" PROVE Tail(q) \in Queue /\ q[1] \in {"zst", "bz2"}
    <2>1. Len(q) # 1
      BY <1>1, <1>3
    <2>2. /\ Tail(q) \in Seq(Encoding) /\ Len(Tail(q)) = Len(q) - 1
          /\ \A i \in 1..Len(Tail(q)) : Tail(q)[i] = q[i + 1]
      BY <1>1, <2>1
    <2> DEFINE r == Tail(q)
    <2>3. r \in Seq(Encoding) /\ Len(r) = Len(q) - 1 /\ \A i \in 1..Len(r) : r[i] = q[i + 1]
      BY <2>2
    <2> HIDE DEF r
    <2>4. ASSUME NEW i \in 1..Len(r) PROVE r[i] = "plain" <=> i = Len(r)
      <3>1. i \in Nat /\ i + 1 \in 1..Len(q) /\ r[i] = q[i + 1]
        BY <1>1, <2>3
      <3> QED
        BY <1>1, <2>3, <3>1
    <2>5. Len(r) > 0
      BY <1>1, <2>1, <2>3
    <2>6. r \in Queue
      BY <2>3, <2>4, <2>5 DEF Queue
    <2> QED
      BY <1>2, <1>3, <2>6 DEF r, Encoding
  <1> QED
    BY <1>1, <1>2, <1>3

\* What is known of the variants has its type.
LEMMA CheckVariantAvailabilityInv ==
  ASSUME IInv, NEW t \in Task, CheckVariantAvailability(t)
  PROVE  IInv'
  <1>1. call[t] \in CallType /\ TaskInv(t)
    BY CallKnown
  <1>2. CachedAvail(t, "zst") \in Availability /\ CachedAvail(t, "bz2") \in Availability
    BY <1>1 DEF CachedAvail, CallType, State, Availability
  <1>3. HeadRequest("zst") \subseteq Availability /\ HeadRequest("bz2") \subseteq Availability
    BY DEF HeadRequest, Availability
  <1>4. PICK z \in Availability, b \in Availability :
          call' = [call EXCEPT ![t].avail = [zst |-> z, bz2 |-> b],
                               ![t].todo = Candidates(t, [zst |-> z, bz2 |-> b])]
    BY <1>2, <1>3 DEF CheckVariantAvailability
  <1> DEFINE a == [zst |-> z, bz2 |-> b]
             q == Candidates(t, a)
             c == [call[t] EXCEPT !.avail = a, !.todo = q]
  <1>5. q \in Queue /\ q \in Seq(Encoding) /\ a \in [zst : Availability, bz2 : Availability]
    BY CandidatesEnd, QueueFacts
  <1>6. /\ pc[t] = "probing" /\ pc' = [pc EXCEPT ![t] = "request"]
        /\ call' = [call EXCEPT ![t] = c]
        /\ UNCHANGED <<server, clock, history, json, state, lock>>
    BY <1>4 DEF CheckVariantAvailability, Goto, serverVars, diskVars
  <1> HIDE DEF a, q
  <1>7. c \in CallType /\ c.cached = call[t].cached /\ c.past = call[t].past /\ c.todo = q
    BY <1>1, <1>5 DEF CallType
  <1> HIDE DEF c
  <1>8. pc'[t] = "request" /\ call'[t] = c
    BY <1>6, CallKnown
  <1>9. LockHeld(t)' /\ PastKnown(t)'
    BY <1>1, <1>6, <1>7, <1>8 DEF TaskInv, LockHeld, PastKnown, HasLock, InCall
  <1>10. NewTrue(t)' /\ TodoEnds(t)' /\ GotTrue(t)' /\ ErrorTrue(t)'
    BY <1>5, <1>7, <1>8 DEF NewTrue, TodoEnds, GotTrue, ErrorTrue
  <1>11. CachedTrue(t)'
    BY <1>1, <1>6, <1>7, <1>8 DEF TaskInv, CachedTrue, Honest
  <1>12. TaskInv(t)' /\ "request" \in Label
    BY <1>9, <1>10, <1>11 DEF TaskInv, Label
  <1> QED
    BY <1>6, <1>7, <1>12, GoStep DEF serverVars, diskVars

-----------------------------------------------------------------------------
(* The response, the download and the files *)

\* A missing variant leaves the rest of the queue; without repodata.json there
\* is no subdirectory.
LEMMA ResponseNotFoundInv == ASSUME IInv, NEW t \in Task, ResponseNotFound(t) PROVE IInv'
  <1>1. pc[t] = "request" /\ call[t] \in CallType /\ TaskInv(t) /\ server[Current(t)] = NotThere
    BY CallKnown DEF ResponseNotFound
  <1>2. call[t].todo \in Queue /\ Current(t) = call[t].todo[1]
    BY <1>1 DEF TaskInv, TodoEnds, Current
  <1>3. CASE Current(t) = "plain"
    <2>1. Fail(t, "NotFound") /\ UNCHANGED <<serverVars, diskVars>>
      BY <1>3 DEF ResponseNotFound
    <2>2. pc[t] \in InCall
      BY <1>1 DEF InCall
    <2> QED
      BY <1>1, <1>3, <2>1, <2>2, FailStep
  <1>4. CASE Current(t) # "plain"
    <2> DEFINE a == [call[t].avail EXCEPT ![Current(t)] = "no"]
               q == Tail(call[t].todo)
               c == [call[t] EXCEPT !.avail = a, !.todo = q, !.tries = 0]
    <2>1. q \in Queue /\ q \in Seq(Encoding) /\ Current(t) \in {"zst", "bz2"}
      BY <1>2, <1>4, QueueFacts
    <2>2. a \in [zst : Availability, bz2 : Availability]
      BY <1>1, <2>1 DEF CallType, Availability
    <2>3. /\ call' = [call EXCEPT ![t] = c]
          /\ UNCHANGED <<pc, server, clock, history, json, state, lock>>
      BY <1>4 DEF ResponseNotFound, serverVars, diskVars
    <2> HIDE DEF a, q
    <2>4. 0 \in 0..MaxRetry
      BY RepodataFetchAssumption
    <2>5. c \in CallType /\ c.cached = call[t].cached /\ c.past = call[t].past /\ c.todo = q
      BY <1>1, <2>1, <2>2, <2>4 DEF CallType
    <2> HIDE DEF c
    <2>6. call'[t] = c /\ pc'[t] = "request" /\ pc' = [pc EXCEPT ![t] = "request"]
      BY <1>1, <2>3, CallKnown
    <2>7. LockHeld(t)' /\ PastKnown(t)'
      BY <1>1, <2>3, <2>5, <2>6 DEF TaskInv, LockHeld, PastKnown, HasLock, InCall
    <2>8. NewTrue(t)' /\ TodoEnds(t)' /\ GotTrue(t)' /\ ErrorTrue(t)'
      BY <2>1, <2>5, <2>6 DEF NewTrue, TodoEnds, GotTrue, ErrorTrue
    <2>9. CachedTrue(t)'
      BY <1>1, <2>3, <2>5, <2>6 DEF TaskInv, CachedTrue, Honest
    <2>10. TaskInv(t)' /\ "request" \in Label
      BY <2>7, <2>8, <2>9 DEF TaskInv, Label
    <2> QED
      BY <2>3, <2>5, <2>6, <2>10, GoStep DEF serverVars, diskVars
  <1> QED
    BY <1>3, <1>4

\* A 304 is sent only for the file that is there: stamps tell files apart.
LEMMA NotModifiedMeansSame ==
  ASSUME IInv, NEW e \in Encoding, NEW s \in State, Honest(s), s.url = e,
         server[e] # NotThere, server[e].stamp <= s.stamp
  PROVE  s.hash = server[e].content
  <1> DEFINE f == [content |-> s.hash, stamp |-> s.stamp]
  <1>1. f \in File /\ f.stamp = s.stamp /\ f.content = s.hash /\ f.stamp \in Nat
    BY RepodataFetchAssumption DEF State, File
  <1>2. server[e] \in File /\ server[e].stamp \in Nat
    BY RepodataFetchAssumption DEF IInv, FetchType, File
  <1>3. <<e, f>> \in history
    BY DEF Honest
  <1>4. <<e, server[e]>> \in history
    BY DEF IInv, StampsGrow
  <1> HIDE DEF f
  <1>5. f.stamp <= server[e].stamp
    BY <1>1, <1>3 DEF IInv, StampsGrow
  <1>6. f.stamp = server[e].stamp
    BY <1>1, <1>2, <1>5
  <1>7. f = server[e]
    BY <1>1, <1>2, <1>3, <1>4, <1>6 DEF IInv, StampsGrow
  <1> QED
    BY <1>1, <1>7

\* What is concluded has only the new state, the result and the past.
LEMMA Concluded ==
  ASSUME IInv, NEW t \in Task, NEW s \in State, NEW result \in Outcome
  PROVE  [NoCall EXCEPT !.new = s, !.ret = result, !.past = call[t].past] \in CallType
  <1>1. call[t].past \in SUBSET (Encoding \X Content)
    BY CallKnown DEF CallType
  <1> QED
    BY <1>1, NoCallType DEF CallType, NoCall

\* A call that is about to write its state: only files change, under its lock.
LEMMA ConcludeStep ==
  ASSUME IInv, NEW t \in Task, pc[t] \in HasLock \cap InCall, NEW s \in State, NEW result \in Asked,
         Conclude(t, result, s), Goto(t, "truncating"),
         UNCHANGED <<serverVars, state, lock>>,
         json' \in [content : Content, age : {"young", "old", "future"}],
         Honest(s), s.hash = json'.content, <<s.url, s.hash>> \in call[t].past
  PROVE  IInv'
  <1> DEFINE c == [NoCall EXCEPT !.new = s, !.ret = result, !.past = call[t].past]
  <1>1. c \in CallType
    BY Concluded DEF Outcome
  <1>2. c.new = s /\ c.ret = result /\ c.past = call[t].past
    BY DEF NoCall
  <1>3. /\ call' = [call EXCEPT ![t] = c] /\ pc' = [pc EXCEPT ![t] = "truncating"]
        /\ UNCHANGED <<server, clock, history, state, lock>>
    BY DEF Conclude, Goto, serverVars
  <1> HIDE DEF c
  <1>4. call'[t] = c /\ pc'[t] = "truncating" /\ TaskInv(t)
    BY <1>3, CallKnown
  <1>5. lock = t
    BY <1>4 DEF TaskInv, LockHeld
  <1>6. LockHeld(t)' /\ PastKnown(t)'
    BY <1>2, <1>3, <1>4, <1>5 DEF TaskInv, LockHeld, PastKnown
  <1>7. CachedTrue(t)' /\ TodoEnds(t)' /\ GotTrue(t)' /\ ErrorTrue(t)'
    BY <1>4 DEF CachedTrue, TodoEnds, GotTrue, ErrorTrue
  <1>8. NewTrue(t)'
    BY <1>2, <1>3, <1>4 DEF NewTrue, Honest
  <1>9. TaskInv(t)' /\ "truncating" \in Label
    BY <1>6, <1>7, <1>8 DEF TaskInv, Label
  <1>10. lock' \in Task \cup {NoTask} /\ state' \in State \cup {Missing, Torn} /\ StateIsHonest'
    BY <1>3 DEF IInv, FetchType, StateIsHonest
  <1> QED
    BY <1>1, <1>3, <1>5, <1>9, <1>10, TaskStep DEF serverVars

\* What the json holds is what the server has now.
LEMMA ResponseNotModifiedInv == ASSUME IInv, NEW t \in Task, ResponseNotModified(t) PROVE IInv'
  <1> DEFINE e == Current(t)
             old == call[t].cached
             s == [old EXCEPT !.url = e, !.zst = call[t].avail.zst, !.bz2 = call[t].avail.bz2]
  <1>1. pc[t] = "request" /\ call[t] \in CallType /\ TaskInv(t)
    BY CallKnown DEF ResponseNotModified
  <1>2. e \in Encoding
    BY <1>1, QueueFacts DEF TaskInv, TodoEnds, Current
  <1>3. server[e] # NotThere /\ old # None /\ old.url = e /\ server[e].stamp <= old.stamp
    BY DEF ResponseNotModified, NotModified, Conditional
  <1>4. old \in State /\ Honest(old) /\ old.hash = json.content
    BY <1>1, <1>3 DEF TaskInv, CachedTrue
  <1>5. old.hash = server[e].content
    BY <1>2, <1>3, <1>4, NotModifiedMeansSame
  <1>6. <<e, server[e].content>> \in call[t].past
    BY <1>1, <1>2 DEF TaskInv, PastKnown, InCall
  <1>7. call[t].avail.zst \in Availability /\ call[t].avail.bz2 \in Availability
    BY <1>1 DEF CallType
  <1>8. Conclude(t, "CacheHitAfterFetch", s) /\ Goto(t, "truncating")
        /\ UNCHANGED <<serverVars, state, lock, json>>
    BY DEF ResponseNotModified, diskVars
  <1> HIDE DEF e, old
  <1>9. s \in State /\ s.hash = old.hash /\ s.url = e /\ s.stamp = old.stamp
    BY <1>2, <1>4, <1>7 DEF State
  <1>10. old.url = e
    BY <1>3
  <1> HIDE DEF s
  <1>11. Honest(s) /\ <<s.url, s.hash>> \in call[t].past /\ s.hash = json'.content
    BY <1>4, <1>5, <1>6, <1>8, <1>9, <1>10 DEF Honest
  <1>12. json' \in [content : Content, age : {"young", "old", "future"}]
    BY <1>8 DEF IInv, FetchType
  <1>13. "CacheHitAfterFetch" \in Asked /\ pc[t] \in HasLock \cap InCall
    BY <1>1 DEF Asked, HasLock, InCall
  <1> QED
    BY <1>8, <1>9, <1>11, <1>12, <1>13, ConcludeStep

\* The response is of a file the server has, during the call.
LEMMA ResponseSuccessInv == ASSUME IInv, NEW t \in Task, ResponseSuccess(t) PROVE IInv'
  <1> DEFINE e == Current(t)
  <1>1. pc[t] = "request" /\ call[t] \in CallType /\ TaskInv(t) /\ server[e] # NotThere
    BY CallKnown DEF ResponseSuccess
  <1>2. e \in Encoding /\ call[t].todo \in Queue /\ e = call[t].todo[1]
    BY <1>1, QueueFacts DEF TaskInv, TodoEnds, Current
  <1>3. PICK cc \in Controls : call' = [call EXCEPT ![t].got = [file |-> server[e], cc |-> cc]]
    BY DEF ResponseSuccess
  <1> DEFINE r == [file |-> server[e], cc |-> cc]
             c == [call[t] EXCEPT !.got = r]
  <1>4. server[e] \in File /\ cc \in CacheControl
    BY <1>2, RepodataFetchAssumption DEF IInv, FetchType, CacheControl
  <1>5. r \in Response /\ r.file = server[e]
    BY <1>4 DEF Response
  <1>6. /\ call' = [call EXCEPT ![t] = c] /\ pc' = [pc EXCEPT ![t] = "streaming"]
        /\ UNCHANGED <<server, clock, history, json, state, lock>>
    BY <1>3 DEF ResponseSuccess, Goto, serverVars, diskVars
  <1>7. <<e, server[e]>> \in history /\ <<e, server[e].content>> \in call[t].past
    BY <1>1, <1>2 DEF IInv, StampsGrow, TaskInv, PastKnown, InCall
  <1> HIDE DEF e, r
  <1>8. /\ c \in CallType /\ c.cached = call[t].cached /\ c.past = call[t].past
        /\ c.todo = call[t].todo /\ c.got = r
    BY <1>1, <1>5 DEF CallType
  <1> HIDE DEF c
  <1>9. call'[t] = c /\ pc'[t] = "streaming"
    BY <1>6, CallKnown
  <1>10. LockHeld(t)' /\ PastKnown(t)'
    BY <1>1, <1>6, <1>8, <1>9 DEF TaskInv, LockHeld, PastKnown, HasLock, InCall
  <1>11. NewTrue(t)' /\ TodoEnds(t)' /\ ErrorTrue(t)'
    BY <1>2, <1>8, <1>9 DEF NewTrue, TodoEnds, ErrorTrue
  <1>12. CachedTrue(t)'
    BY <1>1, <1>6, <1>8, <1>9 DEF TaskInv, CachedTrue, Honest
  <1>13. GotTrue(t)'
    <2>1. Current(t)' = e /\ call'[t].got = r /\ call'[t].past = call[t].past
      BY <1>2, <1>8, <1>9 DEF Current
    <2> QED
      BY <1>5, <1>6, <1>7, <2>1 DEF GotTrue
  <1>14. TaskInv(t)' /\ "streaming" \in Label
    BY <1>10, <1>11, <1>12, <1>13 DEF TaskInv, Label
  <1> QED
    BY <1>6, <1>8, <1>14, GoStep DEF serverVars, diskVars

\* Without a response the call ends.
LEMMA RequestFailsInv == ASSUME IInv, NEW t \in Task, RequestFails(t) PROVE IInv'
  BY FailStep DEF RequestFails, InCall

\* The download is complete, nothing else changes.
LEMMA StreamCompletesInv == ASSUME IInv, NEW t \in Task, StreamCompletes(t) PROVE IInv'
  <1>1. /\ pc[t] = "streaming" /\ pc' = [pc EXCEPT ![t] = "persisting"]
        /\ UNCHANGED <<server, clock, history, json, state, lock, call>>
    BY DEF StreamCompletes, Goto, serverVars, diskVars
  <1>2. /\ call[t] \in CallType /\ TaskInv(t) /\ pc'[t] = "persisting" /\ call'[t] = call[t]
        /\ call' = [call EXCEPT ![t] = call[t]]
    BY <1>1, CallKnown
  <1>3. LockHeld(t)' /\ PastKnown(t)'
    BY <1>1, <1>2 DEF TaskInv, LockHeld, PastKnown, HasLock, InCall
  <1>4. NewTrue(t)' /\ TodoEnds(t)' /\ ErrorTrue(t)'
    BY <1>1, <1>2 DEF TaskInv, NewTrue, TodoEnds, ErrorTrue
  <1>5. CachedTrue(t)' /\ GotTrue(t)'
    BY <1>1, <1>2 DEF TaskInv, CachedTrue, GotTrue, Honest, Current
  <1>6. TaskInv(t)' /\ "persisting" \in Label
    BY <1>3, <1>4, <1>5 DEF TaskInv, Label
  <1> QED
    BY <1>1, <1>2, <1>6, GoStep DEF serverVars, diskVars

\* The same request is sent again, or the call ends.
LEMMA StreamFailsInv == ASSUME IInv, NEW t \in Task, StreamFails(t) PROVE IInv'
  <1>1. pc[t] = "streaming" /\ call[t] \in CallType /\ TaskInv(t)
    BY CallKnown DEF StreamFails
  <1>2. CASE ~(call[t].tries < MaxRetry)
    <2>1. Fail(t, "FailedToDownload") /\ UNCHANGED <<serverVars, diskVars>>
      BY <1>2 DEF StreamFails
    <2>2. pc[t] \in InCall
      BY <1>1 DEF InCall
    <2> QED
      BY <2>1, <2>2, FailStep
  <1>3. CASE call[t].tries < MaxRetry
    <2> DEFINE c == [call[t] EXCEPT !.tries = call[t].tries + 1, !.got = None]
    <2>1. call[t].tries + 1 \in 0..MaxRetry
      BY <1>1, <1>3, RepodataFetchAssumption DEF CallType
    <2>2. /\ call' = [call EXCEPT ![t] = c] /\ pc' = [pc EXCEPT ![t] = "request"]
          /\ UNCHANGED <<server, clock, history, json, state, lock>>
      BY <1>3 DEF StreamFails, Goto, serverVars, diskVars
    <2>3. /\ c \in CallType /\ c.cached = call[t].cached /\ c.past = call[t].past
          /\ c.todo = call[t].todo
      BY <1>1, <2>1 DEF CallType
    <2> HIDE DEF c
    <2>4. call'[t] = c /\ pc'[t] = "request"
      BY <2>2, CallKnown
    <2>5. LockHeld(t)' /\ PastKnown(t)'
      BY <1>1, <2>2, <2>3, <2>4 DEF TaskInv, LockHeld, PastKnown, HasLock, InCall
    <2>6. NewTrue(t)' /\ TodoEnds(t)' /\ GotTrue(t)' /\ ErrorTrue(t)'
      BY <1>1, <2>3, <2>4 DEF TaskInv, NewTrue, TodoEnds, GotTrue, ErrorTrue
    <2>7. CachedTrue(t)'
      BY <1>1, <2>2, <2>3, <2>4 DEF TaskInv, CachedTrue, Honest
    <2>8. TaskInv(t)' /\ "request" \in Label
      BY <2>5, <2>6, <2>7 DEF TaskInv, Label
    <2> QED
      BY <2>2, <2>3, <2>8, GoStep DEF serverVars, diskVars
  <1> QED
    BY <1>2, <1>3

\* The json and the state that is written next are of one response.
LEMMA PersistInv == ASSUME IInv, NEW t \in Task, Persist(t) PROVE IInv'
  <1> DEFINE g == call[t].got
             s == NewState(t)
             result == IF call[t].cached = None THEN "CacheNotPresent" ELSE "CacheOutdated"
  <1>1. pc[t] = "persisting" /\ call[t] \in CallType /\ TaskInv(t)
    BY CallKnown DEF Persist
  <1>2. Current(t) \in Encoding
    BY <1>1, QueueFacts DEF TaskInv, TodoEnds, Current
  <1>3. /\ g \in Response /\ <<Current(t), g.file>> \in history
        /\ <<Current(t), g.file.content>> \in call[t].past
    BY <1>1 DEF TaskInv, GotTrue
  <1>4. g.file \in File /\ g.cc \in CacheControl
    BY <1>3 DEF Response
  <1>5. call[t].avail.zst \in Availability /\ call[t].avail.bz2 \in Availability
    BY <1>1 DEF CallType
  <1>6. /\ s \in State /\ s.url = Current(t) /\ s.hash = g.file.content /\ s.stamp = g.file.stamp
    BY <1>2, <1>4, <1>5 DEF NewState, State, File
  <1>7. /\ json' = [content |-> g.file.content, age |-> "young"]
        /\ Conclude(t, result, s) /\ Goto(t, "truncating") /\ UNCHANGED <<serverVars, state, lock>>
    BY DEF Persist
  <1>8. result \in Asked /\ pc[t] \in HasLock \cap InCall
    BY <1>1 DEF Asked, HasLock, InCall
  <1> HIDE DEF s, g, result
  <1>9. [content |-> g.file.content, stamp |-> g.file.stamp] = g.file
    BY <1>4 DEF File
  <1>10. Honest(s) /\ <<s.url, s.hash>> \in call[t].past
    BY <1>3, <1>6, <1>9 DEF Honest
  <1>11. /\ s.hash = json'.content
         /\ json' \in [content : Content, age : {"young", "old", "future"}]
    BY <1>4, <1>6, <1>7 DEF File
  <1> QED
    BY <1>6, <1>7, <1>8, <1>10, <1>11, ConcludeStep

\* The state is written under the lock: first torn, then the one of the json.
LEMMA ToPathInv ==
  ASSUME IInv, NEW t \in Task, ToPathCreates(t) \/ ToPathWrites(t)
  PROVE  IInv'
  <1>1. call[t] \in CallType /\ TaskInv(t)
    BY CallKnown
  <1>2. CASE ToPathCreates(t)
    <2>1. /\ pc[t] = "truncating" /\ pc' = [pc EXCEPT ![t] = "writing"] /\ state' = Torn
          /\ UNCHANGED <<server, clock, history, json, lock, call>>
      BY <1>2 DEF ToPathCreates, Goto, serverVars
    <2>2. /\ pc'[t] = "writing" /\ call'[t] = call[t] /\ call' = [call EXCEPT ![t] = call[t]]
      BY <2>1, CallKnown
    <2>3. lock = t /\ LockHeld(t)' /\ PastKnown(t)'
      BY <1>1, <2>1, <2>2 DEF TaskInv, LockHeld, PastKnown, HasLock, InCall
    <2>4. CachedTrue(t)' /\ TodoEnds(t)' /\ GotTrue(t)' /\ ErrorTrue(t)'
      BY <2>2 DEF CachedTrue, TodoEnds, GotTrue, ErrorTrue
    <2>5. NewTrue(t)'
      BY <1>1, <2>1, <2>2 DEF TaskInv, NewTrue, Honest
    <2>6. TaskInv(t)' /\ "writing" \in Label
      BY <2>3, <2>4, <2>5 DEF TaskInv, Label
    <2>7. /\ lock' \in Task \cup {NoTask}
          /\ json' \in [content : Content, age : {"young", "old", "future"}]
      BY <2>1 DEF IInv, FetchType
    <2>8. state' \in State \cup {Missing, Torn} /\ StateIsHonest'
      BY <2>1, AbsenceAssumption DEF StateIsHonest
    <2> QED
      BY <1>1, <2>1, <2>2, <2>3, <2>6, <2>7, <2>8, TaskStep DEF serverVars
  <1>3. CASE ToPathWrites(t)
    <2>1. /\ pc[t] = "writing" /\ pc' = [pc EXCEPT ![t] = "holding"] /\ state' = call[t].new
          /\ UNCHANGED <<server, clock, history, json, lock, call>>
      BY <1>3 DEF ToPathWrites, Goto, serverVars
    <2>2. /\ pc'[t] = "holding" /\ call'[t] = call[t] /\ call' = [call EXCEPT ![t] = call[t]]
      BY <2>1, CallKnown
    <2>3. lock = t /\ LockHeld(t)' /\ PastKnown(t)'
      BY <1>1, <2>1, <2>2 DEF TaskInv, LockHeld, PastKnown, HasLock, InCall
    <2>4. CachedTrue(t)' /\ TodoEnds(t)' /\ GotTrue(t)' /\ ErrorTrue(t)'
      BY <2>2 DEF CachedTrue, TodoEnds, GotTrue, ErrorTrue
    <2>5. NewTrue(t)'
      BY <1>1, <2>1, <2>2 DEF TaskInv, NewTrue, Honest
    <2>6. TaskInv(t)' /\ "holding" \in Label
      BY <2>3, <2>4, <2>5 DEF TaskInv, Label
    <2>7. /\ lock' \in Task \cup {NoTask}
          /\ json' \in [content : Content, age : {"young", "old", "future"}]
      BY <2>1 DEF IInv, FetchType
    <2>8. call[t].new \in State /\ Honest(call[t].new)
      BY <1>1, <2>1 DEF TaskInv, NewTrue
    <2>9. state' \in State \cup {Missing, Torn} /\ StateIsHonest'
      BY <2>1, <2>8 DEF StateIsHonest, Honest
    <2> QED
      BY <1>1, <2>1, <2>2, <2>3, <2>6, <2>7, <2>9, TaskStep DEF serverVars
  <1> QED
    BY <1>2, <1>3

\* A failed rename or write ends the call.
LEMMA DiskFailsInv == ASSUME IInv, NEW t \in Task, DiskFails(t) PROVE IInv'
  BY FailStep DEF DiskFails, InCall

-----------------------------------------------------------------------------
(* The end of a call, clear_cache and crashes *)

\* The caller has the answer or the error, or its process is gone.
LEMMA EndInv ==
  ASSUME IInv, NEW t \in Task, Parsed(t) \/ ErrorReported(t) \/ Crash(t)
  PROVE  IInv'
  <1>1. Forget(t) /\ UNCHANGED serverVars /\ UNCHANGED <<json, state>>
    BY DEF Parsed, ErrorReported, Crash, diskVars
  <1>2. /\ json' \in [content : Content, age : {"young", "old", "future"}]
        /\ state' \in State \cup {Missing, Torn} /\ StateIsHonest'
    BY <1>1 DEF IInv, FetchType, StateIsHonest, serverVars
  <1> QED
    BY <1>1, <1>2, ForgetStep

\* clear_cache takes the lock.
LEMMA ClearInv == ASSUME IInv, NEW t \in Task, Clear(t) PROVE IInv'
  <1>1. /\ lock = NoTask /\ lock' = t /\ pc' = [pc EXCEPT ![t] = "clearing_json"]
        /\ UNCHANGED <<server, clock, history, json, state, call>>
    BY DEF Clear, Goto, serverVars, diskVars
  <1>2. /\ pc'[t] = "clearing_json" /\ call' = [call EXCEPT ![t] = call[t]] /\ call[t] \in CallType
    BY <1>1, CallKnown
  <1>3. TaskInv(t)'
    BY <1>1, <1>2 DEF TaskInv, LockHeld, PastKnown, CachedTrue, TodoEnds, GotTrue, NewTrue, ErrorTrue,
                      InCall
  <1>4. /\ lock' \in Task \cup {NoTask}
        /\ json' \in [content : Content, age : {"young", "old", "future"}]
        /\ state' \in State \cup {Missing, Torn} /\ StateIsHonest'
    BY <1>1 DEF IInv, FetchType, StateIsHonest
  <1>5. "clearing_json" \in Label
    BY DEF Label
  <1> QED
    BY <1>1, <1>2, <1>3, <1>4, <1>5, TaskStep DEF serverVars

\* The json goes first, so that a state without json may be left, never the
\* other way round.
LEMMA ClearJsonInv == ASSUME IInv, NEW t \in Task, ClearJson(t) PROVE IInv'
  <1>1. /\ pc[t] = "clearing_json" /\ pc' = [pc EXCEPT ![t] = "clearing_info"]
        /\ json' = [content |-> 0, age |-> "young"]
        /\ UNCHANGED <<server, clock, history, state, lock, call>>
    BY DEF ClearJson, Goto, serverVars
  <1>2. /\ pc'[t] = "clearing_info" /\ call' = [call EXCEPT ![t] = call[t]] /\ call[t] \in CallType
        /\ TaskInv(t)
    BY <1>1, CallKnown
  <1>3. lock = t
    BY <1>1, <1>2 DEF TaskInv, LockHeld, HasLock
  <1>4. TaskInv(t)'
    BY <1>1, <1>2, <1>3
       DEF TaskInv, LockHeld, PastKnown, CachedTrue, TodoEnds, GotTrue, NewTrue, ErrorTrue, InCall
  <1>5. json' \in [content : Content, age : {"young", "old", "future"}]
    BY <1>1, RepodataFetchAssumption DEF Content
  <1>6. /\ lock' \in Task \cup {NoTask} /\ state' \in State \cup {Missing, Torn} /\ StateIsHonest'
    BY <1>1 DEF IInv, FetchType, StateIsHonest
  <1>7. "clearing_info" \in Label
    BY DEF Label
  <1> QED
    BY <1>1, <1>2, <1>3, <1>4, <1>5, <1>6, <1>7, TaskStep DEF serverVars

\* Then the state.
LEMMA ClearInfoInv == ASSUME IInv, NEW t \in Task, ClearInfo(t) PROVE IInv'
  <1>1. /\ pc[t] = "clearing_info" /\ state' = Missing /\ Forget(t)
        /\ UNCHANGED <<serverVars, json>>
    BY DEF ClearInfo
  <1>2. lock = t
    BY <1>1, CallKnown DEF TaskInv, LockHeld, HasLock
  <1>3. /\ json' \in [content : Content, age : {"young", "old", "future"}]
        /\ state' \in State \cup {Missing, Torn} /\ StateIsHonest'
    BY <1>1, AbsenceAssumption DEF IInv, FetchType, StateIsHonest
  <1> QED
    BY <1>1, <1>2, <1>3, ForgetStep

-----------------------------------------------------------------------------
(* The server and the clock *)

\* A new file has a stamp of its own, larger than every earlier one.
LEMMA ServeStamps ==
  ASSUME IInv, NEW e \in Encoding, NEW file \in File, Serve(e, file),
         file = NotThere \/ file.stamp = clock + 1
  PROVE  FetchType' /\ StampsGrow'
  <1>1. /\ clock \in Nat /\ clock' = clock + 1 /\ clock' \in 0..MaxStamp
    BY RepodataFetchAssumption DEF IInv, FetchType, Serve
  <1>2. /\ server' = [server EXCEPT ![e] = file] /\ history' = history \cup {<<e, file>>}
        /\ call' = [t \in Task |-> IF pc[t] = "idle" THEN call[t]
                                   ELSE [call[t] EXCEPT !.past = @ \cup {<<e, file.content>>}]]
        /\ UNCHANGED <<json, state, lock, pc>>
    BY DEF Serve, diskVars
  <1>3. server \in [Encoding -> File] /\ history \subseteq Encoding \X File
    BY DEF IInv, FetchType
  <1>4. /\ server'[e] = file /\ \A x \in Encoding \ {e} : server'[x] = server[x]
        /\ server' \in [Encoding -> File]
    BY <1>2, <1>3
  <1>5. call' \in [Task -> CallType]
    <2> SUFFICES ASSUME NEW t \in Task
                 PROVE  [call[t] EXCEPT !.past = @ \cup {<<e, file.content>>}] \in CallType
                        /\ call[t] \in CallType
      BY <1>2
    <2>1. call[t] \in CallType
      BY DEF IInv, FetchType
    <2>2. file.content \in Content
      BY DEF File
    <2> QED
      BY <2>1, <2>2 DEF CallType
  <1>6. FetchType'
    BY <1>1, <1>2, <1>3, <1>4, <1>5 DEF IInv, FetchType
  <1>7. NotThere.stamp = 0 /\ NotThere.content = 0
    BY DEF NotThere
  <1>8. \A f \in File : f.stamp \in Nat
    BY RepodataFetchAssumption DEF File
  <1>9. \A x \in Encoding, f \in File :
          <<x, f>> \in history' <=> <<x, f>> \in history \/ (x = e /\ f = file)
    BY <1>2
  <1>10. \A x \in Encoding : server'[x] = NotThere \/ <<x, server'[x]>> \in history'
    BY <1>2, <1>4 DEF IInv, StampsGrow
  <1>11. ASSUME NEW x \in Encoding, NEW f \in File, <<x, f>> \in history'
         PROVE  /\ f.stamp <= clock'
                /\ f.stamp = 0 => f = NotThere
                /\ server'[x] # NotThere => f.stamp <= server'[x].stamp
    <2>1. CASE <<x, f>> \in history
      <3>1. /\ f.stamp <= clock
            /\ f.stamp = 0 => f = NotThere
            /\ server[x] # NotThere => f.stamp <= server[x].stamp
        BY <2>1 DEF IInv, StampsGrow
      <3>2. f.stamp \in Nat /\ f.stamp <= clock'
        BY <1>1, <1>8, <3>1
      <3>3. CASE x = e
        BY <1>1, <1>4, <3>1, <3>2, <3>3
      <3>4. CASE x # e
        BY <1>4, <3>1, <3>2, <3>4
      <3> QED
        BY <3>3, <3>4
    <2>2. CASE x = e /\ f = file
      BY <1>1, <1>4, <1>7, <1>8, <2>2
    <2> QED
      BY <1>9, <1>11, <2>1, <2>2
  <1>12. ASSUME NEW x \in Encoding, NEW f \in File, NEW g \in File,
                <<x, f>> \in history', <<x, g>> \in history', f.stamp = g.stamp
         PROVE  f = g
    <2>1. CASE <<x, f>> \in history /\ <<x, g>> \in history
      BY <1>12, <2>1 DEF IInv, StampsGrow
    <2>2. \A h \in File : <<x, h>> \in history => h.stamp <= clock /\ (h.stamp = 0 => h = NotThere)
      BY DEF IInv, StampsGrow
    <2>3. CASE f = file /\ <<x, g>> \in history
      BY <1>1, <1>7, <1>8, <1>12, <2>2, <2>3
    <2>4. CASE g = file /\ <<x, f>> \in history
      BY <1>1, <1>7, <1>8, <1>12, <2>2, <2>4
    <2> QED
      BY <1>9, <1>12, <2>1, <2>3, <2>4
  <1>13. StampsGrow'
    BY <1>10, <1>11, <1>12 DEF StampsGrow
  <1> QED
    BY <1>6, <1>13

\* A change on the server is in the past of every call, and takes nothing from
\* what a call knows.
LEMMA ServeInv ==
  ASSUME IInv, NEW e \in Encoding, NEW file \in File, Serve(e, file),
         file = NotThere \/ file.stamp = clock + 1
  PROVE  IInv'
  <1>1. FetchType' /\ StampsGrow'
    BY ServeStamps
  <1>2. /\ server' = [server EXCEPT ![e] = file] /\ history \subseteq history'
        /\ call' = [t \in Task |-> IF pc[t] = "idle" THEN call[t]
                                   ELSE [call[t] EXCEPT !.past = @ \cup {<<e, file.content>>}]]
        /\ UNCHANGED <<json, state, lock, pc>>
    BY DEF Serve, diskVars
  <1>3. StateIsHonest'
    BY <1>2 DEF IInv, StateIsHonest
  <1>4. ASSUME NEW t \in Task PROVE TaskInv(t)'
    <2>1. TaskInv(t) /\ call[t] \in CallType /\ pc'[t] = pc[t]
      BY <1>2, CallKnown
    <2>2. CASE pc[t] = "idle"
      BY <2>1, <2>2
         DEF TaskInv, LockHeld, PastKnown, CachedTrue, TodoEnds, GotTrue, NewTrue, ErrorTrue, HasLock,
             InCall
    <2>3. CASE pc[t] # "idle"
      <3> DEFINE c == [call[t] EXCEPT !.past = @ \cup {<<e, file.content>>}]
      <3>1. call'[t] = c
        BY <1>2, <2>3
      <3>2. /\ c.cached = call[t].cached /\ c.todo = call[t].todo /\ c.got = call[t].got
            /\ c.new = call[t].new /\ c.ret = call[t].ret
            /\ c.past = call[t].past \cup {<<e, file.content>>}
        BY <2>1 DEF CallType
      <3> HIDE DEF c
      <3>3. LockHeld(t)' /\ TodoEnds(t)'
        BY <1>2, <2>1, <3>1, <3>2 DEF TaskInv, LockHeld, TodoEnds
      <3>4. PastKnown(t)'
        <4>1. \A x \in Encoding : server'[x] = IF x = e THEN file ELSE server[x]
          BY <1>2 DEF IInv, FetchType
        <4> QED
          BY <2>1, <3>1, <3>2, <4>1 DEF TaskInv, PastKnown
      <3>5. CachedTrue(t)'
        BY <1>2, <2>1, <3>1, <3>2 DEF TaskInv, CachedTrue, Honest
      <3>6. GotTrue(t)'
        BY <1>2, <2>1, <3>1, <3>2 DEF TaskInv, GotTrue, Current
      <3>7. NewTrue(t)' /\ ErrorTrue(t)'
        BY <1>2, <2>1, <3>1, <3>2 DEF TaskInv, NewTrue, ErrorTrue, Honest
      <3> QED
        BY <3>3, <3>4, <3>5, <3>6, <3>7 DEF TaskInv
    <2> QED
      BY <2>2, <2>3
  <1> QED
    BY <1>1, <1>3, <1>4 DEF IInv

\* The server publishes or removes a file.
LEMMA ServerInv == ASSUME IInv, PublishPlain \/ PublishVariant \/ RemoveFile PROVE IInv'
  <1>1. NotThere \in File
    BY RepodataFetchAssumption DEF NotThere, File, Content
  <1>2. clock < MaxStamp => clock + 1 \in Content /\ clock + 1 \in 0..MaxStamp
    BY RepodataFetchAssumption DEF IInv, FetchType, Content
  <1>3. CASE PublishPlain
    <2> DEFINE file == [content |-> clock + 1, stamp |-> clock + 1]
    <2>1. Serve("plain", file) /\ clock < MaxStamp
      BY <1>3 DEF PublishPlain, Serve
    <2>2. file \in File /\ file.stamp = clock + 1 /\ "plain" \in Encoding
      BY <1>2, <2>1 DEF File, Encoding
    <2> HIDE DEF file
    <2> QED
      BY <2>1, <2>2, ServeInv
  <1>4. CASE PublishVariant
    <2>1. PICK e \in Variants : Serve(e, [content |-> server["plain"].content, stamp |-> clock + 1])
      BY <1>4 DEF PublishVariant
    <2> DEFINE file == [content |-> server["plain"].content, stamp |-> clock + 1]
    <2>2. clock < MaxStamp
      BY <2>1 DEF Serve
    <2>3. server["plain"].content \in Content
      BY DEF IInv, FetchType, File, Encoding
    <2>4. file \in File /\ file.stamp = clock + 1 /\ e \in Encoding
      BY <1>2, <2>2, <2>3, RepodataFetchAssumption DEF File, Encoding
    <2>5. Serve(e, file)
      BY <2>1
    <2> HIDE DEF file
    <2> QED
      BY <2>4, <2>5, ServeInv
  <1>5. CASE RemoveFile
    <2>1. PICK e \in Encoding : Serve(e, NotThere)
      BY <1>5 DEF RemoveFile
    <2> QED
      BY <1>1, <2>1, ServeInv
  <1> QED
    BY <1>3, <1>4, <1>5

\* Time passes while nobody has the lock.
LEMMA TimeInv == ASSUME IInv, ClockMoves \/ TwoWeeksPass PROVE IInv'
  <1>1. lock = NoTask /\ UNCHANGED <<server, clock, history, lock, pc, call>>
    BY DEF ClockMoves, TwoWeeksPass, serverVars
  <1>2. ASSUME NEW u \in Task PROVE TaskInv(u)'
    <2>1. pc[u] \notin HasLock
      BY <1>1, CallKnown, RepodataFetchAssumption DEF TaskInv, LockHeld
    <2> QED
      BY <1>1, <2>1, Bystander DEF serverVars
  <1>3. StampsGrow'
    BY <1>1 DEF IInv, StampsGrow
  <1>4. CASE ClockMoves
    <2>1. state' = state /\ \E age \in {"young", "old", "future"} : json' = [json EXCEPT !.age = age]
      BY <1>4 DEF ClockMoves
    <2>2. json' \in [content : Content, age : {"young", "old", "future"}]
      BY <2>1 DEF IInv, FetchType
    <2>3. FetchType' /\ StateIsHonest'
      BY <1>1, <2>1, <2>2 DEF IInv, FetchType, StateIsHonest
    <2> QED
      BY <1>2, <1>3, <2>3 DEF IInv
  <1>5. CASE TwoWeeksPass
    <2>1. /\ json' = json /\ state \in State
          /\ state' = [state EXCEPT !.zst = Expired(state.zst), !.bz2 = Expired(state.bz2)]
      BY <1>5 DEF TwoWeeksPass
    <2>2. \A a \in Availability : Expired(a) \in Availability
      BY DEF Expired, Availability
    <2>3. state.zst \in Availability /\ state.bz2 \in Availability
      BY <2>1 DEF State
    <2>4. Expired(state.zst) \in Availability /\ Expired(state.bz2) \in Availability
      BY <2>2, <2>3
    <2>5. /\ state' \in State /\ state'.url = state.url /\ state'.hash = state.hash
          /\ state'.stamp = state.stamp
      BY <2>1, <2>4 DEF State
    <2>6. FetchType' /\ StateIsHonest'
      BY <1>1, <2>1, <2>5 DEF IInv, FetchType, StateIsHonest
    <2> QED
      BY <1>2, <1>3, <2>6 DEF IInv
  <1> QED
    BY <1>4, <1>5

-----------------------------------------------------------------------------
(* The theorems *)

\* Every step keeps the invariant.
LEMMA StepInv == IInv /\ [Next]_vars => IInv'
  <1> SUFFICES ASSUME IInv, [Next]_vars PROVE IInv'
    OBVIOUS
  <1>1. ASSUME NEW t \in Task, Step(t) \/ Call(t) \/ Clear(t) \/ Crash(t) PROVE IInv'
    <2>1. CASE Lock(t) \/ Call(t)
      BY <2>1, LockInv, CallInv
    <2>2. CASE CacheHit(t) \/ NoCacheAvailable(t) \/ KeepState(t)
      BY <2>2, CacheHitInv, NoCacheAvailableInv, KeepStateInv
    <2>3. CASE CheckVariantAvailability(t)
      BY <2>3, CheckVariantAvailabilityInv
    <2>4. CASE ResponseNotFound(t) \/ ResponseNotModified(t) \/ ResponseSuccess(t) \/ RequestFails(t)
      BY <2>4, ResponseNotFoundInv, ResponseNotModifiedInv, ResponseSuccessInv, RequestFailsInv
    <2>5. CASE StreamCompletes(t) \/ StreamFails(t) \/ Persist(t)
      BY <2>5, StreamCompletesInv, StreamFailsInv, PersistInv
    <2>6. CASE ToPathCreates(t) \/ ToPathWrites(t) \/ DiskFails(t)
      BY <2>6, ToPathInv, DiskFailsInv
    <2>7. CASE Parsed(t) \/ ErrorReported(t) \/ Crash(t)
      BY <2>7, EndInv
    <2>8. CASE Clear(t) \/ ClearJson(t) \/ ClearInfo(t)
      BY <2>8, ClearInv, ClearJsonInv, ClearInfoInv
    <2> QED
      BY <1>1, <2>1, <2>2, <2>3, <2>4, <2>5, <2>6, <2>7, <2>8 DEF Step
  <1>2. CASE PublishPlain \/ PublishVariant \/ RemoveFile
    BY <1>2, ServerInv
  <1>3. CASE ClockMoves \/ TwoWeeksPass
    BY <1>3, TimeInv
  <1>4. CASE UNCHANGED vars
    <2>1. UNCHANGED <<server, clock, history, json, state, lock, pc, call>>
      BY <1>4 DEF vars, serverVars, diskVars
    <2>2. FetchType' /\ StampsGrow' /\ StateIsHonest'
      BY <2>1 DEF IInv, FetchType, StampsGrow, StateIsHonest
    <2>3. \A u \in Task : TaskInv(u)'
      BY <2>1, Bystander DEF serverVars
    <2> QED
      BY <2>2, <2>3 DEF IInv
  <1> QED
    BY <1>1, <1>2, <1>3, <1>4 DEF Next

\* The inductive invariant holds in every run.
THEOREM Invariance == Spec => []IInv
  BY InitInv, StepInv, PTL DEF Spec

\* Without dropped futures no thread is late, and crashes are counted.
Faults == late = {} /\ drops = 0 /\ crashes \in 0..MaxCrash

\* No step of Next makes a late job.
LEMMA FaultsInv == Spec => []Faults
  <1>1. Init => Faults
    BY RepodataFetchAssumption DEF Init, Faults
  <1>2. Faults /\ [Next]_vars => Faults'
    <2> SUFFICES ASSUME Faults, [Next]_vars PROVE Faults'
      OBVIOUS
    <2>1. CASE UNCHANGED faultVars
      BY <2>1 DEF Faults, faultVars
    <2>2. ASSUME NEW t \in Task, Crash(t) PROVE Faults'
      BY <2>2, RepodataFetchAssumption DEF Faults, Crash
    <2>3. ASSUME NEW t \in Task, Step(t) \/ Call(t) \/ Clear(t) PROVE UNCHANGED faultVars
      BY <2>3 DEF Step, Call, Clear, Lock, CacheHit, NoCacheAvailable, KeepState,
                  CheckVariantAvailability, ResponseNotFound, ResponseNotModified, ResponseSuccess,
                  RequestFails, StreamCompletes, StreamFails, Persist, ToPathCreates, ToPathWrites,
                  DiskFails, Parsed, ErrorReported, ClearJson, ClearInfo
    <2>4. PublishPlain \/ PublishVariant \/ RemoveFile => UNCHANGED faultVars
      BY DEF PublishPlain, PublishVariant, RemoveFile, Serve
    <2>5. ClockMoves \/ TwoWeeksPass \/ UNCHANGED vars => UNCHANGED faultVars
      BY DEF ClockMoves, TwoWeeksPass, vars
    <2> QED
      BY <2>1, <2>2, <2>3, <2>4, <2>5 DEF Next
  <1> QED
    BY <1>1, <1>2, PTL DEF Spec

\* Every variable keeps its type, whatever the number of calls and versions.
THEOREM FetchTypeCorrect == Spec => []TypeOK
  <1>1. IInv /\ Faults => TypeOK
    <2> SUFFICES ASSUME IInv, Faults PROVE TypeOK
      OBVIOUS
    <2>1. FetchType
      BY DEF IInv
    <2>2. ASSUME NEW t \in Task
          PROVE  /\ call[t].cached \in State \cup {None} /\ call[t].new \in State \cup {None}
                 /\ call[t].avail \in [zst : Availability, bz2 : Availability]
                 /\ call[t].todo \in Seq(Encoding) /\ call[t].tries \in 0..MaxRetry
                 /\ call[t].got \in [file : File, cc : CacheControl] \cup {None}
                 /\ call[t].past \subseteq Encoding \X Content
      BY <2>1 DEF FetchType, CallType, Response
    <2>3. late = {} /\ crashes \in 0..MaxCrash /\ drops \in 0..MaxDrop
      BY RepodataFetchAssumption DEF Faults
    <2> QED
      BY <2>1, <2>2, <2>3 DEF FetchType, TypeOK, Label
  <1> QED
    BY <1>1, Invariance, FaultsInv, PTL

\* The state on disk pairs validators and hash of one file of its URL, after
\* crashes, failed writes and clear_cache too.
THEOREM StateStaysHonest == Spec => []StateIsHonest
  <1>1. IInv => StateIsHonest
    BY DEF IInv
  <1> QED
    BY <1>1, Invariance, PTL

\* A caller that holds the lock has the state and the json in sync.
THEOREM HolderIsInSync == Spec => []InSync
  <1>1. IInv => InSync
    BY DEF IInv, TaskInv, NewTrue, InSync
  <1> QED
    BY <1>1, Invariance, PTL

\* The data of a call that asked the server was there during the call.
THEOREM AnswerIsCurrent == Spec => []AnswerWasServed
  <1>1. IInv => AnswerWasServed
    BY DEF IInv, TaskInv, NewTrue, Asked, AnswerWasServed
  <1> QED
    BY <1>1, Invariance, PTL

\* A subdirectory reported missing had no repodata.json during the call.
THEOREM NotFoundIsCurrent == Spec => []NotFoundIsTrue
  <1>1. IInv => NotFoundIsTrue
    BY DEF IInv, TaskInv, ErrorTrue, NotFoundIsTrue
  <1> QED
    BY <1>1, Invariance, PTL

=============================================================================
