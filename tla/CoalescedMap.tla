---------------------------- MODULE CoalescedMap ----------------------------
(***************************************************************************)
(* The deduplicating map of the crate coalesced_map, on which the gateway  *)
(* keeps its subdirectories, the records of every package name and the     *)
(* run exports of a subdirectory.                                          *)
(*                                                                         *)
(* A caller of get_or_try_init that finds no entry inserts                 *)
(* Pending(Weak<Sender>) and runs `init`; callers that find a Pending      *)
(* entry whose sender is alive subscribe to it; a Pending entry whose      *)
(* sender was dropped is taken over.  Every initialization has a broadcast *)
(* channel of its own, numbered 1, 2, ... in order of creation, and the    *)
(* value it computes is identified with its channel: two initializations   *)
(* never compute "the same" value.                                         *)
(*                                                                         *)
(* One action is one critical section of a DashMap shard or one operation  *)
(* on a channel.  A future may be dropped (Cancel) only where it awaits.   *)
(* `retain` and `clear` lock one shard after the other, so they are        *)
(* modelled key by key.                                                    *)
(***************************************************************************)
EXTENDS Integers

CONSTANTS Task,     \* concurrent callers
          Key,      \* keys of the map
          MaxChan   \* bound: number of initializations started

ASSUME MaxChanAssumption == MaxChan \in Nat

VARIABLES
  map,       \* the DashMap: per key Vacant, Pending(ch) or Fetched(ch)
  chan,      \* per channel: unused, open (sender alive), sent, closed
  created,   \* number of channels created so far
  pc,        \* where a caller is inside get_or_try_init
  key,       \* the key a caller asked for
  ch,        \* the channel a caller sends on or listens to
  ret,       \* what its last call returned
  \* History, read by properties only:
  displaced, \* initializations whose Pending entry was removed or overwritten
  floor,     \* per key: value of `created` when its entry was last retained away
  asked      \* per caller: floor of its key when the call began

vars == <<map, chan, created, pc, key, ch, ret, displaced, floor, asked>>

Chan == 1..MaxChan

\* PendingOrFetched<V>, and the absence of an entry.
Vacant == [tag |-> "vacant", ch |-> 0]
Pending(c) == [tag |-> "pending", ch |-> c]
Fetched(c) == [tag |-> "fetched", ch |-> c]
Entry == {Vacant} \cup {Pending(c) : c \in Chan} \cup {Fetched(c) : c \in Chan}

\* Result<V, CoalescedGetError>; "none" while no call has returned.
NoResult == [tag |-> "none", ch |-> 0]
Ok(c) == [tag |-> "ok", ch |-> c]
InitError == [tag |-> "init_error", ch |-> 0]
CoalescedRequestFailed == [tag |-> "coalesced_request_failed", ch |-> 0]
Result == {NoResult, InitError, CoalescedRequestFailed}
            \cup {Ok(c) : c \in Chan}

\* Between two calls.
Free(t) == pc[t] = "idle"

Init ==
  /\ map = [k \in Key |-> Vacant]
  /\ chan = [c \in Chan |-> "unused"]
  /\ created = 0
  /\ pc = [t \in Task |-> "idle"]
  /\ key \in [Task -> Key]
  /\ ch = [t \in Task |-> 0]
  /\ ret = [t \in Task |-> NoResult]
  /\ displaced = {}
  /\ floor = [k \in Key |-> 0]
  /\ asked = [t \in Task |-> 0]

-----------------------------------------------------------------------------
(* get_or_try_init *)

\* Defect: every Pending entry is taken over, alive or not.
SenderAliveIgnored(c) == FALSE

\* Weak::upgrade on the sender of a Pending entry.
SenderAlive(c) == chan[c] = "open"

\* The caller creates a channel, marks the entry Pending and will run `init`.
BecomeInitializer(t, k) ==
  /\ created < MaxChan
  /\ created' = created + 1
  /\ chan' = [chan EXCEPT ![created + 1] = "open"]
  /\ map' = [map EXCEPT ![k] = Pending(created + 1)]
  /\ pc' = [pc EXCEPT ![t] = "init"]
  /\ ch' = [ch EXCEPT ![t] = created + 1]
  /\ ret' = [ret EXCEPT ![t] = NoResult]
  /\ UNCHANGED displaced

\* The caller subscribes under the entry's lock, then awaits the broadcast.
Subscribe(t, k) ==
  /\ pc' = [pc EXCEPT ![t] = "wait"]
  /\ ch' = [ch EXCEPT ![t] = map[k].ch]
  /\ ret' = [ret EXCEPT ![t] = NoResult]
  /\ UNCHANGED <<map, chan, created, displaced>>

ReturnFetched(t, k) ==
  /\ ret' = [ret EXCEPT ![t] = Ok(map[k].ch)]
  /\ UNCHANGED <<map, chan, created, pc, ch, displaced>>

\* Defect: a Fetched entry is initialized again.
LookUpRefetches(t, k) ==
  \/ map[k].tag = "pending" /\ SenderAlive(map[k].ch) /\ Subscribe(t, k)
  \/ map[k].tag # "pending" /\ BecomeInitializer(t, k)

\* The match on the entry: what a call does depends on what it finds.
LookUp(t, k) ==
  \/ map[k].tag = "fetched" /\ ReturnFetched(t, k)
  \/ map[k].tag = "pending" /\ SenderAlive(map[k].ch) /\ Subscribe(t, k)
  \/ map[k].tag = "pending" /\ ~SenderAlive(map[k].ch) /\ BecomeInitializer(t, k)
  \/ map[k].tag = "vacant" /\ BecomeInitializer(t, k)

GetOrTryInit(t, k) ==
  /\ Free(t)
  /\ LookUp(t, k)
  /\ key' = [key EXCEPT ![t] = k]
  /\ asked' = [asked EXCEPT ![t] = floor[k]]
  /\ UNCHANGED floor

\* `init` returned Ok: insert Fetched, whatever the entry holds by now.
InsertFetched(t) ==
  /\ pc[t] = "init"
  /\ map' = [map EXCEPT ![key[t]] = Fetched(ch[t])]
  /\ displaced' = IF map[key[t]].tag = "pending" /\ map[key[t]].ch # ch[t]
                  THEN displaced \cup {map[key[t]].ch}
                  ELSE displaced
  /\ pc' = [pc EXCEPT ![t] = "publish"]
  /\ UNCHANGED <<chan, created, key, ch, ret, floor, asked>>

\* The call is over, its sender or receiver gone.
Leave(t) ==
  /\ pc' = [pc EXCEPT ![t] = "idle"]
  /\ ch' = [ch EXCEPT ![t] = 0]

\* sender.send(value); the sender is dropped when the call returns.
Publish(t) ==
  /\ pc[t] = "publish"
  /\ chan' = [chan EXCEPT ![ch[t]] = "sent"]
  /\ ret' = [ret EXCEPT ![t] = Ok(ch[t])]
  /\ Leave(t)
  /\ UNCHANGED <<map, created, key, displaced, floor, asked>>

\* Defect: the map holds a strong Arc, so the channel of a dead initializer
\* never closes.
DropSenderStrongArc(t) == UNCHANGED chan

\* The initializer's sender goes away with nothing sent; the entry, which
\* holds only a Weak, stays Pending.
DropSender(t) == chan' = [chan EXCEPT ![ch[t]] = "closed"]

\* `init` returned Err.
InitFails(t) ==
  /\ pc[t] = "init"
  /\ DropSender(t)
  /\ ret' = [ret EXCEPT ![t] = InitError]
  /\ Leave(t)
  /\ UNCHANGED <<map, created, key, displaced, floor, asked>>

\* rx.recv().await: the value that was sent, or an error once the sender is gone.
Receive(t) ==
  /\ pc[t] = "wait"
  /\ chan[ch[t]] \in {"sent", "closed"}
  /\ ret' = [ret EXCEPT ![t] = IF chan[ch[t]] = "sent" THEN Ok(ch[t])
                                ELSE CoalescedRequestFailed]
  /\ Leave(t)
  /\ UNCHANGED <<map, chan, created, key, displaced, floor, asked>>

\* The future of a call is dropped while it awaits `init` ...
CancelInit(t) ==
  /\ pc[t] = "init"
  /\ DropSender(t)
  /\ Leave(t)
  /\ UNCHANGED <<map, created, key, ret, displaced, floor, asked>>

\* ... or while it awaits the broadcast.
CancelWait(t) ==
  /\ pc[t] = "wait"
  /\ Leave(t)
  /\ UNCHANGED <<map, chan, created, key, ret, displaced, floor, asked>>

-----------------------------------------------------------------------------
(* get, retain, clear *)

\* get: only a Fetched entry is reported.
Get(t, k) ==
  /\ Free(t)
  /\ asked' = [asked EXCEPT ![t] = floor[k]]
  /\ ret' = [ret EXCEPT ![t] = IF map[k].tag = "fetched" THEN Ok(map[k].ch)
                                ELSE NoResult]
  /\ UNCHANGED <<map, chan, created, pc, key, ch, displaced, floor>>

\* Defect: retain leaves Fetched entries in place.
RetainKeepsFetched(k) ==
  /\ map[k].tag # "vacant"
  /\ map' = [map EXCEPT ![k] = IF map[k].tag = "fetched" THEN map[k] ELSE Vacant]
  /\ displaced' = IF map[k].tag = "pending" THEN displaced \cup {map[k].ch}
                  ELSE displaced
  /\ floor' = [floor EXCEPT ![k] = created]
  /\ UNCHANGED <<chan, created, pc, key, ch, ret, asked>>

\* retain, for a key its predicate rejects.  The gateway's predicate
\* (clear_repodata_cache) looks at the key only, so Pending entries go too.
RetainRejects(k) ==
  /\ map[k].tag # "vacant"
  /\ displaced' = IF map[k].tag = "pending" THEN displaced \cup {map[k].ch}
                  ELSE displaced
  /\ map' = [map EXCEPT ![k] = Vacant]
  /\ floor' = [floor EXCEPT ![k] = created]
  /\ UNCHANGED <<chan, created, pc, key, ch, ret, asked>>

\* clear, for one key: Pending entries are preserved.
Clear(k) ==
  /\ map[k].tag = "fetched"
  /\ map' = [map EXCEPT ![k] = Vacant]
  /\ UNCHANGED <<chan, created, pc, key, ch, ret, displaced, floor, asked>>

Next ==
  \/ \E t \in Task, k \in Key : GetOrTryInit(t, k) \/ Get(t, k)
  \/ \E t \in Task : \/ InsertFetched(t) \/ Publish(t) \/ InitFails(t)
                     \/ Receive(t) \/ CancelInit(t) \/ CancelWait(t)
  \/ \E k \in Key : RetainRejects(k) \/ Clear(k)

Spec == Init /\ [][Next]_vars

(* The executor polls a woken task again, and `init` (a request with       *)
(* timeouts) ends one way or the other.  Nothing forces anybody to call,   *)
(* to cancel or to clear.                                                  *)
Fairness ==
  \A t \in Task : /\ WF_vars(InsertFetched(t) \/ InitFails(t))
                  /\ WF_vars(Publish(t))
                  /\ WF_vars(Receive(t))

FairSpec == Spec /\ Fairness

-----------------------------------------------------------------------------
(* Properties *)

Initializing(t) == pc[t] \in {"init", "publish"}

\* Every variable keeps its type.
TypeOK ==
  /\ map \in [Key -> Entry]
  /\ chan \in [Chan -> {"unused", "open", "sent", "closed"}]
  /\ created \in 0..MaxChan
  /\ pc \in [Task -> {"idle", "init", "publish", "wait"}]
  /\ key \in [Task -> Key]
  /\ ch \in [Task -> 0..MaxChan]
  /\ ret \in [Task -> Result]
  /\ displaced \subseteq Chan
  /\ floor \in [Key -> 0..MaxChan]
  /\ asked \in [Task -> 0..MaxChan]

\* "Only the first executes init": two calls run `init` for one key at the
\* same time only if the Pending entry of one of them was taken away from it
\* (by retain, or by the insert of such a displaced call).
SingleInitializer ==
  \A t, u \in Task :
    (/\ pc[t] = "init" /\ pc[u] = "init" /\ key[t] = key[u]
     /\ ch[t] \notin displaced /\ ch[u] \notin displaced) => t = u

\* A caller that finds a Pending entry has not missed the broadcast: the
\* channel in the map never has its value sent already, because the entry
\* becomes Fetched before the send.
PendingNotSent ==
  \A k \in Key : map[k].tag = "pending" => chan[map[k].ch] \in {"open", "closed"}

\* Whoever waits listens to a channel that some call still drives, or whose
\* outcome is already there to be received.
WaiterHasSource ==
  \A t \in Task : pc[t] = "wait" =>
    \/ chan[ch[t]] \in {"sent", "closed"}
    \/ \E u \in Task : Initializing(u) /\ ch[u] = ch[t] /\ key[u] = key[t]

\* A value in the map, or returned to a caller, comes from an initialization
\* that succeeded for that very key, never from a failed or cancelled one.
OnlySuccessIsServed ==
  /\ \A k \in Key : map[k].tag = "fetched" => chan[map[k].ch] \in {"open", "sent"}
  /\ \A t \in Task : ret[t].tag = "ok" => chan[ret[t].ch] \in {"open", "sent"}

\* A Fetched value is stable: it goes only by retain or clear, and no other
\* initialization overwrites it, except one that was displaced earlier.
FetchedIsStable ==
  [][\A k \in Key : map[k].tag = "fetched" =>
        \/ map'[k] \in {map[k], Vacant}
        \/ map'[k].tag = "fetched" /\ map'[k].ch \in displaced]_vars

\* Every waiter is eventually answered (or its own future dropped).
WaitersAnswered == \A t \in Task : pc[t] = "wait" ~> pc[t] # "wait"

\* Gateway::clear_repodata_cache: "Any subsequent query will re-fetch any
\* required data from the source".  A call that began after the entry of its
\* key was retained away returns no value whose `init` began before that.  This
\* does not hold (an initialization in flight inserts its value after the clear):
\* StaleOnlyIfDisplaced is what is left of it.
FreshAfterClear == \A t \in Task : ret[t].tag = "ok" => ret[t].ch > asked[t]

\* What the code does guarantee about age: only an initialization that was
\* displaced while in flight can reach a caller that asked after the clear.
StaleOnlyIfDisplaced ==
  \A t \in Task : ret[t].tag = "ok" => ret[t].ch > asked[t] \/ ret[t].ch \in displaced

-----------------------------------------------------------------------------
(* The abstract map that is implemented.  The value of channel c enters the *)
(* map with InsertFetched, before it is sent; whoever drives or listens to  *)
(* the channel then has its answer.                                         *)
Inserted(c) == chan[c] = "sent" \/ \E t \in Task : pc[t] = "publish" /\ ch[t] = c

absCell == [k \in Key |-> IF map[k].tag = "fetched" THEN map[k].ch ELSE 0]
absMade == {c \in Chan : Inserted(c)}
absCalls == [k \in Key |-> {t \in Task : pc[t] # "idle" /\ key[t] = k}]
absChosen == [t \in Task |-> IF pc[t] # "idle" /\ Inserted(ch[t]) THEN ch[t] ELSE 0]
absOut == [t \in Task |-> IF ret[t].tag = "ok" THEN ret[t].ch ELSE 0]

Abstract == INSTANCE AtomicMap WITH
  Caller <- Task, Value <- Chan, NoValue <- 0,
  cell <- absCell, made <- absMade, calls <- absCalls, chosen <- absChosen, out <- absOut

\* The calls are linearizable: with waiting, failing, cancelled and displaced
\* initializations inside, the map looks to its callers like AtomicMap.  A call
\* returns a value only if that value was in the map for its key at some moment
\* of the call, a value that was dropped is never put back, and a key that has
\* a value is never computed for by a new call.
ImplementsAtomicMap == Abstract!Spec
=============================================================================
