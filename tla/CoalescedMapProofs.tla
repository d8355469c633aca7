-------------------------- MODULE CoalescedMapProofs --------------------------
(* Proofs about CoalescedMap, for any sets of callers and keys and any number *)
(* of initializations.                                                        *)
EXTENDS CoalescedMap, TLAPS

-----------------------------------------------------------------------------
(* The inductive invariant *)

\* Channels are created in order, and a channel is in use from then on.
ChannelsInOrder == \A c \in Chan : chan[c] = "unused" <=> c > created

\* A caller holds a channel exactly while it is inside a call.
ChannelOfCaller ==
  \A t \in Task : IF pc[t] = "idle" THEN ch[t] = 0 ELSE ch[t] \in 1..created

\* An open channel has exactly one sender, a caller that runs `init`.
SenderIsOwner ==
  /\ \A t \in Task : Initializing(t) => chan[ch[t]] = "open"
  /\ \A c \in Chan : chan[c] = "open" => \E t \in Task : Initializing(t) /\ ch[t] = c
  /\ \A t, u \in Task : Initializing(t) /\ Initializing(u) /\ ch[t] = ch[u] => t = u

\* An entry names a created channel; a Pending entry one whose owner, if any,
\* still runs `init` for that key; a Fetched entry one whose `init` succeeded.
EntriesMatch ==
  \A k \in Key :
    /\ map[k].tag # "vacant" => map[k].ch \in 1..created
    /\ map[k].tag = "pending" =>
         /\ chan[map[k].ch] \in {"open", "closed"}
         /\ \A t \in Task : Initializing(t) /\ ch[t] = map[k].ch
                              => pc[t] = "init" /\ key[t] = k
    /\ map[k].tag = "fetched" =>
         /\ chan[map[k].ch] \in {"open", "sent"}
         /\ \A t \in Task : Initializing(t) /\ ch[t] = map[k].ch => pc[t] = "publish"

\* Whoever runs `init` owns the Pending entry of its key, or was displaced.
InitializerOwnsEntry ==
  \A t \in Task : pc[t] = "init" => map[key[t]] = Pending(ch[t]) \/ ch[t] \in displaced

\* A value that was returned comes from an `init` that succeeded.
ReturnedMatch ==
  \A u \in Task : ret[u].tag = "ok" =>
    /\ ret[u].ch \in 1..created
    /\ chan[ret[u].ch] \in {"open", "sent"}
    /\ \A t \in Task : Initializing(t) /\ ch[t] = ret[u].ch => pc[t] = "publish"

IInv ==
  /\ TypeOK
  /\ ChannelsInOrder
  /\ ChannelOfCaller
  /\ SenderIsOwner
  /\ EntriesMatch
  /\ InitializerOwnsEntry
  /\ WaiterHasSource
  /\ ReturnedMatch

\* The age of what is in the map and on its way to a caller.
AgeInv ==
  /\ \A k \in Key : floor[k] <= created
  /\ \A k \in Key : map[k].tag # "vacant" =>
       map[k].ch > floor[k] \/ (map[k].tag = "fetched" /\ map[k].ch \in displaced)
  /\ \A t \in Task : pc[t] = "init" =>
       ch[t] \in displaced \/ ch[t] > floor[key[t]]
  /\ \A t \in Task : pc[t] # "idle" => ch[t] > asked[t]
  /\ StaleOnlyIfDisplaced

-----------------------------------------------------------------------------
(* Initial states and steps *)

\* The vocabulary of entries, results and channels is open everywhere below.
USE MaxChanAssumption DEF Chan, Entry, Vacant, Pending, Fetched, Result, NoResult,
    Ok, InitError, CoalescedRequestFailed, Initializing

\* Nobody has called yet: every part holds of the initial states.
LEMMA InitEstablishes == Init => IInv
  <1> SUFFICES ASSUME Init PROVE IInv
    OBVIOUS
  <1>1. TypeOK
    BY DEF Init, TypeOK
  <1>2. QED
    BY <1>1 DEF Init, IInv, ChannelsInOrder, ChannelOfCaller, SenderIsOwner,
       EntriesMatch, InitializerOwnsEntry, WaiterHasSource, ReturnedMatch

\* A caller that finds no entry, or a dead Pending one, opens a new channel.
LEMMA BecomeInitializerStep ==
  ASSUME IInv, NEW t \in Task, NEW k \in Key,
         GetOrTryInit(t, k), BecomeInitializer(t, k), map[k].tag # "fetched",
         map[k].tag = "pending" => ~SenderAlive(map[k].ch)
  PROVE  IInv'
  <1> USE DEF IInv, TypeOK, GetOrTryInit, Free, BecomeInitializer, SenderAlive
  <1>1. TypeOK'
    BY DEF ChannelOfCaller, EntriesMatch
  <1>2. ChannelsInOrder'
    BY <1>1 DEF ChannelsInOrder, ChannelOfCaller, SenderIsOwner
  <1>3. ChannelOfCaller'
    BY <1>1 DEF ChannelOfCaller, EntriesMatch
  <1>4. SenderIsOwner'
    BY <1>1 DEF SenderIsOwner, ChannelOfCaller, ChannelsInOrder
  <1>5. EntriesMatch'
    BY <1>1 DEF EntriesMatch, SenderIsOwner, ChannelOfCaller, ChannelsInOrder, InitializerOwnsEntry
  <1>6. InitializerOwnsEntry'
    BY <1>1 DEF InitializerOwnsEntry, EntriesMatch, SenderIsOwner
  <1>7. WaiterHasSource'
    <2> SUFFICES ASSUME NEW u \in Task, pc'[u] = "wait",
                        chan'[ch'[u]] \notin {"sent", "closed"}
                 PROVE  \E w \in Task : Initializing(w)' /\ ch'[w] = ch'[u] /\ key'[w] = key'[u]
      BY DEF WaiterHasSource
    <2>2. PICK w \in Task : Initializing(w) /\ ch[w] = ch[u] /\ key[w] = key[u]
      BY DEF WaiterHasSource, ChannelOfCaller, ChannelsInOrder
    <2>3. w # t => Initializing(w)' /\ ch'[w] = ch'[u] /\ key'[w] = key'[u]
      BY <2>2 DEF ChannelOfCaller
    <2> QED
      BY <2>2, <2>3 DEF ChannelOfCaller, SenderIsOwner
  <1>8. ReturnedMatch'
    BY <1>1 DEF ReturnedMatch, SenderIsOwner, EntriesMatch, ChannelOfCaller, ChannelsInOrder
  <1> QED
    BY <1>1, <1>2, <1>3, <1>4, <1>5, <1>6, <1>7, <1>8

\* A caller that joins finds a live owner that runs `init` for the same key.
LEMMA SubscribeStep ==
  ASSUME IInv, NEW t \in Task, NEW k \in Key,
         GetOrTryInit(t, k), Subscribe(t, k), map[k].tag = "pending", SenderAlive(map[k].ch)
  PROVE  IInv'
  <1> USE DEF IInv, TypeOK, GetOrTryInit, Free, Subscribe, SenderAlive
  <1>1. TypeOK'
    BY DEF ChannelOfCaller, EntriesMatch
  <1>2. ChannelsInOrder'
    BY <1>1 DEF ChannelsInOrder, ChannelOfCaller, SenderIsOwner
  <1>3. ChannelOfCaller'
    BY <1>1 DEF ChannelOfCaller, EntriesMatch
  <1>4. SenderIsOwner'
    BY <1>1 DEF SenderIsOwner, ChannelOfCaller, ChannelsInOrder
  <1>5. EntriesMatch'
    BY <1>1 DEF EntriesMatch, SenderIsOwner, ChannelOfCaller, ChannelsInOrder, InitializerOwnsEntry
  <1>6. InitializerOwnsEntry'
    BY <1>1 DEF InitializerOwnsEntry, EntriesMatch, SenderIsOwner
  <1>7. WaiterHasSource'
    <2> SUFFICES ASSUME NEW u \in Task, pc'[u] = "wait",
                        chan'[ch'[u]] \notin {"sent", "closed"}
                 PROVE  \E w \in Task : Initializing(w)' /\ ch'[w] = ch'[u] /\ key'[w] = key'[u]
      BY DEF WaiterHasSource
    <2>1. CASE u = t
      <3>0. map[k].ch \in Chan /\ chan[map[k].ch] = "open"
        BY DEF EntriesMatch
      <3>1. PICK w \in Task : Initializing(w) /\ ch[w] = map[k].ch
        BY <3>0 DEF SenderIsOwner
      <3>2. w # t /\ key[w] = k
        BY <3>1 DEF EntriesMatch
      <3> QED
        BY <2>1, <3>1, <3>2
    <2>3. CASE u # t
      <3>1. PICK w \in Task : Initializing(w) /\ ch[w] = ch[u] /\ key[w] = key[u]
        BY <2>3 DEF WaiterHasSource
      <3> QED
        BY <2>3, <3>1 DEF ChannelOfCaller
    <2> QED
      BY <2>1, <2>3
  <1>8. ReturnedMatch'
    BY <1>1 DEF ReturnedMatch, SenderIsOwner, EntriesMatch, ChannelOfCaller, ChannelsInOrder
  <1> QED
    BY <1>1, <1>2, <1>3, <1>4, <1>5, <1>6, <1>7, <1>8

\* A Fetched entry is returned as it is.
LEMMA ReturnFetchedStep ==
  ASSUME IInv, NEW t \in Task, NEW k \in Key,
         GetOrTryInit(t, k), ReturnFetched(t, k), map[k].tag = "fetched"
  PROVE  IInv'
  <1> USE DEF IInv, TypeOK, GetOrTryInit, Free, ReturnFetched
  <1>1. TypeOK'
    <2>1. map[k].ch \in 1..created
      BY DEF EntriesMatch
    <2>2. ret' \in [Task -> Result]
      BY <2>1
    <2> QED
      BY <2>2
  <1>2. ChannelsInOrder'
    BY <1>1 DEF ChannelsInOrder, ChannelOfCaller, SenderIsOwner
  <1>3. ChannelOfCaller'
    BY <1>1 DEF ChannelOfCaller, EntriesMatch
  <1>4. SenderIsOwner'
    BY <1>1 DEF SenderIsOwner, ChannelOfCaller, ChannelsInOrder
  <1>5. EntriesMatch'
    BY <1>1 DEF EntriesMatch, SenderIsOwner, ChannelOfCaller, ChannelsInOrder, InitializerOwnsEntry
  <1>6. InitializerOwnsEntry'
    BY <1>1 DEF InitializerOwnsEntry, EntriesMatch, SenderIsOwner
  <1>7. WaiterHasSource'
    <2> SUFFICES ASSUME NEW u \in Task, pc'[u] = "wait",
                        chan'[ch'[u]] \notin {"sent", "closed"}
                 PROVE  \E w \in Task : Initializing(w)' /\ ch'[w] = ch'[u] /\ key'[w] = key'[u]
      BY DEF WaiterHasSource
    <2>2. PICK w \in Task : Initializing(w) /\ ch[w] = ch[u] /\ key[w] = key[u]
      BY DEF WaiterHasSource, ChannelOfCaller, ChannelsInOrder
    <2>3. w # t => Initializing(w)' /\ ch'[w] = ch'[u] /\ key'[w] = key'[u]
      BY <2>2 DEF ChannelOfCaller
    <2> QED
      BY <2>2, <2>3 DEF ChannelOfCaller, SenderIsOwner
  <1>8. ReturnedMatch'
    BY <1>1 DEF ReturnedMatch, SenderIsOwner, EntriesMatch, ChannelOfCaller, ChannelsInOrder
  <1> QED
    BY <1>1, <1>2, <1>3, <1>4, <1>5, <1>6, <1>7, <1>8

\* The insert makes the entry Fetched before the send; the channel stays open.
LEMMA InsertFetchedStep ==
  ASSUME IInv, NEW t \in Task,
         InsertFetched(t)
  PROVE  IInv'
  <1> USE DEF IInv, TypeOK, InsertFetched
  <1>1. TypeOK'
    <2>1. ch[t] \in Chan /\ key[t] \in Key
      BY DEF ChannelOfCaller
    <2>2. map[key[t]].tag = "pending" => map[key[t]].ch \in Chan
      BY <2>1 DEF EntriesMatch
    <2>3. displaced' \subseteq Chan
      BY <2>2
    <2>4. map' \in [Key -> Entry]
      BY <2>1
    <2> QED
      BY <2>3, <2>4
  <1>2. ChannelsInOrder'
    BY <1>1 DEF ChannelsInOrder, ChannelOfCaller, SenderIsOwner
  <1>3. ChannelOfCaller'
    BY <1>1 DEF ChannelOfCaller, EntriesMatch
  <1>4. SenderIsOwner'
    BY <1>1 DEF SenderIsOwner, ChannelOfCaller, ChannelsInOrder
  <1>5. EntriesMatch'
    BY <1>1 DEF EntriesMatch, SenderIsOwner, ChannelOfCaller, ChannelsInOrder, InitializerOwnsEntry
  <1>6. InitializerOwnsEntry'
    BY <1>1 DEF InitializerOwnsEntry, EntriesMatch, SenderIsOwner
  <1>7. WaiterHasSource'
    <2> SUFFICES ASSUME NEW u \in Task, pc'[u] = "wait",
                        chan'[ch'[u]] \notin {"sent", "closed"}
                 PROVE  \E w \in Task : Initializing(w)' /\ ch'[w] = ch'[u] /\ key'[w] = key'[u]
      BY DEF WaiterHasSource
    <2>2. PICK w \in Task : Initializing(w) /\ ch[w] = ch[u] /\ key[w] = key[u]
      BY DEF WaiterHasSource, ChannelOfCaller, ChannelsInOrder
    <2>3. w # t => Initializing(w)' /\ ch'[w] = ch'[u] /\ key'[w] = key'[u]
      BY <2>2 DEF ChannelOfCaller
    <2> QED
      BY <2>2, <2>3 DEF ChannelOfCaller, SenderIsOwner
  <1>8. ReturnedMatch'
    BY <1>1 DEF ReturnedMatch, SenderIsOwner, EntriesMatch, ChannelOfCaller, ChannelsInOrder
  <1> QED
    BY <1>1, <1>2, <1>3, <1>4, <1>5, <1>6, <1>7, <1>8

\* The send answers the waiters the owner leaves behind.
LEMMA PublishStep ==
  ASSUME IInv, NEW t \in Task,
         Publish(t)
  PROVE  IInv'
  <1> USE DEF IInv, TypeOK, Publish, Leave
  <1>1. TypeOK'
    BY DEF ChannelOfCaller, EntriesMatch
  <1>2. ChannelsInOrder'
    BY <1>1 DEF ChannelsInOrder, ChannelOfCaller, SenderIsOwner
  <1>3. ChannelOfCaller'
    BY <1>1 DEF ChannelOfCaller, EntriesMatch
  <1>4. SenderIsOwner'
    BY <1>1 DEF SenderIsOwner, ChannelOfCaller, ChannelsInOrder
  <1>5. EntriesMatch'
    BY <1>1 DEF EntriesMatch, SenderIsOwner, ChannelOfCaller, ChannelsInOrder, InitializerOwnsEntry
  <1>6. InitializerOwnsEntry'
    BY <1>1 DEF InitializerOwnsEntry, EntriesMatch, SenderIsOwner
  <1>7. WaiterHasSource'
    <2> SUFFICES ASSUME NEW u \in Task, pc'[u] = "wait",
                        chan'[ch'[u]] \notin {"sent", "closed"}
                 PROVE  \E w \in Task : Initializing(w)' /\ ch'[w] = ch'[u] /\ key'[w] = key'[u]
      BY DEF WaiterHasSource
    <2>2. PICK w \in Task : Initializing(w) /\ ch[w] = ch[u] /\ key[w] = key[u]
      BY DEF WaiterHasSource, ChannelOfCaller, ChannelsInOrder
    <2>3. w # t => Initializing(w)' /\ ch'[w] = ch'[u] /\ key'[w] = key'[u]
      BY <2>2 DEF ChannelOfCaller
    <2> QED
      BY <2>2, <2>3 DEF ChannelOfCaller, SenderIsOwner
  <1>8. ReturnedMatch'
    BY <1>1 DEF ReturnedMatch, SenderIsOwner, EntriesMatch, ChannelOfCaller, ChannelsInOrder
  <1> QED
    BY <1>1, <1>2, <1>3, <1>4, <1>5, <1>6, <1>7, <1>8

\* A failed owner closes its channel.
LEMMA InitFailsStep ==
  ASSUME IInv, NEW t \in Task,
         InitFails(t)
  PROVE  IInv'
  <1> USE DEF IInv, TypeOK, InitFails, DropSender, Leave
  <1>1. TypeOK'
    BY DEF ChannelOfCaller, EntriesMatch
  <1>2. ChannelsInOrder'
    BY <1>1 DEF ChannelsInOrder, ChannelOfCaller, SenderIsOwner
  <1>3. ChannelOfCaller'
    BY <1>1 DEF ChannelOfCaller, EntriesMatch
  <1>4. SenderIsOwner'
    BY <1>1 DEF SenderIsOwner, ChannelOfCaller, ChannelsInOrder
  <1>5. EntriesMatch'
    BY <1>1 DEF EntriesMatch, SenderIsOwner, ChannelOfCaller, ChannelsInOrder, InitializerOwnsEntry
  <1>6. InitializerOwnsEntry'
    BY <1>1 DEF InitializerOwnsEntry, EntriesMatch, SenderIsOwner
  <1>7. WaiterHasSource'
    <2> SUFFICES ASSUME NEW u \in Task, pc'[u] = "wait",
                        chan'[ch'[u]] \notin {"sent", "closed"}
                 PROVE  \E w \in Task : Initializing(w)' /\ ch'[w] = ch'[u] /\ key'[w] = key'[u]
      BY DEF WaiterHasSource
    <2>2. PICK w \in Task : Initializing(w) /\ ch[w] = ch[u] /\ key[w] = key[u]
      BY DEF WaiterHasSource, ChannelOfCaller, ChannelsInOrder
    <2>3. w # t => Initializing(w)' /\ ch'[w] = ch'[u] /\ key'[w] = key'[u]
      BY <2>2 DEF ChannelOfCaller
    <2> QED
      BY <2>2, <2>3 DEF ChannelOfCaller, SenderIsOwner
  <1>8. ReturnedMatch'
    BY <1>1 DEF ReturnedMatch, SenderIsOwner, EntriesMatch, ChannelOfCaller, ChannelsInOrder
  <1> QED
    BY <1>1, <1>2, <1>3, <1>4, <1>5, <1>6, <1>7, <1>8

\* A waiter takes the outcome of its channel.
LEMMA ReceiveStep ==
  ASSUME IInv, NEW t \in Task,
         Receive(t)
  PROVE  IInv'
  <1> USE DEF IInv, TypeOK, Receive, Leave
  <1>1. TypeOK'
    BY DEF ChannelOfCaller, EntriesMatch
  <1>2. ChannelsInOrder'
    BY <1>1 DEF ChannelsInOrder, ChannelOfCaller, SenderIsOwner
  <1>3. ChannelOfCaller'
    BY <1>1 DEF ChannelOfCaller, EntriesMatch
  <1>4. SenderIsOwner'
    BY <1>1 DEF SenderIsOwner, ChannelOfCaller, ChannelsInOrder
  <1>5. EntriesMatch'
    BY <1>1 DEF EntriesMatch, SenderIsOwner, ChannelOfCaller, ChannelsInOrder, InitializerOwnsEntry
  <1>6. InitializerOwnsEntry'
    BY <1>1 DEF InitializerOwnsEntry, EntriesMatch, SenderIsOwner
  <1>7. WaiterHasSource'
    <2> SUFFICES ASSUME NEW u \in Task, pc'[u] = "wait",
                        chan'[ch'[u]] \notin {"sent", "closed"}
                 PROVE  \E w \in Task : Initializing(w)' /\ ch'[w] = ch'[u] /\ key'[w] = key'[u]
      BY DEF WaiterHasSource
    <2>2. PICK w \in Task : Initializing(w) /\ ch[w] = ch[u] /\ key[w] = key[u]
      BY DEF WaiterHasSource, ChannelOfCaller, ChannelsInOrder
    <2>3. w # t => Initializing(w)' /\ ch'[w] = ch'[u] /\ key'[w] = key'[u]
      BY <2>2 DEF ChannelOfCaller
    <2> QED
      BY <2>2, <2>3 DEF ChannelOfCaller, SenderIsOwner
  <1>8. ReturnedMatch'
    BY <1>1 DEF ReturnedMatch, SenderIsOwner, EntriesMatch, ChannelOfCaller, ChannelsInOrder
  <1> QED
    BY <1>1, <1>2, <1>3, <1>4, <1>5, <1>6, <1>7, <1>8

\* A dropped initializer closes its channel.
LEMMA CancelInitStep ==
  ASSUME IInv, NEW t \in Task,
         CancelInit(t)
  PROVE  IInv'
  <1> USE DEF IInv, TypeOK, CancelInit, DropSender, Leave
  <1>1. TypeOK'
    BY DEF ChannelOfCaller, EntriesMatch
  <1>2. ChannelsInOrder'
    BY <1>1 DEF ChannelsInOrder, ChannelOfCaller, SenderIsOwner
  <1>3. ChannelOfCaller'
    BY <1>1 DEF ChannelOfCaller, EntriesMatch
  <1>4. SenderIsOwner'
    BY <1>1 DEF SenderIsOwner, ChannelOfCaller, ChannelsInOrder
  <1>5. EntriesMatch'
    BY <1>1 DEF EntriesMatch, SenderIsOwner, ChannelOfCaller, ChannelsInOrder, InitializerOwnsEntry
  <1>6. InitializerOwnsEntry'
    BY <1>1 DEF InitializerOwnsEntry, EntriesMatch, SenderIsOwner
  <1>7. WaiterHasSource'
    <2> SUFFICES ASSUME NEW u \in Task, pc'[u] = "wait",
                        chan'[ch'[u]] \notin {"sent", "closed"}
                 PROVE  \E w \in Task : Initializing(w)' /\ ch'[w] = ch'[u] /\ key'[w] = key'[u]
      BY DEF WaiterHasSource
    <2>2. PICK w \in Task : Initializing(w) /\ ch[w] = ch[u] /\ key[w] = key[u]
      BY DEF WaiterHasSource, ChannelOfCaller, ChannelsInOrder
    <2>3. w # t => Initializing(w)' /\ ch'[w] = ch'[u] /\ key'[w] = key'[u]
      BY <2>2 DEF ChannelOfCaller
    <2> QED
      BY <2>2, <2>3 DEF ChannelOfCaller, SenderIsOwner
  <1>8. ReturnedMatch'
    BY <1>1 DEF ReturnedMatch, SenderIsOwner, EntriesMatch, ChannelOfCaller, ChannelsInOrder
  <1> QED
    BY <1>1, <1>2, <1>3, <1>4, <1>5, <1>6, <1>7, <1>8

\* A dropped waiter only forgets its receiver.
LEMMA CancelWaitStep ==
  ASSUME IInv, NEW t \in Task,
         CancelWait(t)
  PROVE  IInv'
  <1> USE DEF IInv, TypeOK, CancelWait, Leave
  <1>1. TypeOK'
    BY DEF ChannelOfCaller, EntriesMatch
  <1>2. ChannelsInOrder'
    BY <1>1 DEF ChannelsInOrder, ChannelOfCaller, SenderIsOwner
  <1>3. ChannelOfCaller'
    BY <1>1 DEF ChannelOfCaller, EntriesMatch
  <1>4. SenderIsOwner'
    <2>1. \A u \in Task : (Initializing(u)' <=> Initializing(u)) /\ (u # t => ch'[u] = ch[u])
      OBVIOUS
    <2> QED
      BY <2>1, <1>1 DEF SenderIsOwner
  <1>5. EntriesMatch'
    BY <1>1 DEF EntriesMatch, SenderIsOwner, ChannelOfCaller, ChannelsInOrder, InitializerOwnsEntry
  <1>6. InitializerOwnsEntry'
    BY <1>1 DEF InitializerOwnsEntry, EntriesMatch, SenderIsOwner
  <1>7. WaiterHasSource'
    <2> SUFFICES ASSUME NEW u \in Task, pc'[u] = "wait",
                        chan'[ch'[u]] \notin {"sent", "closed"}
                 PROVE  \E w \in Task : Initializing(w)' /\ ch'[w] = ch'[u] /\ key'[w] = key'[u]
      BY DEF WaiterHasSource
    <2>2. PICK w \in Task : Initializing(w) /\ ch[w] = ch[u] /\ key[w] = key[u]
      BY DEF WaiterHasSource, ChannelOfCaller, ChannelsInOrder
    <2>3. w # t => Initializing(w)' /\ ch'[w] = ch'[u] /\ key'[w] = key'[u]
      BY <2>2 DEF ChannelOfCaller
    <2> QED
      BY <2>2, <2>3 DEF ChannelOfCaller, SenderIsOwner
  <1>8. ReturnedMatch'
    BY <1>1 DEF ReturnedMatch, SenderIsOwner, EntriesMatch, ChannelOfCaller, ChannelsInOrder
  <1> QED
    BY <1>1, <1>2, <1>3, <1>4, <1>5, <1>6, <1>7, <1>8

\* get changes nothing but the result of the caller.
LEMMA GetStep ==
  ASSUME IInv, NEW t \in Task, NEW k \in Key,
         Get(t, k)
  PROVE  IInv'
  <1> USE DEF IInv, TypeOK, Get, Free
  <1>1. TypeOK'
    BY DEF ChannelOfCaller, EntriesMatch
  <1>2. ChannelsInOrder'
    BY <1>1 DEF ChannelsInOrder, ChannelOfCaller, SenderIsOwner
  <1>3. ChannelOfCaller'
    BY <1>1 DEF ChannelOfCaller, EntriesMatch
  <1>4. SenderIsOwner'
    BY <1>1 DEF SenderIsOwner, ChannelOfCaller, ChannelsInOrder
  <1>5. EntriesMatch'
    BY <1>1 DEF EntriesMatch, SenderIsOwner, ChannelOfCaller, ChannelsInOrder, InitializerOwnsEntry
  <1>6. InitializerOwnsEntry'
    BY <1>1 DEF InitializerOwnsEntry, EntriesMatch, SenderIsOwner
  <1>7. WaiterHasSource'
    <2> SUFFICES ASSUME NEW u \in Task, pc'[u] = "wait",
                        chan'[ch'[u]] \notin {"sent", "closed"}
                 PROVE  \E w \in Task : Initializing(w)' /\ ch'[w] = ch'[u] /\ key'[w] = key'[u]
      BY DEF WaiterHasSource
    <2>2. PICK w \in Task : Initializing(w) /\ ch[w] = ch[u] /\ key[w] = key[u]
      BY DEF WaiterHasSource, ChannelOfCaller, ChannelsInOrder
    <2>3. w # t => Initializing(w)' /\ ch'[w] = ch'[u] /\ key'[w] = key'[u]
      BY <2>2 DEF ChannelOfCaller
    <2> QED
      BY <2>2, <2>3 DEF ChannelOfCaller, SenderIsOwner
  <1>8. ReturnedMatch'
    BY <1>1 DEF ReturnedMatch, SenderIsOwner, EntriesMatch, ChannelOfCaller, ChannelsInOrder
  <1> QED
    BY <1>1, <1>2, <1>3, <1>4, <1>5, <1>6, <1>7, <1>8

\* retain displaces the owner of a Pending entry.
LEMMA RetainStep ==
  ASSUME IInv, NEW k \in Key,
         RetainRejects(k)
  PROVE  IInv'
  <1> USE DEF IInv, TypeOK, RetainRejects
  <1>1. TypeOK'
    <2>1. k \in Key /\ (map[k].tag = "pending" => map[k].ch \in Chan)
      BY DEF EntriesMatch
    <2>2. displaced' \subseteq Chan
      BY <2>1
    <2> QED
      BY <2>2
  <1>2. ChannelsInOrder'
    BY <1>1 DEF ChannelsInOrder, ChannelOfCaller, SenderIsOwner
  <1>3. ChannelOfCaller'
    BY <1>1 DEF ChannelOfCaller, EntriesMatch
  <1>4. SenderIsOwner'
    BY <1>1 DEF SenderIsOwner, ChannelOfCaller, ChannelsInOrder
  <1>5. EntriesMatch'
    BY <1>1 DEF EntriesMatch, SenderIsOwner, ChannelOfCaller, ChannelsInOrder, InitializerOwnsEntry
  <1>6. InitializerOwnsEntry'
    BY <1>1 DEF InitializerOwnsEntry, EntriesMatch, SenderIsOwner
  <1>7. WaiterHasSource'
    BY <1>1 DEF WaiterHasSource
  <1>8. ReturnedMatch'
    BY <1>1 DEF ReturnedMatch, SenderIsOwner, EntriesMatch, ChannelOfCaller, ChannelsInOrder
  <1> QED
    BY <1>1, <1>2, <1>3, <1>4, <1>5, <1>6, <1>7, <1>8

\* clear touches Fetched entries only.
LEMMA ClearStep ==
  ASSUME IInv, NEW k \in Key,
         Clear(k)
  PROVE  IInv'
  <1> USE DEF IInv, TypeOK, Clear
  <1>1. TypeOK'
    BY DEF ChannelOfCaller, EntriesMatch
  <1>2. ChannelsInOrder'
    BY <1>1 DEF ChannelsInOrder, ChannelOfCaller, SenderIsOwner
  <1>3. ChannelOfCaller'
    BY <1>1 DEF ChannelOfCaller, EntriesMatch
  <1>4. SenderIsOwner'
    BY <1>1 DEF SenderIsOwner, ChannelOfCaller, ChannelsInOrder
  <1>5. EntriesMatch'
    BY <1>1 DEF EntriesMatch, SenderIsOwner, ChannelOfCaller, ChannelsInOrder, InitializerOwnsEntry
  <1>6. InitializerOwnsEntry'
    BY <1>1 DEF InitializerOwnsEntry, EntriesMatch, SenderIsOwner
  <1>7. WaiterHasSource'
    BY <1>1 DEF WaiterHasSource
  <1>8. ReturnedMatch'
    BY <1>1 DEF ReturnedMatch, SenderIsOwner, EntriesMatch, ChannelOfCaller, ChannelsInOrder
  <1> QED
    BY <1>1, <1>2, <1>3, <1>4, <1>5, <1>6, <1>7, <1>8

\* Every step of the system is one of the above, or leaves the map alone.
LEMMA StepPreserves == IInv /\ [Next]_vars => IInv'
  <1> SUFFICES ASSUME IInv, [Next]_vars PROVE IInv'
    OBVIOUS
  <1>1. ASSUME NEW t \in Task, NEW k \in Key, GetOrTryInit(t, k) PROVE IInv'
    <2>1. CASE map[k].tag = "fetched" /\ ReturnFetched(t, k)
      BY <1>1, <2>1, ReturnFetchedStep
    <2>2. CASE map[k].tag = "pending" /\ SenderAlive(map[k].ch) /\ Subscribe(t, k)
      BY <1>1, <2>2, SubscribeStep
    <2>3. CASE map[k].tag = "pending" /\ ~SenderAlive(map[k].ch) /\ BecomeInitializer(t, k)
      BY <1>1, <2>3, BecomeInitializerStep
    <2>4. CASE map[k].tag = "vacant" /\ BecomeInitializer(t, k)
      BY <1>1, <2>4, BecomeInitializerStep
    <2> QED
      BY <1>1, <2>1, <2>2, <2>3, <2>4 DEF GetOrTryInit, LookUp
  <1>2. ASSUME NEW t \in Task, NEW k \in Key, Get(t, k) PROVE IInv'
    BY <1>2, GetStep
  <1>3. ASSUME NEW t \in Task,
               InsertFetched(t) \/ Publish(t) \/ InitFails(t) \/ Receive(t)
                 \/ CancelInit(t) \/ CancelWait(t)
        PROVE IInv'
    BY <1>3, InsertFetchedStep, PublishStep, InitFailsStep, ReceiveStep,
       CancelInitStep, CancelWaitStep
  <1>4. ASSUME NEW k \in Key, RetainRejects(k) \/ Clear(k) PROVE IInv'
    BY <1>4, RetainStep, ClearStep
  <1>5. CASE UNCHANGED vars
    BY <1>5 DEF vars, IInv, TypeOK, ChannelsInOrder, ChannelOfCaller, SenderIsOwner,
       EntriesMatch, InitializerOwnsEntry, WaiterHasSource, ReturnedMatch
  <1> QED
    BY <1>1, <1>2, <1>3, <1>4, <1>5 DEF Next

-----------------------------------------------------------------------------
(* Theorems *)

\* The inductive invariant holds in every reachable state.
THEOREM Invariance == Spec => []IInv
  BY InitEstablishes, StepPreserves, PTL DEF Spec

\* Type correctness of get_or_try_init, get, retain and clear.
THEOREM TypeCorrect == Spec => []TypeOK
  <1>1. IInv => TypeOK
    BY DEF IInv
  <1> QED
    BY <1>1, Invariance, PTL

\* "Only the first executes init": without a displacement, two callers never
\* run `init` for the same key at the same time.
THEOREM AtMostOneInitializer == Spec => []SingleInitializer
  <1>1. IInv => SingleInitializer
    <2> SUFFICES ASSUME IInv, NEW t \in Task, NEW u \in Task,
                        pc[t] = "init", pc[u] = "init", key[t] = key[u],
                        ch[t] \notin displaced, ch[u] \notin displaced
                 PROVE  t = u
      BY DEF SingleInitializer
    <2>1. Pending(ch[t]) = Pending(ch[u])
      BY DEF IInv, InitializerOwnsEntry
    <2>2. ch[t] = ch[u]
      BY <2>1
    <2> QED
      BY <2>2 DEF IInv, SenderIsOwner
  <1> QED
    BY <1>1, Invariance, PTL

\* A caller that joins a Pending entry cannot have missed the broadcast.
THEOREM NoBroadcastMissed == Spec => []PendingNotSent
  <1>1. IInv => PendingNotSent
    BY DEF IInv, EntriesMatch, PendingNotSent
  <1> QED
    BY <1>1, Invariance, PTL

\* No waiter is orphaned: its channel has a live owner or an outcome.
THEOREM NoOrphanedWaiter == Spec => []WaiterHasSource
  <1>1. IInv => WaiterHasSource
    BY DEF IInv
  <1> QED
    BY <1>1, Invariance, PTL

\* Neither the map nor a caller ever holds the value of a failed `init`.
THEOREM FailuresAreNotServed == Spec => []OnlySuccessIsServed
  <1>1. IInv => OnlySuccessIsServed
    BY DEF IInv, EntriesMatch, ReturnedMatch, OnlySuccessIsServed
  <1> QED
    BY <1>1, Invariance, PTL

\* A Fetched value is only cleared, or replaced by a displaced initialization.
THEOREM FetchedStability == Spec => FetchedIsStable
  <1> DEFINE Stable == \A k \in Key : map[k].tag = "fetched" =>
                \/ map'[k] \in {map[k], Vacant}
                \/ map'[k].tag = "fetched" /\ map'[k].ch \in displaced
  <1>1. IInv /\ [Next]_vars => Stable
    <2> SUFFICES ASSUME IInv, [Next]_vars, NEW k \in Key, map[k].tag = "fetched",
                        map'[k] \notin {map[k], Vacant}
                 PROVE  map'[k].tag = "fetched" /\ map'[k].ch \in displaced
      OBVIOUS
    <2>1. PICK t \in Task : InsertFetched(t) /\ key[t] = k
      BY DEF IInv, TypeOK, Next, vars, GetOrTryInit, LookUp, ReturnFetched, Subscribe,
         BecomeInitializer, Get, InsertFetched, Publish, InitFails, Receive, CancelInit,
         CancelWait, RetainRejects, Clear
    <2>2. map'[k] = Fetched(ch[t]) /\ map[k] # Pending(ch[t])
      BY <2>1 DEF IInv, TypeOK, InsertFetched
    <2> QED
      BY <2>1, <2>2 DEF IInv, InitializerOwnsEntry, InsertFetched
  <1>2. IInv /\ [Next]_vars => [Stable]_vars
    BY <1>1
  <1> QED
    BY <1>2, Invariance, PTL DEF Spec, FetchedIsStable

-----------------------------------------------------------------------------
(* The age of values: what clear_repodata_cache can count on *)

\* A caller that asked after a clear gets no older value, unless that value's
\* initialization was displaced while in flight.
THEOREM StaleNeedsDisplacement == Spec => []StaleOnlyIfDisplaced
  <1> USE DEF IInv, TypeOK, AgeInv, StaleOnlyIfDisplaced
  <1>1. Init => AgeInv
    BY DEF Init
  <1>2. IInv /\ AgeInv /\ [Next]_vars => AgeInv'
    <2> SUFFICES ASSUME IInv, AgeInv, [Next]_vars PROVE AgeInv'
      OBVIOUS
    <2> USE DEF ChannelOfCaller, EntriesMatch
    <2>1. ASSUME NEW t \in Task, NEW k \in Key, GetOrTryInit(t, k) PROVE AgeInv'
      <3>1. CASE map[k].tag = "fetched" /\ ReturnFetched(t, k)
        BY <2>1, <3>1 DEF GetOrTryInit, ReturnFetched, Free
      <3>2. CASE map[k].tag = "pending" /\ SenderAlive(map[k].ch) /\ Subscribe(t, k)
        BY <2>1, <3>2 DEF GetOrTryInit, Subscribe, Free
      <3>3. CASE map[k].tag # "fetched" /\ BecomeInitializer(t, k)
        BY <2>1, <3>3 DEF GetOrTryInit, BecomeInitializer, Free
      <3> QED
        BY <2>1, <3>1, <3>2, <3>3 DEF GetOrTryInit, LookUp
    <2>2. ASSUME NEW t \in Task, NEW k \in Key, Get(t, k) PROVE AgeInv'
      BY <2>2 DEF Get, Free
    <2>3. ASSUME NEW t \in Task, InsertFetched(t) PROVE AgeInv'
      BY <2>3 DEF InsertFetched
    <2>4. ASSUME NEW t \in Task, Publish(t) PROVE AgeInv'
      BY <2>4 DEF Publish, Leave
    <2>5. ASSUME NEW t \in Task, InitFails(t) PROVE AgeInv'
      BY <2>5 DEF InitFails, Leave
    <2>6. ASSUME NEW t \in Task, Receive(t) PROVE AgeInv'
      BY <2>6 DEF Receive, Leave
    <2>7. ASSUME NEW t \in Task, CancelInit(t) PROVE AgeInv'
      BY <2>7 DEF CancelInit, Leave
    <2>11. ASSUME NEW t \in Task, CancelWait(t) PROVE AgeInv'
      BY <2>11 DEF CancelWait, Leave
    <2>8. ASSUME NEW k \in Key, RetainRejects(k) PROVE AgeInv'
      <3>1. \A t \in Task : pc[t] = "init" /\ key[t] = k => ch[t] \in displaced'
        <4> SUFFICES ASSUME NEW t \in Task, pc[t] = "init", key[t] = k,
                            ch[t] \notin displaced
                     PROVE  ch[t] \in displaced'
          BY <2>8 DEF RetainRejects
        <4>0. map[k] = Pending(ch[t])
          BY DEF InitializerOwnsEntry
        <4>1. map[k].tag = "pending" /\ map[k].ch = ch[t]
          BY <4>0
        <4> QED
          BY <2>8, <4>1 DEF RetainRejects
      <3> QED
        BY <2>8, <3>1 DEF RetainRejects
    <2>9. ASSUME NEW k \in Key, Clear(k) PROVE AgeInv'
      BY <2>9 DEF Clear
    <2>10. CASE UNCHANGED vars
      BY <2>10 DEF vars
    <2> QED
      BY <2>1, <2>2, <2>3, <2>4, <2>5, <2>6, <2>7, <2>8, <2>9, <2>10, <2>11 DEF Next
  <1>3. AgeInv => StaleOnlyIfDisplaced
    OBVIOUS
  <1> QED
    BY <1>1, <1>2, <1>3, Invariance, PTL DEF Spec

-----------------------------------------------------------------------------
(* Refinement: CoalescedMap implements AtomicMap *)

\* The vocabulary of entries, results and channels is open everywhere below.
USE MaxChanAssumption DEF Chan, Entry, Vacant, Pending, Fetched, Result, NoResult,
    Ok, InitError, CoalescedRequestFailed, Initializing

\* A channel whose value has not been computed: nobody has an answer from it.
LEMMA NotInserted ==
  ASSUME IInv
  PROVE  /\ \A t \in Task : pc[t] = "init" => ~Inserted(ch[t])
         /\ \A k \in Key : map[k].tag = "pending" => ~Inserted(map[k].ch)
         /\ \A c \in Chan : chan[c] \in {"closed", "unused"} => ~Inserted(c)
  <1> USE DEF IInv, TypeOK, SenderIsOwner, EntriesMatch, ChannelOfCaller, Inserted
  <1>1. \A t \in Task : pc[t] = "init" => ~Inserted(ch[t])
    OBVIOUS
  <1>2. \A k \in Key : map[k].tag = "pending" => ~Inserted(map[k].ch)
    OBVIOUS
  <1>3. \A c \in Chan : chan[c] \in {"closed", "unused"} => ~Inserted(c)
    OBVIOUS
  <1> QED
    BY <1>1, <1>2, <1>3

\* Everybody who drives or listens to the channel of an initializer is in a
\* call for the same key.
LEMMA SameKey ==
  ASSUME IInv, NEW t \in Task, pc[t] = "init", NEW u \in Task, pc[u] # "idle", ch[u] = ch[t]
  PROVE  key[u] = key[t]
  <1> USE DEF IInv, TypeOK, SenderIsOwner, ChannelOfCaller
  <1>1. CASE pc[u] = "wait"
    <2>1. chan[ch[u]] = "open"
      OBVIOUS
    <2>2. PICK w \in Task : Initializing(w) /\ ch[w] = ch[u] /\ key[w] = key[u]
      BY <1>1, <2>1 DEF WaiterHasSource
    <2>3. w = t
      BY <2>2
    <2> QED
      BY <2>2, <2>3
  <1>2. CASE Initializing(u)
    BY <1>2
  <1> QED
    BY <1>1, <1>2

\* The initial states are mapped to initial states.
LEMMA InitMaps == Init => Abstract!Init
  BY DEF Init, Abstract!Init, absCell, absMade, absCalls, absChosen, absOut, Inserted

\* A caller that enters a call for k, and one that leaves its call.
LEMMA CallerEnters ==
  ASSUME NEW t \in Task, NEW k \in Key, TypeOK, pc[t] = "idle",
         NEW l \in {"init", "wait"}, pc' = [pc EXCEPT ![t] = l], key' = [key EXCEPT ![t] = k]
  PROVE  absCalls' = [absCalls EXCEPT ![k] = @ \cup {t}] /\ \A j \in Key : t \notin absCalls[j]
  <1> USE DEF TypeOK, absCalls
  <1>1. \A j \in Key : t \notin absCalls[j]
    OBVIOUS
  <1>2. ASSUME NEW j \in Key
        PROVE  absCalls'[j] = IF j = k THEN absCalls[j] \cup {t} ELSE absCalls[j]
    <2>1. absCalls[j] = {u \in Task : pc[u] # "idle" /\ key[u] = j}
      OBVIOUS
    <2>2. absCalls'[j] = {u \in Task : pc'[u] # "idle" /\ key'[u] = j}
      OBVIOUS
    <2>3. \A u \in Task : u # t => pc'[u] = pc[u] /\ key'[u] = key[u]
      OBVIOUS
    <2>4. pc'[t] # "idle" /\ key'[t] = k
      OBVIOUS
    <2> HIDE DEF absCalls, TypeOK
    <2> QED
      BY <2>1, <2>2, <2>3, <2>4
  <1> QED
    BY <1>1, <1>2

LEMMA CallerLeaves ==
  ASSUME NEW t \in Task, TypeOK, pc[t] # "idle", pc' = [pc EXCEPT ![t] = "idle"], UNCHANGED key
  PROVE  t \in absCalls[key[t]] /\ absCalls' = [absCalls EXCEPT ![key[t]] = @ \ {t}]
  <1> USE DEF TypeOK, absCalls
  <1>1. t \in absCalls[key[t]]
    OBVIOUS
  <1>2. ASSUME NEW j \in Key
        PROVE  absCalls'[j] = IF j = key[t] THEN absCalls[j] \ {t} ELSE absCalls[j]
    <2>1. absCalls[j] = {u \in Task : pc[u] # "idle" /\ key[u] = j}
      OBVIOUS
    <2>2. absCalls'[j] = {u \in Task : pc'[u] # "idle" /\ key[u] = j}
      OBVIOUS
    <2>3. \A u \in Task : u # t => pc'[u] = pc[u]
      OBVIOUS
    <2>4. pc'[t] = "idle"
      OBVIOUS
    <2> HIDE DEF absCalls, TypeOK
    <2> QED
      BY <2>1, <2>2, <2>3, <2>4
  <1>3. absCalls' = [j \in Key |-> absCalls'[j]] /\ absCalls = [j \in Key |-> absCalls[j]]
    OBVIOUS
  <1>4. key[t] \in Key
    OBVIOUS
  <1> HIDE DEF absCalls, TypeOK
  <1> QED
    BY <1>1, <1>2, <1>3, <1>4

-----------------------------------------------------------------------------
(* One lemma per action: the abstract step it is *)

\* A caller that will compute begins a call.
LEMMA BecomeInitializerMaps ==
  ASSUME IInv, IInv', NEW t \in Task, NEW k \in Key,
         GetOrTryInit(t, k), BecomeInitializer(t, k), map[k].tag # "fetched"
  PROVE  Abstract!Begin(t, k)
  <1> USE DEF IInv, TypeOK, GetOrTryInit, Free, BecomeInitializer
  <1>1. \A c \in Chan : Inserted(c)' <=> Inserted(c)
    BY DEF Inserted, ChannelsInOrder, ChannelOfCaller
  <1>2. absCell' = absCell /\ absCell[k] = 0
    BY DEF absCell
  <1>3. absMade' = absMade
    BY <1>1 DEF absMade
  <1>4. ~Inserted(ch[t])'
    BY NotInserted DEF Inserted, SenderIsOwner
  <1>5. absChosen' = absChosen
    BY <1>1, <1>4 DEF absChosen, ChannelOfCaller
  <1>6. absCalls' = [absCalls EXCEPT ![k] = @ \cup {t}] /\ \A j \in Key : t \notin absCalls[j]
    BY CallerEnters
  <1>7. absOut' = [absOut EXCEPT ![t] = 0]
    BY DEF absOut
  <1> QED
    BY <1>2, <1>3, <1>5, <1>6, <1>7 DEF Abstract!Begin, Abstract!Idle

\* So does a caller that will wait: the value it waits for is not there yet.
LEMMA SubscribeMaps ==
  ASSUME IInv, IInv', NEW t \in Task, NEW k \in Key,
         GetOrTryInit(t, k), Subscribe(t, k), map[k].tag = "pending"
  PROVE  Abstract!Begin(t, k)
  <1> USE DEF IInv, TypeOK, GetOrTryInit, Free, Subscribe
  <1>1. \A c \in Chan : Inserted(c)' <=> Inserted(c)
    BY DEF Inserted, ChannelOfCaller
  <1>2. absCell' = absCell /\ absCell[k] = 0
    BY DEF absCell
  <1>3. absMade' = absMade
    BY <1>1 DEF absMade
  <1>4. ~Inserted(map[k].ch) /\ map[k].ch \in Chan
    BY NotInserted DEF EntriesMatch
  <1>5. absChosen' = absChosen
    BY <1>1, <1>4 DEF absChosen, ChannelOfCaller
  <1>6. absCalls' = [absCalls EXCEPT ![k] = @ \cup {t}] /\ \A j \in Key : t \notin absCalls[j]
    BY CallerEnters
  <1>7. absOut' = [absOut EXCEPT ![t] = 0]
    BY DEF absOut
  <1> QED
    BY <1>2, <1>3, <1>5, <1>6, <1>7 DEF Abstract!Begin, Abstract!Idle

\* A hit, and get, read the map.
LEMMA ReadMaps ==
  ASSUME IInv, NEW t \in Task, NEW k \in Key, Free(t),
         ret' = [ret EXCEPT ![t] = IF map[k].tag = "fetched" THEN Ok(map[k].ch) ELSE NoResult],
         UNCHANGED <<map, chan, pc, ch>>,
         \A u \in Task : pc[u] # "idle" => key'[u] = key[u]
  PROVE  Abstract!Read(t, k)
  <1> USE DEF IInv, TypeOK, Free
  <1>1. UNCHANGED <<absCell, absMade, absChosen>>
    BY DEF absCell, absMade, absChosen, Inserted
  <1>2. absCalls' = absCalls /\ \A j \in Key : t \notin absCalls[j]
    BY DEF absCalls
  <1>3. absOut' = [absOut EXCEPT ![t] = absCell[k]]
    BY DEF absOut, absCell
  <1> QED
    BY <1>1, <1>2, <1>3 DEF Abstract!Read, Abstract!Idle

\* The insertion is the moment at which initializer and waiters get their answer.
LEMMA InsertFetchedMaps ==
  ASSUME IInv, IInv', NEW t \in Task, InsertFetched(t)
  PROVE  Abstract!Put(key[t], ch[t])
  <1> USE DEF IInv, TypeOK, InsertFetched
  <1> DEFINE answered == {u \in Task : pc[u] # "idle" /\ ch[u] = ch[t]}
  <1>1. ch[t] \in Chan /\ ~Inserted(ch[t])
    BY NotInserted DEF ChannelOfCaller
  <1>2. \A c \in Chan : Inserted(c)' <=> Inserted(c) \/ c = ch[t]
    BY DEF Inserted, ChannelOfCaller
  <1>3. ch[t] \in Chan \ absMade /\ absMade' = absMade \cup {ch[t]}
    BY <1>1, <1>2 DEF absMade
  <1>4. absCell' = [absCell EXCEPT ![key[t]] = ch[t]]
    BY DEF absCell
  <1>5. answered # {} /\ answered \in SUBSET {u \in absCalls[key[t]] : absChosen[u] = 0}
    BY <1>1, SameKey DEF absCalls, absChosen
  <1>6. absChosen' = [u \in Task |-> IF u \in answered THEN ch[t] ELSE absChosen[u]]
    BY <1>2 DEF absChosen, ChannelOfCaller
  <1>7. UNCHANGED <<absCalls, absOut>>
    BY DEF absCalls, absOut
  <1> QED
    BY <1>3, <1>4, <1>5, <1>6, <1>7 DEF Abstract!Put

\* What ends a call: the caller leaves, and nothing is inserted or removed.
LEMMA EndMaps ==
  ASSUME IInv, NEW t \in Task, pc[t] # "idle", Leave(t), UNCHANGED <<map, key>>,
         \A c \in Chan : Inserted(c)' <=> Inserted(c)
  PROVE  Abstract!End(t, key[t]) /\ UNCHANGED <<absCell, absMade>>
  <1> USE DEF IInv, TypeOK, Leave
  <1>1. UNCHANGED <<absCell, absMade>>
    BY DEF absCell, absMade
  <1>2. t \in absCalls[key[t]] /\ absCalls' = [absCalls EXCEPT ![key[t]] = @ \ {t}]
    BY CallerLeaves
  <1>3. absChosen' = [absChosen EXCEPT ![t] = 0]
    <2>1. \A u \in Task : u # t => pc'[u] = pc[u] /\ ch'[u] = ch[u]
      OBVIOUS
    <2>2. pc'[t] = "idle"
      OBVIOUS
    <2>3. \A u \in Task : pc[u] # "idle" => ch[u] \in Chan
      BY DEF ChannelOfCaller
    <2>4. \A u \in Task : absChosen'[u] = IF u = t THEN 0 ELSE absChosen[u]
      BY <2>1, <2>2, <2>3 DEF absChosen
    <2> QED
      BY <2>4 DEF absChosen
  <1> QED
    BY <1>1, <1>2, <1>3 DEF Abstract!End

\* The initializer returns the value it inserted.
LEMMA PublishMaps ==
  ASSUME IInv, NEW t \in Task, Publish(t)
  PROVE  Abstract!Return(t, key[t])
  <1> USE DEF IInv, TypeOK, Publish, Leave, ChannelOfCaller
  <1>1. \A c \in Chan : Inserted(c)' <=> Inserted(c)
    BY DEF Inserted, SenderIsOwner
  <1>2. absOut' = [absOut EXCEPT ![t] = absChosen[t]]
    BY DEF absOut, absChosen, Inserted
  <1>3. Abstract!End(t, key[t]) /\ UNCHANGED <<absCell, absMade>>
    BY <1>1, EndMaps
  <1> QED
    BY <1>2, <1>3 DEF Abstract!Return

\* A failed initializer returns nothing.
LEMMA InitFailsMaps ==
  ASSUME IInv, NEW t \in Task, InitFails(t)
  PROVE  Abstract!Return(t, key[t])
  <1> USE DEF IInv, TypeOK, InitFails, DropSender, Leave, ChannelOfCaller
  <1>1. \A c \in Chan : Inserted(c)' <=> Inserted(c)
    BY DEF Inserted, SenderIsOwner
  <1>2. absOut' = [absOut EXCEPT ![t] = absChosen[t]]
    BY NotInserted DEF absOut, absChosen
  <1>3. Abstract!End(t, key[t]) /\ UNCHANGED <<absCell, absMade>>
    BY <1>1, EndMaps
  <1> QED
    BY <1>2, <1>3 DEF Abstract!Return

\* A waiter returns what was sent, which was inserted before.
LEMMA ReceiveMaps ==
  ASSUME IInv, NEW t \in Task, Receive(t)
  PROVE  Abstract!Return(t, key[t])
  <1> USE DEF IInv, TypeOK, Receive, Leave, ChannelOfCaller
  <1>1. \A c \in Chan : Inserted(c)' <=> Inserted(c)
    BY DEF Inserted
  <1>2. ch[t] \in Chan /\ (Inserted(ch[t]) <=> chan[ch[t]] = "sent")
    BY NotInserted DEF Inserted
  <1>3. absOut' = [absOut EXCEPT ![t] = absChosen[t]]
    BY <1>2 DEF absOut, absChosen
  <1>4. Abstract!End(t, key[t]) /\ UNCHANGED <<absCell, absMade>>
    BY <1>1, EndMaps
  <1> QED
    BY <1>3, <1>4 DEF Abstract!Return

\* A dropped future abandons its call.
LEMMA CancelMaps ==
  ASSUME IInv, NEW t \in Task, CancelInit(t) \/ CancelWait(t)
  PROVE  Abstract!Abandon(t, key[t])
  <1> USE DEF IInv, TypeOK, CancelInit, CancelWait, DropSender, Leave, ChannelOfCaller
  <1>1. \A c \in Chan : Inserted(c)' <=> Inserted(c)
    <2>1. CASE CancelInit(t)
      BY <2>1 DEF Inserted, SenderIsOwner
    <2>2. CASE CancelWait(t)
      BY <2>2 DEF Inserted
    <2> QED
      BY <2>1, <2>2
  <1>2. Abstract!End(t, key[t]) /\ UNCHANGED <<absCell, absMade>>
    BY <1>1, EndMaps
  <1>3. UNCHANGED absOut
    BY DEF absOut
  <1> QED
    BY <1>2, <1>3 DEF Abstract!Abandon

\* retain and clear drop the value, if there is one.
LEMMA DropMaps ==
  ASSUME IInv, NEW k \in Key, RetainRejects(k) \/ Clear(k)
  PROVE  Abstract!Drop(k)
  <1> USE DEF IInv, TypeOK, RetainRejects, Clear
  <1>1. absCell' = [absCell EXCEPT ![k] = 0]
    <2>1. map' = [map EXCEPT ![k] = Vacant]
      OBVIOUS
    <2> QED
      BY <2>1 DEF absCell
  <1>2. UNCHANGED <<absMade, absCalls, absChosen, absOut>>
    BY DEF absMade, absCalls, absChosen, absOut, Inserted
  <1> QED
    BY <1>1, <1>2 DEF Abstract!Drop

-----------------------------------------------------------------------------

\* Every step is a step of the abstract map, or changes nothing of it.
LEMMA StepMaps == IInv /\ IInv' /\ [Next]_vars => [Abstract!Next]_(Abstract!vars)
  <1> SUFFICES ASSUME IInv, IInv', [Next]_vars PROVE [Abstract!Next]_(Abstract!vars)
    OBVIOUS
  <1>1. ASSUME NEW t \in Task, NEW k \in Key, GetOrTryInit(t, k) PROVE Abstract!Next
    <2>1. CASE map[k].tag = "fetched" /\ ReturnFetched(t, k)
      <3>1. Abstract!Read(t, k)
        BY <1>1, <2>1, ReadMaps DEF GetOrTryInit, ReturnFetched, IInv, TypeOK, Free
      <3> QED
        BY <3>1 DEF Abstract!Next
    <2>2. CASE map[k].tag = "pending" /\ Subscribe(t, k)
      <3>1. Abstract!Begin(t, k)
        BY <1>1, <2>2, SubscribeMaps
      <3> QED
        BY <3>1 DEF Abstract!Next
    <2>3. CASE map[k].tag # "fetched" /\ BecomeInitializer(t, k)
      <3>1. Abstract!Begin(t, k)
        BY <1>1, <2>3, BecomeInitializerMaps
      <3> QED
        BY <3>1 DEF Abstract!Next
    <2> QED
      BY <1>1, <2>1, <2>2, <2>3 DEF GetOrTryInit, LookUp
  <1>2. ASSUME NEW t \in Task, NEW k \in Key, Get(t, k) PROVE Abstract!Next
    <2>1. Abstract!Read(t, k)
      BY <1>2, ReadMaps DEF Get
    <2> QED
      BY <2>1 DEF Abstract!Next
  <1>3. ASSUME NEW t \in Task, InsertFetched(t) PROVE Abstract!Next
    <2>1. key[t] \in Key /\ ch[t] \in Chan
      BY <1>3 DEF IInv, TypeOK, InsertFetched, ChannelOfCaller
    <2>2. Abstract!Put(key[t], ch[t])
      BY <1>3, InsertFetchedMaps
    <2> QED
      BY <2>1, <2>2 DEF Abstract!Next
  <1>4. ASSUME NEW t \in Task, Publish(t) \/ InitFails(t) \/ Receive(t) PROVE Abstract!Next
    <2>1. Abstract!Return(t, key[t]) /\ key[t] \in Key
      BY <1>4, PublishMaps, InitFailsMaps, ReceiveMaps DEF IInv, TypeOK
    <2> QED
      BY <2>1 DEF Abstract!Next
  <1>5. ASSUME NEW t \in Task, CancelInit(t) \/ CancelWait(t) PROVE Abstract!Next
    <2>1. Abstract!Abandon(t, key[t]) /\ key[t] \in Key
      BY <1>5, CancelMaps DEF IInv, TypeOK
    <2> QED
      BY <2>1 DEF Abstract!Next
  <1>6. ASSUME NEW k \in Key, RetainRejects(k) \/ Clear(k) PROVE Abstract!Next
    <2>1. Abstract!Drop(k)
      BY <1>6, DropMaps
    <2> QED
      BY <2>1 DEF Abstract!Next
  <1>7. CASE UNCHANGED vars
    BY <1>7 DEF vars, Abstract!vars, absCell, absMade, absCalls, absChosen, absOut, Inserted
  <1> QED
    BY <1>1, <1>2, <1>3, <1>4, <1>5, <1>6, <1>7 DEF Next

\* The calls of the coalescing map are linearizable: it implements AtomicMap.
THEOREM Linearizable == Spec => ImplementsAtomicMap
  <1>1. IInv /\ [Next]_vars => IInv'
    BY StepPreserves
  <1> QED
    BY InitMaps, StepMaps, Invariance, PTL DEF Spec, ImplementsAtomicMap, Abstract!Spec
=============================================================================
