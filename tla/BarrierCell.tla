----------------------------- MODULE BarrierCell -----------------------------
(***************************************************************************)
(* BarrierCell of the repodata gateway (gateway/barrier_cell.rs): a cell   *)
(* that is set once and that others wait for, built from an atomic state,  *)
(* an unsynchronised value and a tokio Notify.                             *)
(*                                                                         *)
(* Steps are the atomic accesses of the code.  The plain write of the      *)
(* value takes two steps, so that a read that overlaps it shows.  Notify   *)
(* is external: a Notified future completes once notify_waiters is called  *)
(* after the future was created, polled or not.                            *)
(***************************************************************************)
CONSTANTS Setter, Waiter, Value, NoValue

ASSUME ConstantsAssumption == NoValue \notin Value /\ Setter \cap Waiter = {}

VARIABLES
  state,      \* AtomicU8
  cell,       \* the memory of the value: what it holds, and if it is written whole
  pc,         \* of the setters and the waiters
  arg,        \* the value a setter sets
  notified,   \* waiters whose Notified future has been completed
  got         \* what a waiter returned

vars == <<state, cell, pc, arg, notified, got>>

Uninit == [val |-> NoValue, whole |-> FALSE]

Init ==
  /\ state = "Uninitialized"
  /\ cell = Uninit
  /\ pc = [a \in Setter \cup Waiter |-> "start"]
  /\ arg \in [Setter -> Value]
  /\ notified = {}
  /\ got = [w \in Waiter |-> Uninit]

Goto(a, label) == pc' = [pc EXCEPT ![a] = label]

-----------------------------------------------------------------------------
(* set *)

\* Defect: the state says Initialized before the value is there.
CompareExchangeEarly == state = "Uninitialized" /\ state' = "Initialized"

\* Uninitialized -> Initializing, for one setter only.
CompareExchange == state = "Uninitialized" /\ state' = "Initializing"

SetBegin(s) ==
  /\ pc[s] = "start"
  /\ CompareExchange
  /\ Goto(s, "write")
  /\ UNCHANGED <<cell, arg, notified, got>>

\* AlreadySet, also while another setter has not finished.
SetRefused(s) ==
  /\ pc[s] = "start"
  /\ state # "Uninitialized"
  /\ Goto(s, "refused")
  /\ UNCHANGED <<state, cell, arg, notified, got>>

WriteFirstHalf(s) ==
  /\ pc[s] = "write"
  /\ cell' = [val |-> arg[s], whole |-> FALSE]
  /\ Goto(s, "writing")
  /\ UNCHANGED <<state, arg, notified, got>>

WriteSecondHalf(s) ==
  /\ pc[s] = "writing"
  /\ cell' = [val |-> arg[s], whole |-> TRUE]
  /\ Goto(s, "store")
  /\ UNCHANGED <<state, arg, notified, got>>

\* Release store: who reads Initialized also sees the value.
StoreInitialized(s) ==
  /\ pc[s] = "store"
  /\ state' = "Initialized"
  /\ Goto(s, "notify")
  /\ UNCHANGED <<cell, arg, notified, got>>

\* Waiters that have created their Notified future; the others have not begun.
Registered == {w \in Waiter : pc[w] \in {"registered", "parked"}}

\* Defect: notify_one instead of notify_waiters.
NotifyWaitersOne(s) ==
  /\ pc[s] = "notify"
  /\ IF Registered = {} THEN UNCHANGED notified
     ELSE \E w \in Registered : notified' = notified \cup {w}
  /\ Goto(s, "set")
  /\ UNCHANGED <<state, cell, arg, got>>

NotifyWaiters(s) ==
  /\ pc[s] = "notify"
  /\ notified' = notified \cup Registered
  /\ Goto(s, "set")
  /\ UNCHANGED <<state, cell, arg, got>>

-----------------------------------------------------------------------------
(* wait *)

Register(w) ==
  /\ pc[w] = "start"
  /\ notified' = notified \ {w}
  /\ Goto(w, "registered")
  /\ UNCHANGED <<state, cell, arg, got>>

Park(w) ==
  /\ pc[w] = "registered"
  /\ state # "Initialized"
  /\ Goto(w, "parked")
  /\ UNCHANGED <<state, cell, arg, notified, got>>

LoadInitialized(w) ==
  /\ pc[w] = "registered"
  /\ state = "Initialized"
  /\ Goto(w, "read")
  /\ UNCHANGED <<state, cell, arg, notified, got>>

Wake(w) ==
  /\ pc[w] = "parked"
  /\ w \in notified
  /\ Goto(w, "read")
  /\ UNCHANGED <<state, cell, arg, notified, got>>

\* assume_init_ref
ReadValue(w) ==
  /\ pc[w] = "read"
  /\ got' = [got EXCEPT ![w] = cell]
  /\ Goto(w, "returned")
  /\ UNCHANGED <<state, cell, arg, notified>>

\* The wait future is dropped at an await; the caller may wait again.
CancelWait(w) ==
  /\ pc[w] = "parked"
  /\ Goto(w, "start")
  /\ UNCHANGED <<state, cell, arg, notified, got>>

SetStep(s) ==
  \/ SetBegin(s) \/ SetRefused(s) \/ WriteFirstHalf(s) \/ WriteSecondHalf(s)
  \/ StoreInitialized(s) \/ NotifyWaiters(s)

WaitStep(w) ==
  Register(w) \/ Park(w) \/ LoadInitialized(w) \/ Wake(w) \/ ReadValue(w)

Next ==
  \/ \E s \in Setter : SetStep(s)
  \/ \E w \in Waiter : WaitStep(w) \/ CancelWait(w)

Spec == Init /\ [][Next]_vars

\* set does not await: a thread that is in it goes on.  A woken task is polled.
FairSpec ==
  /\ Spec
  /\ \A s \in Setter : WF_vars(SetStep(s))
  /\ \A w \in Waiter : WF_vars(WaitStep(w))

-----------------------------------------------------------------------------
(* Properties *)

InSet(s) == pc[s] \in {"write", "writing", "store", "notify", "set"}

\* Every variable keeps its type.
TypeOK ==
  /\ state \in {"Uninitialized", "Initializing", "Initialized"}
  /\ cell \in [val : Value \cup {NoValue}, whole : BOOLEAN]
  /\ pc \in [Setter \cup Waiter -> {"start", "write", "writing", "store", "notify", "set",
                                    "refused", "registered", "parked", "read", "returned"}]
  /\ arg \in [Setter -> Value]
  /\ notified \subseteq Waiter
  /\ got \in [Waiter -> [val : Value \cup {NoValue}, whole : BOOLEAN]]

\* "Only one thread should be able to transition from Uninitialized to
\* Initializing": no two calls of set get past the compare_exchange.
SetOnce == \A s, u \in Setter : InSet(s) /\ InSet(u) => s = u

\* wait never reads uninitialized or half-written memory, and returns the
\* value that the successful call of set was given.
ReadsWhatWasSet ==
  \A w \in Waiter : pc[w] = "returned" =>
    got[w].whole /\ \E s \in Setter : InSet(s) /\ got[w].val = arg[s]

\* "When set is called all waiters will be notified": a waiter that parks just
\* before or while the value is set does not miss the notification.  (A
\* waiter that is forever cancelled and restarted is not waiting.)
WaitersReturn ==
  \A w \in Waiter : (\E s \in Setter : pc[s] = "set") ~> pc[w] = "returned"
=============================================================================
