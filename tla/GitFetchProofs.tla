---------------------------- MODULE GitFetchProofs ----------------------------
(***************************************************************************)
(* What a git source promises, for any number of processes, tasks,         *)
(* commits, crashes and losses of objects, as long as no future is         *)
(* dropped.                                                                *)
(*                                                                         *)
(* The argument: only the task that holds the guard touches the database   *)
(* and the checkouts, so what it has brought about is there at its next    *)
(* step; and a checkout gets its marker when it is whole and is never      *)
(* removed afterwards, not even by a task that dies.                       *)
(***************************************************************************)
EXTENDS GitFetch, TLAPS

Label ==
  {"idle", "lock", "open", "fetch", "populate", "remove", "rename", "copy", "clone", "reset",
   "mark", "insert", "finish"}
Inside == Label \ {"idle", "lock"}
Resolved == {"remove", "rename", "copy", "clone", "reset", "mark", "insert", "finish"}

DbType == [state : {"none", "torn", "valid"}, has : SUBSET Commit, connected : BOOLEAN,
           locked : BOOLEAN]
CheckoutType == [there : BOOLEAN, ok : BOOLEAN, whole : BOOLEAN]

GitType ==
  /\ head \in Commit /\ offered \subseteq Commit
  /\ resolver \in [Process -> 0..MaxCommit] /\ lock \in Task \cup {NoTask}
  /\ db \in DbType /\ checkout \in [Commit -> CheckoutType]
  /\ pc \in [Task -> Label]
  /\ precise \in [Task -> 0..MaxCommit] /\ rev \in [Task -> 0..MaxCommit]
  /\ rebuilt \in [Task -> BOOLEAN] /\ excused \in [Task -> BOOLEAN] /\ needless \in BOOLEAN
  /\ answers \in [Process -> SUBSET Commit]

\* Whoever is at work holds the guard; nobody is adrift.
Guarded == adrift = {} /\ \A t \in Task : pc[t] \in Inside => lock = t

\* What the task at work has achieved so far.
Achieved(t) ==
  /\ pc[t] \in Resolved => rev[t] \in Commit
  /\ pc[t] \in {"copy", "clone", "reset"} => rev[t] \in db.has
  /\ pc[t] = "mark" => checkout[rev[t]].whole
  /\ pc[t] \in {"insert", "finish"} => checkout[rev[t]].ok

\* A marker means that the checkout is whole, and what was returned has one.
MarkedIsWhole == \A c \in Commit : checkout[c].ok => checkout[c].whole
ReturnedIsMarked == \A p \in Process : \A c \in answers[p] : checkout[c].ok

\* A task rebuilds the database after it has got it once, and it then misses
\* nothing, unless it lost objects since.
RebuiltIsGood(t) ==
  /\ pc[t] \in {"idle", "lock", "open", "fetch"} => ~rebuilt[t]
  /\ rebuilt[t] /\ pc[t] \in {"copy", "clone", "reset"} => db.connected \/ excused[t]

IInv ==
  /\ GitType /\ Guarded /\ (\A t \in Task : Achieved(t) /\ RebuiltIsGood(t))
  /\ MarkedIsWhole /\ ReturnedIsMarked /\ NoNeedlessFailure

-----------------------------------------------------------------------------

\* A task belongs to a process.
LEMMA ProcessOfTask == \A t \in Task : ProcessOf(t) \in Process
  BY GitAssumption DEF ProcessOf

\* An empty cache, and a branch with one commit.
LEMMA InitInv == Init => IInv
  <1> SUFFICES ASSUME Init PROVE IInv
    OBVIOUS
  <1> USE GitAssumption DEF Init
  <1>1. 1 \in Commit /\ 0 \in 0..MaxCommit
    BY DEF Commit
  <1>2. GitType
    BY <1>1 DEF GitType, DbType, CheckoutType, NoDb, NoCheckout, Label
  <1>3. Guarded /\ \A t \in Task : Achieved(t) /\ RebuiltIsGood(t)
    BY DEF Guarded, Achieved, RebuiltIsGood, Inside, Resolved
  <1>4. MarkedIsWhole /\ ReturnedIsMarked /\ NoNeedlessFailure
    BY DEF MarkedIsWhole, ReturnedIsMarked, NoNeedlessFailure, NoCheckout
  <1> QED
    BY <1>2, <1>3, <1>4 DEF IInv

\* A step of the task that holds the guard: the others are not at work, and
\* know nothing that it could disturb.
LEMMA HolderStep ==
  ASSUME IInv, NEW t \in Task, pc[t] \in Inside, UNCHANGED <<head, offered>>,
         NEW l \in Label, pc' = [pc EXCEPT ![t] = l],
         lock' = IF l \in Inside THEN lock ELSE NoTask,
         NEW r \in 0..MaxCommit, rev' = [rev EXCEPT ![t] = r],
         NEW q \in 0..MaxCommit, precise' = [precise EXCEPT ![t] = q],
         NEW b \in BOOLEAN, rebuilt' = [rebuilt EXCEPT ![t] = b],
         NEW e \in BOOLEAN, excused' = [excused EXCEPT ![t] = e],
         adrift' = {}, needless' = FALSE, resolver' \in [Process -> 0..MaxCommit],
         answers' \in [Process -> SUBSET Commit],
         db' \in DbType, checkout' \in [Commit -> CheckoutType],
         MarkedIsWhole', ReturnedIsMarked', Achieved(t)', RebuiltIsGood(t)'
  PROVE  IInv'
  <1>1. GitType'
    BY DEF IInv, GitType
  <1>2. lock = t /\ \A u \in Task : u # t => pc[u] \notin Inside
    BY DEF IInv, Guarded
  <1>3. pc'[t] = l /\ \A u \in Task : u # t => pc'[u] = pc[u]
    BY DEF IInv, GitType
  <1>4. Guarded'
    BY <1>2, <1>3 DEF Guarded
  <1>5. \A u \in Task : Achieved(u)'
    BY <1>2, <1>3 DEF Achieved, Inside, Resolved, Label, IInv, GitType
  <1>6. \A u \in Task : RebuiltIsGood(u)'
    BY <1>2, <1>3 DEF RebuiltIsGood, Inside, Label, IInv, GitType
  <1>7. NoNeedlessFailure'
    BY DEF NoNeedlessFailure
  <1> QED
    BY <1>1, <1>4, <1>5, <1>6, <1>7 DEF IInv

\* What a task knows of itself while it holds the guard.
LEMMA OwnFacts ==
  ASSUME IInv, NEW t \in Task
  PROVE  /\ pc[t] \in Label /\ rev[t] \in 0..MaxCommit /\ precise[t] \in 0..MaxCommit
         /\ rebuilt[t] \in BOOLEAN /\ excused[t] \in BOOLEAN /\ needless = FALSE
         /\ adrift = {} /\ Achieved(t) /\ RebuiltIsGood(t)
         /\ db \in DbType /\ checkout \in [Commit -> CheckoutType]
         /\ rev = [rev EXCEPT ![t] = rev[t]] /\ precise = [precise EXCEPT ![t] = precise[t]]
         /\ rebuilt = [rebuilt EXCEPT ![t] = rebuilt[t]]
         /\ excused = [excused EXCEPT ![t] = excused[t]]
         /\ resolver \in [Process -> 0..MaxCommit] /\ answers \in [Process -> SUBSET Commit]
         /\ MarkedIsWhole /\ ReturnedIsMarked
  BY DEF IInv, GitType, Guarded, NoNeedlessFailure

\* An error is returned, for a cause or to a task that is excused.
LEMMA FailStep ==
  ASSUME IInv, NEW t \in Task, pc[t] \in Inside, NEW cause \in BOOLEAN,
         cause \/ excused[t], Fail(t, cause), UNCHANGED <<remote, disk>>
  PROVE  IInv'
  <1>1. /\ pc' = [pc EXCEPT ![t] = "idle"] /\ lock' = IF lock = t THEN NoTask ELSE lock
        /\ precise' = [precise EXCEPT ![t] = 0] /\ rev' = [rev EXCEPT ![t] = 0]
        /\ rebuilt' = [rebuilt EXCEPT ![t] = FALSE] /\ excused' = [excused EXCEPT ![t] = FALSE]
        /\ adrift' = adrift \ {t} /\ UNCHANGED <<resolver, answers, head, offered, db, checkout>>
        /\ needless' = (needless \/ ~(cause \/ excused[t]))
    BY DEF Fail, Go, Unlock, Forget, remote, disk
  <1>2. needless' = FALSE /\ adrift' = {}
    BY <1>1, OwnFacts
  <1>3. lock' = NoTask /\ "idle" \in Label /\ "idle" \notin Inside
    BY <1>1 DEF IInv, Guarded, Label, Inside
  <1>4. pc'[t] = "idle" /\ rebuilt'[t] = FALSE
    BY <1>1 DEF IInv, GitType
  <1>5. Achieved(t)' /\ RebuiltIsGood(t)'
    BY <1>4 DEF Achieved, RebuiltIsGood, Resolved
  <1>6. MarkedIsWhole' /\ ReturnedIsMarked'
    BY <1>1, OwnFacts DEF MarkedIsWhole, ReturnedIsMarked
  <1>7. db' \in DbType /\ checkout' \in [Commit -> CheckoutType]
        /\ resolver' \in [Process -> 0..MaxCommit] /\ answers' \in [Process -> SUBSET Commit]
    BY <1>1, OwnFacts
  <1>8. 0 \in 0..MaxCommit
    BY GitAssumption
  <1> QED
    BY <1>1, <1>2, <1>3, <1>5, <1>6, <1>7, <1>8, HolderStep

\* The holder goes on to another step of its work.
LEMMA ProceedStep ==
  ASSUME IInv, NEW t \in Task, pc[t] \in Inside, NEW l \in Inside, Proceed(t, l),
         UNCHANGED remote,
         NEW r \in 0..MaxCommit, rev' = [rev EXCEPT ![t] = r],
         NEW b \in BOOLEAN, rebuilt' = [rebuilt EXCEPT ![t] = b],
         NEW e \in BOOLEAN, excused' = [excused EXCEPT ![t] = e],
         db' \in DbType, checkout' \in [Commit -> CheckoutType],
         MarkedIsWhole', ReturnedIsMarked', Achieved(t)', RebuiltIsGood(t)'
  PROVE  IInv'
  <1>1. /\ pc' = [pc EXCEPT ![t] = l] /\ UNCHANGED <<head, offered>>
        /\ UNCHANGED <<resolver, lock, precise, adrift, needless, answers>>
    BY DEF Proceed, Go, remote
  <1>2. precise' = [precise EXCEPT ![t] = precise[t]] /\ precise[t] \in 0..MaxCommit
    BY <1>1, OwnFacts
  <1>3. adrift' = {} /\ needless' = FALSE /\ resolver' \in [Process -> 0..MaxCommit]
        /\ answers' \in [Process -> SUBSET Commit] /\ l \in Label
    BY <1>1, OwnFacts DEF Inside
  <1> QED
    BY <1>1, <1>2, <1>3, HolderStep

-----------------------------------------------------------------------------
(* The database *)

\* A commit that the database has is used as it is.
LEMMA OpenDbStep ==
  ASSUME IInv, NEW t \in Task, OpenDb(t)
  PROVE  IInv'
  <1>1. /\ pc[t] = "open" /\ UNCHANGED <<remote, db, checkout, rebuilt, excused>>
        /\ \E l \in {"copy", "fetch", "populate"}, r \in 0..MaxCommit :
             /\ Proceed(t, l) /\ rev' = [rev EXCEPT ![t] = r]
             /\ l = "copy" => r \in db.has
    BY OwnFacts DEF OpenDb, disk
  <1>2. PICK l \in {"copy", "fetch", "populate"}, r \in 0..MaxCommit :
             /\ Proceed(t, l) /\ rev' = [rev EXCEPT ![t] = r]
             /\ l = "copy" => r \in db.has
    BY <1>1
  <1>3. pc[t] \in Inside /\ l \in Inside
    BY <1>1 DEF Inside, Label
  <1>4. pc'[t] = l /\ rev'[t] = r
    BY <1>2 DEF Proceed, Go, IInv, GitType
  <1>5. Achieved(t)'
    BY <1>1, <1>2, <1>4, OwnFacts DEF Achieved, Resolved, DbType
  <1>6. RebuiltIsGood(t)'
    BY <1>1, <1>4, OwnFacts DEF RebuiltIsGood
  <1>7. MarkedIsWhole' /\ ReturnedIsMarked'
    BY <1>1, <1>2, OwnFacts DEF MarkedIsWhole, ReturnedIsMarked, Proceed
  <1> QED
    BY <1>1, <1>2, <1>3, <1>5, <1>6, <1>7, OwnFacts, ProceedStep

\* What is asked for is a commit.
LEMMA WantedIsCommit ==
  ASSUME IInv, NEW t \in Task
  PROVE  Wanted(t) \in Commit /\ Wanted(t) \in 0..MaxCommit
  BY OwnFacts, GitAssumption DEF Wanted, Commit, IInv, GitType

\* git fetch brings the commit, or the database is rebuilt, or the remote or
\* a lock file is to blame.
LEMMA FetchIntoStep ==
  ASSUME IInv, NEW t \in Task, FetchInto(t)
  PROVE  IInv'
  <1>1. pc[t] = "fetch" /\ UNCHANGED <<remote, checkout>> /\ pc[t] \in Inside
    BY DEF FetchInto, Inside, Label
  <1>2. ASSUME db' = [db EXCEPT !.has = @ \cup {Wanted(t)}], rev' = [rev EXCEPT ![t] = Wanted(t)],
               Proceed(t, "copy"), UNCHANGED <<rebuilt, excused>>
        PROVE  IInv'
    <2>1. db' \in DbType /\ Wanted(t) \in db'.has /\ db'.connected = db.connected
      BY <1>2, OwnFacts, WantedIsCommit DEF DbType
    <2>2. pc'[t] = "copy" /\ rev'[t] = Wanted(t)
      BY <1>2 DEF Proceed, Go, IInv, GitType
    <2>3. Achieved(t)'
      BY <2>1, <2>2, WantedIsCommit DEF Achieved
    <2>4. RebuiltIsGood(t)'
      BY <1>1, <1>2, <2>2, OwnFacts DEF RebuiltIsGood
    <2>5. MarkedIsWhole' /\ ReturnedIsMarked'
      BY <1>1, <1>2, OwnFacts DEF MarkedIsWhole, ReturnedIsMarked, Proceed
    <2>6. "copy" \in Inside
      BY DEF Inside, Label
    <2> QED
      BY <1>1, <1>2, <2>1, <2>3, <2>4, <2>5, <2>6, OwnFacts, WantedIsCommit, ProceedStep
  <1>3. ASSUME NEW cause \in BOOLEAN, CannotFetch(t, cause), UNCHANGED db,
               db.connected => cause
        PROVE  IInv'
    <2>1. CASE db.connected
      BY <1>1, <1>3, <2>1, FailStep DEF CannotFetch, disk
    <2>2. CASE ~db.connected
      <3>1. /\ Proceed(t, "populate") /\ UNCHANGED <<rev, rebuilt>>
            /\ excused' = [excused EXCEPT ![t] = excused[t] \/ cause]
        BY <1>3, <2>2 DEF CannotFetch
      <3>2. pc'[t] = "populate"
        BY <3>1 DEF Proceed, Go, IInv, GitType
      <3>3. Achieved(t)' /\ RebuiltIsGood(t)'
        BY <3>2 DEF Achieved, RebuiltIsGood, Resolved
      <3>4. MarkedIsWhole' /\ ReturnedIsMarked'
        BY <1>1, <3>1, OwnFacts DEF MarkedIsWhole, ReturnedIsMarked, Proceed
      <3>5. "populate" \in Inside
        BY DEF Inside, Label
      <3>6. (excused[t] \/ cause) \in BOOLEAN
        OBVIOUS
      <3> QED
        BY <1>1, <1>3, <3>1, <3>3, <3>4, <3>5, <3>6, OwnFacts, ProceedStep
    <2> QED
      BY <2>1, <2>2
  <1>4. db.connected \in BOOLEAN
    BY OwnFacts DEF DbType
  <1> QED
    BY <1>2, <1>3, <1>4 DEF FetchInto

\* A new database is made beside the old one.
LEMMA PopulateStep ==
  ASSUME IInv, NEW t \in Task, Populate(t)
  PROVE  IInv'
  <1>1. pc[t] \in Inside /\ UNCHANGED <<remote, disk, db, checkout>>
    BY DEF Populate, Inside, Label, disk
  <1>2. ASSUME rev' = [rev EXCEPT ![t] = Wanted(t)], Proceed(t, "remove"),
               UNCHANGED <<rebuilt, excused>>
        PROVE  IInv'
    <2>1. pc'[t] = "remove" /\ rev'[t] = Wanted(t)
      BY <1>2 DEF Proceed, Go, IInv, GitType
    <2>2. Achieved(t)' /\ RebuiltIsGood(t)'
      BY <2>1, WantedIsCommit DEF Achieved, RebuiltIsGood
    <2>3. MarkedIsWhole' /\ ReturnedIsMarked'
      BY <1>1, <1>2, OwnFacts DEF MarkedIsWhole, ReturnedIsMarked, Proceed
    <2>4. "remove" \in Inside
      BY DEF Inside, Label
    <2> QED
      BY <1>1, <1>2, <2>2, <2>3, <2>4, OwnFacts, WantedIsCommit, ProceedStep
  <1>3. CASE Fail(t, TRUE)
    BY <1>1, <1>3, FailStep
  <1> QED
    BY <1>2, <1>3 DEF Populate

\* The old database goes.
LEMMA RemoveDbStep ==
  ASSUME IInv, NEW t \in Task, RemoveDb(t)
  PROVE  IInv'
  <1>1. /\ pc[t] = "remove" /\ pc[t] \in Inside /\ Proceed(t, "rename")
        /\ UNCHANGED <<remote, checkout, rev, rebuilt, excused>>
    BY DEF RemoveDb, Inside, Label
  <1>2. db' \in DbType
    BY OwnFacts DEF RemoveDb, DbType, Torn
  <1>3. pc'[t] = "rename" /\ rev[t] \in Commit
    BY <1>1, OwnFacts DEF Proceed, Go, IInv, GitType, Achieved, Resolved
  <1>4. Achieved(t)' /\ RebuiltIsGood(t)'
    BY <1>1, <1>3 DEF Achieved, RebuiltIsGood
  <1>5. MarkedIsWhole' /\ ReturnedIsMarked'
    BY <1>1, OwnFacts DEF MarkedIsWhole, ReturnedIsMarked, Proceed
  <1>6. "rename" \in Inside
    BY DEF Inside, Label
  <1> QED
    BY <1>1, <1>2, <1>4, <1>5, <1>6, OwnFacts, ProceedStep

\* The new database has the commit and misses nothing.
LEMMA RenameDbStep ==
  ASSUME IInv, NEW t \in Task, RenameDb(t)
  PROVE  IInv'
  <1>1. /\ pc[t] = "rename" /\ pc[t] \in Inside /\ Proceed(t, "copy")
        /\ UNCHANGED <<remote, checkout, rev, rebuilt, excused>>
        /\ db' = [state |-> "valid", has |-> {rev[t]}, connected |-> TRUE, locked |-> FALSE]
    BY DEF RenameDb, Inside, Label
  <1>2. pc'[t] = "copy" /\ rev[t] \in Commit
    BY <1>1, OwnFacts DEF Proceed, Go, IInv, GitType, Achieved, Resolved
  <1>3. db' \in DbType /\ db'.connected = TRUE /\ rev[t] \in db'.has
    BY <1>1, <1>2 DEF DbType
  <1>4. Achieved(t)' /\ RebuiltIsGood(t)'
    BY <1>1, <1>2, <1>3 DEF Achieved, RebuiltIsGood
  <1>5. MarkedIsWhole' /\ ReturnedIsMarked'
    BY <1>1, OwnFacts DEF MarkedIsWhole, ReturnedIsMarked, Proceed
  <1>6. "copy" \in Inside
    BY DEF Inside, Label
  <1> QED
    BY <1>1, <1>3, <1>4, <1>5, <1>6, OwnFacts, ProceedStep

-----------------------------------------------------------------------------
(* The checkout *)

\* A checkout that is not marked is removed: nobody has been given it.
LEMMA CopyToStep ==
  ASSUME IInv, NEW t \in Task, CopyTo(t)
  PROVE  IInv'
  <1>1. /\ pc[t] = "copy" /\ pc[t] \in Inside
        /\ UNCHANGED <<remote, db, rev, rebuilt, excused>>
    BY DEF CopyTo, Inside, Label
  <1>2. rev[t] \in Commit /\ rev[t] \in db.has
    BY <1>1, OwnFacts DEF Achieved, Resolved
  <1>3. CASE checkout[rev[t]].ok
    <2>1. Proceed(t, "insert") /\ UNCHANGED checkout
      BY <1>3 DEF CopyTo, IsFresh
    <2>2. pc'[t] = "insert"
      BY <2>1 DEF Proceed, Go, IInv, GitType
    <2>3. Achieved(t)' /\ RebuiltIsGood(t)'
      BY <1>1, <1>2, <1>3, <2>1, <2>2 DEF Achieved, RebuiltIsGood
    <2>4. MarkedIsWhole' /\ ReturnedIsMarked'
      BY <2>1, OwnFacts DEF MarkedIsWhole, ReturnedIsMarked, Proceed
    <2>5. "insert" \in Inside
      BY DEF Inside, Label
    <2> QED
      BY <1>1, <2>1, <2>3, <2>4, <2>5, OwnFacts, ProceedStep
  <1>4. CASE ~checkout[rev[t]].ok
    <2>1. Proceed(t, "clone") /\ checkout' = [checkout EXCEPT ![rev[t]] = NoCheckout]
      BY <1>4 DEF CopyTo, IsFresh
    <2>2. pc'[t] = "clone"
      BY <2>1 DEF Proceed, Go, IInv, GitType
    <2>3. checkout' \in [Commit -> CheckoutType]
      BY <1>2, <2>1, OwnFacts DEF CheckoutType, NoCheckout
    <2>4. Achieved(t)' /\ RebuiltIsGood(t)'
      BY <1>1, <1>2, <2>2, OwnFacts DEF Achieved, RebuiltIsGood
    <2>5. MarkedIsWhole'
      BY <1>2, <2>1, OwnFacts DEF MarkedIsWhole, NoCheckout, CheckoutType
    <2>6. ReturnedIsMarked'
      BY <1>2, <1>4, <2>1, OwnFacts DEF ReturnedIsMarked, NoCheckout, CheckoutType, Proceed
    <2>7. "clone" \in Inside
      BY DEF Inside, Label
    <2> QED
      BY <1>1, <2>1, <2>3, <2>4, <2>5, <2>6, <2>7, OwnFacts, ProceedStep
  <1> QED
    BY <1>3, <1>4

\* A checkout fails: the database is rebuilt once.
LEMMA CannotCopyStep ==
  ASSUME IInv, NEW t \in Task, pc[t] \in Inside, NEW cause \in BOOLEAN, CannotCopy(t, cause),
         db.connected \/ rebuilt[t] => cause \/ excused[t],
         UNCHANGED <<remote, db, checkout>>
  PROVE  IInv'
  <1>1. CASE db.connected \/ rebuilt[t]
    BY <1>1, FailStep DEF CannotCopy, disk
  <1>2. CASE ~(db.connected \/ rebuilt[t])
    <2>1. /\ Proceed(t, "populate") /\ rebuilt' = [rebuilt EXCEPT ![t] = TRUE] /\ UNCHANGED rev
          /\ excused' = [excused EXCEPT ![t] = excused[t] \/ cause]
      BY <1>2 DEF CannotCopy
    <2>2. pc'[t] = "populate"
      BY <2>1 DEF Proceed, Go, IInv, GitType
    <2>3. Achieved(t)' /\ RebuiltIsGood(t)'
      BY <2>2 DEF Achieved, RebuiltIsGood, Resolved
    <2>4. MarkedIsWhole' /\ ReturnedIsMarked'
      BY <2>1, OwnFacts DEF MarkedIsWhole, ReturnedIsMarked, Proceed
    <2>5. "populate" \in Inside /\ (excused[t] \/ cause) \in BOOLEAN
      BY DEF Inside, Label
    <2> QED
      BY <2>1, <2>3, <2>4, <2>5, OwnFacts, ProceedStep
  <1> QED
    BY <1>1, <1>2

\* A change of one field of a checkout leaves the others as they are.
LEMMA CheckoutFields ==
  ASSUME NEW c \in CheckoutType
  PROVE  /\ [c EXCEPT !.there = TRUE] \in CheckoutType /\ [c EXCEPT !.whole = TRUE] \in CheckoutType
         /\ [c EXCEPT !.ok = TRUE] \in CheckoutType
         /\ [c EXCEPT !.there = TRUE].ok = c.ok /\ [c EXCEPT !.there = TRUE].whole = c.whole
         /\ [c EXCEPT !.whole = TRUE].ok = c.ok /\ [c EXCEPT !.whole = TRUE].whole = TRUE
         /\ [c EXCEPT !.ok = TRUE].ok = TRUE /\ [c EXCEPT !.ok = TRUE].whole = c.whole
  BY DEF CheckoutType

\* A change of one checkout leaves the others as they are.
LEMMA OtherCheckouts ==
  ASSUME IInv, NEW c \in Commit, NEW k \in CheckoutType, checkout' = [checkout EXCEPT ![c] = k]
  PROVE  /\ checkout' \in [Commit -> CheckoutType] /\ checkout'[c] = k
         /\ \A d \in Commit : d # c => checkout'[d] = checkout[d]
  BY DEF IInv, GitType

\* A clone fails only when objects are missing, as the commit itself is there.
LEMMA CloneIntoStep ==
  ASSUME IInv, NEW t \in Task, CloneInto(t)
  PROVE  IInv'
  <1>1. pc[t] = "clone" /\ pc[t] \in Inside /\ UNCHANGED <<remote, db>>
    BY DEF CloneInto, Inside, Label
  <1>2. rev[t] \in Commit /\ rev[t] \in db.has
    BY <1>1, OwnFacts DEF Achieved, Resolved
  <1>3. CASE db.connected
    <2>1. /\ checkout' = [checkout EXCEPT ![rev[t]].there = TRUE] /\ Proceed(t, "reset")
          /\ UNCHANGED <<rev, rebuilt, excused>>
      BY <1>2, <1>3 DEF CloneInto
    <2>2. pc'[t] = "reset"
      BY <2>1 DEF Proceed, Go, IInv, GitType
    <2>3. /\ checkout' \in [Commit -> CheckoutType]
          /\ \A c \in Commit : /\ checkout'[c].ok = checkout[c].ok
                               /\ checkout'[c].whole = checkout[c].whole
      <3>1. checkout[rev[t]] \in CheckoutType
        BY <1>2, <2>1, OwnFacts
      <3>2. PICK k : k = [checkout[rev[t]] EXCEPT !.there = TRUE]
        OBVIOUS
      <3>3. k \in CheckoutType /\ k.ok = checkout[rev[t]].ok /\ k.whole = checkout[rev[t]].whole
        BY <3>1, <3>2, CheckoutFields
      <3>4. checkout' = [checkout EXCEPT ![rev[t]] = k]
        BY <2>1, <3>2
      <3> QED
        BY <1>2, <3>3, <3>4, OtherCheckouts
    <2>4. Achieved(t)' /\ RebuiltIsGood(t)'
      BY <1>1, <1>2, <1>3, <2>1, <2>2 DEF Achieved, RebuiltIsGood
    <2>5. MarkedIsWhole' /\ ReturnedIsMarked'
      BY <2>1, <2>3, OwnFacts DEF MarkedIsWhole, ReturnedIsMarked, Proceed
    <2>6. "reset" \in Inside
      BY DEF Inside, Label
    <2> QED
      BY <1>1, <2>1, <2>3, <2>4, <2>5, <2>6, OwnFacts, ProceedStep
  <1>4. CASE ~db.connected
    <2>1. CannotCopy(t, FALSE) /\ UNCHANGED checkout
      BY <1>4 DEF CloneInto
    <2>2. rebuilt[t] => excused[t]
      BY <1>1, <1>4, OwnFacts DEF RebuiltIsGood
    <2> QED
      BY <1>1, <1>4, <2>1, <2>2, CannotCopyStep
  <1> QED
    BY <1>3, <1>4

\* The files are written.
LEMMA ResetStep ==
  ASSUME IInv, NEW t \in Task, Reset(t)
  PROVE  IInv'
  <1>1. pc[t] = "reset" /\ pc[t] \in Inside /\ UNCHANGED <<remote, db>>
    BY DEF Reset, Inside, Label
  <1>2. rev[t] \in Commit
    BY <1>1, OwnFacts DEF Achieved, Resolved
  <1>3. ASSUME checkout' = [checkout EXCEPT ![rev[t]].whole = TRUE], Proceed(t, "mark"),
               UNCHANGED <<rev, rebuilt, excused>>
        PROVE  IInv'
    <2>1. pc'[t] = "mark"
      BY <1>3 DEF Proceed, Go, IInv, GitType
    <2>2. /\ checkout' \in [Commit -> CheckoutType] /\ checkout'[rev[t]].whole
          /\ \A c \in Commit : /\ checkout'[c].ok = checkout[c].ok
                               /\ checkout[c].whole => checkout'[c].whole
      <3>1. checkout[rev[t]] \in CheckoutType
        BY <1>2, <1>3, OwnFacts
      <3>2. PICK k : k = [checkout[rev[t]] EXCEPT !.whole = TRUE]
        OBVIOUS
      <3>3. k \in CheckoutType /\ k.ok = checkout[rev[t]].ok /\ k.whole
        BY <3>1, <3>2, CheckoutFields
      <3>4. checkout' = [checkout EXCEPT ![rev[t]] = k]
        BY <1>3, <3>2
      <3> QED
        BY <1>2, <3>3, <3>4, OtherCheckouts
    <2>3. Achieved(t)' /\ RebuiltIsGood(t)'
      BY <1>2, <1>3, <2>1, <2>2 DEF Achieved, RebuiltIsGood
    <2>4. MarkedIsWhole' /\ ReturnedIsMarked'
      BY <1>3, <2>2, OwnFacts DEF MarkedIsWhole, ReturnedIsMarked, Proceed
    <2>5. "mark" \in Inside
      BY DEF Inside, Label
    <2> QED
      BY <1>1, <1>3, <2>2, <2>3, <2>4, <2>5, OwnFacts, ProceedStep
  <1>4. CASE CannotCopy(t, TRUE) /\ UNCHANGED checkout
    BY <1>1, <1>4, CannotCopyStep
  <1> QED
    BY <1>3, <1>4 DEF Reset

\* A whole checkout is marked.
LEMMA MarkReadyStep ==
  ASSUME IInv, NEW t \in Task, MarkReady(t)
  PROVE  IInv'
  <1>1. /\ pc[t] = "mark" /\ pc[t] \in Inside /\ Proceed(t, "insert")
        /\ UNCHANGED <<remote, db, rev, rebuilt, excused>>
        /\ checkout' = [checkout EXCEPT ![rev[t]].ok = TRUE]
    BY DEF MarkReady, Inside, Label
  <1>2. rev[t] \in Commit /\ checkout[rev[t]].whole
    BY <1>1, OwnFacts DEF Achieved, Resolved
  <1>3. pc'[t] = "insert"
    BY <1>1 DEF Proceed, Go, IInv, GitType
  <1>4. /\ checkout' \in [Commit -> CheckoutType] /\ checkout'[rev[t]].ok
        /\ \A c \in Commit : /\ checkout'[c].whole = checkout[c].whole
                             /\ checkout'[c].ok => checkout[c].ok \/ c = rev[t]
                             /\ checkout[c].ok => checkout'[c].ok
    <2>1. checkout[rev[t]] \in CheckoutType
      BY <1>1, <1>2, OwnFacts
    <2>2. checkout' = [checkout EXCEPT ![rev[t]] = [checkout[rev[t]] EXCEPT !.ok = TRUE]]
      BY <1>1, <1>2
    <2> QED
      BY <1>1, <1>2, <2>1, <2>2, CheckoutFields, OtherCheckouts
  <1>5. Achieved(t)' /\ RebuiltIsGood(t)'
    BY <1>1, <1>2, <1>3, <1>4 DEF Achieved, RebuiltIsGood
  <1>6. MarkedIsWhole' /\ ReturnedIsMarked'
    BY <1>1, <1>2, <1>4, OwnFacts DEF MarkedIsWhole, ReturnedIsMarked, Proceed
  <1>7. "insert" \in Inside
    BY DEF Inside, Label
  <1> QED
    BY <1>1, <1>4, <1>5, <1>6, <1>7, OwnFacts, ProceedStep

-----------------------------------------------------------------------------
(* The rest of fetch, and the world *)

\* The commit is remembered for the process.
LEMMA InsertStep ==
  ASSUME IInv, NEW t \in Task, Insert(t)
  PROVE  IInv'
  <1>1. /\ pc[t] = "insert" /\ pc[t] \in Inside /\ pc' = [pc EXCEPT ![t] = "finish"]
        /\ resolver' = [resolver EXCEPT ![ProcessOf(t)] = rev[t]]
        /\ UNCHANGED <<head, offered, lock, db, checkout, precise, rev, rebuilt, adrift, excused,
                       needless, answers>>
    BY OwnFacts DEF Insert, Go, Inside, Label, remote, disk
  <1>2. resolver' \in [Process -> 0..MaxCommit]
    BY <1>1, OwnFacts, ProcessOfTask
  <1>3. pc'[t] = "finish"
    BY <1>1 DEF IInv, GitType
  <1>4. Achieved(t)' /\ RebuiltIsGood(t)'
    BY <1>1, <1>3, OwnFacts DEF Achieved, RebuiltIsGood, Resolved
  <1>5. MarkedIsWhole' /\ ReturnedIsMarked'
    BY <1>1, OwnFacts DEF MarkedIsWhole, ReturnedIsMarked
  <1>6. "finish" \in Inside /\ "finish" \in Label
    BY DEF Inside, Label
  <1> QED
    BY <1>1, <1>2, <1>4, <1>5, <1>6, OwnFacts, HolderStep

\* What is returned is marked.
LEMMA FinishStep ==
  ASSUME IInv, NEW t \in Task, Finish(t)
  PROVE  IInv'
  <1>1. /\ pc[t] = "finish" /\ pc[t] \in Inside /\ pc' = [pc EXCEPT ![t] = "idle"]
        /\ answers' = [answers EXCEPT ![ProcessOf(t)] = answers[ProcessOf(t)] \cup {rev[t]}]
        /\ lock' = IF lock = t THEN NoTask ELSE lock
        /\ precise' = [precise EXCEPT ![t] = 0] /\ rev' = [rev EXCEPT ![t] = 0]
        /\ rebuilt' = [rebuilt EXCEPT ![t] = FALSE] /\ excused' = [excused EXCEPT ![t] = FALSE]
        /\ adrift' = {} /\ UNCHANGED <<resolver, head, offered, db, checkout, needless>>
    BY OwnFacts DEF Finish, Go, Unlock, Forget, remote, disk, Inside, Label
  <1>2. rev[t] \in Commit /\ checkout[rev[t]].ok
    BY <1>1, OwnFacts DEF Achieved, Resolved
  <1>3. answers' \in [Process -> SUBSET Commit]
    BY <1>1, <1>2, OwnFacts, ProcessOfTask
  <1>4. MarkedIsWhole' /\ ReturnedIsMarked'
    BY <1>1, <1>2, OwnFacts, ProcessOfTask DEF MarkedIsWhole, ReturnedIsMarked
  <1>5. pc'[t] = "idle" /\ rebuilt'[t] = FALSE
    BY <1>1 DEF IInv, GitType
  <1>6. Achieved(t)' /\ RebuiltIsGood(t)'
    BY <1>5 DEF Achieved, RebuiltIsGood, Resolved
  <1>7. lock' = NoTask /\ "idle" \in Label /\ "idle" \notin Inside
    BY <1>1 DEF IInv, Guarded, Label, Inside
  <1>8. 0 \in 0..MaxCommit
    BY GitAssumption
  <1> QED
    BY <1>1, <1>3, <1>4, <1>6, <1>7, <1>8, OwnFacts, HolderStep

\* A task that begins, or gets the guard.
LEMMA BeginStep ==
  ASSUME IInv, NEW t \in Task, Fetch(t) \/ Lock(t)
  PROVE  IInv'
  <1>1. PICK l \in {"lock", "open"} :
          /\ pc' = [pc EXCEPT ![t] = l] /\ pc[t] \in {"idle", "lock"}
          /\ l = "open" => lock = NoTask /\ lock' = t
          /\ l = "lock" => lock' = lock
    BY DEF Fetch, Lock, Go
  <1>2. /\ UNCHANGED <<head, offered, resolver, db, checkout, rev, rebuilt, adrift, excused,
                       needless, answers>>
        /\ precise' \in [Task -> 0..MaxCommit]
    BY ProcessOfTask DEF Fetch, Lock, remote, disk, IInv, GitType
  <1>3. GitType'
    BY <1>1, <1>2 DEF IInv, GitType, Label
  <1>4. /\ pc'[t] = l /\ \A u \in Task : u # t => pc'[u] = pc[u]
    BY <1>1 DEF IInv, GitType
  <1>5. Guarded'
    BY <1>1, <1>2, <1>4, GitAssumption DEF IInv, Guarded, Inside, Label
  <1>6. ASSUME NEW u \in Task PROVE Achieved(u)' /\ RebuiltIsGood(u)'
    <2>1. Achieved(u) /\ RebuiltIsGood(u) /\ RebuiltIsGood(t)
      BY DEF IInv
    <2>2. CASE u = t
      BY <1>1, <1>2, <1>4, <2>1, <2>2 DEF Achieved, RebuiltIsGood, Resolved
    <2>3. CASE u # t
      BY <1>2, <1>4, <2>1, <2>3 DEF Achieved, RebuiltIsGood
    <2> QED
      BY <2>2, <2>3
  <1>7. MarkedIsWhole' /\ ReturnedIsMarked' /\ NoNeedlessFailure'
    BY <1>2 DEF IInv, MarkedIsWhole, ReturnedIsMarked, NoNeedlessFailure
  <1> QED
    BY <1>3, <1>5, <1>6, <1>7 DEF IInv

\* The branch moves.
LEMMA PushStep ==
  ASSUME IInv, NEW force \in BOOLEAN, Push(force)
  PROVE  IInv'
  <1>1. UNCHANGED <<resolver, lock, db, checkout, pc, precise, rev, rebuilt, adrift, excused,
                    needless, answers>>
    BY DEF Push, disk
  <1>2. head' \in Commit /\ offered' \subseteq Commit
    BY GitAssumption DEF Push, IInv, GitType, Commit
  <1>3. GitType'
    BY <1>1, <1>2 DEF IInv, GitType
  <1>4. Guarded' /\ MarkedIsWhole' /\ ReturnedIsMarked' /\ NoNeedlessFailure'
    BY <1>1 DEF IInv, Guarded, MarkedIsWhole, ReturnedIsMarked, NoNeedlessFailure
  <1>5. \A t \in Task : Achieved(t)' /\ RebuiltIsGood(t)'
    BY <1>1 DEF IInv, Achieved, RebuiltIsGood
  <1> QED
    BY <1>3, <1>4, <1>5 DEF IInv

\* Whoever has rebuilt the database is excused.
LEMMA LoseObjectsStep ==
  ASSUME IInv, LoseObjects
  PROVE  IInv'
  <1>1. /\ UNCHANGED <<head, offered, resolver, lock, checkout, pc, precise, rev, rebuilt, adrift,
                       needless, answers>>
        /\ db' = [db EXCEPT !.connected = FALSE]
        /\ excused' = [t \in Task |-> excused[t] \/ rebuilt[t]]
    BY DEF LoseObjects, remote
  <1>2. db' \in DbType /\ db'.has = db.has
    BY <1>1 DEF IInv, GitType, DbType
  <1>3. excused' \in [Task -> BOOLEAN] /\ \A t \in Task : excused'[t] = (excused[t] \/ rebuilt[t])
    BY <1>1
  <1>4. GitType'
    BY <1>1, <1>2, <1>3 DEF IInv, GitType
  <1>5. Guarded' /\ MarkedIsWhole' /\ ReturnedIsMarked' /\ NoNeedlessFailure'
    BY <1>1 DEF IInv, Guarded, MarkedIsWhole, ReturnedIsMarked, NoNeedlessFailure
  <1>6. \A t \in Task : Achieved(t)'
    BY <1>1, <1>2 DEF IInv, Achieved
  <1>7. \A t \in Task : RebuiltIsGood(t)'
    BY <1>1, <1>3 DEF IInv, RebuiltIsGood
  <1> QED
    BY <1>4, <1>5, <1>6, <1>7 DEF IInv

\* A git that is killed takes nothing from the database.
LEMMA KilledGit ==
  ASSUME IInv, NEW t \in Task, KillGit(t)
  PROVE  db' \in DbType /\ db.has \subseteq db'.has /\ db'.connected = db.connected
  <1>1. PICK got \in SUBSET {Wanted(t)} : db' = [db EXCEPT !.has = @ \cup got, !.locked = TRUE]
    BY DEF KillGit
  <1>2. got \subseteq Commit /\ db \in DbType
    BY WantedIsCommit, OwnFacts
  <1> QED
    BY <1>1, <1>2 DEF DbType

\* What the tasks of a process knew dies with it, and the guard is free.
LEMMA CrashStep ==
  ASSUME IInv, NEW p \in Process, Crash(p)
  PROVE  IInv'
  <1> DEFINE ts == TasksOf[p]
  <1>0. db' \in DbType /\ db.has \subseteq db'.has /\ db'.connected = db.connected
    <2>1. db \in DbType /\ TasksOf[p] \subseteq Task
      BY GitAssumption DEF IInv, GitType
    <2> QED
      BY <2>1, KilledGit DEF Crash
  <1>1. /\ UNCHANGED <<head, offered, checkout, needless>>
        /\ pc' = [t \in Task |-> IF t \in ts THEN "idle" ELSE pc[t]]
        /\ lock' = IF lock \in ts THEN NoTask ELSE lock
        /\ precise' = [t \in Task |-> IF t \in ts THEN 0 ELSE precise[t]]
        /\ rev' = [t \in Task |-> IF t \in ts THEN 0 ELSE rev[t]]
        /\ rebuilt' = [t \in Task |-> t \notin ts /\ rebuilt[t]]
        /\ excused' = [t \in Task |-> t \notin ts /\ excused[t]]
        /\ adrift' = adrift \ ts
        /\ resolver' = [resolver EXCEPT ![p] = 0] /\ answers' = [answers EXCEPT ![p] = {}]
    BY DEF Crash, remote, disk
  <1> HIDE DEF ts
  <1>2. "idle" \in Label /\ 0 \in 0..MaxCommit
    BY GitAssumption DEF Label
  <1>3. head' \in Commit /\ offered' \subseteq Commit /\ lock' \in Task \cup {NoTask}
        /\ db' \in DbType /\ checkout' \in [Commit -> CheckoutType] /\ needless' \in BOOLEAN
    BY <1>0, <1>1 DEF IInv, GitType
  <1>4. /\ pc' \in [Task -> Label]
        /\ precise' \in [Task -> 0..MaxCommit] /\ rev' \in [Task -> 0..MaxCommit]
    BY <1>1, <1>2 DEF IInv, GitType
  <1>5. rebuilt' \in [Task -> BOOLEAN] /\ excused' \in [Task -> BOOLEAN]
    BY <1>1
  <1>6. resolver' \in [Process -> 0..MaxCommit] /\ answers' \in [Process -> SUBSET Commit]
    BY <1>1, <1>2 DEF IInv, GitType
  <1>7. GitType'
    BY <1>3, <1>4, <1>5, <1>6 DEF GitType
  <1>8. Guarded'
    BY <1>1 DEF IInv, Guarded, Inside
  <1>9. MarkedIsWhole' /\ ReturnedIsMarked' /\ NoNeedlessFailure'
    BY <1>1 DEF IInv, GitType, MarkedIsWhole, ReturnedIsMarked, NoNeedlessFailure
  <1>10. ASSUME NEW t \in Task PROVE Achieved(t)' /\ RebuiltIsGood(t)'
    <2>1. Achieved(t) /\ RebuiltIsGood(t)
      BY DEF IInv
    <2>2. CASE t \in ts
      <3>1. pc'[t] = "idle" /\ rebuilt'[t] = FALSE
        BY <1>1, <2>2
      <3> QED
        BY <3>1 DEF Achieved, RebuiltIsGood, Resolved
    <2>3. CASE t \notin ts
      <3>1. /\ pc'[t] = pc[t] /\ rev'[t] = rev[t]
            /\ (rebuilt'[t] <=> rebuilt[t]) /\ (excused'[t] <=> excused[t])
        BY <1>1, <2>3
      <3> QED
        BY <1>0, <1>1, <2>1, <3>1 DEF Achieved, RebuiltIsGood
    <2> QED
      BY <2>2, <2>3
  <1> QED
    BY <1>7, <1>8, <1>9, <1>10 DEF IInv

\* Nothing happens.
LEMMA StutterStep ==
  ASSUME IInv, UNCHANGED vars
  PROVE  IInv'
  <1> USE DEF vars, remote, disk
  <1>1. GitType' /\ Guarded'
    BY DEF IInv, GitType, Guarded
  <1>2. MarkedIsWhole' /\ ReturnedIsMarked' /\ NoNeedlessFailure'
    BY DEF IInv, MarkedIsWhole, ReturnedIsMarked, NoNeedlessFailure
  <1>3. \A t \in Task : Achieved(t)' /\ RebuiltIsGood(t)'
    BY DEF IInv, Achieved, RebuiltIsGood
  <1> QED
    BY <1>1, <1>2, <1>3 DEF IInv

-----------------------------------------------------------------------------

\* Every step keeps the invariant.
LEMMA NextInv == IInv /\ [Next]_vars => IInv'
  <1> SUFFICES ASSUME IInv, [Next]_vars PROVE IInv'
    OBVIOUS
  <1>1. ASSUME NEW t \in Task, Step(t) PROVE IInv'
    BY <1>1, BeginStep, OpenDbStep, FetchIntoStep, PopulateStep, RemoveDbStep, RenameDbStep,
       CopyToStep, CloneIntoStep, ResetStep, MarkReadyStep, InsertStep, FinishStep DEF Step
  <1>2. ASSUME NEW t \in Task, Fetch(t) PROVE IInv'
    BY <1>2, BeginStep
  <1> QED
    BY <1>1, <1>2, PushStep, LoseObjectsStep, CrashStep, StutterStep DEF Next

\* The inductive invariant holds in every state that can be reached.
THEOREM GitInvariant == Spec => []IInv
  BY InitInv, NextInv, PTL DEF Spec

\* Every variable keeps its type, whatever dies, moves and is lost.
THEOREM GitTypeCorrect == Spec => []TypeOK
  <1>1. IInv => TypeOK
    BY DEF IInv, GitType, DbType, CheckoutType, TypeOK
  <1> QED
    BY <1>1, GitInvariant, PTL

\* A checkout that fetch has returned is whole, and no later fetch, failure or
\* death of a process changes that: only unmarked checkouts are removed, and
\* the marker is the last thing that is written.
THEOREM ReturnedStaysWhole == Spec => []ReturnedIsWhole
  <1>1. IInv => ReturnedIsWhole
    BY DEF IInv, GitType, MarkedIsWhole, ReturnedIsMarked, ReturnedIsWhole
  <1> QED
    BY <1>1, GitInvariant, PTL

\* Whatever a dead process or lost objects have left behind, fetch repairs it,
\* but for the lock files of a git that was killed: it fails only when the
\* remote does, on such a lock file in a database that misses nothing, or when
\* objects are lost once more after it has rebuilt the database.
THEOREM FetchRepairs == Spec => []NoNeedlessFailure
  <1>1. IInv => NoNeedlessFailure
    BY DEF IInv
  <1> QED
    BY <1>1, GitInvariant, PTL
=============================================================================
