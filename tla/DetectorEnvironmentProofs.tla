--------------------- MODULE DetectorEnvironmentProofs ---------------------
(***************************************************************************)
(* For any number of tasks, processes and packages, with failures, dropped *)
(* futures and crashes at any point: the guard says Ready only of a linked *)
(* environment, which then stays as it is while it is used, but for what   *)
(* link jobs of abandoned installations do to it.                          *)
(***************************************************************************)
EXTENDS DetectorEnvironment, TLAPS

-----------------------------------------------------------------------------
(* The inductive invariant *)

\* Where a task, or the thread it left behind, has the locked file.
Holding == {"reading", "open", "beginning", "finishing", "truncating"}

HoldsLock == \A t \in Task : op[t] \in Holding <=> lock = t

\* Only the holder of the lock writes, so what it has read is still true.
SeenIsFile == \A t \in Task : op[t] \in {"open", "beginning"} => seen[t] = Parsed(file)

\* What a thread is about to write is right, whether or not anyone waits.
ThreadsAreRight ==
  \A t \in Task :
    /\ op[t] = "beginning" => file # "Ready"
    /\ op[t] = "finishing" => file = "Installing" /\ AllLinked
    /\ op[t] = "truncating" => file = "torn" /\ AllLinked

\* What is to do is what has no record, but for records that jobs left behind
\* have written since.
ListIsRight(t) == Pkg \ recorded \subseteq todo[t] /\ todo[t] \cap recorded \subseteq strayed

CallIsRight(t) ==
  /\ pc[t] = "idle" => op[t] = "none" \/ t \in dropped
  /\ pc[t] # "idle" => t \notin dropped
  /\ pc[t] = "waiting" => op[t] \in {"locking", "reading", "open"}
  /\ pc[t] = "begun" => op[t] = "beginning" \/ (op[t] = "open" /\ file = "Installing")
  /\ pc[t] = "installing" => op[t] = "open" /\ file = "Installing" /\ ListIsRight(t)
  /\ pc[t] = "installed" => op[t] = "open" /\ file = "Installing" /\ AllLinked
  /\ pc[t] = "finishing" => \/ op[t] \in {"finishing", "truncating"}
                            \/ op[t] = "none" /\ file = "Ready"
  /\ pc[t] = "using" => op[t] = "none" /\ file = "Ready"

CallsAreRight == \A t \in Task : CallIsRight(t)

\* A record is written when the files are there, and only packages without a
\* record are linked, but by the jobs left behind.
RecordedIsWhole == recorded \ strayed \subseteq whole

\* The history knows of every job left behind.
StrayKnown == \A r \in Proc, p \in Pkg : stray[r][p] > 0 => p \in strayed

IInv ==
  /\ TypeOK /\ HoldsLock /\ SeenIsFile /\ ThreadsAreRight /\ CallsAreRight
  /\ RecordedIsWhole /\ ReadyIsInstalled /\ StrayKnown

-----------------------------------------------------------------------------
(* Every step preserves it.  One lemma per action. *)

\* A call that starts only waits for the lock: it holds no file yet.
LEMMA EnsureEnvironmentStep ==
  ASSUME IInv, NEW t \in Task, EnsureEnvironment(t)
  PROVE IInv'
  <1>1. TypeOK'
    BY DEF IInv, TypeOK, GuardTypeOK, Blocking, Op, EnsureEnvironment, Write, prefixVars
  <1>2. HoldsLock'
    BY DEF IInv, HoldsLock, Holding, EnsureEnvironment, Write
  <1>3. SeenIsFile'
    BY DEF IInv, SeenIsFile, EnsureEnvironment, Write
  <1>4. ThreadsAreRight'
    BY DEF IInv, ThreadsAreRight, AllLinked, EnsureEnvironment, Write, prefixVars
  <1>5. CallsAreRight'
    BY DEF IInv, CallsAreRight, CallIsRight, ListIsRight, AllLinked, TypeOK, GuardTypeOK,
       Blocking, EnsureEnvironment, Write, prefixVars
  <1>6. RecordedIsWhole' /\ ReadyIsInstalled' /\ StrayKnown'
    BY DEF IInv, RecordedIsWhole, ReadyIsInstalled, StrayKnown, AllLinked,
       EnsureEnvironment, Write, prefixVars
  <1> QED BY <1>1, <1>2, <1>3, <1>4, <1>5, <1>6 DEF IInv

\* The lock is taken only when no file holds it, and what is read under it
\* stays true until it is released; a thread nobody waits for lets it go.
LEMMA GuardThreadStep ==
  ASSUME IInv, NEW t \in Task, GuardThread(t)
  PROVE IInv'
  <1>1. TypeOK'
    BY DEF IInv, Parsed, TypeOK, GuardTypeOK, GuardState, Blocking, Op, GuardThread,
       LockExclusive, ReadState, HandBack, Release, prefixVars, callVars
  <1>2. HoldsLock'
    BY TaskAssumption DEF IInv, HoldsLock, Holding, TypeOK, GuardTypeOK, GuardThread,
       LockExclusive, ReadState, HandBack, Release
  <1>3. SeenIsFile'
    BY DEF IInv, SeenIsFile, TypeOK, GuardTypeOK, GuardThread, LockExclusive, ReadState,
       HandBack, Release
  <1>4. ThreadsAreRight'
    BY DEF IInv, ThreadsAreRight, AllLinked, TypeOK, GuardTypeOK, GuardThread,
       LockExclusive, ReadState, HandBack, Release, prefixVars
  <1>5. CallsAreRight'
    BY DEF IInv, CallsAreRight, CallIsRight, ListIsRight, AllLinked, TypeOK, GuardTypeOK,
       GuardThread, LockExclusive, ReadState, HandBack, Release, prefixVars, callVars
  <1>6. RecordedIsWhole' /\ ReadyIsInstalled' /\ StrayKnown'
    BY DEF IInv, RecordedIsWhole, ReadyIsInstalled, StrayKnown, AllLinked, GuardThread,
       LockExclusive, ReadState, prefixVars
  <1> QED BY <1>1, <1>2, <1>3, <1>4, <1>5, <1>6 DEF IInv

\* A call that has read Ready under the lock goes on without the guard: the
\* file says Ready when it starts to use the environment.
LEMMA ReuseStep ==
  ASSUME IInv, NEW t \in Task, Reuse(t)
  PROVE IInv'
  <1>1. TypeOK'
    BY DEF IInv, TypeOK, GuardTypeOK, Op, Reuse, DropGuard, Release, Goto, prefixVars
  <1>2. HoldsLock'
    BY TaskAssumption DEF IInv, HoldsLock, Holding, TypeOK, GuardTypeOK, Reuse,
       DropGuard, Release
  <1>3. SeenIsFile'
    BY DEF IInv, SeenIsFile, Reuse, DropGuard, Release
  <1>4. ThreadsAreRight'
    BY DEF IInv, ThreadsAreRight, AllLinked, Reuse, DropGuard, Release, prefixVars
  <1>5. CallsAreRight'
    BY DEF IInv, CallsAreRight, CallIsRight, ListIsRight, SeenIsFile, Parsed, TypeOK,
       GuardTypeOK, Reuse, IsReady, DropGuard, Release, Goto
  <1>6. RecordedIsWhole' /\ ReadyIsInstalled' /\ StrayKnown'
    BY DEF IInv, RecordedIsWhole, ReadyIsInstalled, StrayKnown, AllLinked, Reuse, DropGuard,
       prefixVars
  <1> QED BY <1>1, <1>2, <1>3, <1>4, <1>5, <1>6 DEF IInv

\* begin is asked for only when the file does not say Ready; without a write
\* if it says Installing already.
LEMMA StartBeginStep ==
  ASSUME IInv, NEW t \in Task, StartBegin(t)
  PROVE IInv'
  <1>1. TypeOK'
    BY DEF IInv, TypeOK, GuardTypeOK, Blocking, Op, StartBegin, Begin, Goto, prefixVars
  <1>2. HoldsLock'
    BY DEF IInv, HoldsLock, Holding, StartBegin, Begin
  <1>3. SeenIsFile'
    BY DEF IInv, SeenIsFile, StartBegin, Begin
  <1>4. ThreadsAreRight'
    BY DEF IInv, ThreadsAreRight, SeenIsFile, Parsed, AllLinked, StartBegin, IsReady,
       Begin, prefixVars
  <1>5. CallsAreRight'
    BY DEF IInv, CallsAreRight, CallIsRight, ListIsRight, SeenIsFile, Parsed, AllLinked,
       TypeOK, GuardTypeOK, StartBegin, Begin, Goto, prefixVars
  <1>6. RecordedIsWhole' /\ ReadyIsInstalled' /\ StrayKnown'
    BY DEF IInv, RecordedIsWhole, ReadyIsInstalled, StrayKnown, AllLinked, StartBegin, Begin,
       prefixVars
  <1> QED BY <1>1, <1>2, <1>3, <1>4, <1>5, <1>6 DEF IInv

\* The write of Installing replaces no Ready: the thread was started when the
\* file did not say so, and no one else has written since.
LEMMA GuardBeginsStep ==
  ASSUME IInv, NEW t \in Task, GuardBegins(t)
  PROVE IInv'
  <1>1. TypeOK'
    BY DEF IInv, TypeOK, GuardTypeOK, Bytes, GuardState, Op, GuardBegins, BeginWrites,
       HandBack, Release, prefixVars, callVars
  <1>2. HoldsLock'
    BY TaskAssumption DEF IInv, HoldsLock, Holding, TypeOK, GuardTypeOK, GuardBegins,
       BeginWrites, HandBack, Release
  <1>3. SeenIsFile'
    BY DEF IInv, SeenIsFile, HoldsLock, Holding, Parsed, TypeOK, GuardTypeOK,
       GuardBegins, BeginWrites, HandBack, Release
  <1>4. ThreadsAreRight'
    BY DEF IInv, ThreadsAreRight, HoldsLock, Holding, TypeOK, GuardTypeOK, GuardBegins,
       BeginWrites, HandBack, Release
  <1>5. CallsAreRight'
    BY DEF IInv, CallsAreRight, CallIsRight, ListIsRight, ThreadsAreRight, AllLinked, TypeOK,
       GuardTypeOK, GuardBegins, BeginWrites, HandBack, Release, prefixVars, callVars
  <1>6. RecordedIsWhole' /\ ReadyIsInstalled' /\ StrayKnown'
    BY DEF IInv, RecordedIsWhole, ReadyIsInstalled, StrayKnown, GuardBegins, BeginWrites,
       prefixVars
  <1> QED BY <1>1, <1>2, <1>3, <1>4, <1>5, <1>6 DEF IInv

\* The records are read with the lock held, so what is to do is exactly what
\* has no record; if that is nothing, every package is linked.
LEMMA StartInstallStep ==
  ASSUME IInv, NEW t \in Task, StartInstall(t)
  PROVE IInv'
  <1>1. TypeOK'
    BY DEF IInv, TypeOK, GuardTypeOK, StartInstall, guardVars, prefixVars
  <1>2. HoldsLock'
    BY DEF IInv, HoldsLock, StartInstall, guardVars
  <1>3. SeenIsFile'
    BY DEF IInv, SeenIsFile, StartInstall, guardVars
  <1>4. ThreadsAreRight'
    BY DEF IInv, ThreadsAreRight, AllLinked, StartInstall, guardVars, prefixVars
  <1>5. CallsAreRight'
    BY DEF IInv, CallsAreRight, CallIsRight, ListIsRight, AllLinked, RecordedIsWhole, TypeOK,
       StartInstall, guardVars, prefixVars
  <1>6. RecordedIsWhole' /\ ReadyIsInstalled' /\ StrayKnown'
    BY DEF IInv, RecordedIsWhole, ReadyIsInstalled, StrayKnown, CallsAreRight, CallIsRight,
       ListIsRight, StartInstall, guardVars, prefixVars
  <1> QED BY <1>1, <1>2, <1>3, <1>4, <1>5, <1>6 DEF IInv

\* Files are replaced only of a package that has no record, and only while the
\* file says Installing.
LEMMA LinkStartsStep ==
  ASSUME IInv, NEW t \in Task, NEW p \in Pkg, LinkStarts(t, p)
  PROVE IInv'
  <1>1. TypeOK'
    BY DEF IInv, TypeOK, GuardTypeOK, LinkStarts, guardVars
  <1>2. HoldsLock'
    BY DEF IInv, HoldsLock, LinkStarts, guardVars
  <1>3. SeenIsFile'
    BY DEF IInv, SeenIsFile, LinkStarts, guardVars
  <1>4. ThreadsAreRight'
    BY DEF IInv, ThreadsAreRight, CallsAreRight, CallIsRight, ListIsRight, AllLinked,
       LinkStarts, guardVars
  <1>5. CallsAreRight'
    BY DEF IInv, CallsAreRight, CallIsRight, ListIsRight, AllLinked, LinkStarts, guardVars
  <1>6. RecordedIsWhole' /\ ReadyIsInstalled' /\ StrayKnown'
    BY DEF IInv, RecordedIsWhole, ReadyIsInstalled, StrayKnown, CallsAreRight, CallIsRight,
       ListIsRight, LinkStarts, guardVars
  <1> QED BY <1>1, <1>2, <1>3, <1>4, <1>5, <1>6 DEF IInv

\* A package that ends leaves what is to do and gets its record; no other task
\* is installing, so no other list of what is to do changes.
LEMMA LinkEndsStep ==
  ASSUME IInv, NEW t \in Task, NEW p \in Pkg, LinkEnds(t, p)
  PROVE IInv'
  <1>1. TypeOK'
    BY DEF IInv, TypeOK, GuardTypeOK, LinkEnds, guardVars
  <1>2. HoldsLock'
    BY DEF IInv, HoldsLock, LinkEnds, guardVars
  <1>3. SeenIsFile'
    BY DEF IInv, SeenIsFile, LinkEnds, guardVars
  <1>4. ThreadsAreRight'
    BY DEF IInv, ThreadsAreRight, AllLinked, LinkEnds, guardVars
  <1>5. CallsAreRight'
    BY DEF IInv, CallsAreRight, CallIsRight, ListIsRight, HoldsLock, Holding, TypeOK, LinkEnds,
       guardVars
  <1>6. RecordedIsWhole' /\ ReadyIsInstalled' /\ StrayKnown'
    <2>1. file # "Ready" /\ UNCHANGED <<stray, strayed, file>>
      BY DEF IInv, CallsAreRight, CallIsRight, LinkEnds, guardVars
    <2>2. Disputed(p) => p \in strayed
      BY DEF IInv, StrayKnown, Disputed
    <2>3. RecordedIsWhole'
      BY <2>1, <2>2 DEF IInv, RecordedIsWhole, LinkEnds
    <2> QED
      BY <2>1, <2>3 DEF IInv, ReadyIsInstalled, StrayKnown
  <1> QED BY <1>1, <1>2, <1>3, <1>4, <1>5, <1>6 DEF IInv

\* Nothing is left to do: every package has a record, and its files.
LEMMA PostProcessStep ==
  ASSUME IInv, NEW t \in Task, PostProcess(t)
  PROVE IInv'
  <1>1. TypeOK'
    BY DEF IInv, TypeOK, GuardTypeOK, PostProcess, Goto, guardVars
  <1>2. HoldsLock'
    BY DEF IInv, HoldsLock, PostProcess, guardVars
  <1>3. SeenIsFile'
    BY DEF IInv, SeenIsFile, PostProcess, guardVars
  <1>4. ThreadsAreRight'
    BY DEF IInv, ThreadsAreRight, AllLinked, PostProcess, guardVars
  <1>5. CallsAreRight'
    <2>1. todo[t] = Pkg \ recorded /\ op[t] = "open" /\ file = "Installing"
      BY DEF IInv, CallsAreRight, CallIsRight, ListIsRight, PostProcess
    <2>2. AllLinked
      BY <2>1 DEF IInv, RecordedIsWhole, TypeOK, AllLinked, PostProcess
    <2> QED
      BY <2>1, <2>2 DEF IInv, CallsAreRight, CallIsRight, ListIsRight, TypeOK, AllLinked,
         PostProcess, Goto, guardVars
  <1>6. RecordedIsWhole' /\ ReadyIsInstalled' /\ StrayKnown'
    BY DEF IInv, RecordedIsWhole, ReadyIsInstalled, StrayKnown, CallsAreRight, CallIsRight,
       ListIsRight, PostProcess, guardVars
  <1> QED BY <1>1, <1>2, <1>3, <1>4, <1>5, <1>6 DEF IInv

\* finish hands the file to its thread with all packages linked.
LEMMA StartFinishStep ==
  ASSUME IInv, NEW t \in Task, StartFinish(t)
  PROVE IInv'
  <1>1. TypeOK'
    BY DEF IInv, TypeOK, GuardTypeOK, Blocking, Op, StartFinish, Finish, Release, Goto,
       prefixVars
  <1>2. HoldsLock'
    BY TaskAssumption DEF IInv, HoldsLock, Holding, TypeOK, GuardTypeOK, StartFinish,
       Finish, Release
  <1>3. SeenIsFile'
    BY DEF IInv, SeenIsFile, TypeOK, GuardTypeOK, StartFinish, Finish, Release
  <1>4. ThreadsAreRight'
    BY DEF IInv, ThreadsAreRight, CallsAreRight, CallIsRight, ListIsRight, AllLinked, TypeOK,
       GuardTypeOK, StartFinish, Finish, Release, prefixVars
  <1>5. CallsAreRight'
    BY DEF IInv, CallsAreRight, CallIsRight, ListIsRight, SeenIsFile, Parsed, AllLinked,
       TypeOK, GuardTypeOK, StartFinish, Finish, Goto, prefixVars
  <1>6. RecordedIsWhole' /\ ReadyIsInstalled' /\ StrayKnown'
    BY DEF IInv, RecordedIsWhole, ReadyIsInstalled, StrayKnown, CallsAreRight, CallIsRight,
       ListIsRight, StartFinish, Finish, prefixVars
  <1> QED BY <1>1, <1>2, <1>3, <1>4, <1>5, <1>6 DEF IInv

\* The first write of finish leaves torn bytes, as Ready is the shorter text;
\* cutting them off makes it Ready, of an environment that is linked.
LEMMA GuardFinishesStep ==
  ASSUME IInv, NEW t \in Task, GuardFinishes(t)
  PROVE IInv'
  <1>1. TypeOK'
    BY DEF IInv, TypeOK, GuardTypeOK, Bytes, Blocking, Op, GuardFinishes, FinishWrites,
       FinishTruncates, Overwritten, Release, prefixVars, callVars
  <1>2. HoldsLock'
    BY TaskAssumption DEF IInv, HoldsLock, Holding, TypeOK, GuardTypeOK, GuardFinishes,
       FinishWrites, FinishTruncates, Release
  <1>3. SeenIsFile'
    BY DEF IInv, SeenIsFile, HoldsLock, Holding, TypeOK, GuardTypeOK, GuardFinishes,
       FinishWrites, FinishTruncates, Release
  <1>4. ThreadsAreRight'
    BY DEF IInv, ThreadsAreRight, HoldsLock, Holding, AllLinked, TypeOK, GuardTypeOK,
       GuardFinishes, FinishWrites, FinishTruncates, Overwritten, Size, Release,
       prefixVars
  <1>5. CallsAreRight'
    BY DEF IInv, CallsAreRight, CallIsRight, ListIsRight, HoldsLock, Holding, TypeOK,
       GuardTypeOK, GuardFinishes, FinishWrites, FinishTruncates, Overwritten, Size,
       Release, callVars
  <1>6. RecordedIsWhole' /\ ReadyIsInstalled' /\ StrayKnown'
    BY DEF IInv, RecordedIsWhole, ReadyIsInstalled, StrayKnown, AllLinked, ThreadsAreRight,
       GuardFinishes, FinishWrites, FinishTruncates, prefixVars
  <1> QED BY <1>1, <1>2, <1>3, <1>4, <1>5, <1>6 DEF IInv

\* A call whose finish has returned finds the file Ready.
LEMMA InstalledStep ==
  ASSUME IInv, NEW t \in Task, Installed(t)
  PROVE IInv'
  <1>1. TypeOK'
    BY DEF IInv, TypeOK, GuardTypeOK, Installed, Goto, guardVars, prefixVars
  <1>2. HoldsLock'
    BY DEF IInv, HoldsLock, Installed, guardVars
  <1>3. SeenIsFile'
    BY DEF IInv, SeenIsFile, Installed, guardVars
  <1>4. ThreadsAreRight'
    BY DEF IInv, ThreadsAreRight, AllLinked, Installed, guardVars, prefixVars
  <1>5. CallsAreRight'
    BY DEF IInv, CallsAreRight, CallIsRight, ListIsRight, Installed, Goto, guardVars
  <1>6. RecordedIsWhole' /\ ReadyIsInstalled' /\ StrayKnown'
    BY DEF IInv, RecordedIsWhole, ReadyIsInstalled, StrayKnown, AllLinked, Installed,
       guardVars, prefixVars
  <1> QED BY <1>1, <1>2, <1>3, <1>4, <1>5, <1>6 DEF IInv

\* The end of a use changes nothing but the call.
LEMMA EndUseStep ==
  ASSUME IInv, NEW t \in Task, EndUse(t)
  PROVE IInv'
  <1>1. TypeOK'
    BY DEF IInv, TypeOK, GuardTypeOK, EndUse, Goto, guardVars, prefixVars
  <1>2. HoldsLock'
    BY DEF IInv, HoldsLock, EndUse, guardVars
  <1>3. SeenIsFile'
    BY DEF IInv, SeenIsFile, EndUse, guardVars
  <1>4. ThreadsAreRight'
    BY DEF IInv, ThreadsAreRight, AllLinked, EndUse, guardVars, prefixVars
  <1>5. CallsAreRight'
    BY DEF IInv, CallsAreRight, CallIsRight, ListIsRight, EndUse, Goto, guardVars
  <1>6. RecordedIsWhole' /\ ReadyIsInstalled' /\ StrayKnown'
    BY DEF IInv, RecordedIsWhole, ReadyIsInstalled, StrayKnown, AllLinked, EndUse, guardVars,
       prefixVars
  <1> QED BY <1>1, <1>2, <1>3, <1>4, <1>5, <1>6 DEF IInv

\* An installation that is given up leaves Installing in the file, and records
\* only of packages with all their files.
LEMMA AbandonInstallStep ==
  ASSUME IInv, NEW t \in Task, AbandonInstall(t)
  PROVE IInv'
  <1>1. TypeOK'
    <2>1. stray' \in [Proc -> [Pkg -> Nat]]
      <3>1. PICK jobs \in SUBSET todo[t] :
              stray' = [stray EXCEPT ![ProcOf[t]] =
                          [p \in Pkg |-> IF p \in jobs THEN stray[ProcOf[t]][p] + 1
                                        ELSE stray[ProcOf[t]][p]]]
        BY DEF AbandonInstall, LeaveJobs
      <3>2. ProcOf[t] \in Proc /\ stray \in [Proc -> [Pkg -> Nat]]
        BY EnvironmentAssumption DEF IInv, TypeOK
      <3>3. [p \in Pkg |-> IF p \in jobs THEN stray[ProcOf[t]][p] + 1
                          ELSE stray[ProcOf[t]][p]] \in [Pkg -> Nat]
        BY <3>2
      <3> QED
        BY <3>1, <3>2, <3>3
    <2>2. strayed' \subseteq Pkg
      BY DEF IInv, TypeOK, AbandonInstall, LeaveJobs
    <2> QED
      BY <2>1, <2>2 DEF IInv, TypeOK, GuardTypeOK, Op, AbandonInstall, LeaveJobs, DropGuard,
         Release
  <1>2. HoldsLock'
    BY TaskAssumption DEF IInv, HoldsLock, Holding, TypeOK, GuardTypeOK, AbandonInstall,
       LeaveJobs, DropGuard, Release
  <1>3. SeenIsFile'
    BY DEF IInv, SeenIsFile, AbandonInstall, LeaveJobs, DropGuard, Release
  <1>4. ThreadsAreRight'
    BY DEF IInv, ThreadsAreRight, AllLinked, TypeOK, AbandonInstall, LeaveJobs, DropGuard,
       Release
  <1>5. CallsAreRight'
    BY DEF IInv, CallsAreRight, CallIsRight, ListIsRight, HoldsLock, Holding, TypeOK,
       GuardTypeOK, AbandonInstall, LeaveJobs, DropGuard, Release
  <1>6. RecordedIsWhole' /\ ReadyIsInstalled' /\ StrayKnown'
    BY DEF IInv, RecordedIsWhole, ReadyIsInstalled, StrayKnown, CallsAreRight, CallIsRight,
       ListIsRight, AbandonInstall, LeaveJobs, DropGuard
  <1> QED BY <1>1, <1>2, <1>3, <1>4, <1>5, <1>6 DEF IInv

\* No failed write leaves Ready in the file.
LEMMA GuardFailsStep ==
  ASSUME IInv, NEW t \in Task, GuardFails(t)
  PROVE IInv'
  <1>1. TypeOK'
    BY DEF IInv, TypeOK, GuardTypeOK, Bytes, Op, GuardFails, WriteFails, Release, Goto,
       prefixVars
  <1>2. HoldsLock'
    BY TaskAssumption DEF IInv, HoldsLock, Holding, TypeOK, GuardTypeOK, GuardFails,
       WriteFails, Release
  <1>3. SeenIsFile'
    BY DEF IInv, SeenIsFile, HoldsLock, Holding, TypeOK, GuardTypeOK, GuardFails,
       WriteFails, Release
  <1>4. ThreadsAreRight'
    BY DEF IInv, ThreadsAreRight, HoldsLock, Holding, TypeOK, GuardTypeOK, GuardFails,
       WriteFails, Release
  <1>5. CallsAreRight'
    BY DEF IInv, CallsAreRight, CallIsRight, ListIsRight, ThreadsAreRight, HoldsLock,
       Holding, TypeOK, GuardTypeOK, GuardFails, WriteFails, Release, Goto
  <1>6. RecordedIsWhole' /\ ReadyIsInstalled' /\ StrayKnown'
    BY DEF IInv, RecordedIsWhole, ReadyIsInstalled, StrayKnown, ThreadsAreRight, GuardFails,
       WriteFails, prefixVars
  <1> QED BY <1>1, <1>2, <1>3, <1>4, <1>5, <1>6 DEF IInv

\* A dropped future leaves a thread whose write is right without it, or
\* releases the lock.
LEMMA DropCallStep ==
  ASSUME IInv, NEW t \in Task, DropCall(t)
  PROVE IInv'
  <1>1. TypeOK'
    BY DEF IInv, TypeOK, GuardTypeOK, Op, DropCall, DropFuture, DropGuard, Release, Goto,
       prefixVars
  <1>2. HoldsLock'
    BY TaskAssumption DEF IInv, HoldsLock, Holding, TypeOK, GuardTypeOK, DropCall,
       DropFuture, DropGuard, Release
  <1>3. SeenIsFile'
    BY DEF IInv, SeenIsFile, TypeOK, GuardTypeOK, DropCall, DropFuture, DropGuard, Release
  <1>4. ThreadsAreRight'
    BY DEF IInv, ThreadsAreRight, AllLinked, TypeOK, GuardTypeOK, DropCall, DropFuture,
       DropGuard, Release, prefixVars
  <1>5. CallsAreRight'
    BY DEF IInv, CallsAreRight, CallIsRight, ListIsRight, AllLinked, TypeOK, GuardTypeOK,
       DropCall, DropFuture, DropGuard, Release, Goto, prefixVars
  <1>6. RecordedIsWhole' /\ ReadyIsInstalled' /\ StrayKnown'
    BY DEF IInv, RecordedIsWhole, ReadyIsInstalled, StrayKnown, AllLinked, DropCall,
       DropFuture, DropGuard, prefixVars
  <1> QED BY <1>1, <1>2, <1>3, <1>4, <1>5, <1>6 DEF IInv

\* The death of a process releases its locks and writes nothing.
LEMMA CrashStep ==
  ASSUME IInv, NEW r \in Proc, Crash(r)
  PROVE IInv'
  <1>1. TypeOK'
    BY DEF IInv, TypeOK, GuardTypeOK, Op, Crash, GuardsDie, prefixVars
  <1>2. HoldsLock'
    BY TaskAssumption DEF IInv, HoldsLock, Holding, Crash, GuardsDie
  <1>3. SeenIsFile'
    BY DEF IInv, SeenIsFile, Crash, GuardsDie
  <1>4. ThreadsAreRight'
    BY DEF IInv, ThreadsAreRight, AllLinked, Crash, GuardsDie, prefixVars
  <1>5. CallsAreRight'
    BY DEF IInv, CallsAreRight, CallIsRight, ListIsRight, AllLinked, Crash, GuardsDie,
       prefixVars
  <1>6. RecordedIsWhole' /\ ReadyIsInstalled' /\ StrayKnown'
    BY DEF IInv, RecordedIsWhole, ReadyIsInstalled, StrayKnown, AllLinked, Crash, GuardsDie,
       prefixVars
  <1> QED BY <1>1, <1>2, <1>3, <1>4, <1>5, <1>6 DEF IInv

\* A job left behind touches only files of a package that the history names.
LEMMA StrayLinksStep ==
  ASSUME IInv, NEW r \in Proc, NEW p \in Pkg, StrayLinks(r, p)
  PROVE IInv'
  <1>1. TypeOK'
    BY DEF IInv, TypeOK, GuardTypeOK, StrayLinks, guardVars, callVars
  <1>2. HoldsLock' /\ SeenIsFile'
    BY DEF IInv, HoldsLock, SeenIsFile, StrayLinks, guardVars
  <1>3. p \in strayed
    BY DEF IInv, StrayKnown, StrayLinks
  <1>4. AllLinked => AllLinked'
    BY <1>3 DEF AllLinked, StrayLinks
  <1>5. ThreadsAreRight' /\ CallsAreRight'
    BY <1>4 DEF IInv, ThreadsAreRight, CallsAreRight, CallIsRight, ListIsRight, StrayLinks,
       guardVars, callVars
  <1>6. RecordedIsWhole' /\ ReadyIsInstalled' /\ StrayKnown'
    BY <1>3, <1>4 DEF IInv, RecordedIsWhole, ReadyIsInstalled, StrayKnown, StrayLinks,
       guardVars
  <1> QED BY <1>1, <1>2, <1>5, <1>6 DEF IInv

\* ... and the record it may write is of that package.
LEMMA StrayEndsStep ==
  ASSUME IInv, NEW r \in Proc, NEW p \in Pkg, StrayEnds(r, p)
  PROVE IInv'
  <1>0. /\ stray' = [stray EXCEPT ![r][p] = @ - 1] /\ stray[r][p] > 0 /\ stray[r][p] \in Nat
        /\ recorded' \in {recorded, recorded \cup {p}} /\ whole' \in {whole, whole \cup {p}}
        /\ UNCHANGED <<guardVars, strayed, callVars>> /\ settled' = FALSE
    BY DEF StrayEnds, IInv, TypeOK
  <1>1. TypeOK'
    <2>1. stray' \in [Proc -> [Pkg -> Nat]]
      BY <1>0 DEF IInv, TypeOK
    <2> QED
      BY <1>0, <2>1 DEF IInv, TypeOK, GuardTypeOK, guardVars, callVars
  <1>2. HoldsLock' /\ SeenIsFile'
    BY <1>0 DEF IInv, HoldsLock, SeenIsFile, guardVars
  <1>3. p \in strayed
    BY <1>0 DEF IInv, StrayKnown
  <1>4. AllLinked => AllLinked'
    BY <1>0 DEF AllLinked
  <1>7. \A t \in Task : ListIsRight(t) => ListIsRight(t)'
    BY <1>0, <1>3 DEF ListIsRight, callVars
  <1>5. ThreadsAreRight' /\ CallsAreRight'
    BY <1>0, <1>4, <1>7 DEF IInv, ThreadsAreRight, CallsAreRight, CallIsRight, guardVars,
       callVars
  <1>8. StrayKnown'
    BY <1>0, <1>3 DEF IInv, StrayKnown, TypeOK
  <1>6. RecordedIsWhole' /\ ReadyIsInstalled'
    BY <1>0, <1>3, <1>4 DEF IInv, RecordedIsWhole, ReadyIsInstalled, guardVars
  <1> QED BY <1>1, <1>2, <1>5, <1>6, <1>8 DEF IInv

-----------------------------------------------------------------------------
(* The invariant holds *)

\* An empty guard file, no lock, no call and an empty prefix.
LEMMA InitInv == Init => IInv
  <1> SUFFICES ASSUME Init PROVE IInv
    OBVIOUS
  <1>1. TypeOK
    BY DEF Init, GuardInit, TypeOK, GuardTypeOK, Bytes, GuardState, Op
  <1>2. HoldsLock
    BY TaskAssumption DEF Init, GuardInit, HoldsLock, Holding
  <1>3. SeenIsFile /\ ThreadsAreRight /\ CallsAreRight
    BY DEF Init, GuardInit, SeenIsFile, ThreadsAreRight, CallsAreRight, CallIsRight
  <1>4. RecordedIsWhole /\ ReadyIsInstalled /\ StrayKnown
    BY DEF Init, GuardInit, RecordedIsWhole, ReadyIsInstalled, StrayKnown
  <1> QED
    BY <1>1, <1>2, <1>3, <1>4 DEF IInv

\* Every step of the specification keeps the invariant, by the lemmas above.
LEMMA StepInv ==
  ASSUME IInv, [Next]_vars
  PROVE  IInv'
  <1>1. ASSUME NEW t \in Task, Step(t)
        PROVE  IInv'
    <2>1. CASE \E p \in Pkg : LinkStarts(t, p) \/ LinkEnds(t, p)
      BY <2>1, LinkStartsStep, LinkEndsStep
    <2>2. CASE ~\E p \in Pkg : LinkStarts(t, p) \/ LinkEnds(t, p)
      BY <1>1, <2>2, GuardThreadStep, ReuseStep, StartBeginStep, GuardBeginsStep,
         StartInstallStep, PostProcessStep, StartFinishStep, GuardFinishesStep,
         InstalledStep, EndUseStep DEF Step
    <2> QED
      BY <2>1, <2>2
  <1>2. ASSUME NEW t \in Task,
               EnsureEnvironment(t) \/ AbandonInstall(t) \/ GuardFails(t) \/ DropCall(t)
        PROVE  IInv'
    BY <1>2, EnsureEnvironmentStep, AbandonInstallStep, GuardFailsStep, DropCallStep
  <1>3. ASSUME NEW r \in Proc, Crash(r)
        PROVE  IInv'
    BY <1>3, CrashStep
  <1>5. ASSUME NEW r \in Proc, NEW p \in Pkg, StrayLinks(r, p) \/ StrayEnds(r, p)
        PROVE  IInv'
    BY <1>5, StrayLinksStep, StrayEndsStep
  <1>4. CASE UNCHANGED vars
    BY <1>4 DEF vars, guardVars, prefixVars, callVars, IInv, TypeOK, GuardTypeOK, HoldsLock,
       SeenIsFile, ThreadsAreRight, CallsAreRight, CallIsRight, ListIsRight, RecordedIsWhole,
       ReadyIsInstalled, AllLinked, StrayKnown
  <1> QED
    BY <1>1, <1>2, <1>3, <1>4, <1>5 DEF Next

\* The invariant holds in every behaviour of ensure_environment.
THEOREM EnvironmentInvariance == Spec => []IInv
  BY InitInv, StepInv, PTL DEF Spec

-----------------------------------------------------------------------------
(* What follows from it *)

\* The guard and the calls of ensure_environment keep their types.
THEOREM EnvironmentTypeCorrect == Spec => []TypeOK
  BY EnvironmentInvariance, PTL DEF IInv

\* Two calls of ensure_environment never install at once: an installing call
\* has the locked file, and there is one lock.
THEOREM InstallersExclude == Spec => []OneInstaller
  <1>1. IInv => OneInstaller
    BY DEF IInv, CallsAreRight, CallIsRight, ListIsRight, HoldsLock, Holding, OneInstaller
  <1> QED
    BY <1>1, EnvironmentInvariance, PTL

\* The guard says Ready only of an environment whose packages are all recorded
\* and linked, but for the files of packages that jobs left behind link.
THEOREM ReadyMeansInstalled == Spec => []ReadyIsInstalled
  BY EnvironmentInvariance, PTL DEF IInv

\* The environment that ensure_environment has returned has all its records, and
\* the files of every package without a job left behind, all the time it is
\* used: the file says Ready until then.
THEOREM UsedMeansInstalled == Spec => []UsedIsInstalled
  <1>1. IInv => UsedIsInstalled
    BY DEF IInv, CallsAreRight, CallIsRight, ListIsRight, ReadyIsInstalled, UsedIsInstalled
  <1> QED
    BY <1>1, EnvironmentInvariance, PTL

\* What a step may do to a ready environment.
Kept ==
  /\ file' = "Ready" /\ UNCHANGED recorded
  /\ whole \ strayed = whole' \ strayed
  /\ strayed = {} => UNCHANGED prefixVars

\* Whoever meets a ready environment leaves it alone: every action that writes
\* the file or the prefix happens while the file says Installing, or is torn,
\* and jobs left behind have their own packages.
LEMMA ReadyStep ==
  ASSUME IInv, [Next]_vars, file = "Ready"
  PROVE  Kept
  <1>0. ASSUME file' = "Ready", UNCHANGED prefixVars PROVE Kept
    BY <1>0 DEF Kept, prefixVars
  <1>1. ASSUME NEW t \in Task, Step(t)
        PROVE  file' = "Ready" /\ UNCHANGED prefixVars
    <2>1. ~BeginWrites(t) /\ ~FinishWrites(t) /\ ~FinishTruncates(t)
      BY DEF IInv, ThreadsAreRight, BeginWrites, FinishWrites, FinishTruncates
    <2>2. pc[t] # "installing"
      BY DEF IInv, CallsAreRight, CallIsRight
    <2>3. CASE GuardThread(t) \/ Reuse(t) \/ StartBegin(t) \/ StartInstall(t)
      BY <2>3 DEF GuardThread, LockExclusive, ReadState, Reuse, DropGuard, StartBegin, Begin,
         StartInstall, guardVars
    <2>4. CASE StartFinish(t) \/ Installed(t) \/ EndUse(t)
      BY <2>4 DEF StartFinish, Finish, Installed, EndUse, guardVars
    <2> QED
      BY <1>1, <2>1, <2>2, <2>3, <2>4 DEF Step, GuardBegins, GuardFinishes, LinkStarts,
         LinkEnds, PostProcess
  <1>2. ASSUME NEW t \in Task,
               EnsureEnvironment(t) \/ AbandonInstall(t) \/ GuardFails(t) \/ DropCall(t)
        PROVE  file' = "Ready" /\ UNCHANGED prefixVars
    <2>1. ~AbandonInstall(t) /\ ~GuardFails(t)
      BY DEF IInv, CallsAreRight, CallIsRight, ThreadsAreRight, AbandonInstall, GuardFails,
         WriteFails
    <2> QED
      BY <1>2, <2>1 DEF EnsureEnvironment, Write, DropCall, DropFuture, DropGuard
  <1>3. ASSUME NEW r \in Proc, Crash(r)
        PROVE  Kept
    <2>1. /\ UNCHANGED <<file, whole, recorded, settled, strayed>>
          /\ stray' = [stray EXCEPT ![r] = [p \in Pkg |-> 0]]
      BY <1>3 DEF Crash, GuardsDie
    <2>2. strayed = {} => stray' = stray
      <3> SUFFICES ASSUME strayed = {} PROVE stray' = stray
        OBVIOUS
      <3>1. stray \in [Proc -> [Pkg -> Nat]]
        BY DEF IInv, TypeOK
      <3>2. \A p \in Pkg : stray[r][p] = 0
        BY <3>1 DEF IInv, StrayKnown
      <3>3. stray[r] = [p \in Pkg |-> 0]
        BY <3>1, <3>2
      <3> QED
        BY <2>1, <3>1, <3>3
    <2> QED
      BY <2>1, <2>2 DEF Kept, prefixVars
  <1>5. ASSUME NEW r \in Proc, NEW p \in Pkg, StrayLinks(r, p) \/ StrayEnds(r, p)
        PROVE  Kept
    <2>1. p \in strayed /\ recorded = Pkg
      BY <1>5 DEF IInv, StrayKnown, ReadyIsInstalled, AllLinked, StrayLinks, StrayEnds
    <2>2. /\ file' = file /\ whole' \in {whole, whole \cup {p}, whole \ {p}}
          /\ recorded' \in {recorded, recorded \cup {p}}
      BY <1>5 DEF StrayLinks, StrayEnds, guardVars
    <2> QED
      BY <2>1, <2>2 DEF Kept
  <1>4. CASE UNCHANGED vars
    BY <1>0, <1>4 DEF vars, guardVars
  <1> QED
    BY <1>0, <1>1, <1>2, <1>3, <1>4, <1>5 DEF Next

\* Once the guard says Ready it does so for good, and neither the records nor
\* the files change, but for the files of jobs left behind.
THEOREM ReadyStays == Spec => ReadyIsFinal
  <1>1. IInv /\ [Next]_vars => [file = "Ready" => Kept]_vars
    BY ReadyStep
  <1> QED
    BY <1>1, EnvironmentInvariance, PTL DEF Spec, ReadyIsFinal, Kept
=============================================================================
