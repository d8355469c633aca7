------------------------ MODULE DetectorEnvironment ------------------------
(***************************************************************************)
(* The environment of a virtual package detector (ensure_environment): it  *)
(* is installed once, under the guard of its prefix, by whoever comes      *)
(* first, and used by everyone without the guard.                          *)
(*                                                                         *)
(* The prefix is named after the digest of its records, so all calls for   *)
(* it install the same packages.  An installation reads the records in     *)
(* conda-meta, links the packages that have none on a thread pool, each    *)
(* ending with its record, and then post-processes the prefix (unclobber). *)
(*                                                                         *)
(* Nobody waits for the link jobs of an installation that failed or was    *)
(* dropped: they go on in the pool of the process after the guard is gone. *)
(***************************************************************************)
EXTENDS PrefixGuard

CONSTANTS
  Proc, ProcOf,      \* [Task -> Proc]
  Pkg,               \* the resolved records
  InstallMayFail, MayDrop, MayCrash,
  MaxCalls           \* bound: number of calls of ensure_environment

ASSUME EnvironmentAssumption ==
  /\ ProcOf \in [Task -> Proc]
  /\ {InstallMayFail, MayDrop, MayCrash} \subseteq BOOLEAN
  /\ MaxCalls \in Nat

VARIABLES
  whole,     \* packages with all their files in the prefix
  recorded,  \* packages with a record in conda-meta
  settled,   \* post_process has run since the last file was linked
  pc,        \* per task: where it is in ensure_environment
  todo,      \* per task: packages its installation has still to link
  linking,   \* per task: packages being linked for it
  calls,
  stray,     \* per process and package: link jobs that abandoned installations left
  strayed    \* history: packages for which there was such a job

prefixVars == <<whole, recorded, settled, stray, strayed>>
callVars == <<pc, todo, linking, calls>>
vars == <<guardVars, prefixVars, callVars>>

Init ==
  /\ GuardInit
  /\ whole = {} /\ recorded = {} /\ settled = TRUE
  /\ pc = [t \in Task |-> "idle"]
  /\ todo = [t \in Task |-> {}] /\ linking = [t \in Task |-> {}]
  /\ calls = 0
  /\ stray = [r \in Proc |-> [p \in Pkg |-> 0]] /\ strayed = {}

Goto(t, l) == pc' = [pc EXCEPT ![t] = l] /\ UNCHANGED <<todo, linking, calls>>

-----------------------------------------------------------------------------
(* ensure_environment *)

EnsureEnvironment(t) ==
  /\ pc[t] = "idle" /\ calls < MaxCalls
  /\ Write(t)
  /\ pc' = [pc EXCEPT ![t] = "waiting"] /\ calls' = calls + 1
  /\ UNCHANGED <<prefixVars, todo, linking>>

\* The lock is taken and the state read, by a thread for whoever waits for it.
GuardThread(t) ==
  /\ LockExclusive(t) \/ ReadState(t)
  /\ UNCHANGED <<prefixVars, callVars>>

\* The environment is ready: the guard is dropped and the detector may run.
Reuse(t) ==
  /\ pc[t] = "waiting" /\ op[t] = "open" /\ IsReady(t)
  /\ DropGuard(t)
  /\ Goto(t, "using")
  /\ UNCHANGED prefixVars

StartBegin(t) ==
  /\ pc[t] = "waiting" /\ op[t] = "open" /\ ~IsReady(t)
  /\ Begin(t)
  /\ Goto(t, "begun")
  /\ UNCHANGED prefixVars

GuardBegins(t) ==
  /\ BeginWrites(t)
  /\ UNCHANGED <<prefixVars, callVars>>

\* Installer::install compares the records with what is desired.  If nothing
\* is to be done it returns at once.
StartInstall(t) ==
  /\ pc[t] = "begun" /\ op[t] = "open"
  /\ todo' = [todo EXCEPT ![t] = Pkg \ recorded]
  /\ pc' = [pc EXCEPT ![t] = IF Pkg \subseteq recorded THEN "installed" ELSE "installing"]
  /\ UNCHANGED <<guardVars, prefixVars, linking, calls>>

\* link_package on the thread pool: files that are in the way are replaced ...
LinkStarts(t, p) ==
  /\ pc[t] = "installing" /\ p \in todo[t] \ linking[t]
  /\ linking' = [linking EXCEPT ![t] = @ \cup {p}]
  /\ whole' = whole \ {p} /\ settled' = FALSE
  /\ UNCHANGED <<guardVars, recorded, stray, strayed, pc, todo, calls>>

\* Another job may have the files of p in hand.
Disputed(p) == \E r \in Proc : stray[r][p] > 0

\* ... and the record is written last.
LinkEnds(t, p) ==
  /\ pc[t] = "installing" /\ p \in linking[t]
  /\ linking' = [linking EXCEPT ![t] = @ \ {p}]
  /\ todo' = [todo EXCEPT ![t] = @ \ {p}]
  /\ whole' = whole \cup {p} \/ (Disputed(p) /\ whole' = whole)
  /\ recorded' = recorded \cup {p}
  /\ UNCHANGED <<guardVars, settled, stray, strayed, pc, calls>>

PostProcess(t) ==
  /\ pc[t] = "installing" /\ todo[t] = {}
  /\ settled' = TRUE
  /\ Goto(t, "installed")
  /\ UNCHANGED <<guardVars, whole, recorded, stray, strayed>>

StartFinish(t) ==
  /\ pc[t] = "installed"
  /\ Finish(t)
  /\ Goto(t, "finishing")
  /\ UNCHANGED prefixVars

GuardFinishes(t) ==
  /\ FinishWrites(t) \/ FinishTruncates(t)
  /\ UNCHANGED <<prefixVars, callVars>>

\* finish has returned; the environment was installed by this call.
Installed(t) ==
  /\ pc[t] = "finishing" /\ op[t] = "none"
  /\ Goto(t, "using")
  /\ UNCHANGED <<guardVars, prefixVars>>

\* The detector has run.
EndUse(t) ==
  /\ pc[t] = "using"
  /\ Goto(t, "idle")
  /\ UNCHANGED <<guardVars, prefixVars>>

-----------------------------------------------------------------------------
(* Failures *)

\* The link jobs of t that are under way, and those that are queued among the
\* others, stay in the pool.
LeaveJobs(t) ==
  /\ \E jobs \in SUBSET todo[t] :
       /\ linking[t] \subseteq jobs
       /\ stray' = [stray EXCEPT ![ProcOf[t]] =
                      [p \in Pkg |-> IF p \in jobs THEN @[p] + 1 ELSE @[p]]]
       /\ strayed' = strayed \cup jobs
  /\ pc' = [pc EXCEPT ![t] = "idle"]
  /\ todo' = [todo EXCEPT ![t] = {}] /\ linking' = [linking EXCEPT ![t] = {}]
  /\ UNCHANGED <<whole, recorded, settled, calls>>

\* Defect: a failed installation is finished like a successful one.
AbandonInstallFinishes(t) ==
  /\ InstallMayFail \/ MayDrop
  /\ pc[t] = "installing"
  /\ Finish(t)
  /\ LeaveJobs(t)

\* The installation fails, or its future is dropped: the guard is dropped and
\* the file still says Installing.
AbandonInstall(t) ==
  /\ InstallMayFail \/ MayDrop
  /\ pc[t] = "installing"
  /\ DropGuard(t)
  /\ LeaveJobs(t)

\* Without the guard, a job that was left behind takes files of p away ...
StrayLinks(r, p) ==
  /\ stray[r][p] > 0
  /\ whole' = whole \ {p} /\ settled' = FALSE
  /\ UNCHANGED <<guardVars, recorded, stray, strayed, callVars>>

\* ... and ends: it fails, or puts its own files there and writes the record.
StrayEnds(r, p) ==
  /\ stray[r][p] > 0
  /\ stray' = [stray EXCEPT ![r][p] = @ - 1]
  /\ \/ UNCHANGED <<whole, recorded>>
     \/ /\ \/ whole' = whole \cup {p}
           \/ whole' = whole /\ (Disputed(p)' \/ \E t \in Task : p \in linking[t])
        /\ recorded' = recorded \cup {p}
  /\ settled' = FALSE
  /\ UNCHANGED <<guardVars, strayed, callVars>>

\* begin or finish fails, and with it the call.
GuardFails(t) ==
  /\ WriteFails(t)
  /\ Goto(t, "idle")
  /\ UNCHANGED prefixVars

\* The future is dropped while it waits for a blocking thread, or between two.
DropCall(t) ==
  /\ MayDrop
  /\ pc[t] \in {"waiting", "begun", "installed", "finishing"}
  /\ DropFuture(t) \/ DropGuard(t)
  /\ Goto(t, "idle")
  /\ UNCHANGED prefixVars

Crash(r) ==
  LET ts == {t \in Task : ProcOf[t] = r}
  IN /\ MayCrash
     /\ (\E p \in Pkg : stray[r][p] > 0) \/ \E t \in ts : pc[t] # "idle" \/ op[t] # "none"
     /\ GuardsDie(ts)
     /\ pc' = [t \in Task |-> IF t \in ts THEN "idle" ELSE pc[t]]
     /\ todo' = [t \in Task |-> IF t \in ts THEN {} ELSE todo[t]]
     /\ linking' = [t \in Task |-> IF t \in ts THEN {} ELSE linking[t]]
     /\ stray' = [stray EXCEPT ![r] = [p \in Pkg |-> 0]]
     /\ UNCHANGED <<whole, recorded, settled, strayed, calls>>

-----------------------------------------------------------------------------
Step(t) ==
  \/ GuardThread(t) \/ Reuse(t) \/ StartBegin(t) \/ GuardBegins(t) \/ StartInstall(t)
  \/ \E p \in Pkg : LinkStarts(t, p) \/ LinkEnds(t, p)
  \/ PostProcess(t) \/ StartFinish(t) \/ GuardFinishes(t) \/ Installed(t) \/ EndUse(t)

Next ==
  \/ \E t \in Task : EnsureEnvironment(t) \/ Step(t)
  \/ \E t \in Task : AbandonInstall(t) \/ GuardFails(t) \/ DropCall(t)
  \/ \E r \in Proc : Crash(r) \/ \E p \in Pkg : StrayLinks(r, p) \/ StrayEnds(r, p)

Spec == Init /\ [][Next]_vars

\* Threads and tasks that can go on do; nothing waits for the jobs left behind.
\* The bound on the calls makes weak fairness enough for the lock, which is not
\* handed over in any order.
FairSpec == Spec /\ \A t \in Task : WF_vars(Step(t))

-----------------------------------------------------------------------------
(* Properties *)

\* Every variable keeps its type.
TypeOK ==
  /\ GuardTypeOK
  /\ whole \subseteq Pkg /\ recorded \subseteq Pkg /\ settled \in BOOLEAN
  /\ pc \in [Task -> {"idle", "waiting", "begun", "installing", "installed", "finishing", "using"}]
  /\ todo \in [Task -> SUBSET Pkg] /\ linking \in [Task -> SUBSET Pkg]
  /\ calls \in Nat
  /\ stray \in [Proc -> [Pkg -> Nat]] /\ strayed \subseteq Pkg

\* "A prefix guard makes concurrent installations of the same digest wait for
\* each other": also when futures are dropped while threads hold the file.
OneInstaller ==
  \A t, u \in Task : pc[t] = "installing" /\ pc[u] = "installing" => t = u

\* Every package has its record and, unless an abandoned installation left a
\* job for it behind, all its files.
AllLinked == recorded = Pkg /\ Pkg \ strayed \subseteq whole

\* The guard "marks an environment ready only once installation completed":
\* through failures, dropped futures and crashes at any point, the file says
\* Ready only when every package is recorded and linked, but for the files
\* that jobs left behind have in hand.
ReadyIsInstalled == file = "Ready" => AllLinked

\* "... so a detector never runs from an incomplete installation": all the
\* time an environment is used, without the guard, its packages are there, but
\* for the files that jobs left behind have in hand.
UsedIsInstalled == \A t \in Task : pc[t] = "using" => AllLinked

\* The sentence as it stands, which does not hold: a link job that an abandoned
\* installation left behind replaces files of an environment in use.
UsedIsWhole == \A t \in Task : pc[t] = "using" => whole = Pkg

\* "Returns a complete environment": an environment that is used has been
\* post-processed.  This does not hold: an installation that was interrupted
\* after its last link is completed by one that has nothing to do.
UsedIsSettled == \A t \in Task : pc[t] = "using" => settled

\* A ready environment stays ready and keeps its records; its files are never
\* touched again but by jobs left behind.
ReadyIsFinal ==
  [][file = "Ready" => /\ file' = "Ready" /\ UNCHANGED recorded
                       /\ whole \ strayed = whole' \ strayed
                       /\ strayed = {} => UNCHANGED prefixVars]_vars

\* Every call of ensure_environment ends.
CallsEnd == \A t \in Task : pc[t] = "waiting" ~> pc[t] \in {"idle", "using"}
=============================================================================
