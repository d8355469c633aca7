----------------------------- MODULE PrefixGuard -----------------------------
(***************************************************************************)
(* The guard of a prefix (rattler_prefix_guard): a file `.guard` that says *)
(* whether the prefix is being installed or ready, and the file lock on it *)
(* under which it is read and written.  Every call opens the file anew, so *)
(* the lock also keeps the tasks of one process apart.                     *)
(*                                                                         *)
(* Locking, reading and writing run on a blocking thread that owns the     *)
(* file meanwhile.  When the future that waits for it is dropped, the      *)
(* thread goes on and the lock is released when it drops the file.         *)
(***************************************************************************)
EXTENDS Integers

CONSTANTS
  Task, NoTask,
  IoMayFail      \* writing the guard file may fail

ASSUME TaskAssumption == NoTask \notin Task /\ IoMayFail \in BOOLEAN

VARIABLES
  file,      \* the bytes of the guard file, see Bytes
  lock,      \* the task whose file holds the lock, or NoTask
  op,        \* per task: what it does with its guard
  seen,      \* per task: AsyncWriteGuard::state
  dropped    \* tasks whose future is gone while the blocking thread is at work

guardVars == <<file, lock, op, seen, dropped>>

\* An empty file, the two states that are ever written, or bytes that are no
\* state.
Bytes == {"empty", "Installing", "Ready", "torn"}
GuardState == {"Unknown", "Installing", "Ready"}

\* What is under way: nothing; a blocking thread; or the guard is at hand.
Blocking == {"locking", "reading", "beginning", "finishing", "truncating"}
Op == {"none", "open"} \cup Blocking

GuardInit ==
  /\ file = "empty" /\ lock = NoTask
  /\ op = [t \in Task |-> "none"] /\ seen = [t \in Task |-> "Unknown"]
  /\ dropped = {}

\* The length of the JSON text; torn bytes are never longer than "installing".
Size(bytes) == CASE bytes = "empty" -> 0 [] bytes = "Ready" -> 7 [] OTHER -> 12

\* write_all at the start of the file, before set_len.
Overwritten(old, new) == IF Size(old) > Size(new) THEN "torn" ELSE new

\* from_slice(..).unwrap_or(Unknown)
Parsed(bytes) == IF bytes \in {"Installing", "Ready"} THEN bytes ELSE "Unknown"

\* The file of t is dropped, and its lock with it.
Release(t) ==
  /\ lock' = NoTask
  /\ op' = [op EXCEPT ![t] = "none"]
  /\ dropped' = dropped \ {t}

\* The blocking thread hands the file back, if anyone still waits for it.
HandBack(t, next) ==
  IF t \in dropped THEN Release(t)
  ELSE op' = [op EXCEPT ![t] = next] /\ UNCHANGED <<lock, dropped>>

-----------------------------------------------------------------------------
(* AsyncPrefixGuard::write *)

Write(t) ==
  /\ op[t] = "none"
  /\ op' = [op EXCEPT ![t] = "locking"]
  /\ UNCHANGED <<file, lock, seen, dropped>>

\* Defect: a lock that is taken does not block.
LockExclusiveShared(t) ==
  /\ op[t] = "locking"
  /\ IF t \in dropped THEN Release(t)
     ELSE lock' = t /\ op' = [op EXCEPT ![t] = "reading"] /\ UNCHANGED dropped
  /\ UNCHANGED <<file, seen>>

LockExclusive(t) ==
  /\ op[t] = "locking" /\ lock = NoTask
  /\ IF t \in dropped THEN Release(t)
     ELSE lock' = t /\ op' = [op EXCEPT ![t] = "reading"] /\ UNCHANGED dropped
  /\ UNCHANGED <<file, seen>>

\* AsyncWriteGuard::new
ReadState(t) ==
  /\ op[t] = "reading"
  /\ seen' = [seen EXCEPT ![t] = Parsed(file)]
  /\ HandBack(t, "open")
  /\ UNCHANGED file

-----------------------------------------------------------------------------
(* AsyncWriteGuard *)

\* Defect: a prefix that is being installed is good enough.
IsReadyIfKnown(t) == seen[t] # "Unknown"

IsReady(t) == seen[t] = "Ready"

Begin(t) ==
  /\ op[t] = "open"
  /\ op' = [op EXCEPT ![t] = IF seen[t] # "Installing" THEN "beginning" ELSE "open"]
  /\ UNCHANGED <<file, lock, seen, dropped>>

BeginWrites(t) ==
  /\ op[t] = "beginning"
  /\ file' = "Installing"
  /\ seen' = [seen EXCEPT ![t] = "Installing"]
  /\ HandBack(t, "open")

\* finish: the guard is consumed.  Unless it says Installing nothing is written.
Finish(t) ==
  /\ op[t] = "open"
  /\ IF seen[t] = "Installing"
     THEN op' = [op EXCEPT ![t] = "finishing"] /\ UNCHANGED <<lock, dropped>>
     ELSE Release(t)
  /\ UNCHANGED <<file, seen>>

FinishWrites(t) ==
  /\ op[t] = "finishing"
  /\ file' = Overwritten(file, "Ready")
  /\ op' = [op EXCEPT ![t] = "truncating"]
  /\ UNCHANGED <<lock, seen, dropped>>

FinishTruncates(t) ==
  /\ op[t] = "truncating"
  /\ file' = "Ready"
  /\ Release(t)
  /\ UNCHANGED seen

\* A write fails: all, some or none of it is in the file.
WriteFails(t) ==
  /\ IoMayFail
  /\ \/ op[t] = "beginning" /\ file' \in {file, "torn", "Installing"}
     \/ op[t] = "finishing" /\ file' \in {file, "torn"}
     \/ op[t] = "truncating" /\ UNCHANGED file
  /\ Release(t)
  /\ UNCHANGED seen

\* Defect: the guard is forgotten instead of unlocked.
DropGuardKeepsLock(t) ==
  /\ op[t] = "open"
  /\ op' = [op EXCEPT ![t] = "none"]
  /\ UNCHANGED <<file, lock, seen, dropped>>

\* AsyncWriteGuard::drop
DropGuard(t) ==
  /\ op[t] = "open"
  /\ Release(t)
  /\ UNCHANGED <<file, seen>>

\* The future that waits for the blocking thread is dropped.
DropFuture(t) ==
  /\ op[t] \in Blocking /\ t \notin dropped
  /\ dropped' = dropped \cup {t}
  /\ UNCHANGED <<file, lock, op, seen>>

\* The process of the tasks ts dies.
GuardsDie(ts) ==
  /\ lock' = IF lock \in ts THEN NoTask ELSE lock
  /\ op' = [t \in Task |-> IF t \in ts THEN "none" ELSE op[t]]
  /\ dropped' = dropped \ ts
  /\ UNCHANGED <<file, seen>>

GuardTypeOK ==
  /\ file \in Bytes /\ lock \in Task \cup {NoTask}
  /\ op \in [Task -> Op] /\ seen \in [Task -> GuardState]
  /\ dropped \subseteq {t \in Task : op[t] \in Blocking}
=============================================================================
