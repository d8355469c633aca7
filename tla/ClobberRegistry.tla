--------------------------- MODULE ClobberRegistry ---------------------------
(***************************************************************************)
(* Files that several packages want in the same place (clobbering): the    *)
(* registry an installation keeps (install/clobber_registry.rs) and the    *)
(* transaction around it (installer/mod.rs, driver.rs, unlink.rs): unlink  *)
(* what is removed or changed, link what is installed, unclobber.          *)
(*                                                                         *)
(* A build is one archive of a named package.  The order of                *)
(* sort_topologically is given by Rank: dependents come after what they    *)
(* depend on, and the last one wins.                                       *)
(*                                                                         *)
(* The prefix is a set of entries: files, which carry the build they came  *)
(* from, and directories, each under the prefix itself or under            *)
(* __clobbers__/p for a package p.                                         *)
(***************************************************************************)
EXTENDS PathTrie, FiniteSets

CONSTANTS
  None,            \* no record in conda-meta
  Build,
  NameOf,          \* [Build -> Pkg]
  FilesOf,         \* [Build -> SUBSET Path]
  Rank,            \* [Build -> Nat]
  Failing,         \* bound: the transactions in which any step may fail, or the process die
  MaxTransactions  \* bound: number of installations

ASSUME BuildAssumption ==
  /\ NameOf \in [Build -> Pkg]
  /\ FilesOf \in [Build -> SUBSET Path]
  /\ Rank \in [Build -> Nat] /\ \A b, c \in Build : Rank[b] = Rank[c] => b = c
  /\ MaxTransactions \in Nat /\ Failing \subseteq 1..MaxTransactions

Prefix == "prefix"
Dir == "dir"

VARIABLES
  fs,         \* the entries of the prefix
  meta,       \* conda-meta: per package its record, or None
  phase,      \* of the transaction
  desired,    \* the builds the transaction is to install or keep
  removing, changing,   \* packages still to unlink: removed ones, then changed ones
  installing, \* builds still to link
  jobs,       \* the link jobs that have registered their paths: [of, stage, record]
  gone,       \* the records this transaction unlinks
  trie,       \* ClobberRegistry::path_trie
  toAdd,      \* ClobberRegistry::to_add
  result,     \* of the last transaction
  count,
  \* auxiliary
  intact,     \* no transaction has failed so far
  disturbed,  \* a transaction began while jobs of a failed one were under way
  spoilt      \* paths the registry has mixed up, see Contested

registry == <<trie, toAdd>>
plan == <<desired, removing, changing, gone>>
history == <<disturbed, spoilt>>
ending == <<result, intact, count, history>>
vars == <<fs, meta, phase, plan, installing, jobs, registry, ending>>

Init ==
  /\ fs = {} /\ meta = [p \in Pkg |-> None]
  /\ phase = "idle"
  /\ desired = {} /\ removing = {} /\ changing = {} /\ gone = {}
  /\ installing = {} /\ jobs = {}
  /\ trie = EmptyTrie /\ toAdd = <<>>
  /\ result = "none" /\ intact = TRUE /\ count = 0 /\ disturbed = FALSE /\ spoilt = {}

Installed == {p \in Pkg : meta[p] # None}

-----------------------------------------------------------------------------
(* The file system *)

Exists(f, root, p) == \E e \in f : e.root = root /\ e.path = p
FileAbove(f, root, p) == \E e \in f : e.root = root /\ e.is # Dir /\ IsStrictPrefix(e.path, p)
Parents(root, p) == {[root |-> root, path |-> q, is |-> Dir] : q \in Above(p) \ {Root}}

\* One line of sync_clobbers: nothing is done unless the source is there and
\* the destination free; creating the parents may fail.
MoveIfFree(state, from, to, p) ==
  LET moved == {e \in state.fs : e.root = from /\ IsPrefix(p, e.path)}
  IN IF ~state.ok \/ ~Exists(state.fs, from, p) \/ Exists(state.fs, to, p) THEN state
     ELSE IF FileAbove(state.fs, to, p) THEN [state EXCEPT !.ok = FALSE]
     ELSE [state EXCEPT !.fs = (@ \ moved) \cup Parents(to, p) \cup
                               {[e EXCEPT !.root = to] : e \in moved}]

\* sync_clobbers: first out of the way, then into place.
SyncClobbers(removals, additions) ==
  LET out(state, c) == MoveIfFree(state, Prefix, c[2], c[1])
      in(state, c) == MoveIfFree(state, c[2], Prefix, c[1])
  IN FoldLeft(in, FoldLeft(out, [fs |-> fs, ok |-> TRUE], removals), additions)

\* The files of a record, where the record says they are.
RecordedFiles(record) ==
  {[root |-> IF record.at[p] = "place" THEN Prefix ELSE NameOf[record.build],
    path |-> p, is |-> record.build] : p \in FilesOf[record.build]}

\* A file can be put at, or removed from, where an entry says: there is no
\* directory in its place and no file above it.
Accessible(f, e) == [e EXCEPT !.is = Dir] \notin f /\ ~FileAbove(f, e.root, e.path)

\* Whatever is where the entries are is removed.
Without(f, entries) ==
  {e \in f : ~\E d \in entries : e.root = d.root /\ e.path = d.path}

\* Where remove_empty_directories starts: the directories that the removed
\* records had files in.  It goes up from there while a directory is empty.
Starts(records) ==
  {[root |-> d.root, path |-> Front(d.path), is |-> Dir] :
     d \in {e \in UNION {RecordedFiles(r) : r \in records} : Len(e.path) > 1}}

\* It is an error if one of them is a file.
CanCleanUp(f, records) ==
  \A d \in Starts(records) : ~\E e \in f : e.root = d.root /\ e.path = d.path /\ e.is # Dir

WithoutEmptyDirectories(f, records) ==
  LET reached(e) == e.is = Dir /\ \E d \in Starts(records) \cap f :
                                    d.root = e.root /\ IsPrefix(e.path, d.path)
      inUse(e) == \E d \in f : d.root = e.root /\ IsStrictPrefix(e.path, d.path) /\ ~reached(d)
  IN {e \in f : reached(e) => inUse(e)}

-----------------------------------------------------------------------------
(* The transaction *)

\* sort_topologically of the installed packages.
Sorted == SetToSortSeq(Installed, LAMBDA p, q : Rank[meta[p].build] < Rank[meta[q].build])

\* ClobberRegistry::new inserts the records from the last to the first.
RegistryOrder == Reverse(Sorted)

WantedFor(wanted, p) == {b \in wanted : NameOf[b] = p}

\* Installed packages that are wanted with another content.
Changed(wanted) == {p \in Installed : WantedFor(wanted, p) # {} /\ meta[p].build \notin wanted}

\* The builds with a record that have a file at q.
At(q) == {b \in {meta[p].build : p \in Installed} : q \in FilesOf[b]}

\* Paths at which the registry may go wrong in a transaction: of three
\* packages the middle one leaves and the first stays, or the file of one
\* package is a directory of another.
Contested(wanted) ==
  LET builds == wanted \cup {meta[p].build : p \in Installed}
      middleLeaves(q) == \E x, y, z \in At(q) : /\ Rank[x] < Rank[y] /\ Rank[y] < Rank[z]
                                                /\ y \notin wanted /\ z \in wanted
      tangled(q) == \E b, c \in builds : /\ q \in FilesOf[b]
                                         /\ \E r \in FilesOf[c] : IsStrictPrefix(q, r) \/ IsStrictPrefix(r, q)
  IN {q \in Path : middleLeaves(q) \/ tangled(q)}

\* from_current_and_desired: what is not desired is removed, what has another
\* content is changed, the rest stays.  An empty transaction returns at once.
\* Nothing waits for link jobs of a failed transaction.
Begin(wanted) ==
  /\ phase = "idle" /\ count < MaxTransactions
  /\ \A b, c \in wanted : NameOf[b] = NameOf[c] => b = c
  /\ wanted # {meta[p].build : p \in Installed}
  /\ phase' = "unlink"
  /\ desired' = wanted
  /\ removing' = {p \in Installed : WantedFor(wanted, p) = {}}
  /\ changing' = Changed(wanted)
  /\ installing' = {b \in wanted : NameOf[b] \in changing' \/ meta[NameOf[b]] = None}
  /\ gone' = {}
  /\ trie' = FoldLeft(LAMBDA t, p : Insert(t, p, FilesOf[meta[p].build]),
                      EmptyTrie, RegistryOrder)
  /\ toAdd' = <<>>
  /\ count' = count + 1
  /\ disturbed' = (disturbed \/ jobs # {})
  /\ spoilt' = spoilt \cup Contested(wanted)
  /\ UNCHANGED <<fs, meta, jobs, result, intact>>

\* The installation ends early, or the process dies.  The registry goes; the
\* link jobs on the thread pool, other than one that has ended, go only with
\* the process.
Abort(ended) ==
  /\ phase' = "idle"
  /\ result' = "error" /\ intact' = FALSE
  /\ installing' = {}
  /\ jobs' \in {{}, jobs \ ended}
  /\ trie' = EmptyTrie /\ toAdd' = <<>>
  /\ UNCHANGED <<plan, count, history>>

\* Defect: what is registered for a removed package stays registered.
UnregisterPathsForgotten(p) == UNCHANGED <<trie, toAdd>>

\* unregister_paths
UnregisterPaths(p) ==
  /\ toAdd' = toAdd \o NextCandidates(trie, p)
  /\ trie' = Unregister(trie, p)

\* The operations are polled in order: first what is removed, then what is
\* changed.
MayUnlink(p) == p \in removing \/ (p \in changing /\ removing = {})

\* unregister_paths and unlink_package
UnlinkPackage(p) ==
  /\ phase = "unlink" /\ MayUnlink(p)
  /\ \A d \in RecordedFiles(meta[p]) : Accessible(fs, d)
  /\ UnregisterPaths(p)
  /\ fs' = Without(fs, RecordedFiles(meta[p]))
  /\ meta' = [meta EXCEPT ![p] = None]
  /\ gone' = gone \cup {meta[p]}
  /\ removing' = removing \ {p} /\ changing' = changing \ {p}
  /\ UNCHANGED <<phase, desired, installing, jobs, ending>>

\* Unlinking is concurrent: some files of any of the packages are gone, their
\* records are still there.
UnlinkFails ==
  LET left == UNION {RecordedFiles(meta[p]) : p \in removing \cup changing}
  IN /\ phase = "unlink" /\ left # {}
     /\ count \in Failing \/ \E d \in left : ~Accessible(fs, d)
     /\ \E part \in SUBSET {d \in left : Accessible(fs, d)} : fs' = Without(fs, part)
     /\ Abort({})
     /\ UNCHANGED meta

\* All unlink futures are done: empty directories go.
EndUnlink ==
  /\ phase = "unlink" /\ removing = {} /\ changing = {}
  /\ CanCleanUp(fs, gone)
  /\ phase' = "link"
  /\ fs' = WithoutEmptyDirectories(fs, gone)
  /\ UNCHANGED <<meta, plan, installing, jobs, registry, ending>>

EndUnlinkFails ==
  /\ phase = "unlink" /\ removing = {} /\ changing = {}
  /\ count \in Failing \/ ~CanCleanUp(fs, gone)
  /\ Abort({})
  /\ UNCHANGED <<fs, meta>>

-----------------------------------------------------------------------------
(* link_package: one job per build on the thread pool *)

\* A job of the transaction under way; the others are left over from failed
\* ones, and nobody learns how they end.
Awaited(j) == phase = "link" /\ j.of = count

BuildOf(j) == j.record.build

\* register_paths, under the lock of the registry: paths in conflict go to
\* the clobbers directory.
RegisterPaths(b) ==
  /\ phase = "link" /\ b \in installing
  /\ ~\E j \in jobs : Awaited(j) /\ BuildOf(j) = b
  /\ jobs' = jobs \cup
       {[of |-> count, stage |-> "registered",
         record |-> [build |-> b, at |-> [p \in FilesOf[b] |->
                       IF p \in Conflicts(trie, FilesOf[b]) THEN "clobber" ELSE "place"]]]}
  /\ trie' = Insert(trie, NameOf[b], FilesOf[b])
  /\ UNCHANGED <<fs, meta, phase, plan, installing, toAdd, ending>>

\* The directories of all the paths are made, those of clobbered paths in the
\* prefix too, unless something is there.
NewDirectories(j) ==
  LET wanted == UNION {Parents(Prefix, p) : p \in FilesOf[BuildOf(j)]} \cup
                UNION {Parents(d.root, d.path) : d \in RecordedFiles(j.record)}
  IN {e \in wanted : ~Exists(fs, e.root, e.path)}

\* create_dir fails below a file.
Creatable(dirs) == {e \in dirs : ~FileAbove(fs, e.root, e.path)}

MakeDirectories(j) ==
  /\ j.stage = "registered"
  /\ NewDirectories(j) \subseteq Creatable(NewDirectories(j))
  /\ fs' = fs \cup NewDirectories(j)
  /\ jobs' = (jobs \ {j}) \cup {[j EXCEPT !.stage = "prepared"]}
  /\ UNCHANGED <<meta, phase, plan, installing, registry, ending>>

\* Every file is linked, replacing a file that is in its way; the record is
\* written.  (A left-over job may write a second record beside the one of
\* another build of its package; the model keeps the last.  The prefix is
\* disturbed then, and nothing is claimed of it.)
LinkFiles(j) ==
  LET files == RecordedFiles(j.record)
  IN /\ j.stage = "prepared"
     /\ \A d \in files : Accessible(fs, d)
     /\ fs' = Without(fs, files) \cup files
     /\ meta' = [meta EXCEPT ![NameOf[BuildOf(j)]] = j.record]
     /\ jobs' = jobs \ {j}
     /\ installing' = IF Awaited(j) THEN installing \ {BuildOf(j)} ELSE installing
     /\ UNCHANGED <<phase, plan, registry, ending>>

\* A job fails, and with it the installation that waits for it.
JobFails(j) ==
  IF Awaited(j) THEN Abort({j})
  ELSE jobs' = jobs \ {j} /\ UNCHANGED <<phase, plan, installing, registry, ending>>

MakeDirectoriesFails(j) ==
  /\ j.stage = "registered"
  /\ j.of \in Failing \/ NewDirectories(j) # Creatable(NewDirectories(j))
  /\ fs' = fs \cup Creatable(NewDirectories(j))
  /\ JobFails(j)
  /\ UNCHANGED meta

\* Some files are linked, the record is not written.
LinkFilesFails(j) ==
  LET files == RecordedFiles(j.record)
  IN /\ j.stage = "prepared"
     /\ j.of \in Failing \/ \E d \in files : ~Accessible(fs, d)
     /\ \E part \in SUBSET {d \in files : Accessible(fs, d)} : fs' = Without(fs, part) \cup part
     /\ JobFails(j)
     /\ UNCHANGED meta

-----------------------------------------------------------------------------
(* post_process *)

ListMinus(s, t) == SelectSeq(s, LAMBDA c : c \notin Range(t))

\* Defect: the candidates that unregister_paths collected are forgotten.
AllAdditionsForgotten(new) == FromClobbers(trie, trie.packages, new)

\* unclobber: what to move into place, the entries of to_add included.
AllAdditions(new) ==
  LET from == FromClobbers(trie, trie.packages, new)
      more == SelectSeq(toAdd, LAMBDA c : c[2] \in Range(trie.packages) /\ c \notin Range(from))
  IN more \o from

\* What is to be moved both ways stays where it is.
Changes ==
  LET new == Reverse(Sorted)
      removals == ToClobbers(trie, trie.packages, new)
      additions == AllAdditions(new)
  IN [removals |-> ListMinus(removals, additions), additions |-> ListMinus(additions, removals)]

\* Defect: losers are not renamed in their records.
RenamedAdditionsOnly(changes) ==
  [p \in Pkg |-> IF meta[p] = None THEN None
                 ELSE [meta[p] EXCEPT !.at = [q \in DOMAIN @ |->
                         IF <<q, p>> \in Range(changes.additions) THEN "place" ELSE @[q]]]]

\* rename_path_in_prefix_record, for all changes
Renamed(changes) ==
  [p \in Pkg |-> IF meta[p] = None THEN None
                 ELSE [meta[p] EXCEPT !.at = [q \in DOMAIN @ |->
                         IF <<q, p>> \in Range(changes.additions) THEN "place"
                         ELSE IF <<q, p>> \in Range(changes.removals) THEN "clobber"
                         ELSE @[q]]]]

\* The assertion of reprioritize_packages; it panics otherwise.
IsReordering == Range(trie.packages) = Installed

ReadyToPostProcess == phase = "link" /\ installing = {}

\* The records are read back and sorted, the files moved, the records
\* rewritten, empty directories removed (if that fails it is only logged).
PostProcess ==
  /\ ReadyToPostProcess /\ IsReordering
  /\ LET synced == SyncClobbers(Changes.removals, Changes.additions)
     IN /\ synced.ok
        /\ fs' \in {WithoutEmptyDirectories(synced.fs, gone)} \cup
                   (IF CanCleanUp(synced.fs, gone) THEN {} ELSE {synced.fs})
  /\ meta' = Renamed(Changes)
  /\ phase' = "idle"
  /\ result' = "ok"
  /\ trie' = EmptyTrie /\ toAdd' = <<>>
  /\ UNCHANGED <<plan, installing, jobs, intact, count, history>>

\* Some moves are made and no record is rewritten, or all moves are made and
\* some records are rewritten.
PostProcessFails ==
  /\ ReadyToPostProcess
  /\ IF IsReordering
     THEN LET out == Changes.removals
              in == Changes.additions
          IN /\ count \in Failing \/ ~SyncClobbers(out, in).ok
             /\ \/ /\ \E i \in 0..Len(out), j \in 0..Len(in) :
                        /\ j > 0 => i = Len(out)
                        /\ fs' = SyncClobbers(SubSeq(out, 1, i), SubSeq(in, 1, j)).fs
                   /\ UNCHANGED meta
                \/ /\ SyncClobbers(out, in).ok
                   /\ fs' = SyncClobbers(out, in).fs
                   /\ \E written \in SUBSET Installed : meta' =
                        [p \in Pkg |-> IF p \in written THEN Renamed(Changes)[p] ELSE meta[p]]
     ELSE UNCHANGED <<fs, meta>>
  /\ Abort({})

Next ==
  \/ \E wanted \in SUBSET Build : Begin(wanted)
  \/ \E p \in Pkg : UnlinkPackage(p)
  \/ \E b \in Build : RegisterPaths(b)
  \/ \E j \in jobs : \/ MakeDirectories(j) \/ LinkFiles(j)
                     \/ MakeDirectoriesFails(j) \/ LinkFilesFails(j)
  \/ UnlinkFails \/ EndUnlink \/ EndUnlinkFails \/ PostProcess \/ PostProcessFails

Spec == Init /\ [][Next]_vars

-----------------------------------------------------------------------------
(* Properties *)

\* Every variable keeps its type.
TypeOK ==
  /\ \A e \in fs : e.root \in {Prefix} \cup Pkg /\ e.path \in Path /\ (e.is = Dir \/ e.is \in Build)
  /\ \A p \in Installed : /\ NameOf[meta[p].build] = p
                          /\ meta[p].at \in [FilesOf[meta[p].build] -> {"place", "clobber"}]
  /\ phase \in {"idle", "unlink", "link"}
  /\ desired \subseteq Build /\ removing \subseteq Pkg /\ changing \subseteq Pkg
  /\ installing \subseteq Build
  /\ \A j \in jobs : /\ j.of \in 1..MaxTransactions /\ BuildOf(j) \in Build
                    /\ j.stage \in {"registered", "prepared"}
  /\ trie \in Tries
  /\ Range(toAdd) \subseteq Path \X Pkg
  /\ result \in {"none", "ok", "error"} /\ intact \in BOOLEAN /\ count \in 0..MaxTransactions
  /\ disturbed \in BOOLEAN /\ spoilt \subseteq Path

\* "Expected just reordering": when the links are done, the packages in the
\* registry are the ones with a record, or reprioritize_packages panics.  This
\* holds whatever failed before, as long as no transaction began while link
\* jobs of a failed one were still under way.
JustReordering == ReadyToPostProcess /\ ~disturbed => IsReordering

\* The assertion as it stands, left-over jobs included.
JustReorderingAlways == ReadyToPostProcess => IsReordering

\* As long as no transaction failed, between transactions the files in the
\* prefix are the files of the records, each where its record says;
\* unlink_package relies on it.  Except at the paths at which the registry
\* has been misled: it does not spread from them.
RecordsTellTheTruth ==
  phase = "idle" /\ intact =>
    {e \in fs : e.is # Dir /\ e.path \notin spoilt} =
    {e \in UNION {RecordedFiles(meta[p]) : p \in Installed} : e.path \notin spoilt}

\* "The file from the highest-priority package wins": of several packages
\* that have a file at a path the last in topological order has its file
\* there and the others keep theirs in the clobbers directory, as long as no
\* transaction failed.
WinnersInPlace ==
  phase = "idle" /\ intact => \A q \in Path \ spoilt : \A b \in At(q) :
    LET wins == \A c \in At(q) : Rank[c] <= Rank[b]
    IN [root |-> IF wins THEN Prefix ELSE NameOf[b], path |-> q, is |-> b] \in fs

\* As long as no transaction failed, no file of an installed package is lost:
\* it is in the prefix or in the clobbers directory, as unclobber is to
\* "synchronize in-memory representation with what we have on-disk".
NothingLost ==
  phase = "idle" /\ intact => \A p \in Installed : \A q \in FilesOf[meta[p].build] :
    \E e \in fs : e.root \in {Prefix, p} /\ e.path = q /\ e.is = meta[p].build
=============================================================================
