---------------------------- MODULE GatewayQuery ----------------------------
(***************************************************************************)
(* A recursive query of the gateway (gateway/query.rs, QueryExecutor): the *)
(* records of the packages that are asked for, and of all they depend on,  *)
(* from all channels of the query, while ChannelExpander still finds more  *)
(* channels.                                                               *)
(*                                                                         *)
(* The executor is one task.  It spawns a fetch for every wanted name and  *)
(* every subdir; a fetch waits for the barrier of its subdir.  What is     *)
(* ready is handled one event at a time: a subdir that has arrived, or the *)
(* records of a name.  An event is a few steps here, during which no other *)
(* event is handled.                                                       *)
(***************************************************************************)
EXTENDS ChannelExpander

CONSTANTS
  Name, Record, Extra,
  RecordName,     \* the name of a record
  RecordsOf,      \* per channel, its records
  Depends,        \* per record, its dependencies, see Dep
  ExtraDepends,   \* per record and extra, the dependencies the extra adds
  SpecNames,      \* per MatchSpec, the names it matches, one for an exact name
  SpecRecords,    \* the records a spec matches
  SpecExtras,     \* the extras a spec asks for
  IsPattern,      \* specs whose name is a glob or a regex
  SpecChoices(_, _), \* the sets of specs to query for, given declarations and outages
  FetchMayFail    \* the records of a name may fail to load

\* A dependency: a name, with the extras it activates.
Dep == [name : Name, extras : SUBSET Extra]

ASSUME QueryAssumption ==
  /\ FetchMayFail \in BOOLEAN /\ IsFiniteSet(Name) /\ IsFiniteSet(Extra)
  /\ RecordName \in [Record -> Name] /\ RecordsOf \in [Channel -> SUBSET Record]
  /\ Depends \in [Record -> SUBSET Dep] /\ ExtraDepends \in [Record -> [Extra -> SUBSET Dep]]
  /\ IsPattern \subseteq Nat
  /\ \A d \in Declarations, o \in Outages : \A ss \in SpecChoices(d, o) :
       \A s \in ss : SpecExtras[s] \subseteq Extra

VARIABLES
  specs,        \* of the query
  seen,         \* names that have been queued
  wanted,       \* pending_package_specs
  queued,       \* all_queued_specs
  active,       \* active_extras
  fetched,      \* per name: the request of the first answer, and the channels that answered
  handles,      \* channels with a result slot: subdir_handles
  opened,       \* channels whose barrier is set
  inflight,     \* pending_records: [name, request, channel]
  deps,         \* dependencies of the current event that are to be queued
  patternSeen,  \* pattern_names_seen
  result        \* per channel and record: how often it was accumulated

queryVars == <<specs, seen, wanted, queued, active, fetched, handles, opened, inflight, deps,
               patternSeen, result>>
vars == <<expanderVars, queryVars>>

\* SourceSpecs, and the absence of a request.
NoRequest == [kind |-> "none", specs |-> {}]
Transitive == [kind |-> "transitive", specs |-> {}]
Input(ss) == [kind |-> "input", specs |-> ss]

\* Records of a name in a channel; a channel that cannot be fetched is empty.
Found(c, n) == IF c \in broken THEN {} ELSE {r \in RecordsOf[c] : RecordName[r] = n}

\* The records of an answer that the request is about.
Matching(rs, request) ==
  IF request.kind = "transitive" THEN rs
  ELSE {r \in rs : \E s \in request.specs : r \in SpecRecords[s]}

ExactSpecs(n) == {s \in specs \ IsPattern : n \in SpecNames[s]}
ExactNames == {n \in Name : ExactSpecs(n) # {}}

\* QueryExecutor::new
Init ==
  /\ ExpanderInit
  /\ specs \in SpecChoices(declares, broken)
  /\ seen = ExactNames
  /\ wanted = [n \in Name |-> IF n \in ExactNames THEN Input(ExactSpecs(n)) ELSE NoRequest]
  /\ active = [n \in Name |-> UNION {SpecExtras[s] : s \in ExactSpecs(n)}]
  /\ queued = [n \in Name |-> NoRequest]
  /\ fetched = [n \in Name |-> [source |-> NoRequest, pkgs |-> {}]]
  /\ handles = pending /\ opened = {} /\ inflight = {} /\ deps = {} /\ patternSeen = {}
  /\ result = [c \in Channel |-> [r \in Record |-> 0]]

Wanted == {n \in Name : wanted[n] # NoRequest}
Fetches(names, requests, channels) ==
  {[name |-> n, request |-> requests[n], channel |-> c] : n \in names, c \in channels}

\* The executor waits for an event.
Waiting == outcome = "running" /\ worklist = <<>> /\ deps = {} /\ Wanted = {}

-----------------------------------------------------------------------------
(* The steps of the loop *)

\* spawn_package_fetches, at the top of the loop.
SpawnPackageFetches ==
  /\ outcome = "running" /\ worklist = <<>> /\ deps = {} /\ Wanted # {}
  /\ inflight' = inflight \cup Fetches(Wanted, wanted, handles)
  /\ queued' = [n \in Name |-> IF n \in Wanted THEN wanted[n] ELSE queued[n]]
  /\ wanted' = [n \in Name |-> NoRequest]
  /\ UNCHANGED <<expanderVars, specs, seen, active, fetched, handles, opened, deps, patternSeen,
                 result>>

\* expand_pattern_specs_for_subdir: names of the subdir that no pattern has
\* been tried on, and the first pattern that matches (patterns are numbered).
NamesIn(c) == {RecordName[r] : r \in IF c \in broken THEN {} ELSE RecordsOf[c]}
PatternsFor(n) == {s \in specs \cap IsPattern : n \in SpecNames[s]}
FirstPattern(n) == CHOOSE s \in PatternsFor(n) : \A t \in PatternsFor(n) : s <= t
Expanded(c) == {n \in NamesIn(c) \ patternSeen : PatternsFor(n) # {}}

\* Defect: a discovered channel that cannot be fetched leaves its barrier unset.
OpenBarrierIfFetched(c) == opened' = IF c \in broken THEN opened ELSE opened \cup {c}

\* The barrier is set, with an empty subdir if there is nothing to be had.
OpenBarrier(c) == opened' = opened \cup {c}

\* A subdir has arrived: its barrier is set, patterns are expanded and its
\* relations are observed.
SubdirArrives(c) ==
  /\ Waiting
  /\ Arrived(c)
  /\ OpenBarrier(c)
  /\ IF outcome' = "failed" THEN UNCHANGED <<seen, wanted, active, patternSeen>>
     ELSE /\ seen' = seen \cup Expanded(c)
          /\ wanted' = [n \in Name |-> IF n \in Expanded(c) THEN Input({FirstPattern(n)})
                                       ELSE wanted[n]]
          /\ active' = [n \in Name |-> IF n \in Expanded(c)
                                       THEN active[n] \cup SpecExtras[FirstPattern(n)]
                                       ELSE active[n]]
          /\ patternSeen' = IF specs \cap IsPattern = {} THEN patternSeen
                            ELSE patternSeen \cup NamesIn(c)
  /\ UNCHANGED <<specs, queued, fetched, handles, inflight, deps, result>>

\* Defect: a subdir found in the middle of the query is asked only for what is
\* queued later.
ScheduleNothing(new) == UNCHANGED inflight

\* spawn_package_fetches_for_new_handle
ScheduleAll(new) ==
  inflight' = inflight \cup Fetches({n \in Name : queued[n] # NoRequest}, queued, new)

\* observe goes on; the subdirs it schedules get a slot and fetches for all
\* that has been queued so far (schedule_transitive_subdir).
ObserveRelations ==
  /\ Relax
  /\ handles' = handles \cup pending'
  /\ ScheduleAll(pending' \ pending)
  /\ UNCHANGED <<specs, seen, wanted, queued, active, fetched, opened, deps, patternSeen, result>>

\* queue_dependencies: base dependencies, and those of the active extras.
DependenciesOf(rs, extras) ==
  UNION {Depends[r] \cup UNION {ExtraDepends[r][e] : e \in extras} : r \in rs}

\* accumulate_records
Accumulate(f) ==
  [result EXCEPT ![f.channel] =
     [r \in Record |-> IF r \in Matching(Found(f.channel, f.name), f.request) THEN @[r] + 1
                       ELSE @[r]]]

\* The records of a name have arrived from one subdir.
RecordsArrive(f) ==
  /\ Waiting
  /\ f \in inflight /\ f.channel \in opened
  /\ inflight' = inflight \ {f}
  /\ fetched' = [fetched EXCEPT ![f.name] =
       [source |-> IF @.source = NoRequest THEN f.request ELSE @.source,
        pkgs |-> @.pkgs \cup {f.channel}]]
  /\ deps' = DependenciesOf(Matching(Found(f.channel, f.name), f.request), active[f.name])
  /\ result' = Accumulate(f)
  /\ UNCHANGED <<expanderVars, specs, seen, wanted, queued, active, handles, opened, patternSeen>>

\* Any fetch that fails ends the query.
RecordsFail(f) ==
  /\ Waiting /\ FetchMayFail
  /\ f \in inflight /\ f.channel \in opened
  /\ outcome' = "failed"
  /\ UNCHANGED <<strict, declares, broken, pending, relationsOf, depth, edges, worklist, fresh,
                 order, queryVars>>

\* late_walk: what newly active extras add, of records that were fetched.
LateWalk(n, extras) ==
  UNION {UNION {ExtraDepends[r][e] : e \in extras} :
         r \in UNION {Matching(Found(c, n), fetched[n].source) : c \in fetched[n].pkgs}}

\* Defect: only names that wait to be spawned are known.
IsNewPending(n) == wanted[n] = NoRequest

IsNew(n) == n \notin seen

\* queue_dependency: a new name is wanted; for a known one the extras count.
QueueDependency(d) ==
  /\ outcome = "running" /\ d \in deps
  /\ IF IsNew(d.name)
     THEN /\ seen' = seen \cup {d.name}
          /\ wanted' = [wanted EXCEPT ![d.name] = Transitive]
          /\ active' = [active EXCEPT ![d.name] = @ \cup d.extras]
          /\ deps' = deps \ {d}
     ELSE /\ active' = [active EXCEPT ![d.name] = @ \cup d.extras]
          /\ deps' = (deps \ {d}) \cup LateWalk(d.name, d.extras \ active[d.name])
          /\ UNCHANGED <<seen, wanted>>
  /\ UNCHANGED <<expanderVars, specs, queued, fetched, handles, opened, inflight, patternSeen,
                 result>>

\* All futures are done.
Complete ==
  /\ Waiting /\ inflight = {}
  /\ Finalize
  /\ UNCHANGED queryVars

Step ==
  \/ SpawnPackageFetches \/ ObserveRelations
  \/ \E c \in Channel : SubdirArrives(c)
  \/ \E f \in inflight : RecordsArrive(f) \/ RecordsFail(f)
  \/ \E d \in deps : QueueDependency(d)

Next == Step \/ Complete

Spec == Init /\ [][Next]_vars

\* Requests end, and the executor handles what is ready.
FairSpec == Spec /\ WF_vars(Step)

-----------------------------------------------------------------------------
(* Properties *)

\* Every variable keeps its type.
TypeOK ==
  /\ seen \subseteq Name /\ patternSeen \subseteq Name /\ deps \subseteq Dep
  /\ handles \subseteq Channel /\ opened \subseteq Channel
  /\ active \in [Name -> SUBSET Extra]
  /\ result \in [Channel -> [Record -> 0..2]]

(* What the query should find, computed without any order of events: start *)
(* from the specs and add dependencies as long as there are new ones.      *)

\* The specs that say which records of a name are asked for.
Asked(n) == ExactSpecs(n) \cup IF PatternsFor(n) = {} THEN {} ELSE {FirstPattern(n)}

\* The records that count.  all: for a name that both a pattern and a
\* dependency reach these are all its records, or those the pattern matches.
Counting(n, all, x) ==
  {r \in Record :
     /\ RecordName[r] = n /\ \E c \in Within[MaxDepth] : r \in Found(c, n)
     /\ \/ Asked(n) = {}
        \/ all /\ PatternsFor(n) # {} /\ n \in x.deps
        \/ \E s \in Asked(n) : r \in SpecRecords[s]}

Needed(all, x) == UNION {DependenciesOf(Counting(n, all, x), x.active[n]) : n \in x.names}

Grow(all, x) ==
  LET new == Needed(all, x)
  IN [names |-> x.names \cup {d.name : d \in new},
      deps |-> {d.name : d \in new},
      active |-> [n \in Name |-> x.active[n] \cup
                    UNION {d.extras : d \in {e \in new : e.name = n}}]]

Matched == {n \in Name : PatternsFor(n) # {} /\ \E c \in Within[MaxDepth] : Found(c, n) # {}}

Start ==
  [names |-> ExactNames \cup Matched, deps |-> {},
   active |-> [n \in Name |-> UNION {SpecExtras[s] :
                 s \in ExactSpecs(n) \cup IF n \in Matched THEN {FirstPattern(n)} ELSE {}}]]

\* Each round adds a name, a dependency or an extra of a name, or nothing.
Reached(all) ==
  LET f[i \in Nat] == IF i = 0 THEN Start ELSE Grow(all, f[i - 1])
  IN f[Cardinality(Name) * (Cardinality(Extra) + 2)]

Closure(all) ==
  LET last == Reached(all) IN UNION {Counting(n, all, last) : n \in last.names}

\* Whatever arrives first (records, subdirs, channels that are found late,
\* extras that become active after the records are there), a query that
\* succeeds has the records of all it depends on, from every channel, and no
\* others.  Where a pattern names what is also a dependency the result lies
\* between the records that match the pattern and all of that name.
ResultIsClosure ==
  outcome = "done" =>
    \A c \in Within[MaxDepth] :
      LET found == {r \in Record : result[c][r] > 0}
          there == IF c \in broken THEN {} ELSE RecordsOf[c]
      IN there \cap Closure(FALSE) \subseteq found /\ found \subseteq there \cap Closure(TRUE)

\* A record is reported once per channel, unless its name is matched by a
\* pattern (then it may be fetched again under the pattern).
NoDuplicates ==
  \A c \in Channel, r \in Record : result[c][r] > 1 => PatternsFor(RecordName[r]) # {}

\* The query ends: relations that go round in circles, or lower the depth of a
\* channel again, do not keep the expansion busy, and no fetch waits for a
\* barrier that is never set.
QueryEnds ==
  <>(outcome = "failed" \/ (Waiting /\ pending = {} /\ inflight = {}))
=============================================================================
