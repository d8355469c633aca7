--------------------------- MODULE ChannelExpander ---------------------------
(***************************************************************************)
(* Channel relations (CEP-42) in the gateway: channel_expander.rs and      *)
(* channel_expansion.rs discover the channels a query works on, and        *)
(* channel_relations.rs puts them in an order of priority.                 *)
(*                                                                         *)
(* A channel may declare one base (which outranks it) and one channel it   *)
(* overrides.  The metadata of all known channels is fetched concurrently  *)
(* and arrives in any order; a declaration that arrives may introduce      *)
(* channels, which are then fetched too, up to MaxDepth hops away from a   *)
(* channel of the user.  Channels are numbered in the order of their URLs. *)
(* One platform is modelled: a second one only adds declarations.          *)
(***************************************************************************)
EXTENDS Integers, Sequences, FiniteSets, SequencesExt

CONSTANTS
  Channel,        \* URLs, as numbers
  UserChannels,   \* the sequence of channels the user asked for
  MaxDepth,       \* channel_relations_max_depth
  Modes,          \* the modes that are tried, see strict
  Outages,        \* the sets of channels that cannot be fetched
  Declarations    \* what channels may declare: [base, overrides], 0 for nothing

ASSUME ExpanderAssumption ==
  /\ Channel \subseteq Nat \ {0} /\ IsFiniteSet(Channel) /\ MaxDepth \in Nat \ {0} /\ Modes \subseteq BOOLEAN
  /\ UserChannels \in Seq(Channel)
  /\ Declarations \subseteq [Channel -> [base : Channel \cup {0}, overrides : Channel \cup {0}]]
  /\ \A i, j \in DOMAIN UserChannels : i # j => UserChannels[i] # UserChannels[j]

VARIABLES
  strict,      \* ChannelRelationsMode::Strict; Warn otherwise
  declares,    \* per channel: what its metadata says, if it can be fetched
  broken,      \* channels whose metadata cannot be fetched
  pending,     \* channels whose subdir is being fetched
  relationsOf, \* channels whose declaration has been stored
  depth,       \* depth_of; MaxDepth + 1 for a channel that is not known
  edges,       \* PriorityEdges derived so far
  worklist,    \* of relax, channels to derive edges from
  fresh,       \* newly_discovered
  outcome,     \* running, done or failed
  order        \* the order of priority that was resolved

expanderVars ==
  <<strict, declares, broken, pending, relationsOf, depth, edges, worklist, fresh, outcome,
    order>>

IsUser(c) == c \in ToSet(UserChannels)
Discovered == {c \in Channel : depth[c] <= MaxDepth}

\* Metadata that says nothing is not looked at.
Declared(c) == IF c \in broken THEN [base |-> 0, overrides |-> 0] ELSE declares[c]

ExpanderInit ==
  /\ strict \in Modes
  /\ declares \in Declarations
  /\ broken \in Outages
  /\ pending = ToSet(UserChannels)
  /\ relationsOf = {} /\ edges = {} /\ worklist = <<>> /\ fresh = {}
  /\ depth = [c \in Channel |-> IF IsUser(c) THEN 0 ELSE MaxDepth + 1]
  /\ outcome = "running" /\ order = <<>>

-----------------------------------------------------------------------------
(* resolve_channel_priority *)

UserPos(c) == CHOOSE i \in DOMAIN UserChannels : UserChannels[i] = c

\* PriorityEdge's derived order.
EdgeBefore(e, f) ==
  \/ e.from < f.from
  \/ e.from = f.from /\ e.to < f.to
  \/ e.from = f.from /\ e.to = f.to /\ e.source = "Base" /\ f.source = "Override"

\* dispatch_edge: the user placed `to` before `from`.
Conflict(e) == IsUser(e.from) /\ IsUser(e.to) /\ UserPos(e.to) < UserPos(e.from)

Ignored(es) == {e \in es : Conflict(e)}

\* What can be reached from a node in an adjacency map: can_reach.
Reach(adjacency, start) ==
  LET within[n \in Nat] ==
        IF n = 0 THEN {start}
        ELSE LET near == within[n - 1]
             IN near \cup UNION {ToSet(adjacency[c]) : c \in near}
  IN within[Cardinality(Channel)]

\* Defect: every relation edge is kept.
InsertAll(g, e) ==
  [adjacency |-> [g.adjacency EXCEPT ![e.from] = Append(@, e.to)], kept |-> g.kept \cup {e}]

\* An edge is kept unless it closes a cycle with the edges kept before it.
Insert(g, e) ==
  IF e.from \in Reach(g.adjacency, e.to) THEN g
  ELSE [adjacency |-> [g.adjacency EXCEPT ![e.from] = Append(@, e.to)], kept |-> g.kept \cup {e}]

\* The chain of the user's channels, ...
UserChain ==
  [c \in Channel |-> IF IsUser(c) /\ UserPos(c) < Len(UserChannels)
                     THEN <<UserChannels[UserPos(c) + 1]>> ELSE <<>>]

\* ... then the relation edges in order: the first of a set of edges.
FirstEdge(es) == CHOOSE e \in es : \A f \in es \ {e} : EdgeBefore(e, f)

\* One round of the loop over the relation edges, for the first that is left.
InsertNext(x) ==
  IF x.left = {} THEN x
  ELSE [graph |-> Insert(x.graph, FirstEdge(x.left)), left |-> x.left \ {FirstEdge(x.left)}]

Graph ==
  LET after[n \in Nat] ==
        IF n = 0 THEN [graph |-> [adjacency |-> UserChain, kept |-> {}],
                       left |-> edges \ Ignored(edges)]
        ELSE InsertNext(after[n - 1])
  IN after[Cardinality(edges)].graph

\* Whether an insertion in any order has to drop an edge: there are channels
\* each of which outranks another one of them.
Cyclic(es) ==
  \E arcs \in {{<<e.from, e.to>> : e \in es \ Ignored(es)}
                \cup {<<UserChannels[i - 1], UserChannels[i]>> : i \in 2..Len(UserChannels)}} :
    \E S \in SUBSET {a[1] : a \in arcs} \ {{}} : \A c \in S : \E d \in S : <<c, d>> \in arcs

\* Relations that had to be dropped to break a cycle.
Broken == (edges \ Ignored(edges)) \ Graph.kept

\* The first of some nodes: the user's channels come first, then the others by URL.
FirstNode(S) ==
  CHOOSE c \in S : \A d \in S \ {c} :
    \/ IsUser(c) /\ ~IsUser(d)
    \/ IsUser(c) /\ IsUser(d) /\ UserPos(c) < UserPos(d)
    \/ ~IsUser(c) /\ ~IsUser(d) /\ c < d

\* The first element of a sequence that is in S.
FirstIn(s, S) == s[CHOOSE i \in DOMAIN s : s[i] \in S /\ \A j \in 1..(i - 1) : s[j] \notin S]

\* One step of the search: the loop over the nodes, or dfs_post_order, which
\* goes on to a neighbour or is done with a node.
Visit(adjacency, x) ==
  LET new == Discovered \ (ToSet(x.stack) \cup ToSet(x.post))
      neighbours == adjacency[Last(x.stack)]
  IN IF x.stack = <<>>
     THEN IF new = {} THEN x ELSE [x EXCEPT !.stack = <<FirstNode(new)>>]
     ELSE IF ToSet(neighbours) \cap new # {}
     THEN [x EXCEPT !.stack = Append(@, FirstIn(neighbours, new))]
     ELSE [stack |-> Front(x.stack), post |-> Append(x.post, Last(x.stack))]

\* Every channel is pushed once and popped once; the order is the reverse of
\* the post-order.
ResolvedOrder ==
  LET adjacency == Graph.adjacency
      after[n \in Nat] == IF n = 0 THEN [stack |-> <<>>, post |-> <<>>]
                          ELSE Visit(adjacency, after[n - 1])
  IN Reverse(after[2 * Cardinality(Channel)].post)

-----------------------------------------------------------------------------
(* observe and relax *)

\* A subdir has been fetched.  A failure is an error for a channel of the user
\* and in strict mode; otherwise the discovered channel counts as empty.
Arrived(c) ==
  /\ outcome = "running" /\ worklist = <<>> /\ c \in pending
  /\ pending' = pending \ {c}
  /\ IF c \in broken /\ (IsUser(c) \/ strict)
     THEN outcome' = "failed" /\ UNCHANGED <<relationsOf, worklist>>
     ELSE /\ IF Declared(c) = [base |-> 0, overrides |-> 0]
             THEN UNCHANGED <<relationsOf, worklist>>
             ELSE relationsOf' = relationsOf \cup {c} /\ worklist' = <<c>>
          /\ UNCHANGED outcome
  /\ UNCHANGED <<strict, declares, broken, depth, edges, fresh, order>>

\* Base and override of the same channel, or a channel's relation to itself.
Malformed(c) ==
  \/ Declared(c).base # 0 /\ Declared(c).base = Declared(c).overrides
  \/ c \in {Declared(c).base, Declared(c).overrides}

\* The references of c, with the edges they stand for, ...
BaseOf(c) ==
  [target |-> Declared(c).base, from |-> Declared(c).base, to |-> c, source |-> "Base"]
OverrideOf(c) ==
  [target |-> Declared(c).overrides, from |-> c, to |-> Declared(c).overrides,
   source |-> "Override"]

\* ... and those that are followed.
References(c) ==
  {r \in {BaseOf(c), OverrideOf(c)} :
     Declared(c).base # Declared(c).overrides /\ r.target \notin {0, c}}

Edge(r) == [from |-> r.from, to |-> r.to, source |-> r.source]

\* Defect: a depth that improves is noted, and nothing is derived again.
FollowOnce(x, r) ==
  [edges |-> x.edges \cup {Edge(r)},
   depth |-> IF x.next < x.depth[r.target] THEN [x.depth EXCEPT ![r.target] = x.next]
             ELSE x.depth,
   worklist |-> x.worklist,
   fresh |-> IF x.depth[r.target] > MaxDepth THEN x.fresh \cup {r.target} ELSE x.fresh,
   next |-> x.next]

\* One reference of derive_edges.  A channel whose depth improves is derived
\* from again, in case it refused references before.
Follow(x, r) ==
  [edges |-> x.edges \cup {Edge(r)},
   depth |-> IF x.next < x.depth[r.target] THEN [x.depth EXCEPT ![r.target] = x.next]
             ELSE x.depth,
   worklist |-> IF x.next < x.depth[r.target] /\ x.depth[r.target] <= MaxDepth
                THEN Append(x.worklist, r.target) ELSE x.worklist,
   fresh |-> IF x.depth[r.target] > MaxDepth THEN x.fresh \cup {r.target} ELSE x.fresh,
   next |-> x.next]

\* derive_edges: the base, then what is overridden.
DeriveEdges(x, c) ==
  LET y == IF BaseOf(c) \in References(c) THEN Follow(x, BaseOf(c)) ELSE x
  IN IF OverrideOf(c) \in References(c) THEN Follow(y, OverrideOf(c)) ELSE y

\* One round of the loop in relax, for the last channel of the worklist.
Relaxed(c) ==
  LET x == [edges |-> edges, depth |-> depth, worklist |-> Front(worklist), fresh |-> fresh,
            next |-> depth[c] + 1]
  IN IF c \in relationsOf /\ x.next <= MaxDepth THEN DeriveEdges(x, c) ELSE x

Relax ==
  /\ outcome = "running" /\ worklist # <<>>
  /\ LET c == Last(worklist)
         y == Relaxed(c)
     IN IF strict /\ \/ c \in relationsOf /\ Malformed(c)
                     \/ y.worklist = <<>> /\ Cyclic(y.edges)  \* strict_cycle_check
        THEN outcome' = "failed" /\ UNCHANGED <<edges, depth, worklist, fresh, pending>>
        ELSE /\ edges' = y.edges /\ depth' = y.depth /\ worklist' = y.worklist
             \* the loop ends: what is new is scheduled
             /\ IF y.worklist = <<>> THEN pending' = pending \cup y.fresh /\ fresh' = {}
                ELSE UNCHANGED pending /\ fresh' = y.fresh
             /\ UNCHANGED outcome
  /\ UNCHANGED <<strict, declares, broken, relationsOf, order>>

-----------------------------------------------------------------------------
(* finalize *)

Rank(c) == CHOOSE i \in DOMAIN order : order[i] = c

\* report_depth_refusals: a reference that stays unfollowed.
DepthRefused ==
  \E c \in relationsOf : depth[c] + 1 > MaxDepth /\ References(c) # {}

\* All metadata is there.  In strict mode what would be a warning is an error.
Finalize ==
  /\ outcome = "running" /\ worklist = <<>> /\ pending = {}
  /\ outcome' = IF edges # {} /\ strict /\ (DepthRefused \/ Broken # {})
                THEN "failed" ELSE "done"
  /\ order' = IF edges = {} THEN UserChannels ELSE ResolvedOrder
  /\ UNCHANGED <<strict, declares, broken, pending, relationsOf, depth, edges, worklist, fresh>>

-----------------------------------------------------------------------------
(* The order of the results: anchors, channel_placement *)

\* Discovery arcs run from the declaring channel to its target.
Targets(c) == {e.from : e \in {f \in edges : f.source = "Base" /\ f.to = c}}
                \cup {e.to : e \in {f \in edges : f.source = "Override" /\ f.from = c}}

\* What a user channel reaches without passing another user channel.
Introduces(u) ==
  LET within[n \in Nat] ==
        IF n = 0 THEN {u}
        ELSE LET near == within[n - 1]
             IN near \cup {c \in UNION {Targets(d) : d \in near} : ~IsUser(c)}
  IN within[Cardinality(Channel)] \ {u}

\* The first user channel that reaches a channel; channels of the user are
\* their own anchors.
Anchor(c) ==
  IF IsUser(c) THEN c
  ELSE UserChannels[CHOOSE i \in DOMAIN UserChannels :
         /\ c \in Introduces(UserChannels[i])
         /\ \A j \in 1..(i - 1) : c \notin Introduces(UserChannels[j])]

\* Defect: a discovered channel always follows the one that introduced it.
PlacementAfter(c) == IF IsUser(c) THEN 1 ELSE 2

Placement(c) == IF IsUser(c) THEN 1 ELSE IF Rank(c) < Rank(Anchor(c)) THEN 0 ELSE 2

\* BucketOrder, without platforms.
BucketBefore(c, d) ==
  LET k(x) == <<UserPos(Anchor(x)), Placement(x), IF IsUser(x) THEN 0 ELSE Rank(x)>>
      kc == k(c) kd == k(d)
  IN \/ kc[1] < kd[1]
     \/ kc[1] = kd[1] /\ kc[2] < kd[2]
     \/ kc[1] = kd[1] /\ kc[2] = kd[2] /\ kc[3] < kd[3]

-----------------------------------------------------------------------------

(* Properties *)

\* The channels at most n hops away from the user's.
Within ==
  LET f[n \in Nat] ==
        IF n = 0 THEN ToSet(UserChannels)
        ELSE LET near == f[n - 1]
             IN near \cup {r.target : r \in UNION {References(c) : c \in near}}
  IN f

\* "The final state never depends on fetch completion order": however the
\* metadata arrives, the channels found are those within MaxDepth hops, each
\* with its shortest distance, and the edges are the ones declared by channels
\* that are less than MaxDepth hops away.
FinalStateIsCanonical ==
  outcome = "done" =>
    /\ \A n \in 0..MaxDepth : {c \in Channel : depth[c] <= n} = Within[n]
    /\ edges = {Edge(r) : r \in UNION {References(c) : c \in Within[MaxDepth - 1]}}

\* The order of priority lists every channel once, keeps the explicit order of
\* the user and respects every relation that is not reported as ignored or
\* broken; a relation is broken only where the order has to contradict it.
OrderIsSound ==
  outcome = "done" =>
    LET kept == Graph.kept IN
    /\ ToSet(order) = Discovered /\ Len(order) = Cardinality(Discovered)
    /\ \A i, j \in DOMAIN UserChannels : i < j => Rank(UserChannels[i]) < Rank(UserChannels[j])
    /\ \A e \in kept : Rank(e.from) < Rank(e.to)
    /\ \A e \in Broken : Rank(e.to) < Rank(e.from)

\* The results of the channels that one channel of the user introduced stand
\* around it in the order of priority.
BucketsFollowOrder ==
  outcome = "done" =>
    \A c, d \in Discovered :
      c # d /\ Anchor(c) = Anchor(d) => (BucketBefore(c, d) <=> Rank(c) < Rank(d))
=============================================================================
