---------------------------- MODULE MCGatewayQuery ----------------------------
(* Two small worlds.  In the first, queries are run while the base of the    *)
(* user's first channel is found late: package a has an extra whose          *)
(* dependencies become wanted only when b, on which a depends, has arrived.  *)
(* In the second nothing is asked for, and the channels are related in every *)
(* way.                                                                      *)
EXTENDS GatewayQuery, TLC

Users == <<1, 2>>

\* Channel 3 is the base of channel 1, and may have channel 2 for its own.
Late ==
  {[c \in Channel |-> [base |-> CASE c = 1 -> 3 [] c = 3 -> b [] OTHER -> 0, overrides |-> 0]] :
     b \in {0, 2}}

\* Every way in which the first three channels name a base; the fourth goes
\* back to them or on to the fifth, the far end of a chain, which may close it to
\* a circle.  The user's first channel may override another one.
Tangled ==
  {[c \in Channel |-> [base |-> IF c = 5 THEN g ELSE f[c],
                       overrides |-> IF c = 1 THEN o ELSE 0]] :
     f \in {h \in [1..4 -> Channel \cup {0}] : h[4] \in {0, 2, 3, 5}}, g \in {0, 4}, o \in {0, 3}}

AllDeclarations == Late \cup Tangled

\* Each channel in turn may be out of reach.
AnyOutage == {{}} \cup {{c} : c \in 1..3}

\* Records 1 and 2 are versions of a, 3 of b, 4 of c, 5 and 6 of d.
NameOf == <<"a", "a", "b", "c", "d", "d">>
InChannel == <<{1, 3, 5}, {2, 3}, {2, 4, 6}, {}, {}>>

Plain(n) == [name |-> n, extras |-> {}]
With(n, e) == [name |-> n, extras |-> {e}]
BaseDepends == <<{Plain("b")}, {}, {With("a", "x")}, {}, {Plain("c")}, {}>>
XDepends == <<{Plain("c")}, {With("d", "x")}, {}, {}, {}, {Plain("b")}>>
OfExtra == [r \in Record |-> [e \in Extra |-> XDepends[r]]]

\* Specs: a at its first version, a, a glob for the second version of a, b, d[x].
Matches == <<{1}, {1, 2}, {2}, {3}, {5, 6}>>
NamesMatched == <<{"a"}, {"a"}, {"a"}, {"b"}, {"d"}>>
ExtrasAsked == <<{}, {}, {}, {}, {"x"}>>
Globs == {3}
Queries == {{1}, {2}, {4}, {5}, {1, 5}, {3}, {3, 4}}

Worlds(declared, outage) ==
  (IF declared \in Late THEN Queries ELSE {})
    \cup (IF outage = {} \/ (outage = {3} /\ declared[1].overrides = 0) THEN {{}} ELSE {})
=============================================================================
