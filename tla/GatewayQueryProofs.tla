-------------------------- MODULE GatewayQueryProofs --------------------------
(***************************************************************************)
(* Proofs about ChannelExpander and GatewayQuery, for any channels, any    *)
(* declarations and outages, any depth limit and any records: the channels *)
(* that are found do not depend on the order of events, the order of       *)
(* priority is sound and the results follow it, no record is reported      *)
(* twice, and a query finds the closure of what it asks for.               *)
(***************************************************************************)
EXTENDS GatewayQuery, TLAPS, WellFoundedInduction, FiniteSetTheorems

-----------------------------------------------------------------------------
(* Induction and recursion over the natural numbers *)

Less == {ss \in Nat \X Nat : ss[1] < ss[2]}

\* The order of the natural numbers is well-founded.
LEMMA LessIsWellFounded == IsWellFoundedOn(Less, Nat)
  BY NatLessThanWellFounded DEF OpToRel, Less

\* A set of numbers that is not empty has a least element.
LEMMA Least ==
  ASSUME NEW T \in SUBSET Nat, T # {}
  PROVE  \E n \in T : \A m \in T : n <= m
  <1>1. PICK n \in T : \A m \in T : <<m, n>> \notin Less
    BY LessIsWellFounded, WFMin
  <1>2. ASSUME NEW m \in T, ~(n <= m) PROVE FALSE
    <2>1. <<m, n>> \in Less
      BY <1>2 DEF Less
    <2> QED
      BY <1>1, <2>1
  <1> QED
    BY <1>2

\* The first n values of a function that is defined by recursion.
Values(S, b, F, n) ==
  {h \in [0..n -> S] : h[0] = b /\ \A k \in 1..n : h[k] = F[h[k - 1]]}

\* They exist, ...
LEMMA ValuesExist ==
  ASSUME NEW S, NEW b \in S, NEW F \in [S -> S], NEW n \in Nat
  PROVE  Values(S, b, F, n) # {}
  <1> DEFINE T == {m \in Nat : Values(S, b, F, m) = {}}
  <1> SUFFICES ASSUME T # {} PROVE FALSE
    OBVIOUS
  <1>1. PICK m \in T : \A k \in T : m <= k
    BY Least
  <1>2. CASE m = 0
    <2>1. [k \in 0..0 |-> b] \in Values(S, b, F, 0)
      BY DEF Values
    <2> QED
      BY <1>2, <2>1
  <1>3. CASE m # 0
    <2>1. m - 1 \in Nat /\ m - 1 \notin T
      BY <1>1, <1>3
    <2>2. PICK h : h \in Values(S, b, F, m - 1)
      BY <2>1
    <2>3. /\ h \in [0..(m - 1) -> S] /\ h[0] = b
          /\ \A k \in 1..(m - 1) : h[k] = F[h[k - 1]]
      BY <2>2 DEF Values
    <2> DEFINE g == [k \in 0..m |-> IF k < m THEN h[k] ELSE F[h[m - 1]]]
    <2>4. g \in [0..m -> S]
      <3>1. h[m - 1] \in S
        BY <2>1, <2>3
      <3>2. ASSUME NEW k \in 0..m PROVE (IF k < m THEN h[k] ELSE F[h[m - 1]]) \in S
        <4>1. CASE k < m
          <5>1. k \in 0..(m - 1)
            BY <2>1, <4>1
          <5> QED
            BY <2>3, <4>1, <5>1
        <4>2. CASE ~(k < m)
          BY <3>1, <4>2
        <4> QED
          BY <4>1, <4>2
      <3> QED
        BY <3>2
    <2>5. g[0] = b
      BY <1>3, <2>3
    <2>6. ASSUME NEW k \in 1..m PROVE g[k] = F[g[k - 1]]
      <3>1. k \in Nat /\ k - 1 \in 0..m /\ k - 1 < m /\ k \in 0..m /\ g[k - 1] = h[k - 1]
        OBVIOUS
      <3>2. CASE k < m
        <4>1. k \in 1..(m - 1) /\ g[k] = h[k]
          BY <3>1, <3>2
        <4> QED
          BY <2>3, <3>1, <4>1
      <3>3. CASE k = m
        BY <3>1, <3>3
      <3> QED
        BY <3>1, <3>2, <3>3
    <2>7. g \in Values(S, b, F, m)
      <3> HIDE DEF g
      <3> QED
        BY <2>4, <2>5, <2>6 DEF Values
    <2> QED
      BY <1>1, <2>7
  <1> QED
    BY <1>2, <1>3

\* ... and there is only one way.
LEMMA ValuesUnique ==
  ASSUME NEW S, NEW b \in S, NEW F \in [S -> S], NEW n \in Nat, NEW m \in Nat,
         NEW g \in Values(S, b, F, n), NEW h \in Values(S, b, F, m),
         NEW k \in Nat, k <= n, k <= m
  PROVE  g[k] = h[k]
  <1> DEFINE T == {i \in Nat : i <= n /\ i <= m /\ g[i] # h[i]}
  <1> SUFFICES ASSUME T # {} PROVE FALSE
    OBVIOUS
  <1>1. PICK i \in T : \A j \in T : i <= j
    BY Least
  <1>2. i # 0
    BY DEF Values
  <1>3. i - 1 \in Nat /\ i - 1 \notin T
    BY <1>1, <1>2
  <1>4. g[i - 1] = h[i - 1]
    BY <1>3
  <1>5. i \in 1..n /\ i \in 1..m
    BY <1>2
  <1>6. g[i] = F[g[i - 1]] /\ h[i] = F[h[i - 1]]
    BY <1>5 DEF Values
  <1> QED
    BY <1>4, <1>6

\* A function of the natural numbers may be defined by recursion.
LEMMA Recursion ==
  ASSUME NEW S, NEW b \in S, NEW F \in [S -> S]
  PROVE  \E f \in [Nat -> S] : f[0] = b /\ \A n \in Nat : f[n + 1] = F[f[n]]
  <1> DEFINE V(n) == CHOOSE h : h \in Values(S, b, F, n)
  <1> DEFINE f == [n \in Nat |-> V(n)[n]]
  <1>1. ASSUME NEW n \in Nat PROVE V(n) \in Values(S, b, F, n)
    BY ValuesExist
  <1> HIDE DEF V
  <1>2. f \in [Nat -> S]
    BY <1>1 DEF Values
  <1>3. ASSUME NEW n \in Nat PROVE f[n] = IF n = 0 THEN b ELSE F[f[n - 1]]
    <2>1. CASE n = 0
      BY <1>1, <2>1 DEF Values
    <2>2. CASE n # 0
      <3>1. n - 1 \in Nat /\ n \in 1..n
        BY <2>2
      <3>2. V(n)[n] = F[V(n)[n - 1]]
        BY <1>1, <3>1 DEF Values
      <3>3. V(n)[n - 1] = V(n - 1)[n - 1]
        BY <1>1, <3>1, ValuesUnique
      <3> QED
        BY <2>2, <3>1, <3>2, <3>3
    <2> QED
      BY <2>1, <2>2
  <1> HIDE DEF f
  <1>4. f[0] = b
    BY <1>3
  <1>5. ASSUME NEW n \in Nat PROVE f[n + 1] = F[f[n]]
    <2>1. n + 1 \in Nat /\ n + 1 # 0 /\ (n + 1) - 1 = n
      OBVIOUS
    <2> QED
      BY <1>3, <2>1
  <1> QED
    BY <1>2, <1>4, <1>5

\* What is defined by recursion stays in S.
LEMMA RecursionStays ==
  ASSUME NEW S, NEW b \in S, NEW F \in [S -> S], NEW g, g[0] = b,
         \A n \in Nat : g[n] \in S => g[n + 1] = F[g[n]]
  PROVE  \A n \in Nat : g[n] \in S /\ g[n + 1] = F[g[n]]
  <1> DEFINE T == {n \in Nat : g[n] \notin S}
  <1>1. ASSUME T # {} PROVE FALSE
    <2>1. PICK n \in T : \A m \in T : n <= m
      BY <1>1, Least
    <2>2. n # 0
      OBVIOUS
    <2>3. n - 1 \in Nat /\ n - 1 \notin T /\ (n - 1) + 1 = n
      BY <2>1, <2>2
    <2>4. g[n - 1] \in S
      BY <2>3
    <2>5. g[(n - 1) + 1] = F[g[n - 1]]
      BY <2>3, <2>4
    <2> QED
      BY <2>3, <2>4, <2>5
  <1> QED
    BY <1>1

\* Two numbers are two.
LEMMA TwoNumbers == IsFiniteSet({0, 1}) /\ Cardinality({0, 1}) = 2
  <1>1. ASSUME NEW a \in Int, NEW b \in Int, a = 0, b = 1
        PROVE  IsFiniteSet({a, b}) /\ Cardinality({a, b}) = 2
    <2>1. IsFiniteSet(a..b) /\ Cardinality(a..b) = IF a > b THEN 0 ELSE b - a + 1
      BY FS_Interval
    <2>2. a..b = {a, b}
      BY <1>1
    <2> DEFINE S == a..b
    <2>3. IsFiniteSet(S) /\ Cardinality(S) = IF a > b THEN 0 ELSE b - a + 1
      BY <2>1
    <2>4. S = {a, b}
      BY <2>2
    <2> HIDE DEF S
    <2>5. IsFiniteSet(S) /\ Cardinality(S) = 2
      BY <1>1, <2>3
    <2> QED
      BY <2>4, <2>5
  <1>2. 0 \in Int /\ 1 \in Int
    OBVIOUS
  <1> QED
    BY <1>1, <1>2

\* Sets that grow inside a finite one stop growing in time.
LEMMA GrowthStops ==
  ASSUME NEW T, IsFiniteSet(T), NEW g \in [Nat -> SUBSET T], \A n \in Nat : g[n] \subseteq g[n + 1]
  PROVE  \E n \in 0..Cardinality(T) : g[n + 1] = g[n]
  <1> DEFINE N == Cardinality(T)
  <1> SUFFICES ASSUME \A n \in 0..N : g[n + 1] # g[n] PROVE FALSE
    OBVIOUS
  <1>1. N \in Nat
    BY FS_CardinalityType
  <1> DEFINE bad == {n \in Nat : n <= N + 1 /\ ~(n <= Cardinality(g[n]))}
  <1>2. ASSUME NEW n \in Nat
        PROVE  IsFiniteSet(g[n]) /\ Cardinality(g[n]) \in Nat /\ Cardinality(g[n]) <= N
    <2>1. g[n] \in SUBSET T
      OBVIOUS
    <2> QED
      BY <2>1, FS_Subset, FS_CardinalityType
  <1>3. bad = {}
    <2> SUFFICES ASSUME bad # {} PROVE FALSE
      OBVIOUS
    <2>1. PICK n \in bad : \A m \in bad : n <= m
      BY Least
    <2>2. n # 0
      BY <1>2
    <2>3. n - 1 \in Nat /\ n - 1 \notin bad /\ (n - 1) + 1 = n /\ n - 1 \in 0..N /\ n \in Nat
      BY <1>1, <2>1, <2>2
    <2>4. n - 1 <= Cardinality(g[n - 1])
      BY <1>1, <2>3
    <2>5. g[n - 1] \in SUBSET g[n] /\ g[n - 1] # g[n]
      <3>1. g[n - 1] \subseteq g[(n - 1) + 1] /\ g[(n - 1) + 1] # g[n - 1]
        BY <2>3
      <3> QED
        BY <2>3, <3>1
    <2>6. Cardinality(g[n - 1]) <= Cardinality(g[n]) /\ Cardinality(g[n - 1]) # Cardinality(g[n])
      BY <1>2, <2>3, <2>5, FS_Subset
    <2>7. Cardinality(g[n - 1]) \in Nat /\ Cardinality(g[n]) \in Nat
      BY <1>2, <2>3
    <2>8. n <= Cardinality(g[n])
      BY <2>3, <2>4, <2>6, <2>7
    <2> QED
      BY <2>8
  <1>4. N + 1 \in Nat /\ N + 1 \notin bad
    BY <1>1, <1>3
  <1>5. N + 1 <= Cardinality(g[N + 1])
    BY <1>1, <1>4
  <1>6. Cardinality(g[N + 1]) \in Nat /\ Cardinality(g[N + 1]) <= N
    BY <1>2, <1>4
  <1> QED
    BY <1>1, <1>5, <1>6

\* What does not change in one step does not change any more.
LEMMA Settled ==
  ASSUME NEW S, NEW F \in [S -> S], NEW g, \A n \in Nat : g[n + 1] = F[g[n]],
         NEW n \in Nat, NEW m \in Nat, n <= m, g[n + 1] = g[n]
  PROVE  g[m] = g[n]
  <1> DEFINE T == {k \in Nat : n <= k /\ g[k] # g[n]}
  <1> SUFFICES ASSUME T # {} PROVE FALSE
    OBVIOUS
  <1>1. PICK k \in T : \A j \in T : k <= j
    BY Least
  <1>2. k # n /\ k - 1 \in Nat /\ k - 1 \notin T /\ n <= k - 1 /\ (k - 1) + 1 = k
    BY <1>1
  <1>3. g[k - 1] = g[n]
    BY <1>2
  <1>4. g[(k - 1) + 1] = F[g[k - 1]]
    BY <1>2
  <1> QED
    BY <1>2, <1>3, <1>4

\* A set that grows by recursion is closed when it has had time enough, ...
LEMMA Closed ==
  ASSUME NEW T, IsFiniteSet(T), NEW F \in [SUBSET T -> SUBSET T],
         \A X \in SUBSET T : X \subseteq F[X],
         NEW g, \A n \in Nat : g[n] \in SUBSET T /\ g[n + 1] = F[g[n]]
  PROVE  F[g[Cardinality(T)]] = g[Cardinality(T)] /\ g[0] \subseteq g[Cardinality(T)]
  <1> DEFINE N == Cardinality(T)
             h == [n \in Nat |-> g[n]]
  <1>1. N \in Nat
    BY FS_CardinalityType
  <1>2. h \in [Nat -> SUBSET T] /\ \A n \in Nat : h[n] = g[n] /\ h[n + 1] = g[n + 1]
    OBVIOUS
  <1>3. \A n \in Nat : h[n] \subseteq h[n + 1]
    BY <1>2
  <1>4. PICK n \in 0..N : h[n + 1] = h[n]
    <2> HIDE DEF h
    <2> QED
      BY <1>2, <1>3, GrowthStops
  <1>5. n \in Nat /\ n <= N /\ n <= N + 1 /\ N + 1 \in Nat /\ g[n + 1] = g[n]
    BY <1>1, <1>2, <1>4
  <1>6. g[N] = g[n] /\ g[N + 1] = g[n]
    <2> HIDE DEF N
    <2> QED
      BY <1>1, <1>5, Settled
  <1>7. F[g[N]] = g[N]
    BY <1>1, <1>6
  <1>8. g[0] \subseteq g[N]
    <2> DEFINE bad == {k \in Nat : ~(g[0] \subseteq g[k])}
    <2>1. ASSUME bad # {} PROVE FALSE
      <3>1. PICK k \in bad : \A j \in bad : k <= j
        BY <2>1, Least
      <3>2. k # 0 /\ k - 1 \in Nat /\ k - 1 \notin bad /\ (k - 1) + 1 = k
        BY <3>1
      <3>3. g[k - 1] \subseteq g[(k - 1) + 1]
        BY <3>2
      <3> QED
        BY <3>2, <3>3
    <2> QED
      BY <1>1, <2>1
  <1> QED
    BY <1>7, <1>8

\* ... and is contained in every set that is closed.
LEMMA LeastClosed ==
  ASSUME NEW T, IsFiniteSet(T), NEW F \in [SUBSET T -> SUBSET T],
         NEW g, \A n \in Nat : g[n] \in SUBSET T /\ g[n + 1] = F[g[n]],
         NEW X, g[0] \subseteq X, \A Y \in SUBSET T : Y \subseteq X => F[Y] \subseteq X
  PROVE  g[Cardinality(T)] \subseteq X
  <1> DEFINE bad == {k \in Nat : ~(g[k] \subseteq X)}
  <1>1. ASSUME bad # {} PROVE FALSE
    <2>1. PICK k \in bad : \A j \in bad : k <= j
      BY <1>1, Least
    <2>2. k # 0 /\ k - 1 \in Nat /\ k - 1 \notin bad /\ (k - 1) + 1 = k
      BY <2>1
    <2>3. g[k - 1] \in SUBSET T /\ g[k - 1] \subseteq X /\ g[(k - 1) + 1] = F[g[k - 1]]
      BY <2>2
    <2> QED
      BY <2>2, <2>3
  <1> QED
    BY <1>1, FS_CardinalityType

-----------------------------------------------------------------------------
(* The channels within a number of hops *)

\* One hop further.
Hop(near) == near \cup {r.target : r \in UNION {References(c) : c \in near}}

\* The declarations and outages of a query.
Setting ==
  /\ declares \in [Channel -> [base : Channel \cup {0}, overrides : Channel \cup {0}]]

\* References lead to other channels.
LEMMA TargetsAreChannels ==
  ASSUME Setting, NEW c \in Channel, NEW r \in References(c)
  PROVE  r.target \in Channel /\ r.target # c
  BY DEF References, BaseOf, OverrideOf, Declared, Setting

\* The user's channels are channels.
LEMMA UsersAreChannels == ToSet(UserChannels) \subseteq Channel
  BY ExpanderAssumption DEF ToSet

\* What Within is: the least sets that are closed under references.
LEMMA WithinIs ==
  ASSUME Setting
  PROVE  /\ Within \in [Nat -> SUBSET Channel]
         /\ Within[0] = ToSet(UserChannels)
         /\ \A n \in Nat : Within[n + 1] = Hop(Within[n])
  <1> DEFINE S == SUBSET Channel
             b == ToSet(UserChannels)
             F == [X \in S |-> Hop(X)]
             G(f) == [n \in Nat |-> IF n = 0 THEN ToSet(UserChannels)
                                    ELSE Hop(f[n - 1])]
  <1>1. b \in S /\ F \in [S -> S]
    <2>1. ASSUME NEW X \in S PROVE Hop(X) \in S
      BY TargetsAreChannels DEF Hop
    <2> QED
      BY <2>1, UsersAreChannels
  <1>2. PICK f \in [Nat -> S] : f[0] = b /\ \A n \in Nat : f[n + 1] = F[f[n]]
    <2> HIDE DEF S, b, F
    <2> QED
      BY <1>1, Recursion
  <1>4. \A n \in Nat : f[n] = IF n = 0 THEN ToSet(UserChannels) ELSE Hop(f[n - 1])
    <2> SUFFICES ASSUME NEW n \in Nat
                 PROVE  f[n] = IF n = 0 THEN ToSet(UserChannels) ELSE Hop(f[n - 1])
      OBVIOUS
    <2>1. n # 0 => n - 1 \in Nat /\ (n - 1) + 1 = n
      OBVIOUS
    <2>2. n # 0 => f[n - 1] \in S /\ f[(n - 1) + 1] = F[f[n - 1]]
      BY <1>2, <2>1
    <2> QED
      BY <1>2, <2>1, <2>2
  <1>5. f = G(f)
    BY <1>2, <1>4
  <1>6. Within = CHOOSE g : g = G(g)
    BY DEF Within, Hop
  <1>7. Within = G(Within)
    <2> HIDE DEF G
    <2> QED
      BY <1>5, <1>6
  <1>8. \A n \in Nat : Within[n] = IF n = 0 THEN ToSet(UserChannels) ELSE Hop(Within[n - 1])
    BY <1>7
  <1>9. \A n \in Nat : Within[n] \in S
    <2> DEFINE T == {n \in Nat : Within[n] \notin S}
    <2> SUFFICES ASSUME T # {} PROVE FALSE
      OBVIOUS
    <2>1. PICK n \in T : \A m \in T : n <= m
      BY Least
    <2>2. n # 0
      BY <1>1, <1>8
    <2>3. n - 1 \in Nat /\ n - 1 \notin T
      BY <2>1, <2>2
    <2>4. Within[n] = Hop(Within[n - 1]) /\ Within[n - 1] \in S
      BY <1>8, <2>2, <2>3
    <2>5. Hop(Within[n - 1]) \in S
      BY <1>1, <2>4
    <2> QED
      BY <2>4, <2>5
  <1>10. Within \in [Nat -> S]
    BY <1>7, <1>9
  <1>11. ASSUME NEW n \in Nat PROVE Within[n + 1] = Hop(Within[n])
    <2>1. n + 1 \in Nat /\ n + 1 # 0 /\ (n + 1) - 1 = n
      OBVIOUS
    <2> QED
      BY <1>8, <2>1
  <1> QED
    BY <1>8, <1>10, <1>11

\* Who is near is also less near.
LEMMA WithinGrows ==
  ASSUME Setting, NEW n \in Nat, NEW m \in Nat, n <= m
  PROVE  Within[n] \subseteq Within[m]
  <1> DEFINE T == {k \in Nat : n <= k /\ ~(Within[n] \subseteq Within[k])}
  <1> SUFFICES ASSUME T # {} PROVE FALSE
    OBVIOUS
  <1>1. PICK k \in T : \A j \in T : k <= j
    BY Least
  <1>2. k # n /\ k - 1 \in Nat /\ k - 1 \notin T /\ n <= k - 1 /\ (k - 1) + 1 = k
    BY <1>1
  <1>3. Within[k] = Hop(Within[k - 1])
    <2>1. \A j \in Nat : Within[j + 1] = Hop(Within[j])
      BY WithinIs
    <2> QED
      BY <1>2, <2>1
  <1> QED
    BY <1>2, <1>3 DEF Hop

-----------------------------------------------------------------------------
(* Expansion *)

\* Types.
ExpanderType ==
  /\ Setting
  /\ pending \subseteq Channel /\ relationsOf \subseteq Channel /\ fresh \subseteq Channel
  /\ depth \in [Channel -> 0..(MaxDepth + 1)]
  /\ worklist \in Seq(Channel)
  /\ outcome \in {"running", "done", "failed"}

\* A channel that is known is being fetched, is about to be, or has nothing to
\* declare, or its declaration is stored.
Covered ==
  /\ pending \subseteq Discovered /\ relationsOf \subseteq Discovered /\ fresh \subseteq Discovered
  /\ \A c \in ToSet(worklist) : c \in Discovered
  /\ \A u \in ToSet(UserChannels) : depth[u] = 0
  /\ \A c \in Discovered : References(c) # {} => c \in pending \cup fresh \cup relationsOf
  /\ worklist = <<>> => fresh = {}

\* Nothing is nearer than it is, and edges are declared nearby.
Sound ==
  /\ \A c \in Discovered : c \in Within[depth[c]]
  /\ edges \subseteq {Edge(r) : r \in UNION {References(c) : c \in Within[MaxDepth - 1]}}

\* A stored declaration has been followed, unless it still has to be.
Relaxing ==
  \A c \in relationsOf : depth[c] < MaxDepth =>
    \/ c \in ToSet(worklist)
    \/ \A r \in References(c) : depth[r.target] <= depth[c] + 1 /\ Edge(r) \in edges

\* When nothing is left to be done all declarations are there.
Ended == outcome = "done" => pending = {} /\ worklist = <<>>

ExpanderInv == ExpanderType /\ Covered /\ Sound /\ Relaxing /\ Ended

\* The elements of a sequence that grows ...
LEMMA AppendSet ==
  ASSUME NEW S, NEW s \in Seq(S), NEW e \in S
  PROVE  Append(s, e) \in Seq(S) /\ ToSet(Append(s, e)) = ToSet(s) \cup {e}
  <1>1. Append(s, e) \in Seq(S) /\ Len(Append(s, e)) = Len(s) + 1 /\ Len(s) \in Nat
    OBVIOUS
  <1>2. DOMAIN s = 1..Len(s) /\ DOMAIN Append(s, e) = 1..(Len(s) + 1)
    BY <1>1
  <1>3. ASSUME NEW i \in 1..(Len(s) + 1)
        PROVE  Append(s, e)[i] = IF i = Len(s) + 1 THEN e ELSE s[i]
    BY <1>1
  <1>4. \A i \in 1..Len(s) : i \in 1..(Len(s) + 1) /\ i # Len(s) + 1
    BY <1>1
  <1>5. \A i \in 1..(Len(s) + 1) : i # Len(s) + 1 => i \in 1..Len(s)
    BY <1>1
  <1>6. ASSUME NEW x PROVE x \in ToSet(Append(s, e)) <=> x \in ToSet(s) \cup {e}
    <2>1. x \in ToSet(Append(s, e)) <=> \E i \in 1..(Len(s) + 1) : x = Append(s, e)[i]
      BY <1>2 DEF ToSet
    <2>2. x \in ToSet(s) <=> \E i \in 1..Len(s) : x = s[i]
      BY <1>2 DEF ToSet
    <2>3. ASSUME x = e PROVE x \in ToSet(Append(s, e))
      <3>1. Len(s) + 1 \in 1..(Len(s) + 1)
        BY <1>1
      <3> QED
        BY <1>3, <2>1, <2>3, <3>1
    <2>4. ASSUME x \in ToSet(s) PROVE x \in ToSet(Append(s, e))
      BY <1>3, <1>4, <2>1, <2>2, <2>4
    <2>5. ASSUME x \in ToSet(Append(s, e)) PROVE x \in ToSet(s) \cup {e}
      BY <1>3, <1>5, <2>1, <2>2, <2>5
    <2> QED
      BY <2>3, <2>4, <2>5
  <1> QED
    BY <1>1, <1>6

\* ... and of one that shrinks.
LEMMA FrontSet ==
  ASSUME NEW S, NEW s \in Seq(S), s # <<>>
  PROVE  /\ Front(s) \in Seq(S) /\ Last(s) \in S
         /\ ToSet(s) = ToSet(Front(s)) \cup {Last(s)}
  <1>1. Len(s) \in Nat /\ Len(s) # 0 /\ Last(s) = s[Len(s)] /\ Len(s) \in 1..Len(s)
    BY DEF Last
  <1>2. /\ Front(s) \in Seq(S) /\ Len(Front(s)) = Len(s) - 1
        /\ \A i \in 1..(Len(s) - 1) : Front(s)[i] = s[i]
    <2>1. Front(s) = SubSeq(s, 1, Len(s) - 1)
      BY DEF Front
    <2>2. /\ SubSeq(s, 1, Len(s) - 1) = [i \in 1..(Len(s) - 1) |-> s[i]]
          /\ \A i \in 1..(Len(s) - 1) : s[i] \in S
      <3>1. \A i \in 1..(Len(s) - 1) : i \in 1..Len(s) /\ i + 1 - 1 = i
        BY <1>1
      <3>2. (Len(s) - 1) - 1 + 1 = Len(s) - 1 /\ Len(s) - 1 \in Nat
        BY <1>1
      <3> QED
        BY <1>1, <3>1, <3>2
    <2>3. [i \in 1..(Len(s) - 1) |-> s[i]] \in Seq(S)
      BY <1>1, <2>2
    <2>4. Len([i \in 1..(Len(s) - 1) |-> s[i]]) = Len(s) - 1
      BY <1>1
    <2> QED
      BY <2>1, <2>2, <2>3, <2>4
  <1>3. DOMAIN s = 1..Len(s) /\ DOMAIN Front(s) = 1..(Len(s) - 1)
    BY <1>1, <1>2
  <1>4. \A i \in 1..Len(s) : i = Len(s) \/ i \in 1..(Len(s) - 1)
    BY <1>1
  <1>5. \A i \in 1..(Len(s) - 1) : i \in 1..Len(s)
    BY <1>1
  <1>6. ASSUME NEW x PROVE x \in ToSet(s) <=> x \in ToSet(Front(s)) \cup {Last(s)}
    <2>1. x \in ToSet(s) <=> \E i \in 1..Len(s) : x = s[i]
      BY <1>3 DEF ToSet
    <2>2. x \in ToSet(Front(s)) <=> \E i \in 1..(Len(s) - 1) : x = Front(s)[i]
      BY <1>3 DEF ToSet
    <2> QED
      BY <1>1, <1>2, <1>4, <1>5, <2>1, <2>2
  <1> QED
    BY <1>1, <1>2, <1>6

\* The depths that are followed from c.
NextDepth(c) == depth[c] + 1

\* y is what the loop has when the references R of c have been followed.
Followed(y, c, R) ==
  /\ y.next = NextDepth(c)
  /\ y.depth = [d \in Channel |-> IF NextDepth(c) < depth[d] /\ \E r \in R : r.target = d
                                  THEN NextDepth(c) ELSE depth[d]]
  /\ y.worklist \in Seq(Channel)
  /\ ToSet(y.worklist) =
       ToSet(Front(worklist)) \cup
       {r.target : r \in {q \in R : NextDepth(c) < depth[q.target] /\ depth[q.target] <= MaxDepth}}
  /\ y.fresh = fresh \cup {r.target : r \in {q \in R : depth[q.target] > MaxDepth}}
  /\ y.edges = edges \cup {Edge(r) : r \in R}

\* One reference is followed.
LEMMA FollowOne ==
  ASSUME ExpanderType, NEW c \in Channel, NEW R, NEW y, Followed(y, c, R),
         NEW r, r.target \in Channel, \A q \in R : q.target # r.target
  PROVE  Followed(Follow(y, r), c, R \cup {r})
  <1> DEFINE z == Follow(y, r)
             t == r.target
  <1>1. /\ z.next = y.next /\ z.edges = y.edges \cup {Edge(r)}
        /\ z.depth = IF y.next < y.depth[t] THEN [y.depth EXCEPT ![t] = y.next] ELSE y.depth
        /\ z.worklist = IF y.next < y.depth[t] /\ y.depth[t] <= MaxDepth
                        THEN Append(y.worklist, t) ELSE y.worklist
        /\ z.fresh = IF y.depth[t] > MaxDepth THEN y.fresh \cup {t} ELSE y.fresh
    BY DEF Follow
  <1>2. y.depth[t] = depth[t] /\ y.next = NextDepth(c)
    BY DEF Followed
  <1> HIDE DEF z
  <1>3. z.depth = [d \in Channel |-> IF NextDepth(c) < depth[d]
                                        /\ \E q \in R \cup {r} : q.target = d
                                     THEN NextDepth(c) ELSE depth[d]]
    BY <1>1, <1>2 DEF Followed
  <1>4. /\ z.worklist \in Seq(Channel)
        /\ ToSet(z.worklist) =
             ToSet(y.worklist) \cup
             IF NextDepth(c) < depth[t] /\ depth[t] <= MaxDepth THEN {t} ELSE {}
    <2>1. y.worklist \in Seq(Channel)
      BY DEF Followed
    <2> QED
      BY <1>1, <1>2, <2>1, AppendSet
  <1>5. ToSet(z.worklist) =
          ToSet(Front(worklist)) \cup
          {q.target : q \in {p \in R \cup {r} : NextDepth(c) < depth[p.target]
                                                /\ depth[p.target] <= MaxDepth}}
    BY <1>4 DEF Followed
  <1>6. z.fresh = fresh \cup {q.target : q \in {p \in R \cup {r} : depth[p.target] > MaxDepth}}
    BY <1>1, <1>2 DEF Followed
  <1>7. z.edges = edges \cup {Edge(q) : q \in R \cup {r}}
    BY <1>1 DEF Followed
  <1> QED
    BY <1>1, <1>2, <1>3, <1>4, <1>5, <1>6, <1>7 DEF Followed, z

\* The references of c that are followed now.
Due(c) == IF c \in relationsOf /\ NextDepth(c) <= MaxDepth THEN References(c) ELSE {}

\* A round of the loop follows them all.
LEMMA RelaxedIs ==
  ASSUME ExpanderType, worklist # <<>>, NEW c, c = Last(worklist)
  PROVE  Followed(Relaxed(c), c, Due(c)) /\ c \in Channel
  <1>0. c \in Channel /\ Front(worklist) \in Seq(Channel)
    BY FrontSet DEF ExpanderType
  <1> DEFINE x == [edges |-> edges, depth |-> depth, worklist |-> Front(worklist),
                   fresh |-> fresh, next |-> depth[c] + 1]
  <1>1. Followed(x, c, {})
    BY <1>0 DEF Followed, NextDepth, ExpanderType
  <1> DEFINE B == BaseOf(c)
             O == OverrideOf(c)
             y == IF B \in References(c) THEN Follow(x, B) ELSE x
             z == IF O \in References(c) THEN Follow(y, O) ELSE y
  <1>2. Relaxed(c) = IF c \in relationsOf /\ NextDepth(c) <= MaxDepth THEN z ELSE x
    BY DEF Relaxed, DeriveEdges, NextDepth
  <1> HIDE DEF x
  <1>3. References(c) \subseteq {B, O} /\ (References(c) # {} => B.target # O.target)
    BY DEF References, BaseOf, OverrideOf
  <1>4. \A r \in References(c) : r.target \in Channel
    BY <1>0, TargetsAreChannels DEF ExpanderType
  <1> HIDE DEF B, O
  <1>5. Followed(y, c, References(c) \cap {B})
    <2>1. CASE B \in References(c)
      <3>1. Followed(Follow(x, B), c, {} \cup {B})
        BY <1>0, <1>1, <1>4, <2>1, FollowOne
      <3>2. {} \cup {B} = References(c) \cap {B}
        BY <2>1
      <3> QED
        BY <2>1, <3>1, <3>2
    <2>2. CASE B \notin References(c)
      <3>1. References(c) \cap {B} = {}
        BY <2>2
      <3> QED
        BY <1>1, <2>2, <3>1
    <2> QED
      BY <2>1, <2>2
  <1> HIDE DEF y
  <1>6. Followed(z, c, References(c))
    <2>1. CASE O \in References(c)
      <3>1. \A q \in References(c) \cap {B} : q.target # O.target
        BY <1>3, <2>1
      <3>2. Followed(Follow(y, O), c, (References(c) \cap {B}) \cup {O})
        BY <1>0, <1>4, <1>5, <2>1, <3>1, FollowOne
      <3>3. (References(c) \cap {B}) \cup {O} = References(c)
        BY <1>3, <2>1
      <3> QED
        BY <2>1, <3>2, <3>3
    <2>2. CASE O \notin References(c)
      <3>1. References(c) \cap {B} = References(c)
        BY <1>3, <2>2
      <3> QED
        BY <1>5, <2>2, <3>1
    <2> QED
      BY <2>1, <2>2
  <1> QED
    BY <1>0, <1>1, <1>2, <1>6 DEF Due

\* What channels declare does not change.
LEMMA SettingKept ==
  ASSUME declares' = declares, broken' = broken
  PROVE  Within' = Within /\ \A c : References(c)' = References(c)
  BY DEF Within, References, BaseOf, OverrideOf, Declared

\* A query begins with the channels of the user.
LEMMA ExpanderBegins ==
  ASSUME ExpanderInit
  PROVE  ExpanderInv
  <1>1. Setting /\ pending = ToSet(UserChannels) /\ ToSet(UserChannels) \subseteq Channel
    BY ExpanderAssumption, UsersAreChannels DEF ExpanderInit, Setting
  <1>2. MaxDepth \in Nat /\ depth = [c \in Channel |-> IF c \in pending THEN 0 ELSE MaxDepth + 1]
    BY <1>1, ExpanderAssumption DEF ExpanderInit, IsUser
  <1>3. ExpanderType
    BY <1>1, <1>2 DEF ExpanderInit, ExpanderType
  <1>4. Discovered = pending /\ \A c \in Discovered : depth[c] = 0
    BY <1>1, <1>2 DEF Discovered
  <1>5. ToSet(worklist) = {} /\ relationsOf = {} /\ fresh = {} /\ edges = {}
        /\ outcome = "running"
    BY DEF ExpanderInit, ToSet
  <1>6. Covered
    BY <1>1, <1>4, <1>5 DEF Covered
  <1>7. Sound
    <2>1. Within[0] = pending
      BY <1>1, WithinIs
    <2> QED
      BY <1>4, <1>5, <2>1 DEF Sound
  <1>8. Relaxing /\ Ended
    BY <1>5 DEF Relaxing, Ended
  <1> QED
    BY <1>3, <1>6, <1>7, <1>8 DEF ExpanderInv

\* Steps that leave the expander alone.
LEMMA ExpanderUnchanged ==
  ASSUME ExpanderInv, UNCHANGED expanderVars
  PROVE  ExpanderInv'
  <1>1. /\ declares' = declares /\ broken' = broken /\ pending' = pending /\ depth' = depth
        /\ relationsOf' = relationsOf /\ edges' = edges /\ worklist' = worklist
        /\ fresh' = fresh /\ outcome' = outcome
    BY DEF expanderVars
  <1>2. Within' = Within /\ \A c : References(c)' = References(c)
    BY <1>1, SettingKept
  <1>3. Discovered' = Discovered
    BY <1>1 DEF Discovered
  <1>4. ExpanderType'
    BY <1>1 DEF ExpanderInv, ExpanderType, Setting
  <1>5. Covered'
    BY <1>1, <1>2, <1>3 DEF ExpanderInv, Covered
  <1>6. Sound'
    BY <1>1, <1>2, <1>3 DEF ExpanderInv, Sound, Edge
  <1>7. Relaxing' /\ Ended'
    BY <1>1, <1>2, <1>3 DEF ExpanderInv, Relaxing, Ended, Edge
  <1> QED
    BY <1>4, <1>5, <1>6, <1>7 DEF ExpanderInv

\* The query fails, or ends with everything there.
LEMMA ExpanderEnds ==
  ASSUME ExpanderInv,
         UNCHANGED <<declares, broken, pending, relationsOf, depth, edges, worklist, fresh>>,
         outcome' \in {"done", "failed"},
         outcome' = "done" => pending = {} /\ worklist = <<>>
  PROVE  ExpanderInv'
  <1>2. Within' = Within /\ \A c : References(c)' = References(c)
    BY SettingKept
  <1>3. Discovered' = Discovered
    BY DEF Discovered
  <1>4. ExpanderType'
    BY DEF ExpanderInv, ExpanderType, Setting
  <1>5. Covered'
    BY <1>2, <1>3 DEF ExpanderInv, Covered
  <1>6. Sound'
    BY <1>2, <1>3 DEF ExpanderInv, Sound, Edge
  <1>7. Relaxing' /\ Ended'
    BY <1>2, <1>3 DEF ExpanderInv, Relaxing, Ended, Edge
  <1> QED
    BY <1>4, <1>5, <1>6, <1>7 DEF ExpanderInv

\* A subdir arrives.
LEMMA ExpanderArrived ==
  ASSUME ExpanderInv, NEW c \in Channel, Arrived(c)
  PROVE  ExpanderInv'
  <1>1. /\ declares' = declares /\ broken' = broken /\ pending' = pending \ {c}
        /\ depth' = depth /\ edges' = edges /\ fresh' = fresh /\ fresh = {}
        /\ outcome' \in {"running", "failed"} /\ worklist = <<>> /\ c \in pending
    BY DEF Arrived, ExpanderInv, Covered
  <1>2. Within' = Within /\ \A d : References(d)' = References(d)
    BY <1>1, SettingKept
  <1>3. Discovered' = Discovered /\ c \in Discovered
    BY <1>1 DEF Discovered, ExpanderInv, Covered
  <1>4. \/ relationsOf' = relationsOf /\ worklist' = <<>> /\ References(c) = {}
        \/ relationsOf' = relationsOf \cup {c} /\ worklist' = <<c>>
    <2>1. c \in broken => References(c) = {}
      BY DEF Declared, References
    <2>2. Declared(c) = [base |-> 0, overrides |-> 0] => References(c) = {}
      BY DEF References
    <2> QED
      BY <1>1, <2>1, <2>2 DEF Arrived
  <1>5. ToSet(<<c>>) = {c} /\ ToSet(<<>>) = {} /\ <<c>> # <<>> /\ <<c>> \in Seq(Channel)
    BY DEF ToSet
  <1>6. ExpanderType'
    BY <1>1, <1>4, <1>5 DEF ExpanderInv, ExpanderType, Setting
  <1>7. Covered'
    BY <1>1, <1>2, <1>3, <1>4, <1>5 DEF ExpanderInv, Covered
  <1>8. Sound'
    BY <1>1, <1>2, <1>3 DEF ExpanderInv, Sound, Edge
  <1>9. Relaxing' /\ Ended'
    BY <1>1, <1>2, <1>4, <1>5 DEF ExpanderInv, Relaxing, Ended, Edge
  <1> QED
    BY <1>6, <1>7, <1>8, <1>9 DEF ExpanderInv

\* A round of relax.
LEMMA ExpanderRelax ==
  ASSUME ExpanderInv, Relax
  PROVE  ExpanderInv'
  <1> DEFINE c == Last(worklist)
             y == Relaxed(c)
             N == NextDepth(c)
             R == Due(c)
  <1>1. /\ outcome = "running" /\ worklist # <<>> /\ declares' = declares /\ broken' = broken
        /\ relationsOf' = relationsOf
    BY DEF Relax
  <1>2. CASE outcome' = "failed" /\ UNCHANGED <<edges, depth, worklist, fresh, pending>>
    BY <1>1, <1>2, ExpanderEnds
  <1>3. CASE /\ edges' = y.edges /\ depth' = y.depth /\ worklist' = y.worklist
             /\ IF y.worklist = <<>> THEN pending' = pending \cup y.fresh /\ fresh' = {}
                ELSE UNCHANGED pending /\ fresh' = y.fresh
             /\ UNCHANGED outcome
    <2>1. Followed(y, c, R) /\ c \in Channel
      BY <1>1, RelaxedIs DEF ExpanderInv
    <2>2. /\ ToSet(worklist) = ToSet(Front(worklist)) \cup {c} /\ Setting
          /\ depth \in [Channel -> 0..(MaxDepth + 1)] /\ MaxDepth \in Nat
          /\ pending \subseteq Channel /\ relationsOf \subseteq Channel /\ fresh \subseteq Channel
      BY <1>1, FrontSet, ExpanderAssumption DEF ExpanderInv, ExpanderType
    <2>3. c \in Discovered /\ depth[c] \in 0..MaxDepth /\ N = depth[c] + 1 /\ N \in Nat
      BY <2>2 DEF ExpanderInv, Covered, Discovered, NextDepth
    <2>4. /\ R \subseteq References(c) /\ (R # {} => N <= MaxDepth)
          /\ (c \in relationsOf /\ N <= MaxDepth => R = References(c))
          /\ \A r \in R : r.target \in Channel /\ r.target # c
      BY <2>1, <2>2, TargetsAreChannels DEF Due
    <2> HIDE DEF c, y, N, R
    <2>5. /\ depth' = [d \in Channel |-> IF N < depth[d] /\ \E r \in R : r.target = d
                                         THEN N ELSE depth[d]]
          /\ worklist' \in Seq(Channel)
          /\ ToSet(worklist') =
               ToSet(Front(worklist)) \cup
               {r.target : r \in {q \in R : N < depth[q.target] /\ depth[q.target] <= MaxDepth}}
          /\ y.fresh = fresh \cup {r.target : r \in {q \in R : depth[q.target] > MaxDepth}}
          /\ edges' = edges \cup {Edge(r) : r \in R}
      BY <1>3, <2>1 DEF Followed, N
    <2>6. /\ pending' \cup fresh' = pending \cup y.fresh
          /\ (worklist' = <<>> => fresh' = {}) /\ outcome' = "running"
      BY <1>1, <1>3
    <2>7. \A d \in Channel : \/ depth'[d] = depth[d] /\ ~(N < depth[d] /\ \E r \in R : r.target = d)
                             \/ depth'[d] = N /\ N < depth[d] /\ \E r \in R : r.target = d
      BY <2>5
    <2>8. depth' \in [Channel -> 0..(MaxDepth + 1)] /\ \A d \in Channel : depth'[d] <= depth[d]
      <3>1. \A d \in Channel : depth'[d] \in 0..(MaxDepth + 1) /\ depth'[d] <= depth[d]
        BY <2>2, <2>3, <2>4, <2>7
      <3> QED
        BY <2>5, <3>1
    <2>9. Discovered \subseteq Discovered'
      BY <2>2, <2>8 DEF Discovered
    <2>10. \A r \in R : r.target \in Discovered'
      <3> SUFFICES ASSUME NEW r \in R PROVE depth'[r.target] <= MaxDepth
        BY <2>4 DEF Discovered
      <3> QED
        BY <2>2, <2>3, <2>4, <2>7
    <2>11. Within' = Within /\ \A d : References(d)' = References(d)
      BY <1>1, SettingKept
    <2>12. y.fresh \subseteq Discovered'
      BY <2>5, <2>9, <2>10 DEF ExpanderInv, Covered
    <2>13. ExpanderType'
      <3>1. pending' \subseteq Channel /\ fresh' \subseteq Channel
        BY <2>2, <2>4, <2>5, <2>6
      <3> QED
        BY <1>1, <2>2, <2>5, <2>6, <2>8, <3>1 DEF ExpanderType, Setting
    <2>14. Covered'
      <3>1. pending' \subseteq Discovered' /\ fresh' \subseteq Discovered'
        BY <2>6, <2>9, <2>12 DEF ExpanderInv, Covered
      <3>2. \A d \in ToSet(worklist') : d \in Discovered'
        BY <2>2, <2>5, <2>9, <2>10 DEF ExpanderInv, Covered
      <3>3. ASSUME NEW u \in ToSet(UserChannels) PROVE depth'[u] = 0
        <4>1. u \in Channel /\ depth[u] = 0
          BY UsersAreChannels DEF ExpanderInv, Covered
        <4> QED
          BY <2>3, <2>7, <4>1
      <3>4. ASSUME NEW d \in Discovered', References(d) # {}
            PROVE  d \in pending' \cup fresh' \cup relationsOf'
        <4>1. CASE d \in Discovered
          BY <1>1, <2>5, <2>6, <3>4, <4>1 DEF ExpanderInv, Covered
        <4>2. CASE d \notin Discovered
          <5>1. d \in Channel /\ depth[d] > MaxDepth /\ depth'[d] <= MaxDepth
            BY <2>2, <4>2 DEF Discovered
          <5>2. \E r \in R : r.target = d
            BY <2>2, <2>7, <5>1
          <5> QED
            BY <2>5, <2>6, <5>1, <5>2
        <4> QED
          BY <4>1, <4>2
      <3> QED
        BY <1>1, <2>6, <2>9, <2>11, <3>1, <3>2, <3>3, <3>4 DEF ExpanderInv, Covered
    <2>15. Sound'
      <3>1. c \in Within[depth[c]]
        BY <2>3 DEF ExpanderInv, Sound
      <3>2. \A n \in Nat : Within[n + 1] = Hop(Within[n])
        BY <2>2, WithinIs
      <3>3. ASSUME NEW d \in Discovered' PROVE d \in Within[depth'[d]]
        <4>1. d \in Channel /\ depth'[d] <= MaxDepth
          BY DEF Discovered
        <4>2. CASE depth'[d] = depth[d]
          BY <4>1, <4>2 DEF ExpanderInv, Sound, Discovered
        <4>3. CASE depth'[d] # depth[d]
          <5>1. PICK r \in R : r.target = d
            BY <2>7, <4>1, <4>3
          <5>2. depth'[d] = depth[c] + 1 /\ depth[c] \in Nat
            BY <2>3, <2>7, <4>1, <4>3
          <5>3. d \in Hop(Within[depth[c]])
            BY <2>4, <3>1, <5>1 DEF Hop
          <5> QED
            BY <3>2, <5>2, <5>3
        <4> QED
          BY <4>2, <4>3
      <3>4. R # {} => c \in Within[MaxDepth - 1]
        <4>1. R # {} => depth[c] <= MaxDepth - 1 /\ MaxDepth - 1 \in Nat /\ depth[c] \in Nat
          BY <2>2, <2>3, <2>4
        <4> QED
          BY <2>2, <3>1, <4>1, WithinGrows
      <3>5. edges' \subseteq {Edge(r) : r \in UNION {References(d) : d \in Within[MaxDepth - 1]}}
        <4>1. \A r \in R : r \in UNION {References(d) : d \in Within[MaxDepth - 1]}
          BY <2>4, <3>4
        <4> QED
          BY <2>5, <4>1 DEF ExpanderInv, Sound
      <3> QED
        BY <2>11, <3>3, <3>5 DEF Sound, Edge
    <2>16. Relaxing'
      <3> SUFFICES ASSUME NEW d \in relationsOf, depth'[d] < MaxDepth, d \notin ToSet(worklist'),
                          NEW r \in References(d)
                   PROVE  depth'[r.target] <= depth'[d] + 1 /\ Edge(r) \in edges'
        BY <1>1, <2>11 DEF Relaxing, Edge
      <3>1. d \in Channel /\ r.target \in Channel /\ d \in Discovered /\ depth[d] <= MaxDepth
        BY <2>2, TargetsAreChannels DEF ExpanderInv, Covered, Discovered
      <3>2. depth'[d] = depth[d]
        BY <2>5, <2>7, <3>1
      <3>3. CASE d = c
        <4>1. R = References(c)
          BY <2>2, <2>3, <2>4, <3>2, <3>3
        <4>2. depth'[r.target] <= N
          BY <2>2, <2>3, <2>7, <3>1, <3>3, <4>1
        <4> QED
          BY <2>3, <2>5, <3>2, <3>3, <4>1, <4>2
      <3>4. CASE d # c
        <4>1. d \notin ToSet(worklist)
          BY <2>2, <2>5, <3>4
        <4>2. depth[r.target] <= depth[d] + 1 /\ Edge(r) \in edges
          BY <3>2, <4>1 DEF ExpanderInv, Relaxing
        <4>3. /\ depth'[r.target] \in Int /\ depth[r.target] \in Int /\ depth[d] \in Int
              /\ depth'[r.target] <= depth[r.target]
          BY <2>2, <2>8, <3>1
        <4> QED
          BY <2>5, <3>2, <4>2, <4>3
      <3> QED
        BY <3>3, <3>4
    <2> QED
      BY <2>6, <2>13, <2>14, <2>15, <2>16 DEF ExpanderInv, Ended
  <1> QED
    BY <1>2, <1>3 DEF Relax

\* The whole query keeps the invariant of the expander.
LEMMA ExpanderStep ==
  ASSUME ExpanderInv, [Next]_vars
  PROVE  ExpanderInv'
  <1>1. CASE UNCHANGED vars
    BY <1>1, ExpanderUnchanged DEF vars
  <1>2. CASE SpawnPackageFetches
    BY <1>2, ExpanderUnchanged DEF SpawnPackageFetches
  <1>3. CASE ObserveRelations
    BY <1>3, ExpanderRelax DEF ObserveRelations
  <1>4. ASSUME NEW c \in Channel, SubdirArrives(c) PROVE ExpanderInv'
    BY <1>4, ExpanderArrived DEF SubdirArrives
  <1>5. ASSUME NEW f \in inflight, RecordsArrive(f) PROVE ExpanderInv'
    BY <1>5, ExpanderUnchanged DEF RecordsArrive
  <1>6. ASSUME NEW f \in inflight, RecordsFail(f) PROVE ExpanderInv'
    BY <1>6, ExpanderEnds DEF RecordsFail
  <1>7. ASSUME NEW d \in deps, QueueDependency(d) PROVE ExpanderInv'
    BY <1>7, ExpanderUnchanged DEF QueueDependency
  <1>8. CASE Complete
    BY <1>8, ExpanderEnds DEF Complete, Finalize
  <1> QED
    BY <1>1, <1>2, <1>3, <1>4, <1>5, <1>6, <1>7, <1>8 DEF Next, Step

\* Throughout a query the depths known are upper bounds that some chain of
\* declarations justifies, and a stored declaration whose references have not
\* been followed is on the worklist of relax.
THEOREM ExpanderInvariant == Spec => []ExpanderInv
  <1>1. Init => ExpanderInv
    BY ExpanderBegins DEF Init
  <1>2. ExpanderInv /\ [Next]_vars => ExpanderInv'
    BY ExpanderStep
  <1> QED
    BY <1>1, <1>2, PTL DEF Spec

\* Once everything has been followed nothing is farther away than it should be.
LEMMA NearIsFound ==
  ASSUME ExpanderInv, outcome = "done", NEW n \in 0..MaxDepth, NEW c \in Within[n]
  PROVE  depth[c] <= n
  <1>0. Setting /\ MaxDepth \in Nat /\ depth \in [Channel -> 0..(MaxDepth + 1)]
    BY ExpanderAssumption DEF ExpanderInv, ExpanderType
  <1>1. /\ Within \in [Nat -> SUBSET Channel] /\ Within[0] = ToSet(UserChannels)
        /\ \A k \in Nat : Within[k + 1] = Hop(Within[k])
    BY <1>0, WithinIs
  <1> DEFINE T == {k \in Nat : k <= MaxDepth /\ \E d \in Within[k] : ~(depth[d] <= k)}
  <1> SUFFICES ASSUME T # {} PROVE FALSE
    BY <1>0
  <1>2. PICK k \in T : \A j \in T : k <= j
    BY Least
  <1>3. PICK d \in Within[k] : ~(depth[d] <= k)
    OBVIOUS
  <1>4. k # 0
    <2>1. k = 0 => d \in ToSet(UserChannels)
      BY <1>1, <1>3
    <2>2. \A u \in ToSet(UserChannels) : depth[u] = 0
      BY DEF ExpanderInv, Covered
    <2> QED
      BY <1>3, <2>1, <2>2
  <1>5. k - 1 \in Nat /\ k - 1 \notin T /\ k - 1 < MaxDepth /\ (k - 1) + 1 = k
    BY <1>0, <1>2, <1>4
  <1>6. \A e \in Within[k - 1] : e \in Channel /\ depth[e] <= k - 1
    BY <1>0, <1>1, <1>5
  <1>7. d \in Hop(Within[k - 1])
    <2>1. Within[k] = Hop(Within[k - 1])
      BY <1>1, <1>5
    <2> QED
      BY <2>1
  <1>8. d \notin Within[k - 1]
    <2>1. d \in Within[k - 1] => depth[d] \in Int /\ depth[d] <= k - 1
      BY <1>0, <1>6
    <2> QED
      BY <1>3, <1>5, <2>1
  <1>9. PICK e \in Within[k - 1] : \E r \in References(e) : r.target = d
    BY <1>7, <1>8 DEF Hop
  <1>10. e \in Channel /\ depth[e] \in Int /\ depth[e] <= k - 1 /\ d \in Channel /\ depth[d] \in Int
    BY <1>0, <1>6, <1>9, TargetsAreChannels
  <1>11. e \in relationsOf /\ ToSet(worklist) = {}
    <2>1. e \in Discovered /\ References(e) # {}
      BY <1>0, <1>5, <1>9, <1>10 DEF Discovered
    <2> QED
      BY <2>1 DEF ExpanderInv, Covered, Ended, ToSet
  <1>12. depth[d] <= depth[e] + 1
    BY <1>0, <1>5, <1>9, <1>10, <1>11 DEF ExpanderInv, Relaxing
  <1> QED
    BY <1>3, <1>5, <1>10, <1>12

\* The same for the edges.
LEMMA NearIsDerived ==
  ASSUME ExpanderInv, outcome = "done", NEW c \in Within[MaxDepth - 1], NEW r \in References(c)
  PROVE  Edge(r) \in edges
  <1>1. Setting /\ MaxDepth \in Nat /\ MaxDepth - 1 \in 0..MaxDepth /\ MaxDepth - 1 \in Nat
        /\ depth \in [Channel -> 0..(MaxDepth + 1)]
    BY ExpanderAssumption DEF ExpanderInv, ExpanderType
  <1>2. c \in Channel /\ depth[c] <= MaxDepth - 1
    BY <1>1, WithinIs, NearIsFound
  <1>3. depth[c] < MaxDepth /\ c \in Discovered
    BY <1>1, <1>2 DEF Discovered
  <1>4. c \in relationsOf /\ ToSet(worklist) = {}
    BY <1>3 DEF ExpanderInv, Covered, Ended, ToSet
  <1> QED
    BY <1>3, <1>4 DEF ExpanderInv, Relaxing

\* What expansion arrives at is canonical.
LEMMA CanonicalInTheEnd ==
  ASSUME ExpanderInv
  PROVE  FinalStateIsCanonical
  <1> SUFFICES ASSUME outcome = "done"
      PROVE  /\ \A n \in 0..MaxDepth : {c \in Channel : depth[c] <= n} = Within[n]
             /\ edges = {Edge(r) : r \in UNION {References(c) : c \in Within[MaxDepth - 1]}}
    BY DEF FinalStateIsCanonical
  <1>1. /\ Setting /\ MaxDepth \in Nat /\ depth \in [Channel -> 0..(MaxDepth + 1)]
        /\ Within \in [Nat -> SUBSET Channel]
    BY ExpanderAssumption, WithinIs DEF ExpanderInv, ExpanderType
  <1>2. ASSUME NEW n \in 0..MaxDepth PROVE {c \in Channel : depth[c] <= n} = Within[n]
    <2>1. n \in Nat /\ n <= MaxDepth
      BY <1>1
    <2>2. ASSUME NEW c \in Channel, depth[c] <= n PROVE c \in Within[n]
      <3>1. c \in Discovered /\ depth[c] \in Nat
        BY <1>1, <2>1, <2>2 DEF Discovered
      <3>2. c \in Within[depth[c]]
        BY <3>1 DEF ExpanderInv, Sound
      <3> QED
        BY <1>1, <2>1, <2>2, <3>1, <3>2, WithinGrows
    <2>3. ASSUME NEW c \in Within[n] PROVE c \in Channel /\ depth[c] <= n
      BY <1>1, <2>1, NearIsFound
    <2> QED
      BY <2>2, <2>3
  <1>3. {Edge(r) : r \in UNION {References(c) : c \in Within[MaxDepth - 1]}} \subseteq edges
    BY NearIsDerived
  <1>4. edges \subseteq {Edge(r) : r \in UNION {References(c) : c \in Within[MaxDepth - 1]}}
    BY DEF ExpanderInv, Sound
  <1> QED
    BY <1>2, <1>3, <1>4

\* "The final state never depends on fetch completion order" (observe and
\* relax): for every set of declarations and outages and every order of
\* arrival, an expansion that succeeds knows each channel with its shortest
\* distance and exactly the edges declared within reach.
THEOREM FinalStateDoesNotDependOnOrder == Spec => []FinalStateIsCanonical
  <1>1. ExpanderInv => FinalStateIsCanonical
    BY CanonicalInTheEnd
  <1> QED
    BY <1>1, ExpanderInvariant, PTL

-----------------------------------------------------------------------------
(* Reachability in the graph of relations *)

\* Neighbours of channels.
IsGraph(A) == A \in [Channel -> Seq(Channel)]

\* Who can be reached with one arc more.
Spread(adjacency, near) == near \cup UNION {ToSet(adjacency[c]) : c \in near}

\* Sequences and the sets of their elements.
LEMMA InToSet ==
  ASSUME NEW S, NEW s \in Seq(S)
  PROVE  ToSet(s) \subseteq S /\ \A x : x \in ToSet(s) <=> \E i \in 1..Len(s) : s[i] = x
  <1>1. DOMAIN s = 1..Len(s) /\ \A i \in 1..Len(s) : s[i] \in S
    OBVIOUS
  <1> QED
    BY <1>1 DEF ToSet

\* The number of channels.
LEMMA ChannelsAreFinite == IsFiniteSet(Channel) /\ Cardinality(Channel) \in Nat
  BY ExpanderAssumption, FS_CardinalityType

\* can_reach looks at the least set of nodes that holds its start and is closed
\* under the arcs.
LEMMA ReachIs ==
  ASSUME NEW A, IsGraph(A), NEW a \in Channel
  PROVE  /\ Reach(A, a) \subseteq Channel /\ a \in Reach(A, a)
         /\ \A c \in Reach(A, a) : ToSet(A[c]) \subseteq Reach(A, a)
         /\ \A X : a \in X /\ (\A c \in X \cap Channel : ToSet(A[c]) \subseteq X)
                     => Reach(A, a) \subseteq X
  <1> DEFINE S == SUBSET Channel
             b == {a}
             F == [X \in S |-> Spread(A, X)]
             G(f) == [n \in Nat |-> IF n = 0 THEN {a} ELSE Spread(A, f[n - 1])]
             N == Cardinality(Channel)
  <1>1. b \in S /\ F \in [S -> S]
    <2>1. ASSUME NEW X \in S PROVE Spread(A, X) \in S
      <3>1. \A c \in X : A[c] \in Seq(Channel)
        BY DEF IsGraph
      <3> QED
        BY <3>1, InToSet DEF Spread
    <2> QED
      BY <2>1
  <1>2. PICK f \in [Nat -> S] : f[0] = b /\ \A n \in Nat : f[n + 1] = F[f[n]]
    <2> HIDE DEF S, b, F
    <2> QED
      BY <1>1, Recursion
  <1>3. \A n \in Nat : f[n] = IF n = 0 THEN {a} ELSE Spread(A, f[n - 1])
    <2> SUFFICES ASSUME NEW n \in Nat
                 PROVE  f[n] = IF n = 0 THEN {a} ELSE Spread(A, f[n - 1])
      OBVIOUS
    <2>1. n # 0 => n - 1 \in Nat /\ (n - 1) + 1 = n
      OBVIOUS
    <2>2. n # 0 => f[n - 1] \in S /\ f[(n - 1) + 1] = F[f[n - 1]]
      BY <1>2, <2>1
    <2> QED
      BY <1>2, <2>1, <2>2
  <1>4. f = G(f)
    BY <1>2, <1>3
  <1> DEFINE g == CHOOSE h : h = G(h)
  <1>5. Reach(A, a) = g[N]
    BY DEF Reach, Spread
  <1>6. g = G(g)
    <2> HIDE DEF G
    <2> QED
      BY <1>4
  <1> HIDE DEF g
  <1>7. g[0] = b /\ \A n \in Nat : g[n + 1] = Spread(A, g[n])
    <2>1. \A n \in Nat : g[n] = IF n = 0 THEN {a} ELSE Spread(A, g[n - 1])
      BY <1>6
    <2>2. \A n \in Nat : n + 1 \in Nat /\ n + 1 # 0 /\ (n + 1) - 1 = n
      OBVIOUS
    <2> QED
      BY <2>1, <2>2
  <1>8. \A n \in Nat : g[n] \in S /\ g[n + 1] = F[g[n]]
    <2>1. \A n \in Nat : g[n] \in S => g[n + 1] = F[g[n]]
      BY <1>7
    <2> HIDE DEF S, b, F
    <2> QED
      BY <1>1, <1>7, <2>1, RecursionStays
  <1>9. N \in Nat /\ IsFiniteSet(Channel)
    BY ChannelsAreFinite
  <1>10. \A X \in S : F[X] = Spread(A, X) /\ X \subseteq F[X]
    BY DEF Spread
  <1>11. g[N] \in S /\ F[g[N]] = g[N] /\ g[0] \subseteq g[N]
    <2> HIDE DEF F
    <2> QED
      BY <1>1, <1>8, <1>9, <1>10, Closed
  <1>12. ASSUME NEW X, a \in X, \A c \in X \cap Channel : ToSet(A[c]) \subseteq X
         PROVE  g[N] \subseteq X
    <2>1. \A Y \in S : Y \subseteq X => F[Y] \subseteq X
      BY <1>10, <1>12 DEF Spread
    <2>2. g[0] \subseteq X
      BY <1>7, <1>12
    <2> HIDE DEF F
    <2> QED
      BY <1>1, <1>8, <1>9, <2>1, <2>2, LeastClosed
  <1>13. Spread(A, g[N]) = g[N]
    BY <1>10, <1>11
  <1> QED
    BY <1>5, <1>7, <1>11, <1>12, <1>13 DEF Spread

\* What is reached from a node that is reached.
LEMMA ReachTransitive ==
  ASSUME NEW A, IsGraph(A), NEW a \in Channel, NEW b \in Reach(A, a)
  PROVE  b \in Channel /\ Reach(A, b) \subseteq Reach(A, a)
  <1>1. Reach(A, a) \subseteq Channel /\ \A c \in Reach(A, a) : ToSet(A[c]) \subseteq Reach(A, a)
    BY ReachIs
  <1> DEFINE X == Reach(A, a)
  <1>2. b \in Channel /\ b \in X /\ \A c \in X \cap Channel : ToSet(A[c]) \subseteq X
    BY <1>1
  <1>3. Reach(A, b) \subseteq X
    <2> HIDE DEF X
    <2> QED
      BY <1>2, ReachIs
  <1> QED
    BY <1>2, <1>3

\* No two nodes reach each other, and no node has an arc to itself.
Acyclic(A) ==
  /\ \A c \in Channel : c \notin ToSet(A[c])
  /\ \A a, b \in Channel : b \in Reach(A, a) /\ a \in Reach(A, b) => a = b

\* The arcs A with one more.
WithArc(A, from, to) == [A EXCEPT ![from] = Append(@, to)]

\* B is a graph with the arcs of A and one more.
AddsArc(A, B, from, to) ==
  /\ IsGraph(B)
  /\ \A c \in Channel : ToSet(B[c]) = IF c = from THEN ToSet(A[c]) \cup {to} ELSE ToSet(A[c])

\* Its arcs.
LEMMA WithArcIs ==
  ASSUME NEW A, IsGraph(A), NEW from \in Channel, NEW to \in Channel
  PROVE  AddsArc(A, WithArc(A, from, to), from, to)
  <1>1. ASSUME NEW c \in Channel
        PROVE  WithArc(A, from, to)[c] = IF c = from THEN Append(A[c], to) ELSE A[c]
    BY DEF WithArc, IsGraph
  <1>2. \A c \in Channel : A[c] \in Seq(Channel)
    BY DEF IsGraph
  <1>3. \A c \in Channel : /\ Append(A[c], to) \in Seq(Channel)
                           /\ ToSet(Append(A[c], to)) = ToSet(A[c]) \cup {to}
    BY <1>2, AppendSet
  <1>4. \A c \in Channel : WithArc(A, from, to)[c] \in Seq(Channel)
    BY <1>1, <1>2, <1>3
  <1>5. IsGraph(WithArc(A, from, to))
    BY <1>3 DEF WithArc, IsGraph
  <1> QED
    BY <1>1, <1>3, <1>5 DEF AddsArc

\* Who is reached then was reached before, or from the new arc.
LEMMA ReachWithArc ==
  ASSUME NEW A, IsGraph(A), NEW from \in Channel, NEW to \in Channel,
         NEW a \in Channel
  PROVE  /\ Reach(A, a) \subseteq Reach(WithArc(A, from, to), a)
         /\ \A c \in Reach(WithArc(A, from, to), a) :
              c \in Reach(A, a) \/ (from \in Reach(A, a) /\ c \in Reach(A, to))
  <1> DEFINE B == WithArc(A, from, to)
             X == {c \in Channel :
                     c \in Reach(A, a) \/ (from \in Reach(A, a) /\ c \in Reach(A, to))}
  <1>1. /\ IsGraph(B)
        /\ \A c \in Channel : ToSet(B[c]) = IF c = from THEN ToSet(A[c]) \cup {to} ELSE ToSet(A[c])
    <2>1. AddsArc(A, B, from, to)
      BY WithArcIs
    <2> HIDE DEF B
    <2> QED
      BY <2>1 DEF AddsArc
  <1> HIDE DEF B
  <1>2. /\ Reach(A, a) \subseteq Channel /\ a \in Reach(A, a)
        /\ \A c \in Reach(A, a) : ToSet(A[c]) \subseteq Reach(A, a)
    BY ReachIs
  <1>3. /\ Reach(A, to) \subseteq Channel /\ to \in Reach(A, to)
        /\ \A c \in Reach(A, to) : ToSet(A[c]) \subseteq Reach(A, to)
    BY ReachIs
  <1>4. a \in X /\ \A c \in X \cap Channel : ToSet(B[c]) \subseteq X
    BY <1>1, <1>2, <1>3
  <1>5. Reach(B, a) \subseteq X
    <2> HIDE DEF X
    <2> QED
      BY <1>1, <1>4, ReachIs
  <1>6. Reach(A, a) \subseteq Reach(B, a)
    <2>1. a \in Reach(B, a) /\ \A c \in Reach(B, a) : ToSet(B[c]) \subseteq Reach(B, a)
      BY <1>1, ReachIs
    <2>2. \A c \in Reach(B, a) \cap Channel : ToSet(A[c]) \subseteq Reach(B, a)
      BY <1>1, <2>1
    <2> DEFINE Y == Reach(B, a)
    <2>3. a \in Y /\ \A c \in Y \cap Channel : ToSet(A[c]) \subseteq Y
      BY <2>1, <2>2
    <2>4. Reach(A, a) \subseteq Y
      <3> HIDE DEF Y
      <3> QED
        BY <2>3, ReachIs
    <2> QED
      BY <2>4
  <1> QED
    BY <1>5, <1>6 DEF B

\* An arc whose end does not reach its start closes no cycle.
LEMMA StaysAcyclic ==
  ASSUME NEW A, IsGraph(A), NEW from \in Channel, NEW to \in Channel,
         Acyclic(A), from \notin Reach(A, to)
  PROVE  Acyclic(WithArc(A, from, to))
  <1> DEFINE B == WithArc(A, from, to)
  <1>1. from # to
    BY ReachIs
  <1>2. \A c \in Channel : c \notin ToSet(B[c])
    <2>1. \A c \in Channel : ToSet(B[c]) = IF c = from THEN ToSet(A[c]) \cup {to} ELSE ToSet(A[c])
      <3>1. AddsArc(A, B, from, to)
        BY WithArcIs
      <3> HIDE DEF B
      <3> QED
        BY <3>1 DEF AddsArc
    <2> HIDE DEF B
    <2> QED
      BY <1>1, <2>1 DEF Acyclic
  <1>3. ASSUME NEW a \in Channel, NEW b \in Channel, b \in Reach(B, a), a \in Reach(B, b)
        PROVE  a = b
    <2>1. b \in Reach(A, a) \/ (from \in Reach(A, a) /\ b \in Reach(A, to))
      BY <1>3, ReachWithArc
    <2>2. a \in Reach(A, b) \/ (from \in Reach(A, b) /\ a \in Reach(A, to))
      BY <1>3, ReachWithArc
    <2>3. CASE b \in Reach(A, a) /\ a \in Reach(A, b)
      BY <2>3 DEF Acyclic
    <2>4. CASE b \in Reach(A, to) /\ a \in Reach(A, b) /\ from \in Reach(A, a)
      BY <2>4, ReachTransitive
    <2>5. CASE b \in Reach(A, a) /\ from \in Reach(A, b) /\ a \in Reach(A, to)
      BY <2>5, ReachTransitive
    <2>6. CASE from \in Reach(A, a) /\ a \in Reach(A, to)
      BY <2>6, ReachTransitive
    <2> QED
      BY <2>1, <2>2, <2>3, <2>4, <2>5, <2>6
  <1> QED
    BY <1>2, <1>3 DEF Acyclic

-----------------------------------------------------------------------------
(* Inserting the edges *)

\* PriorityEdges that relations stand for.
EdgeSet == [from : Channel, to : Channel, source : {"Base", "Override"}]

\* There are finitely many edges.
LEMMA EdgesAreFinite ==
  ASSUME NEW es \in SUBSET EdgeSet
  PROVE  IsFiniteSet(es) /\ Cardinality(es) \in Nat
  <1> DEFINE Sources == {"Base", "Override"}
             T == (Channel \X Channel) \X Sources
             f == [e \in EdgeSet |-> <<<<e.from, e.to>>, e.source>>]
  <1>1. IsFiniteSet(Sources)
    <2>1. IsFiniteSet({"Base"})
      BY FS_Singleton
    <2>2. IsFiniteSet({"Base"} \cup {"Override"})
      BY <2>1, FS_AddElement
    <2> QED
      BY <2>2
  <1>2. IsFiniteSet(T)
    <2>1. IsFiniteSet(Channel \X Channel)
      BY ChannelsAreFinite, FS_Product
    <2> QED
      BY <1>1, <2>1, FS_Product
  <1>3. f \in Injection(EdgeSet, T)
    <2>1. f \in [EdgeSet -> T]
      BY DEF EdgeSet
    <2>2. ASSUME NEW e \in EdgeSet, NEW d \in EdgeSet, f[e] = f[d] PROVE e = d
      <3>1. e.from = d.from /\ e.to = d.to /\ e.source = d.source
        BY <2>2
      <3> QED
        BY <3>1 DEF EdgeSet
    <2> QED
      BY <2>1, <2>2 DEF Injection, IsInjective
  <1>4. IsFiniteSet(EdgeSet)
    <2> HIDE DEF f, T
    <2> QED
      BY <1>2, <1>3, FS_Injection
  <1> QED
    BY <1>4, FS_Subset, FS_CardinalityType

\* There is a first edge.
LEMMA FirstEdgeIs ==
  ASSUME NEW es \in SUBSET EdgeSet, es # {}
  PROVE  FirstEdge(es) \in es
  <1> DEFINE Froms == {e.from : e \in es}
  <1>1. \A e \in es : e.from \in Nat /\ e.to \in Nat
    BY ExpanderAssumption DEF EdgeSet
  <1>2. Froms \in SUBSET Nat /\ Froms # {}
    BY <1>1
  <1>3. PICK a \in Froms : \A b \in Froms : a <= b
    <2> HIDE DEF Froms
    <2> QED
      BY <1>2, Least
  <1> DEFINE Tos == {e.to : e \in {d \in es : d.from = a}}
  <1>4. Tos \in SUBSET Nat /\ Tos # {}
    <2>1. \E e \in es : e.from = a
      BY <1>3
    <2> QED
      BY <1>1, <2>1
  <1>5. PICK t \in Tos : \A b \in Tos : t <= b
    <2> HIDE DEF Tos
    <2> QED
      BY <1>4, Least
  <1>6. PICK d \in es : d.from = a /\ d.to = t
    BY <1>5
  <1>7. PICK e \in es : /\ e.from = a /\ e.to = t
                        /\ \A f \in es : f.from = a /\ f.to = t /\ f.source = "Base"
                                           => e.source = "Base"
    BY <1>6
  <1>8. ASSUME NEW f \in es \ {e} PROVE EdgeBefore(e, f)
    <2>1. f.from \in Nat /\ f.to \in Nat /\ a \in Nat /\ t \in Nat
      BY <1>2, <1>4, ExpanderAssumption DEF EdgeSet
    <2>2. a <= f.from
      BY <1>3
    <2>3. f.from = a => t <= f.to
      BY <1>5
    <2>4. f.from = a /\ f.to = t => e.source # f.source
      BY <1>7 DEF EdgeSet
    <2>5. e.source \in {"Base", "Override"} /\ f.source \in {"Base", "Override"}
      BY DEF EdgeSet
    <2>6. f.from = a /\ f.to = t => e.source = "Base" /\ f.source = "Override"
      BY <1>7, <2>4, <2>5
    <2> QED
      BY <1>7, <2>1, <2>2, <2>3, <2>6 DEF EdgeBefore
  <1> QED
    BY <1>8 DEF FirstEdge

\* The user's channels stand in their own places.
LEMMA UserPosIs ==
  /\ Len(UserChannels) \in Nat
  /\ \A c \in ToSet(UserChannels) : /\ UserPos(c) \in 1..Len(UserChannels)
                                   /\ UserChannels[UserPos(c)] = c
  /\ \A i \in 1..Len(UserChannels) : /\ UserChannels[i] \in ToSet(UserChannels)
                                     /\ UserPos(UserChannels[i]) = i
  <1>1. DOMAIN UserChannels = 1..Len(UserChannels) /\ Len(UserChannels) \in Nat
    BY ExpanderAssumption
  <1>2. ASSUME NEW c \in ToSet(UserChannels)
        PROVE  UserPos(c) \in 1..Len(UserChannels) /\ UserChannels[UserPos(c)] = c
    <2>1. \E i \in DOMAIN UserChannels : UserChannels[i] = c
      BY DEF ToSet
    <2> QED
      BY <1>1, <2>1 DEF UserPos
  <1>3. ASSUME NEW i \in 1..Len(UserChannels)
        PROVE  UserChannels[i] \in ToSet(UserChannels) /\ UserPos(UserChannels[i]) = i
    <2>1. UserChannels[i] \in ToSet(UserChannels)
      BY <1>1 DEF ToSet
    <2>2. UserPos(UserChannels[i]) \in 1..Len(UserChannels)
          /\ UserChannels[UserPos(UserChannels[i])] = UserChannels[i]
      BY <1>2, <2>1
    <2> QED
      BY <1>1, <2>1, <2>2, ExpanderAssumption
  <1> QED
    BY <1>1, <1>2, <1>3

\* Each of the user's channels is followed by the next one.
LEMMA UserChainIs ==
  /\ IsGraph(UserChain)
  /\ \A c \in Channel : \A d : d \in ToSet(UserChain[c]) <=>
       /\ c \in ToSet(UserChannels) /\ d \in ToSet(UserChannels)
       /\ UserPos(d) = UserPos(c) + 1
  <1>1. ASSUME NEW c \in Channel
        PROVE  /\ UserChain[c] \in Seq(Channel)
               /\ \A d : d \in ToSet(UserChain[c]) <=>
                    /\ c \in ToSet(UserChannels) /\ d \in ToSet(UserChannels)
                    /\ UserPos(d) = UserPos(c) + 1
    <2>1. CASE IsUser(c) /\ UserPos(c) < Len(UserChannels)
      <3> DEFINE e == UserChannels[UserPos(c) + 1]
      <3>1. UserChain[c] = <<e>>
        BY <2>1 DEF UserChain
      <3>2. UserPos(c) + 1 \in 1..Len(UserChannels)
        BY <2>1, UserPosIs DEF IsUser
      <3>3. e \in ToSet(UserChannels) /\ UserPos(e) = UserPos(c) + 1 /\ e \in Channel
        BY <3>2, UserPosIs, UsersAreChannels
      <3> HIDE DEF e
      <3>4. <<e>> \in Seq(Channel) /\ ToSet(<<e>>) = {e}
        BY <3>3 DEF ToSet
      <3>5. \A d \in ToSet(UserChannels) : UserPos(d) = UserPos(c) + 1 => d = e
        BY <3>3, UserPosIs
      <3> QED
        BY <2>1, <3>1, <3>3, <3>4, <3>5 DEF IsUser
    <2>2. CASE ~(IsUser(c) /\ UserPos(c) < Len(UserChannels))
      <3>1. UserChain[c] = <<>>
        BY <2>2 DEF UserChain
      <3>2. <<>> \in Seq(Channel) /\ ToSet(<<>>) = {}
        BY DEF ToSet
      <3>3. ASSUME c \in ToSet(UserChannels), NEW d \in ToSet(UserChannels),
                   UserPos(d) = UserPos(c) + 1
            PROVE  FALSE
        <4>1. /\ Len(UserChannels) \in Nat /\ UserPos(d) \in 1..Len(UserChannels)
              /\ UserPos(c) \in 1..Len(UserChannels)
          BY <3>3, UserPosIs
        <4>2. ~(UserPos(c) < Len(UserChannels))
          BY <2>2, <3>3 DEF IsUser
        <4> QED
          BY <3>3, <4>1, <4>2
      <3> QED
        BY <3>1, <3>2, <3>3
    <2> QED
      BY <2>1, <2>2
  <1>2. IsGraph(UserChain)
    BY <1>1 DEF IsGraph, UserChain
  <1> QED
    BY <1>1, <1>2

\* The chain has no cycle.
LEMMA UserChainAcyclic == Acyclic(UserChain)
  <1>1. ASSUME NEW a \in Channel, NEW b \in Reach(UserChain, a)
        PROVE  \/ a = b
               \/ /\ a \in ToSet(UserChannels) /\ b \in ToSet(UserChannels)
                  /\ UserPos(a) < UserPos(b)
    <2> DEFINE X == {a} \cup {c \in ToSet(UserChannels) :
                               a \in ToSet(UserChannels) /\ UserPos(a) < UserPos(c)}
    <2>1. a \in X
      OBVIOUS
    <2>2. ASSUME NEW c \in X \cap Channel, NEW d \in ToSet(UserChain[c]) PROVE d \in X
      <3>1. /\ c \in ToSet(UserChannels) /\ d \in ToSet(UserChannels)
            /\ UserPos(d) = UserPos(c) + 1
        BY <2>2, UserChainIs
      <3>2. a \in ToSet(UserChannels) /\ UserPos(a) <= UserPos(c)
            /\ UserPos(a) \in Nat /\ UserPos(c) \in Nat
        BY <3>1, UserPosIs
      <3> QED
        BY <3>1, <3>2
    <2>3. Reach(UserChain, a) \subseteq X
      <3> HIDE DEF X
      <3>1. \A c \in X \cap Channel : ToSet(UserChain[c]) \subseteq X
        BY <2>2
      <3> QED
        BY <2>1, <3>1, UserChainIs, ReachIs
    <2> QED
      BY <2>3
  <1>2. ASSUME NEW a \in Channel, NEW b \in Channel, b \in Reach(UserChain, a),
               a \in Reach(UserChain, b), a # b
        PROVE  FALSE
    <2>1. /\ a \in ToSet(UserChannels) /\ b \in ToSet(UserChannels)
          /\ UserPos(a) < UserPos(b) /\ UserPos(b) < UserPos(a)
      BY <1>1, <1>2
    <2> QED
      BY <2>1, UserPosIs
  <1>3. ASSUME NEW c \in Channel, c \in ToSet(UserChain[c]) PROVE FALSE
    <2>1. c \in ToSet(UserChannels) /\ UserPos(c) = UserPos(c) + 1
      BY <1>3, UserChainIs
    <2> QED
      BY <2>1, UserPosIs
  <1> QED
    BY <1>2, <1>3 DEF Acyclic

\* The relation edges that are inserted.
Inserted == edges \ Ignored(edges)

\* What the loop over them preserves: there is no cycle, the chain of the user
\* and the kept edges are arcs, nothing else is, and what was dropped closes a
\* cycle.
Inserting(x) ==
  /\ IsGraph(x.graph.adjacency) /\ Acyclic(x.graph.adjacency)
  /\ \A c \in Channel : ToSet(UserChain[c]) \subseteq ToSet(x.graph.adjacency[c])
  /\ \A e \in x.graph.kept : e.to \in ToSet(x.graph.adjacency[e.from])
  /\ \A c \in Channel : \A d \in ToSet(x.graph.adjacency[c]) :
       d \in ToSet(UserChain[c]) \/ \E e \in x.graph.kept : e.from = c /\ e.to = d
  /\ \A e \in (Inserted \ x.left) \ x.graph.kept : e.from \in Reach(x.graph.adjacency, e.to)

\* The states of the loop, ...
Insertions ==
  {x \in [graph : [adjacency : [Channel -> Seq(Channel)], kept : SUBSET Inserted],
          left : SUBSET Inserted] : Inserting(x)}

\* ... and the first one.
FirstInsertion == [graph |-> [adjacency |-> UserChain, kept |-> {}], left |-> Inserted]

\* It holds before the loop ...
LEMMA InsertionBegins == FirstInsertion \in Insertions
  <1>1. UserChain \in [Channel -> Seq(Channel)]
    BY UserChainIs DEF IsGraph
  <1>2. Inserting(FirstInsertion)
    BY UserChainIs, UserChainAcyclic DEF Inserting, FirstInsertion
  <1> QED
    BY <1>1, <1>2 DEF Insertions, FirstInsertion

\* ... and after every round.
LEMMA InsertionGoesOn ==
  ASSUME edges \subseteq EdgeSet, NEW x \in Insertions
  PROVE  InsertNext(x) \in Insertions
  <1>1. CASE x.left = {}
    BY <1>1 DEF InsertNext
  <1>2. CASE x.left # {}
    <2> DEFINE e == FirstEdge(x.left)
               A == x.graph.adjacency
               kept == x.graph.kept
    <2>1. /\ x.left \subseteq Inserted /\ kept \subseteq Inserted /\ IsGraph(A)
          /\ A \in [Channel -> Seq(Channel)] /\ Inserting(x)
          /\ x.left \in SUBSET EdgeSet
      BY DEF Insertions, Inserted, IsGraph
    <2>2. e \in x.left
      BY <1>2, <2>1, FirstEdgeIs
    <2>3. e \in EdgeSet /\ e \in Inserted /\ e.from \in Channel /\ e.to \in Channel
      BY <2>1, <2>2 DEF EdgeSet
    <2> HIDE DEF e
    <2>4. CASE e.from \in Reach(A, e.to)
      <3> DEFINE y == [graph |-> x.graph, left |-> x.left \ {e}]
      <3>1. InsertNext(x) = y
        BY <1>2, <2>4 DEF InsertNext, Insert, e
      <3>2. y.graph = x.graph /\ y.left = x.left \ {e}
        OBVIOUS
      <3>3. y \in [graph : [adjacency : [Channel -> Seq(Channel)], kept : SUBSET Inserted],
                   left : SUBSET Inserted]
        BY <2>1 DEF Insertions
      <3> HIDE DEF y
      <3>4. Inserting(y)
        <4>1. \A f \in (Inserted \ y.left) \ y.graph.kept : f.from \in Reach(A, f.to)
          BY <2>1, <2>4, <3>2 DEF Inserting
        <4>2. /\ IsGraph(A) /\ Acyclic(A)
              /\ \A c \in Channel : ToSet(UserChain[c]) \subseteq ToSet(A[c])
              /\ \A f \in kept : f.to \in ToSet(A[f.from])
              /\ \A c \in Channel : \A d \in ToSet(A[c]) :
                   d \in ToSet(UserChain[c]) \/ \E f \in kept : f.from = c /\ f.to = d
          BY <2>1 DEF Inserting
        <4>3. y.graph.adjacency = A /\ y.graph.kept = kept
          BY <3>2
        <4> HIDE DEF A, kept
        <4> QED
          BY <4>1, <4>2, <4>3 DEF Inserting
      <3> QED
        BY <3>1, <3>3, <3>4 DEF Insertions
    <2>5. CASE e.from \notin Reach(A, e.to)
      <3> DEFINE B == WithArc(A, e.from, e.to)
                 y == [graph |-> [adjacency |-> B, kept |-> kept \cup {e}], left |-> x.left \ {e}]
      <3>1. InsertNext(x) = y
        BY <1>2, <2>5 DEF InsertNext, Insert, e, WithArc
      <3>2. /\ IsGraph(B)
            /\ \A c \in Channel : ToSet(B[c]) =
                 IF c = e.from THEN ToSet(A[c]) \cup {e.to} ELSE ToSet(A[c])
        <4>1. AddsArc(A, B, e.from, e.to)
          BY <2>1, <2>3, WithArcIs
        <4> HIDE DEF A, B
        <4> QED
          BY <4>1 DEF AddsArc
      <3>3. Acyclic(B)
        BY <2>1, <2>3, <2>5, StaysAcyclic DEF Inserting
      <3>4. \A f \in Inserted : Reach(A, f.to) \subseteq Reach(B, f.to)
        <4>1. \A f \in Inserted : f.to \in Channel
          BY DEF Inserted, EdgeSet
        <4> QED
          BY <2>1, <2>3, <4>1, ReachWithArc
      <3> HIDE DEF B
      <3>5. y.graph.adjacency = B /\ y.graph.kept = kept \cup {e} /\ y.left = x.left \ {e}
        OBVIOUS
      <3>6. y \in [graph : [adjacency : [Channel -> Seq(Channel)], kept : SUBSET Inserted],
                   left : SUBSET Inserted]
        BY <2>1, <2>3, <3>2 DEF IsGraph
      <3> HIDE DEF y
      <3>7. \A c \in Channel : ToSet(UserChain[c]) \subseteq ToSet(B[c])
        BY <2>1, <3>2 DEF Inserting
      <3>8. \A f \in kept \cup {e} : f.to \in ToSet(B[f.from])
        <4>1. \A f \in kept : f.from \in Channel /\ f.to \in ToSet(A[f.from])
          BY <2>1 DEF Inserting, Inserted, EdgeSet
        <4> QED
          BY <2>3, <3>2, <4>1
      <3>9. \A c \in Channel : \A d \in ToSet(B[c]) :
              d \in ToSet(UserChain[c]) \/ \E f \in kept \cup {e} : f.from = c /\ f.to = d
        <4>1. \A c \in Channel : \A d \in ToSet(A[c]) :
                d \in ToSet(UserChain[c]) \/ \E f \in kept : f.from = c /\ f.to = d
          BY <2>1 DEF Inserting
        <4>2. ASSUME NEW c \in Channel, NEW d \in ToSet(B[c]), d \notin ToSet(A[c])
              PROVE  e.from = c /\ e.to = d
          BY <3>2, <4>2
        <4> QED
          BY <4>1, <4>2
      <3>10. \A f \in (Inserted \ (x.left \ {e})) \ (kept \cup {e}) : f.from \in Reach(B, f.to)
        <4>1. \A f \in (Inserted \ x.left) \ kept : f.from \in Reach(A, f.to)
          BY <2>1 DEF Inserting
        <4> QED
          BY <3>4, <4>1
      <3>11. Inserting(y)
        BY <3>2, <3>3, <3>5, <3>7, <3>8, <3>9, <3>10 DEF Inserting
      <3> QED
        BY <3>1, <3>6, <3>11 DEF Insertions
    <2> QED
      BY <2>4, <2>5
  <1> QED
    BY <1>1, <1>2

\* An edge that is left is taken.
LEMMA InsertionTakes ==
  ASSUME edges \subseteq EdgeSet, NEW x \in Insertions
  PROVE  /\ InsertNext(x).left \subseteq x.left
         /\ x.left # {} => InsertNext(x).left # x.left
         /\ x.left = {} => InsertNext(x) = x
  <1>1. x.left = {} => InsertNext(x) = x
    BY DEF InsertNext
  <1>2. ASSUME x.left # {} PROVE InsertNext(x).left = x.left \ {FirstEdge(x.left)}
                                 /\ FirstEdge(x.left) \in x.left
    <2>1. x.left \in SUBSET EdgeSet
      BY DEF Insertions, Inserted
    <2>2. FirstEdge(x.left) \in x.left
      BY <1>2, <2>1, FirstEdgeIs
    <2> QED
      BY <1>2, <2>2 DEF InsertNext
  <1> QED
    BY <1>1, <1>2

\* The graph that the loop ends with.
LEMMA GraphIs ==
  ASSUME edges \subseteq EdgeSet
  PROVE  \E x \in Insertions : x.left = {} /\ Graph = x.graph
  <1> DEFINE S == Insertions
             b == FirstInsertion
             F == [x \in S |-> InsertNext(x)]
             G(f) == [n \in Nat |-> IF n = 0 THEN FirstInsertion ELSE InsertNext(f[n - 1])]
             N == Cardinality(edges)
  <1>1. b \in S /\ F \in [S -> S]
    BY InsertionBegins, InsertionGoesOn
  <1>2. PICK f \in [Nat -> S] : f[0] = b /\ \A n \in Nat : f[n + 1] = F[f[n]]
    <2> HIDE DEF S, b, F
    <2> QED
      BY <1>1, Recursion
  <1>3. \A n \in Nat : f[n] = IF n = 0 THEN FirstInsertion ELSE InsertNext(f[n - 1])
    <2> SUFFICES ASSUME NEW n \in Nat
                 PROVE  f[n] = IF n = 0 THEN FirstInsertion ELSE InsertNext(f[n - 1])
      OBVIOUS
    <2>1. n # 0 => n - 1 \in Nat /\ (n - 1) + 1 = n
      OBVIOUS
    <2>2. n # 0 => f[n - 1] \in S /\ f[(n - 1) + 1] = F[f[n - 1]]
      BY <1>2, <2>1
    <2> QED
      BY <1>2, <2>1, <2>2
  <1>4. f = G(f)
    BY <1>2, <1>3
  <1> DEFINE g == CHOOSE h : h = G(h)
  <1>5. Graph = g[N].graph
    BY DEF Graph, FirstInsertion, Inserted
  <1>6. g = G(g)
    <2> HIDE DEF G
    <2> QED
      BY <1>4
  <1> HIDE DEF g
  <1>7. g[0] = b /\ \A n \in Nat : g[n + 1] = InsertNext(g[n])
    <2>1. \A n \in Nat : g[n] = IF n = 0 THEN FirstInsertion ELSE InsertNext(g[n - 1])
      BY <1>6
    <2>2. \A n \in Nat : n + 1 \in Nat /\ n + 1 # 0 /\ (n + 1) - 1 = n
      OBVIOUS
    <2> QED
      BY <2>1, <2>2
  <1>8. \A n \in Nat : g[n] \in S /\ g[n + 1] = F[g[n]]
    <2>1. \A n \in Nat : g[n] \in S => g[n + 1] = F[g[n]]
      BY <1>7
    <2> HIDE DEF S, b, F
    <2> QED
      BY <1>1, <1>7, <2>1, RecursionStays
  <1>9. N \in Nat /\ IsFiniteSet(edges)
    BY EdgesAreFinite
  <1> DEFINE taken == [n \in Nat |-> edges \ g[n].left]
  <1>10. taken \in [Nat -> SUBSET edges] /\ \A n \in Nat : taken[n] \subseteq taken[n + 1]
    <2>1. \A n \in Nat : g[n + 1].left \subseteq g[n].left
      BY <1>7, <1>8, InsertionTakes
    <2>2. \A n \in Nat : n + 1 \in Nat
      OBVIOUS
    <2> QED
      BY <2>1, <2>2
  <1>11. PICK n \in 0..N : taken[n + 1] = taken[n]
    <2> HIDE DEF taken, N
    <2>1. \E n \in 0..Cardinality(edges) : taken[n + 1] = taken[n]
      BY <1>9, <1>10, GrowthStops
    <2> QED
      BY <2>1 DEF N
  <1>12. n \in Nat /\ n + 1 \in Nat /\ n <= N
    BY <1>9
  <1>13. g[n].left = {}
    <2>1. g[n].left \subseteq edges /\ g[n + 1].left \subseteq edges
      BY <1>8, <1>12 DEF Insertions, Inserted
    <2>2. edges \ g[n + 1].left = edges \ g[n].left
      BY <1>11, <1>12
    <2>3. g[n + 1].left = g[n].left
      BY <2>1, <2>2
    <2> QED
      BY <1>7, <1>8, <1>12, <2>3, InsertionTakes
  <1>14. g[n + 1] = g[n]
    BY <1>7, <1>8, <1>12, <1>13, InsertionTakes
  <1>15. g[N] = g[n]
    <2>1. F \in [S -> S] /\ (\A k \in Nat : g[k + 1] = F[g[k]]) /\ N \in Nat
      BY <1>1, <1>8, <1>9
    <2> HIDE DEF S, F, N
    <2> QED
      BY <1>12, <1>14, <2>1, Settled
  <1> QED
    BY <1>5, <1>8, <1>12, <1>13, <1>15

-----------------------------------------------------------------------------
(* The depth-first search *)

\* The places of a sequence that grows ...
LEMMA AppendIs ==
  ASSUME NEW S, NEW s \in Seq(S), NEW e \in S
  PROVE  /\ Append(s, e) \in Seq(S) /\ Len(s) \in Nat /\ Len(Append(s, e)) = Len(s) + 1
         /\ \A i \in 1..Len(s) : Append(s, e)[i] = s[i]
         /\ Append(s, e)[Len(s) + 1] = e
  OBVIOUS

\* ... and of one that shrinks.
LEMMA FrontIs ==
  ASSUME NEW S, NEW s \in Seq(S), s # <<>>
  PROVE  /\ Front(s) \in Seq(S) /\ Len(s) \in Nat \ {0} /\ Len(Front(s)) = Len(s) - 1
         /\ \A i \in 1..(Len(s) - 1) : Front(s)[i] = s[i]
         /\ Last(s) = s[Len(s)] /\ Last(s) \in S
  <1>1. Len(s) \in Nat /\ Len(s) # 0 /\ Last(s) = s[Len(s)]
    BY DEF Last
  <1>2. Front(s) = SubSeq(s, 1, Len(s) - 1)
    BY DEF Front
  <1>3. \A i \in 1..(Len(s) - 1) : i \in 1..Len(s) /\ s[i] \in S
    BY <1>1
  <1>4. SubSeq(s, 1, Len(s) - 1) = [i \in 1..(Len(s) - 1) |-> s[i]]
    <2>1. \A i \in 1..(Len(s) - 1) : i + 1 - 1 = i
      BY <1>1
    <2>2. (Len(s) - 1) - 1 + 1 = Len(s) - 1 /\ Len(s) - 1 \in Nat
      BY <1>1
    <2> QED
      BY <1>1, <1>3, <2>1, <2>2
  <1>5. /\ [i \in 1..(Len(s) - 1) |-> s[i]] \in Seq(S)
        /\ Len([i \in 1..(Len(s) - 1) |-> s[i]]) = Len(s) - 1
    BY <1>1, <1>3
  <1>6. Last(s) \in S
    BY <1>1
  <1> QED
    BY <1>1, <1>2, <1>4, <1>5, <1>6

\* The first node is one of those that there are.
LEMMA FirstNodeIs ==
  ASSUME NEW X \in SUBSET Channel, X # {}
  PROVE  FirstNode(X) \in X
  <1>1. CASE \E u \in X : IsUser(u)
    <2> DEFINE P == {UserPos(u) : u \in {c \in X : IsUser(c)}}
    <2>1. \A c \in ToSet(UserChannels) : UserPos(c) \in Nat
      BY UserPosIs
    <2>2. P \in SUBSET Nat /\ P # {}
      BY <1>1, <2>1 DEF IsUser
    <2>3. PICK p \in P : \A q \in P : p <= q
      <3> HIDE DEF P
      <3> QED
        BY <2>2, Least
    <2>4. PICK u \in X : IsUser(u) /\ UserPos(u) = p
      BY <2>3
    <2>5. ASSUME NEW d \in X \ {u}, IsUser(d) PROVE UserPos(u) < UserPos(d)
      <3>1. UserPos(u) <= UserPos(d)
        BY <2>3, <2>4, <2>5
      <3>2. UserPos(u) # UserPos(d)
        BY <2>4, <2>5, UserPosIs DEF IsUser
      <3>3. UserPos(u) \in Nat /\ UserPos(d) \in Nat
        BY <2>1, <2>4, <2>5 DEF IsUser
      <3> QED
        BY <3>1, <3>2, <3>3
    <2> QED
      BY <2>4, <2>5 DEF FirstNode
  <1>2. CASE ~\E u \in X : IsUser(u)
    <2>1. X \in SUBSET Nat
      BY ExpanderAssumption
    <2>2. PICK c \in X : \A d \in X : c <= d
      BY <2>1, Least
    <2>3. \A d \in X \ {c} : c < d
      BY <2>1, <2>2
    <2> QED
      BY <1>2, <2>3 DEF FirstNode
  <1> QED
    BY <1>1, <1>2

\* So is the first neighbour.
LEMMA FirstInIs ==
  ASSUME NEW S, NEW s \in Seq(S), NEW X, ToSet(s) \cap X # {}
  PROVE  FirstIn(s, X) \in X /\ FirstIn(s, X) \in ToSet(s)
  <1> DEFINE P == {i \in 1..Len(s) : s[i] \in X}
  <1>1. Len(s) \in Nat /\ DOMAIN s = 1..Len(s) /\ P \in SUBSET Nat
    OBVIOUS
  <1>2. P # {}
    BY InToSet
  <1>3. PICK i \in P : \A j \in P : i <= j
    <2> HIDE DEF P
    <2> QED
      BY <1>1, <1>2, Least
  <1>4. i \in DOMAIN s /\ s[i] \in X /\ \A j \in 1..(i - 1) : s[j] \notin X
    BY <1>1, <1>3
  <1>5. PICK k \in DOMAIN s : FirstIn(s, X) = s[k] /\ s[k] \in X
    BY <1>4 DEF FirstIn
  <1> QED
    BY <1>1, <1>5, InToSet

\* What the search preserves: nodes are in progress or done once, each of those
\* in progress was reached from the ones below, and a node is done after its
\* neighbours.
Searching(A, x) ==
  /\ x.stack \in Seq(Discovered) /\ x.post \in Seq(Discovered)
  /\ \A i \in 1..Len(x.stack) : x.stack[i] \notin ToSet(x.post)
  /\ \A i, j \in 1..Len(x.stack) :
       i < j => x.stack[j] \in Reach(A, x.stack[i]) /\ x.stack[i] # x.stack[j]
  /\ \A i, j \in 1..Len(x.post) : i # j => x.post[i] # x.post[j]
  /\ \A i \in 1..Len(x.post) : \A d \in ToSet(A[x.post[i]]) :
       \E j \in 1..(i - 1) : x.post[j] = d

\* The states of the search, ...
Searches(A) == {x \in [stack : Seq(Discovered), post : Seq(Discovered)] : Searching(A, x)}

\* ... and the first one.
FirstSearch == [stack |-> <<>>, post |-> <<>>]

\* Nodes that are not known to the search yet.
Unvisited(x) == Discovered \ (ToSet(x.stack) \cup ToSet(x.post))

\* The arcs between the channels that were found.
OnDiscovered(A) ==
  IsGraph(A) /\ Acyclic(A) /\ \A c \in Discovered : ToSet(A[c]) \subseteq Discovered

\* It holds before the first step.
LEMMA SearchBegins ==
  ASSUME NEW A
  PROVE  FirstSearch \in Searches(A)
  <1>1. /\ FirstSearch.stack = <<>> /\ FirstSearch.post = <<>>
        /\ <<>> \in Seq(Discovered) /\ Len(<<>>) = 0 /\ 1..0 = {}
    BY DEF FirstSearch
  <1>2. Searching(A, FirstSearch)
    BY <1>1 DEF Searching
  <1> QED
    BY <1>1, <1>2 DEF FirstSearch, Searches

\* The search begins anew from a node.
LEMMA SearchStarts ==
  ASSUME NEW A, OnDiscovered(A), NEW x \in Searches(A), x.stack = <<>>, Unvisited(x) # {}
  PROVE  /\ Visit(A, x) \in Searches(A)
         /\ \E c \in Unvisited(x) : Visit(A, x) = [stack |-> <<c>>, post |-> x.post]
  <1> DEFINE c == FirstNode(Unvisited(x))
             y == [stack |-> <<c>>, post |-> x.post]
  <1>1. Unvisited(x) \in SUBSET Channel
    BY DEF Unvisited, Discovered
  <1>2. c \in Unvisited(x) /\ c \in Discovered /\ c \notin ToSet(x.post)
    BY <1>1, FirstNodeIs DEF Unvisited
  <1>3. Visit(A, x) = y
    <2>1. [x EXCEPT !.stack = <<c>>] = y
      BY DEF Searches
    <2> QED
      BY <2>1 DEF Visit, Unvisited
  <1> HIDE DEF c
  <1>4. y.stack = <<c>> /\ y.post = x.post /\ Len(<<c>>) = 1 /\ <<c>>[1] = c
    OBVIOUS
  <1>5. y \in [stack : Seq(Discovered), post : Seq(Discovered)]
    BY <1>2 DEF Searches
  <1>6. Searching(A, y)
    BY <1>2, <1>4, <1>5 DEF Searches, Searching
  <1> QED
    BY <1>2, <1>3, <1>5, <1>6 DEF Searches

\* The search goes on to a neighbour.
LEMMA SearchPushes ==
  ASSUME NEW A, OnDiscovered(A), NEW x \in Searches(A), x.stack # <<>>,
         ToSet(A[Last(x.stack)]) \cap Unvisited(x) # {}
  PROVE  /\ Visit(A, x) \in Searches(A)
         /\ \E c \in Unvisited(x) : Visit(A, x) = [stack |-> Append(x.stack, c), post |-> x.post]
  <1> DEFINE top == Last(x.stack)
             c == FirstIn(A[top], Unvisited(x))
             n == Len(x.stack)
             t == Append(x.stack, c)
             y == [stack |-> t, post |-> x.post]
  <1>1. x.stack \in Seq(Discovered) /\ x.post \in Seq(Discovered) /\ Searching(A, x)
    BY DEF Searches
  <1>2. n \in Nat \ {0} /\ top = x.stack[n] /\ top \in Discovered /\ top \in Channel
    BY <1>1, FrontIs DEF Discovered
  <1>3. A[top] \in Seq(Channel)
    BY <1>2 DEF OnDiscovered, IsGraph
  <1>4. c \in Unvisited(x) /\ c \in ToSet(A[top])
    BY <1>3, FirstInIs
  <1>5. c \in Discovered /\ c \notin ToSet(x.stack) /\ c \notin ToSet(x.post)
    BY <1>4 DEF Unvisited
  <1>6. Visit(A, x) = y
    <2>1. [x EXCEPT !.stack = t] = y
      BY DEF Searches
    <2> QED
      BY <2>1 DEF Visit, Unvisited
  <1> HIDE DEF c, top
  <1>7. /\ t \in Seq(Discovered) /\ Len(t) = n + 1 /\ t[n + 1] = c
        /\ \A i \in 1..n : t[i] = x.stack[i]
    BY <1>1, <1>5, AppendIs
  <1> HIDE DEF t
  <1>8. ASSUME NEW i \in 1..n PROVE c \in Reach(A, x.stack[i]) /\ c # x.stack[i]
    <2>1. x.stack[i] \in Discovered /\ x.stack[i] \in Channel
      BY <1>1 DEF Discovered
    <2>2. top \in Reach(A, x.stack[i])
      <3>1. CASE i = n
        BY <1>2, <2>1, <3>1, ReachIs DEF OnDiscovered
      <3>2. CASE i # n
        <4>1. i < n /\ n \in 1..Len(x.stack)
          BY <1>2, <3>2
        <4> QED
          BY <1>1, <1>2, <4>1 DEF Searching
      <3> QED
        BY <3>1, <3>2
    <2>3. c \in Reach(A, x.stack[i])
      BY <1>4, <2>1, <2>2, ReachIs DEF OnDiscovered
    <2>4. x.stack[i] \in ToSet(x.stack)
      BY <1>1, InToSet
    <2> QED
      BY <1>5, <2>3, <2>4
  <1>9. y.stack = t /\ y.post = x.post
    OBVIOUS
  <1>10. y \in [stack : Seq(Discovered), post : Seq(Discovered)]
    BY <1>1, <1>7
  <1> HIDE DEF y
  <1>11. \A i \in 1..(n + 1) : t[i] \notin ToSet(x.post)
    <2>1. \A i \in 1..n : x.stack[i] \notin ToSet(x.post)
      BY <1>1 DEF Searching
    <2>2. \A i \in 1..(n + 1) : i \in 1..n \/ i = n + 1
      BY <1>2
    <2> QED
      BY <1>5, <1>7, <2>1, <2>2
  <1>12. ASSUME NEW i \in 1..(n + 1), NEW j \in 1..(n + 1), i < j
         PROVE  t[j] \in Reach(A, t[i]) /\ t[i] # t[j]
    <2>1. i \in 1..n /\ t[i] = x.stack[i]
      BY <1>2, <1>7, <1>12
    <2>2. CASE j = n + 1
      BY <1>7, <1>8, <2>1, <2>2
    <2>3. CASE j # n + 1
      <3>1. j \in 1..n /\ t[j] = x.stack[j]
        BY <1>2, <1>7, <2>3
      <3> QED
        BY <1>1, <1>12, <2>1, <3>1 DEF Searching
    <2> QED
      BY <2>2, <2>3
  <1>13. Searching(A, y)
    BY <1>1, <1>7, <1>9, <1>11, <1>12 DEF Searching
  <1> QED
    BY <1>4, <1>6, <1>10, <1>13 DEF Searches, y, t

\* A node whose neighbours are all known is done: none of them is in progress,
\* for there is no cycle.
LEMMA SearchPops ==
  ASSUME NEW A, OnDiscovered(A), NEW x \in Searches(A), x.stack # <<>>,
         ToSet(A[Last(x.stack)]) \cap Unvisited(x) = {}
  PROVE  /\ Visit(A, x) \in Searches(A)
         /\ Visit(A, x) = [stack |-> Front(x.stack), post |-> Append(x.post, Last(x.stack))]
  <1> DEFINE top == Last(x.stack)
             n == Len(x.stack)
             m == Len(x.post)
             s == Front(x.stack)
             p == Append(x.post, top)
             y == [stack |-> s, post |-> p]
  <1>1. x.stack \in Seq(Discovered) /\ x.post \in Seq(Discovered) /\ Searching(A, x) /\ m \in Nat
    BY DEF Searches
  <1>2. /\ n \in Nat \ {0} /\ top = x.stack[n] /\ top \in Discovered /\ top \in Channel
        /\ s \in Seq(Discovered) /\ Len(s) = n - 1 /\ \A i \in 1..(n - 1) : s[i] = x.stack[i]
    BY <1>1, FrontIs DEF Discovered
  <1>3. Visit(A, x) = y
    BY DEF Visit, Unvisited
  <1>4. top \notin ToSet(x.post)
    <2>1. n \in 1..n
      BY <1>2
    <2> QED
      BY <1>1, <1>2, <2>1 DEF Searching
  <1>5. ASSUME NEW d \in ToSet(A[top]) PROVE d \in ToSet(x.post)
    <2>1. d \in Discovered /\ d \in ToSet(x.stack) \cup ToSet(x.post)
      BY <1>2, <1>5 DEF OnDiscovered, Unvisited
    <2>2. ASSUME d \in ToSet(x.stack) PROVE FALSE
      <3>1. PICK i \in 1..n : x.stack[i] = d
        BY <1>1, <2>2, InToSet
      <3>2. d # top /\ d \in Channel /\ d \in Reach(A, top)
        <4>1. d # top
          BY <1>2, <1>5 DEF OnDiscovered, Acyclic
        <4>2. top \in Reach(A, top) /\ \A c \in Reach(A, top) : ToSet(A[c]) \subseteq Reach(A, top)
          BY <1>2, ReachIs DEF OnDiscovered
        <4> QED
          BY <1>5, <2>1, <4>1, <4>2 DEF Discovered
      <3>3. i < n /\ n \in 1..n
        BY <1>2, <3>1, <3>2
      <3>4. top \in Reach(A, d)
        BY <1>1, <1>2, <3>1, <3>3 DEF Searching
      <3> QED
        BY <1>2, <3>2, <3>4 DEF OnDiscovered, Acyclic
    <2> QED
      BY <2>1, <2>2
  <1> HIDE DEF top
  <1>6. /\ p \in Seq(Discovered) /\ Len(p) = m + 1 /\ p[m + 1] = top
        /\ \A i \in 1..m : p[i] = x.post[i]
    BY <1>1, <1>2, AppendIs
  <1>7. ToSet(p) = ToSet(x.post) \cup {top}
    BY <1>1, <1>2, AppendSet
  <1>8. y.stack = s /\ y.post = p
    OBVIOUS
  <1>9. y \in [stack : Seq(Discovered), post : Seq(Discovered)]
    BY <1>2, <1>6
  <1> HIDE DEF y, s, p
  <1>10. ASSUME NEW i \in 1..(n - 1) PROVE s[i] \notin ToSet(p)
    <2>1. i \in 1..n /\ n \in 1..n /\ i < n /\ s[i] = x.stack[i]
      BY <1>2
    <2>2. x.stack[i] \notin ToSet(x.post) /\ x.stack[i] # x.stack[n]
      BY <1>1, <2>1 DEF Searching
    <2> QED
      BY <1>2, <1>7, <2>1, <2>2
  <1>11. ASSUME NEW i \in 1..(n - 1), NEW j \in 1..(n - 1), i < j
         PROVE  s[j] \in Reach(A, s[i]) /\ s[i] # s[j]
    <2>1. i \in 1..n /\ j \in 1..n /\ s[i] = x.stack[i] /\ s[j] = x.stack[j]
      BY <1>2
    <2> QED
      BY <1>1, <1>11, <2>1 DEF Searching
  <1>12. ASSUME NEW i \in 1..(m + 1), NEW j \in 1..(m + 1), i # j PROVE p[i] # p[j]
    <2>1. \A k \in 1..(m + 1) : k = m + 1 \/ (k \in 1..m /\ p[k] = x.post[k])
      BY <1>1, <1>6
    <2>2. \A k \in 1..m : x.post[k] # top
      BY <1>1, <1>4, InToSet
    <2>3. i \in 1..m /\ j \in 1..m => x.post[i] # x.post[j]
      BY <1>1, <1>12 DEF Searching
    <2> QED
      BY <1>6, <1>12, <2>1, <2>2, <2>3
  <1>13. ASSUME NEW i \in 1..(m + 1), NEW d \in ToSet(A[p[i]])
         PROVE  \E j \in 1..(i - 1) : p[j] = d
    <2>1. CASE i = m + 1
      <3>1. d \in ToSet(x.post)
        BY <1>5, <1>6, <1>13, <2>1
      <3>2. PICK j \in 1..m : x.post[j] = d
        BY <1>1, <3>1, InToSet
      <3>3. j \in 1..(i - 1) /\ p[j] = d
        BY <1>1, <1>6, <2>1, <3>2
      <3> QED
        BY <3>3
    <2>2. CASE i # m + 1
      <3>1. i \in 1..m /\ p[i] = x.post[i]
        BY <1>1, <1>6, <2>2
      <3>2. PICK j \in 1..(i - 1) : x.post[j] = d
        BY <1>1, <1>13, <3>1 DEF Searching
      <3>3. j \in 1..m /\ p[j] = x.post[j]
        BY <1>1, <1>6, <3>1
      <3> QED
        BY <3>2, <3>3
    <2> QED
      BY <2>1, <2>2
  <1>14. Searching(A, y)
    <2>1. /\ y.stack \in Seq(Discovered) /\ Len(y.stack) = n - 1
          /\ y.post \in Seq(Discovered) /\ Len(y.post) = m + 1
      BY <1>2, <1>6, <1>8
    <2> HIDE DEF n, m
    <2> QED
      BY <1>8, <1>10, <1>11, <1>12, <1>13, <2>1 DEF Searching
  <1> QED
    BY <1>3, <1>9, <1>14 DEF Searches, y, s, p, top

\* What the search knows: nodes it has met, and nodes it is done with.
Known(x) == ((ToSet(x.stack) \cup ToSet(x.post)) \X {0}) \cup (ToSet(x.post) \X {1})

\* Every step of the search finds out something, until it is through.
LEMMA SearchStep ==
  ASSUME NEW A, OnDiscovered(A), NEW x \in Searches(A)
  PROVE  /\ Visit(A, x) \in Searches(A)
         /\ Known(x) \subseteq Known(Visit(A, x))
         /\ \/ Known(Visit(A, x)) # Known(x)
            \/ x.stack = <<>> /\ Unvisited(x) = {} /\ Visit(A, x) = x
  <1>0. x.stack \in Seq(Discovered) /\ x.post \in Seq(Discovered) /\ Searching(A, x)
    BY DEF Searches
  <1>1. CASE x.stack = <<>> /\ Unvisited(x) = {}
    BY <1>1 DEF Visit, Unvisited
  <1>2. CASE x.stack = <<>> /\ Unvisited(x) # {}
    <2>1. PICK c \in Unvisited(x) : Visit(A, x) = [stack |-> <<c>>, post |-> x.post]
      BY <1>2, SearchStarts
    <2>2. ToSet(<<c>>) = {c} /\ ToSet(<<>>) = {}
      BY DEF ToSet
    <2>3. c \notin ToSet(x.post)
      BY DEF Unvisited
    <2>4. <<c, 0>> \in Known(Visit(A, x)) /\ <<c, 0>> \notin Known(x)
      BY <1>2, <2>1, <2>2, <2>3 DEF Known
    <2>5. Known(x) \subseteq Known(Visit(A, x))
      BY <1>2, <2>1, <2>2 DEF Known
    <2> QED
      BY <1>2, <2>4, <2>5, SearchStarts
  <1>3. CASE x.stack # <<>> /\ ToSet(A[Last(x.stack)]) \cap Unvisited(x) # {}
    <2>1. PICK c \in Unvisited(x) : Visit(A, x) = [stack |-> Append(x.stack, c), post |-> x.post]
      BY <1>3, SearchPushes
    <2>2. c \in Discovered /\ c \notin ToSet(x.post) /\ c \notin ToSet(x.stack)
      BY DEF Unvisited
    <2>3. ToSet(Append(x.stack, c)) = ToSet(x.stack) \cup {c}
      BY <1>0, <2>2, AppendSet
    <2>4. <<c, 0>> \in Known(Visit(A, x)) /\ <<c, 0>> \notin Known(x)
      BY <2>1, <2>2, <2>3 DEF Known
    <2>5. Known(x) \subseteq Known(Visit(A, x))
      BY <2>1, <2>3 DEF Known
    <2> QED
      BY <1>3, <2>4, <2>5, SearchPushes
  <1>4. CASE x.stack # <<>> /\ ToSet(A[Last(x.stack)]) \cap Unvisited(x) = {}
    <2> DEFINE c == Last(x.stack)
    <2>1. Visit(A, x) = [stack |-> Front(x.stack), post |-> Append(x.post, c)]
      BY <1>4, SearchPops
    <2>2. ToSet(x.stack) = ToSet(Front(x.stack)) \cup {c} /\ c \in Discovered
      BY <1>0, <1>4, FrontSet
    <2>3. ToSet(Append(x.post, c)) = ToSet(x.post) \cup {c}
      BY <1>0, <2>2, AppendSet
    <2>4. c \notin ToSet(x.post)
      <3>0. Len(x.stack) \in Nat \ {0} /\ c = x.stack[Len(x.stack)]
        BY <1>0, <1>4, FrontIs
      <3>1. Len(x.stack) \in 1..Len(x.stack)
        BY <3>0
      <3> QED
        BY <1>0, <3>0, <3>1 DEF Searching
    <2> HIDE DEF c
    <2>5. <<c, 1>> \in Known(Visit(A, x)) /\ <<c, 1>> \notin Known(x)
      BY <2>1, <2>3, <2>4 DEF Known
    <2>6. Known(x) \subseteq Known(Visit(A, x))
      BY <2>1, <2>2, <2>3 DEF Known
    <2> QED
      BY <1>4, <2>5, <2>6, SearchPops
  <1> QED
    BY <1>1, <1>2, <1>3, <1>4

\* The order that the search ends with.
LEMMA ResolvedOrderIs ==
  ASSUME OnDiscovered(Graph.adjacency)
  PROVE  \E x \in Searches(Graph.adjacency) :
           x.stack = <<>> /\ Unvisited(x) = {} /\ ResolvedOrder = Reverse(x.post)
  <1> DEFINE A == Graph.adjacency
             S == Searches(A)
             b == FirstSearch
             F == [x \in S |-> Visit(A, x)]
             G(f) == [n \in Nat |-> IF n = 0 THEN FirstSearch ELSE Visit(A, f[n - 1])]
             N == 2 * Cardinality(Channel)
             T == Channel \X {0, 1}
  <1>1. OnDiscovered(A)
    OBVIOUS
  <1>2. ResolvedOrder = Reverse((CHOOSE h : h = G(h))[N].post)
    BY DEF ResolvedOrder, FirstSearch
  <1> HIDE DEF A
  <1>3. b \in S /\ F \in [S -> S]
    BY <1>1, SearchBegins, SearchStep
  <1>4. PICK f \in [Nat -> S] : f[0] = b /\ \A n \in Nat : f[n + 1] = F[f[n]]
    <2> HIDE DEF S, b, F
    <2> QED
      BY <1>3, Recursion
  <1>5. \A n \in Nat : f[n] = IF n = 0 THEN FirstSearch ELSE Visit(A, f[n - 1])
    <2> SUFFICES ASSUME NEW n \in Nat
                 PROVE  f[n] = IF n = 0 THEN FirstSearch ELSE Visit(A, f[n - 1])
      OBVIOUS
    <2>1. n # 0 => n - 1 \in Nat /\ (n - 1) + 1 = n
      OBVIOUS
    <2>2. n # 0 => f[n - 1] \in S /\ f[(n - 1) + 1] = F[f[n - 1]]
      BY <1>4, <2>1
    <2> QED
      BY <1>4, <2>1, <2>2
  <1>6. f = G(f)
    BY <1>4, <1>5
  <1> DEFINE g == CHOOSE h : h = G(h)
  <1>7. g = G(g)
    <2> HIDE DEF G
    <2> QED
      BY <1>6
  <1>8. ResolvedOrder = Reverse(g[N].post)
    BY <1>2
  <1> HIDE DEF g
  <1>9. g[0] = b /\ \A n \in Nat : g[n + 1] = Visit(A, g[n])
    <2>1. \A n \in Nat : g[n] = IF n = 0 THEN FirstSearch ELSE Visit(A, g[n - 1])
      BY <1>7
    <2>2. \A n \in Nat : n + 1 \in Nat /\ n + 1 # 0 /\ (n + 1) - 1 = n
      OBVIOUS
    <2> QED
      BY <2>1, <2>2
  <1>10. \A n \in Nat : g[n] \in S /\ g[n + 1] = F[g[n]]
    <2>1. \A n \in Nat : g[n] \in S => g[n + 1] = F[g[n]]
      BY <1>9
    <2> HIDE DEF S, b, F
    <2> QED
      BY <1>3, <1>9, <2>1, RecursionStays
  <1>11. N \in Nat /\ IsFiniteSet(T) /\ Cardinality(T) = N
    <2>4. IsFiniteSet(T) /\ Cardinality(T) = Cardinality(Channel) * 2
      <3> DEFINE B == {0, 1}
      <3>1. IsFiniteSet(B) /\ Cardinality(B) = 2
        BY TwoNumbers
      <3>2. T = Channel \X B
        OBVIOUS
      <3> HIDE DEF B, T
      <3>3. /\ IsFiniteSet(Channel \X B)
            /\ Cardinality(Channel \X B) = Cardinality(Channel) * Cardinality(B)
        BY <3>1, ChannelsAreFinite, FS_Product
      <3> QED
        BY <3>1, <3>2, <3>3
    <2> QED
      BY <2>4, ChannelsAreFinite
  <1> DEFINE known == [n \in Nat |-> Known(g[n])]
  <1>12. known \in [Nat -> SUBSET T]
    <2>1. ASSUME NEW n \in Nat PROVE Known(g[n]) \in SUBSET T
      <3>1. ToSet(g[n].stack) \subseteq Channel /\ ToSet(g[n].post) \subseteq Channel
        <4>1. g[n].stack \in Seq(Discovered) /\ g[n].post \in Seq(Discovered)
          BY <1>10 DEF Searches
        <4>2. ToSet(g[n].stack) \subseteq Discovered /\ ToSet(g[n].post) \subseteq Discovered
          BY <4>1, InToSet
        <4> QED
          BY <4>2 DEF Discovered
      <3> QED
        BY <3>1 DEF Known
    <2> QED
      BY <2>1
  <1>13. \A n \in Nat : known[n] \subseteq known[n + 1]
    <2>1. ASSUME NEW n \in Nat PROVE Known(g[n]) \subseteq Known(g[n + 1])
      <3>1. g[n] \in Searches(A) /\ g[n + 1] = Visit(A, g[n])
        BY <1>9, <1>10
      <3>2. Known(g[n]) \subseteq Known(Visit(A, g[n]))
        BY <1>1, <3>1, SearchStep
      <3> QED
        BY <3>1, <3>2
    <2>2. \A n \in Nat : n + 1 \in Nat
      OBVIOUS
    <2> QED
      BY <2>1, <2>2
  <1>14. PICK n \in 0..N : known[n + 1] = known[n]
    <2> HIDE DEF known, N, T
    <2>1. \E n \in 0..Cardinality(T) : known[n + 1] = known[n]
      BY <1>11, <1>12, <1>13, GrowthStops
    <2> QED
      BY <1>11, <2>1
  <1>15. n \in Nat /\ n + 1 \in Nat /\ n <= N
    BY <1>11
  <1>16. g[n].stack = <<>> /\ Unvisited(g[n]) = {} /\ g[n + 1] = g[n]
    <2>1. Known(g[n + 1]) = Known(g[n])
      BY <1>14, <1>15
    <2>2. g[n] \in Searches(A) /\ g[n + 1] = Visit(A, g[n])
      BY <1>9, <1>10, <1>15
    <2> QED
      BY <1>1, <2>1, <2>2, SearchStep
  <1>17. g[N] = g[n]
    <2>1. F \in [S -> S] /\ (\A k \in Nat : g[k + 1] = F[g[k]]) /\ N \in Nat
      BY <1>3, <1>10, <1>11
    <2>2. g[n + 1] = g[n]
      BY <1>16
    <2> HIDE DEF S, F, N
    <2> QED
      BY <1>15, <2>1, <2>2, Settled
  <1>18. g[n] \in Searches(A) /\ ResolvedOrder = Reverse(g[n].post)
    BY <1>10, <1>15, <1>17, <1>8
  <1> QED
    BY <1>16, <1>18 DEF A

-----------------------------------------------------------------------------
(* The order of priority *)

\* Every channel that was found is listed once.
Listing == /\ order \in Seq(Channel) /\ ToSet(order) = Discovered
           /\ \A i, j \in 1..Len(order) : i # j => order[i] # order[j]

\* Then a channel has one place, ...
LEMMA RankIs ==
  ASSUME Listing
  PROVE  /\ \A c \in Discovered : Rank(c) \in 1..Len(order) /\ order[Rank(c)] = c
         /\ \A i \in 1..Len(order) : order[i] \in Discovered /\ Rank(order[i]) = i
         /\ \A c \in Discovered : Rank(c) \in Nat
         /\ \A c, d \in Discovered : Rank(c) = Rank(d) => c = d
  <1>1. DOMAIN order = 1..Len(order) /\ Len(order) \in Nat
    BY DEF Listing
  <1>2. ASSUME NEW c \in Discovered PROVE Rank(c) \in 1..Len(order) /\ order[Rank(c)] = c
    <2>1. \E i \in DOMAIN order : order[i] = c
      BY <1>2 DEF Listing, ToSet
    <2> QED
      BY <1>1, <2>1 DEF Rank
  <1>3. ASSUME NEW i \in 1..Len(order) PROVE order[i] \in Discovered /\ Rank(order[i]) = i
    <2>1. order[i] \in Discovered
      BY <1>1 DEF Listing, ToSet
    <2>2. Rank(order[i]) \in 1..Len(order) /\ order[Rank(order[i])] = order[i]
      BY <1>2, <2>1
    <2> QED
      BY <2>1, <2>2 DEF Listing
  <1>4. \A c \in Discovered : Rank(c) \in Nat
    BY <1>1, <1>2
  <1>5. \A c, d \in Discovered : Rank(c) = Rank(d) => c = d
    BY <1>2
  <1> QED
    BY <1>2, <1>3, <1>4, <1>5

\* ... and the order is as long as there are channels.
LEMMA ListingLength ==
  ASSUME Listing
  PROVE  Len(order) = Cardinality(Discovered)
  <1> DEFINE f == [i \in 1..Len(order) |-> order[i]]
  <1>1. Len(order) \in Nat
    BY DEF Listing
  <1>2. f \in [1..Len(order) -> Discovered]
    BY RankIs
  <1>3. f \in Injection(1..Len(order), Discovered)
    BY <1>2 DEF Listing, Injection, IsInjective
  <1>4. \A c \in Discovered : \E i \in 1..Len(order) : f[i] = c
    BY RankIs
  <1>5. f \in Surjection(1..Len(order), Discovered)
    BY <1>2, <1>4 DEF Surjection
  <1>6. ExistsBijection(1..Len(order), Discovered)
    BY <1>3, <1>5 DEF ExistsBijection, Bijection
  <1> QED
    BY <1>1, <1>6, FS_CountingElements

\* The edges of a query that has ended lie between channels that were found.
EdgesFound ==
  \A e \in edges : e \in EdgeSet /\ e.from \in Discovered /\ e.to \in Discovered /\ e.from # e.to

\* So do the arcs.
LEMMA GraphOnDiscovered ==
  ASSUME EdgesFound, ToSet(UserChannels) \subseteq Discovered, NEW x \in Insertions,
         Graph = x.graph
  PROVE  OnDiscovered(Graph.adjacency)
  <1> DEFINE A == x.graph.adjacency
  <1>1. Inserting(x) /\ x.graph.kept \subseteq edges
    BY DEF Insertions, Inserted
  <1>2. ASSUME NEW c \in Discovered, NEW d \in ToSet(A[c]) PROVE d \in Discovered
    <2>1. c \in Channel
      BY DEF Discovered
    <2>2. d \in ToSet(UserChain[c]) \/ \E e \in x.graph.kept : e.from = c /\ e.to = d
      BY <1>1, <1>2, <2>1 DEF Inserting
    <2>3. d \in ToSet(UserChain[c]) => d \in ToSet(UserChannels)
      BY <2>1, UserChainIs
    <2> QED
      BY <1>1, <2>2, <2>3 DEF EdgesFound
  <1> QED
    BY <1>1, <1>2 DEF OnDiscovered, Inserting

\* The reverse of a search that is through is a listing in which arcs lead down.
LEMMA ReverseIsSound ==
  ASSUME NEW A, OnDiscovered(A), NEW x \in Searches(A), x.stack = <<>>, Unvisited(x) = {},
         order = Reverse(x.post)
  PROVE  Listing /\ \A c \in Discovered : \A d \in ToSet(A[c]) : Rank(c) < Rank(d)
  <1> DEFINE p == x.post
             n == Len(p)
  <1>1. p \in Seq(Discovered) /\ n \in Nat /\ Searching(A, x)
    BY DEF Searches
  <1>2. order = [i \in 1..n |-> p[(n - i) + 1]]
    BY DEF Reverse
  <1>3. \A i \in 1..n : (n - i) + 1 \in 1..n /\ (n - ((n - i) + 1)) + 1 = i
    BY <1>1
  <1>4. \A i \in 1..n : p[i] \in Discovered /\ p[i] \in Channel
    BY <1>1 DEF Discovered
  <1>5. order \in Seq(Channel) /\ Len(order) = n /\ DOMAIN order = 1..n
    BY <1>1, <1>2, <1>3, <1>4
  <1>6. \A i \in 1..n : order[i] = p[(n - i) + 1] /\ order[(n - i) + 1] = p[i]
    BY <1>2, <1>3
  <1>7. Discovered \subseteq ToSet(p) /\ ToSet(<<>>) = {}
    BY DEF Unvisited, ToSet
  <1>8. ToSet(order) = Discovered
    <2>1. ASSUME NEW c \in Discovered PROVE c \in ToSet(order)
      <3>1. PICK i \in 1..n : p[i] = c
        BY <1>1, <1>7, InToSet
      <3>2. (n - i) + 1 \in DOMAIN order /\ order[(n - i) + 1] = c
        BY <1>3, <1>5, <1>6, <3>1
      <3> QED
        BY <3>2 DEF ToSet
    <2>2. ASSUME NEW c \in ToSet(order) PROVE c \in Discovered
      <3>1. PICK i \in 1..n : order[i] = c
        BY <1>5, <2>2 DEF ToSet
      <3> QED
        BY <1>3, <1>4, <1>6, <3>1
    <2> QED
      BY <2>1, <2>2
  <1>9. ASSUME NEW i \in 1..n, NEW j \in 1..n, i # j PROVE order[i] # order[j]
    <2>1. (n - i) + 1 # (n - j) + 1
      BY <1>1, <1>9
    <2>2. \A k, l \in 1..n : k # l => p[k] # p[l]
      BY <1>1 DEF Searching
    <2>3. (n - i) + 1 \in 1..n /\ (n - j) + 1 \in 1..n
      BY <1>3
    <2>4. p[(n - i) + 1] # p[(n - j) + 1]
      BY <2>1, <2>2, <2>3
    <2> QED
      BY <1>6, <2>4
  <1>10. Listing
    BY <1>5, <1>8, <1>9 DEF Listing
  <1>11. ASSUME NEW c \in Discovered, NEW d \in ToSet(A[c]) PROVE Rank(c) < Rank(d)
    <2>1. PICK i \in 1..n : p[i] = c
      BY <1>1, <1>7, InToSet
    <2>2. PICK j \in 1..(i - 1) : p[j] = d
      BY <1>1, <1>11, <2>1 DEF Searching
    <2>3. j \in 1..n /\ j < i
      BY <1>1, <2>2
    <2>4. order[(n - i) + 1] = c /\ order[(n - j) + 1] = d
      BY <1>6, <2>1, <2>2, <2>3
    <2>5. (n - i) + 1 \in 1..Len(order) /\ (n - j) + 1 \in 1..Len(order)
      BY <1>3, <1>5, <2>3
    <2>6. Rank(c) = (n - i) + 1 /\ Rank(d) = (n - j) + 1
      BY <1>10, <2>4, <2>5, RankIs
    <2> QED
      BY <1>1, <2>3, <2>6
  <1> QED
    BY <1>10, <1>11

\* What is known when a query has ended.
Finished ==
  /\ EdgesFound /\ ToSet(UserChannels) \subseteq Discovered
  /\ edges = {} => Discovered = ToSet(UserChannels)
  /\ order = IF edges = {} THEN UserChannels ELSE ResolvedOrder

\* Then the order lists all channels and arcs lead down.
LEMMA ArcsLeadDown ==
  ASSUME Finished, NEW x \in Insertions, Graph = x.graph
  PROVE  /\ Listing
         /\ \A c \in Discovered : \A d \in ToSet(x.graph.adjacency[c]) :
              d \in Discovered /\ Rank(c) < Rank(d)
  <1>1. OnDiscovered(Graph.adjacency) /\ \A c \in Discovered : c \in Channel
    BY GraphOnDiscovered DEF Finished, Discovered
  <1>2. CASE edges # {}
    <2>1. order = ResolvedOrder
      BY <1>2 DEF Finished
    <2>2. PICK y \in Searches(Graph.adjacency) :
            y.stack = <<>> /\ Unvisited(y) = {} /\ ResolvedOrder = Reverse(y.post)
      BY <1>1, ResolvedOrderIs
    <2>3. Listing /\ \A c \in Discovered : \A d \in ToSet(Graph.adjacency[c]) : Rank(c) < Rank(d)
      BY <1>1, <2>1, <2>2, ReverseIsSound
    <2> QED
      BY <1>1, <2>3 DEF OnDiscovered
  <1>3. CASE edges = {}
    <2>1. order = UserChannels /\ Discovered = ToSet(UserChannels)
      BY <1>3 DEF Finished
    <2>2. Listing
      <3>1. DOMAIN UserChannels = 1..Len(UserChannels)
        BY ExpanderAssumption
      <3> QED
        BY <2>1, <3>1, ExpanderAssumption DEF Listing
    <2>3. ASSUME NEW c \in Discovered, NEW d \in ToSet(x.graph.adjacency[c])
          PROVE  d \in Discovered /\ Rank(c) < Rank(d)
      <3>1. x.graph.kept = {}
        BY <1>3 DEF Insertions, Inserted
      <3>2. d \in ToSet(UserChain[c])
        BY <1>1, <2>3, <3>1 DEF Insertions, Inserting
      <3>3. d \in Discovered /\ UserPos(d) = UserPos(c) + 1 /\ UserPos(c) \in Nat
        BY <1>1, <2>1, <3>2, UserChainIs, UserPosIs
      <3>4. \A u \in ToSet(UserChannels) : Rank(u) = UserPos(u)
        BY <2>1, <2>2, UserPosIs, RankIs
      <3> QED
        BY <2>1, <3>3, <3>4
    <2> QED
      BY <2>2, <2>3
  <1> QED
    BY <1>2, <1>3

\* What is reached stands further down.
LEMMA ReachLeadsDown ==
  ASSUME Finished, NEW x \in Insertions, Graph = x.graph,
         NEW a \in Discovered, NEW b \in Reach(x.graph.adjacency, a)
  PROVE  b = a \/ Rank(a) < Rank(b)
  <1> DEFINE A == x.graph.adjacency
             X == {c \in Discovered : c = a \/ Rank(a) < Rank(c)}
  <1>1. IsGraph(A) /\ a \in Channel
    BY DEF Insertions, Inserting, Discovered
  <1>2. a \in X
    OBVIOUS
  <1>3. /\ Listing
        /\ \A c \in Discovered : \A d \in ToSet(A[c]) : d \in Discovered /\ Rank(c) < Rank(d)
    BY ArcsLeadDown
  <1>4. \A c \in Discovered : Rank(c) \in Nat
    BY <1>3, RankIs
  <1>5. ASSUME NEW c \in X, NEW d \in ToSet(A[c]) PROVE d \in X
    <2>1. c \in Discovered /\ d \in Discovered /\ Rank(c) < Rank(d)
          /\ Rank(a) \in Nat /\ Rank(c) \in Nat /\ Rank(d) \in Nat /\ Rank(a) <= Rank(c)
      BY <1>3, <1>4, <1>5
    <2> QED
      BY <2>1
  <1>6. \A c \in X \cap Channel : ToSet(A[c]) \subseteq X
    BY <1>5
  <1>7. Reach(A, a) \subseteq X
    <2> HIDE DEF X, A
    <2> QED
      BY <1>1, <1>2, <1>6, ReachIs
  <1> QED
    BY <1>7

\* The order of the user is kept.
LEMMA UsersInOrder ==
  ASSUME Finished, NEW x \in Insertions, Graph = x.graph,
         NEW i \in DOMAIN UserChannels, NEW j \in DOMAIN UserChannels, i < j
  PROVE  Rank(UserChannels[i]) < Rank(UserChannels[j])
  <1> DEFINE U == UserChannels
             T == {k \in Nat : k <= Len(U) /\ i < k /\ ~(Rank(U[i]) < Rank(U[k]))}
  <1>0. DOMAIN U = 1..Len(U) /\ Len(U) \in Nat
    BY ExpanderAssumption
  <1>1. Listing /\ \A c \in Discovered : \A d \in ToSet(x.graph.adjacency[c]) : Rank(c) < Rank(d)
    BY ArcsLeadDown
  <1>2. \A k \in 1..Len(U) : U[k] \in Discovered /\ U[k] \in Channel
    BY UserPosIs DEF Finished, Discovered
  <1>3. \A k \in 1..Len(U) : Rank(U[k]) \in Nat
    BY <1>1, <1>2, RankIs
  <1>4. ASSUME T # {} PROVE FALSE
    <2>1. PICK k \in T : \A l \in T : k <= l
      BY <1>4, Least
    <2>2. k - 1 \in 1..Len(U) /\ k \in 1..Len(U) /\ i <= k - 1 /\ k - 1 \notin T /\ k - 1 \in Nat
      BY <1>0, <2>1
    <2>3. U[k] \in ToSet(UserChain[U[k - 1]])
      <3>1. /\ U[k] \in ToSet(U) /\ U[k - 1] \in ToSet(U)
            /\ UserPos(U[k]) = k /\ UserPos(U[k - 1]) = k - 1
        BY <2>2, UserPosIs
      <3>2. UserPos(U[k]) = UserPos(U[k - 1]) + 1
        BY <2>2, <3>1
      <3>3. U[k - 1] \in Channel
        BY <1>2, <2>2
      <3> QED
        BY <3>1, <3>2, <3>3, UserChainIs
    <2>4. Rank(U[k - 1]) < Rank(U[k])
      <3>1. U[k] \in ToSet(x.graph.adjacency[U[k - 1]])
        BY <1>2, <2>2, <2>3 DEF Insertions, Inserting
      <3> QED
        BY <1>1, <1>2, <2>2, <3>1
    <2>5. i = k - 1 \/ Rank(U[i]) < Rank(U[k - 1])
      BY <1>0, <2>2
    <2>6. Rank(U[i]) \in Nat /\ Rank(U[k - 1]) \in Nat /\ Rank(U[k]) \in Nat
      BY <1>0, <1>3, <2>2
    <2>7. Rank(U[i]) < Rank(U[k])
      BY <2>4, <2>5, <2>6
    <2> QED
      BY <2>7
  <1>5. j \in Nat /\ j <= Len(U)
    BY <1>0
  <1> QED
    BY <1>4, <1>5

\* The order of priority of a query that has ended is sound.
LEMMA SoundInTheEnd ==
  ASSUME Finished
  PROVE  OrderIsSound /\ Listing
  <1>1. edges \subseteq EdgeSet
    BY DEF Finished, EdgesFound
  <1>2. PICK x \in Insertions : x.left = {} /\ Graph = x.graph
    BY <1>1, GraphIs
  <1>3. /\ Listing
        /\ \A c \in Discovered : \A d \in ToSet(x.graph.adjacency[c]) : Rank(c) < Rank(d)
    BY <1>2, ArcsLeadDown
  <1>4. Len(order) = Cardinality(Discovered)
    BY <1>3, ListingLength
  <1>5. \A i, j \in DOMAIN UserChannels : i < j => Rank(UserChannels[i]) < Rank(UserChannels[j])
    BY <1>2, UsersInOrder
  <1>6. ASSUME NEW e \in Graph.kept PROVE Rank(e.from) < Rank(e.to)
    <2>1. e \in edges /\ e.to \in ToSet(x.graph.adjacency[e.from])
      BY <1>2, <1>6 DEF Insertions, Inserting, Inserted
    <2> QED
      BY <1>3, <2>1 DEF Finished, EdgesFound
  <1>7. ASSUME NEW e \in Broken PROVE Rank(e.to) < Rank(e.from)
    <2>1. e \in edges /\ e \in (Inserted \ x.left) \ x.graph.kept
      BY <1>2, <1>7 DEF Broken, Inserted
    <2>2. e.from \in Reach(x.graph.adjacency, e.to)
      BY <2>1 DEF Insertions, Inserting
    <2> QED
      BY <1>2, <2>1, <2>2, ReachLeadsDown DEF Finished, EdgesFound
  <1> QED
    BY <1>3, <1>4, <1>5, <1>6, <1>7 DEF OrderIsSound, Listing

-----------------------------------------------------------------------------
(* The order of the results *)

\* The channels that a set of channels names, without the user's.
Naming(near) == near \cup {c \in UNION {Targets(d) : d \in near} : ~IsUser(c)}

\* What a user channel introduces is closed under the declarations that name
\* channels the user did not.
LEMMA IntroducesIs ==
  ASSUME edges \subseteq EdgeSet, NEW u \in Channel
  PROVE  \A d \in Introduces(u) \cup {u} : \A c \in Targets(d) :
           ~IsUser(c) => c \in Introduces(u) \cup {u}
  <1> DEFINE S == SUBSET Channel
             b == {u}
             F == [X \in S |-> Naming(X)]
             G(f) == [n \in Nat |-> IF n = 0 THEN {u} ELSE Naming(f[n - 1])]
             N == Cardinality(Channel)
  <1>1. b \in S /\ F \in [S -> S]
    <2>1. \A d : Targets(d) \subseteq Channel
      BY DEF Targets, EdgeSet
    <2>2. ASSUME NEW X \in S PROVE Naming(X) \in S
      BY <2>1 DEF Naming
    <2> QED
      BY <2>2
  <1>2. PICK f \in [Nat -> S] : f[0] = b /\ \A n \in Nat : f[n + 1] = F[f[n]]
    <2> HIDE DEF S, b, F
    <2> QED
      BY <1>1, Recursion
  <1>3. \A n \in Nat : f[n] = IF n = 0 THEN {u} ELSE Naming(f[n - 1])
    <2> SUFFICES ASSUME NEW n \in Nat
                 PROVE  f[n] = IF n = 0 THEN {u} ELSE Naming(f[n - 1])
      OBVIOUS
    <2>1. n # 0 => n - 1 \in Nat /\ (n - 1) + 1 = n
      OBVIOUS
    <2>2. n # 0 => f[n - 1] \in S /\ f[(n - 1) + 1] = F[f[n - 1]]
      BY <1>2, <2>1
    <2> QED
      BY <1>2, <2>1, <2>2
  <1>4. f = G(f)
    BY <1>2, <1>3
  <1> DEFINE g == CHOOSE h : h = G(h)
  <1>5. Introduces(u) = g[N] \ {u}
    BY DEF Introduces, Naming
  <1>6. g = G(g)
    <2> HIDE DEF G
    <2> QED
      BY <1>4
  <1> HIDE DEF g
  <1>7. g[0] = b /\ \A n \in Nat : g[n + 1] = Naming(g[n])
    <2>1. \A n \in Nat : g[n] = IF n = 0 THEN {u} ELSE Naming(g[n - 1])
      BY <1>6
    <2>2. \A n \in Nat : n + 1 \in Nat /\ n + 1 # 0 /\ (n + 1) - 1 = n
      OBVIOUS
    <2> QED
      BY <2>1, <2>2
  <1>8. \A n \in Nat : g[n] \in S /\ g[n + 1] = F[g[n]]
    <2>1. \A n \in Nat : g[n] \in S => g[n + 1] = F[g[n]]
      BY <1>7
    <2> HIDE DEF S, b, F
    <2> QED
      BY <1>1, <1>7, <2>1, RecursionStays
  <1>9. N \in Nat /\ IsFiniteSet(Channel)
    BY ChannelsAreFinite
  <1>10. \A X \in S : F[X] = Naming(X) /\ X \subseteq F[X]
    BY DEF Naming
  <1>11. g[N] \in S /\ F[g[N]] = g[N] /\ g[0] \subseteq g[N]
    <2> HIDE DEF F
    <2> QED
      BY <1>1, <1>8, <1>9, <1>10, Closed
  <1>12. Naming(g[N]) = g[N] /\ u \in g[N]
    BY <1>7, <1>10, <1>11
  <1>13. Introduces(u) \cup {u} = g[N]
    BY <1>5, <1>12
  <1> HIDE DEF N
  <1>14. \A d \in g[N] : \A c \in Targets(d) : ~IsUser(c) => c \in g[N]
    BY <1>12 DEF Naming
  <1> QED
    BY <1>13, <1>14

\* The edges of an expansion lie between channels that were found.
LEMMA EdgesAreFound ==
  ASSUME ExpanderInv, outcome = "done"
  PROVE  EdgesFound /\ edges \subseteq EdgeSet
  <1>1. /\ Setting /\ MaxDepth \in Nat /\ MaxDepth # 0 /\ MaxDepth \in 0..MaxDepth
        /\ MaxDepth - 1 \in Nat /\ (MaxDepth - 1) + 1 = MaxDepth
    BY ExpanderAssumption DEF ExpanderInv, ExpanderType
  <1>2. Discovered = Within[MaxDepth]
    BY <1>1, CanonicalInTheEnd DEF FinalStateIsCanonical, Discovered
  <1>3. Within[MaxDepth] = Hop(Within[MaxDepth - 1]) /\ Within[MaxDepth - 1] \in SUBSET Channel
    <2>1. Within[(MaxDepth - 1) + 1] = Hop(Within[MaxDepth - 1])
      BY <1>1, WithinIs
    <2> QED
      BY <1>1, <2>1, WithinIs
  <1>4. ASSUME NEW e \in edges
        PROVE  e \in EdgeSet /\ e.from \in Discovered /\ e.to \in Discovered /\ e.from # e.to
    <2>1. PICK c \in Within[MaxDepth - 1] : \E r \in References(c) : e = Edge(r)
      BY DEF ExpanderInv, Sound
    <2>2. PICK r \in References(c) : e = Edge(r)
      BY <2>1
    <2>3. c \in Channel /\ c \in Discovered /\ r.target \in Discovered
      BY <1>2, <1>3, <2>2 DEF Hop
    <2>4. r.target \in Channel /\ r.target # c
      BY <1>1, <2>2, <2>3, TargetsAreChannels
    <2>5. r \in {BaseOf(c), OverrideOf(c)}
      BY <2>2 DEF References
    <2>6. /\ r.from \in {c, r.target} /\ r.to \in {c, r.target} /\ r.from # r.to
          /\ r.source \in {"Base", "Override"}
      BY <2>4, <2>5 DEF BaseOf, OverrideOf
    <2>7. e = [from |-> r.from, to |-> r.to, source |-> r.source]
      BY <2>2 DEF Edge
    <2> QED
      BY <2>3, <2>4, <2>6, <2>7 DEF EdgeSet
  <1> QED
    BY <1>4 DEF EdgesFound

\* A reference that was followed names its target.
LEMMA ReferenceNames ==
  ASSUME NEW c, NEW r \in References(c), Edge(r) \in edges
  PROVE  r.target \in Targets(c)
  <1>1. CASE r = BaseOf(c)
    <2>1. Edge(r).source = "Base" /\ Edge(r).to = c /\ Edge(r).from = r.target
      BY <1>1 DEF Edge, BaseOf
    <2> QED
      BY <2>1 DEF Targets
  <1>2. CASE r = OverrideOf(c)
    <2>1. Edge(r).source = "Override" /\ Edge(r).from = c /\ Edge(r).to = r.target
      BY <1>2 DEF Edge, OverrideOf
    <2> QED
      BY <2>1 DEF Targets
  <1> QED
    BY <1>1, <1>2 DEF References

\* Every channel that the user did not name was introduced by one the user did.
LEMMA AllIntroduced ==
  ASSUME ExpanderInv, outcome = "done", NEW c \in Discovered, ~IsUser(c)
  PROVE  \E u \in ToSet(UserChannels) : c \in Introduces(u)
  <1>1. /\ Setting /\ MaxDepth \in Nat /\ MaxDepth \in 0..MaxDepth
        /\ Within \in [Nat -> SUBSET Channel] /\ Within[0] = ToSet(UserChannels)
        /\ \A k \in Nat : Within[k + 1] = Hop(Within[k])
    <2>1. Setting /\ MaxDepth \in Nat /\ MaxDepth \in 0..MaxDepth
      BY ExpanderAssumption DEF ExpanderInv, ExpanderType
    <2> QED
      BY <2>1, WithinIs
  <1>2. Discovered = Within[MaxDepth] /\ edges \subseteq EdgeSet
    BY <1>1, EdgesAreFound, CanonicalInTheEnd DEF FinalStateIsCanonical, Discovered
  <1> DEFINE Good(d) == \E u \in ToSet(UserChannels) : d \in Introduces(u) \cup {u}
             T == {k \in Nat : k <= MaxDepth /\ \E d \in Within[k] : ~Good(d)}
  <1>3. ASSUME T # {} PROVE FALSE
    <2>1. PICK k \in T : \A j \in T : k <= j
      BY <1>3, Least
    <2>2. PICK d \in Within[k] : ~Good(d)
      BY <2>1
    <2>3. k # 0
      BY <1>1, <2>2
    <2>4. k - 1 \in Nat /\ k - 1 \notin T /\ (k - 1) + 1 = k /\ k - 1 <= MaxDepth - 1
          /\ MaxDepth - 1 \in Nat /\ k - 1 <= MaxDepth
      BY <1>1, <2>1, <2>3
    <2>5. Within[(k - 1) + 1] = Hop(Within[k - 1])
      BY <1>1, <2>4
    <2>6. \A e \in Within[k - 1] : Good(e)
      BY <2>4
    <2>7. PICK e \in Within[k - 1] : \E r \in References(e) : r.target = d
      BY <2>2, <2>4, <2>5, <2>6 DEF Hop
    <2>8. PICK r \in References(e) : r.target = d
      BY <2>7
    <2>9. PICK u \in ToSet(UserChannels) : e \in Introduces(u) \cup {u}
      BY <2>6, <2>8
    <2>10. Edge(r) \in edges
      <3>1. e \in Within[MaxDepth - 1]
        BY <1>1, <2>4, <2>8, WithinGrows
      <3> QED
        BY <2>8, <3>1, NearIsDerived
    <2>11. d \in Targets(e)
      BY <2>8, <2>10, ReferenceNames
    <2>12. ~IsUser(d)
      BY <2>2 DEF IsUser
    <2>13. d \in Introduces(u) \cup {u}
      BY <1>2, <2>9, <2>11, <2>12, UsersAreChannels, IntroducesIs
    <2> QED
      BY <2>2, <2>9, <2>13
  <1>4. Good(c)
    BY <1>1, <1>2, <1>3
  <1> QED
    BY <1>4 DEF IsUser

\* So it has an anchor.
LEMMA AnchorIs ==
  ASSUME ExpanderInv, outcome = "done", NEW c \in Discovered
  PROVE  Anchor(c) \in ToSet(UserChannels) /\ (IsUser(c) => Anchor(c) = c)
  <1>1. CASE IsUser(c)
    BY <1>1 DEF Anchor, IsUser
  <1>2. CASE ~IsUser(c)
    <2> DEFINE U == UserChannels
               P == {i \in 1..Len(U) : c \in Introduces(U[i])}
    <2>1. DOMAIN U = 1..Len(U) /\ Len(U) \in Nat /\ P \in SUBSET Nat
      BY ExpanderAssumption
    <2>2. P # {}
      <3>1. PICK u \in ToSet(U) : c \in Introduces(u)
        BY <1>2, AllIntroduced
      <3>2. UserPos(u) \in 1..Len(U) /\ U[UserPos(u)] = u
        BY <3>1, UserPosIs
      <3> QED
        BY <3>1, <3>2
    <2>3. PICK i \in P : \A j \in P : i <= j
      <3> HIDE DEF P
      <3> QED
        BY <2>1, <2>2, Least
    <2>4. /\ i \in DOMAIN U /\ c \in Introduces(U[i])
          /\ \A j \in 1..(i - 1) : c \notin Introduces(U[j])
      BY <2>1, <2>3
    <2> DEFINE k == CHOOSE l \in DOMAIN U :
                      /\ c \in Introduces(U[l])
                      /\ \A j \in 1..(l - 1) : c \notin Introduces(U[j])
    <2>5. k \in DOMAIN U
      BY <2>4
    <2>6. Anchor(c) = U[k]
      BY <1>2 DEF Anchor
    <2> HIDE DEF k
    <2> QED
      BY <1>2, <2>1, <2>5, <2>6, UserPosIs
  <1> QED
    BY <1>1, <1>2

\* The buckets of a query that has ended follow its order.
LEMMA BucketsInTheEnd ==
  ASSUME ExpanderInv, Listing
  PROVE  BucketsFollowOrder
  <1> SUFFICES ASSUME outcome = "done", NEW c \in Discovered, NEW d \in Discovered, c # d,
                      Anchor(c) = Anchor(d)
               PROVE  BucketBefore(c, d) <=> Rank(c) < Rank(d)
    BY DEF BucketsFollowOrder
  <1> DEFINE u == Anchor(c)
  <1>1. /\ u \in ToSet(UserChannels) /\ IsUser(u) /\ u = Anchor(d) /\ u \in Discovered
        /\ (IsUser(c) => u = c) /\ (IsUser(d) => u = d)
    <2>1. Anchor(c) \in ToSet(UserChannels) /\ (IsUser(c) => Anchor(c) = c)
      BY AnchorIs
    <2>2. Anchor(d) \in ToSet(UserChannels) /\ (IsUser(d) => Anchor(d) = d)
      BY AnchorIs
    <2>3. ToSet(UserChannels) \subseteq Discovered
      BY UsersAreChannels, ExpanderAssumption DEF ExpanderInv, Covered, Discovered
    <2> QED
      BY <2>1, <2>2, <2>3 DEF IsUser
  <1>2. Rank(c) \in Nat /\ Rank(d) \in Nat /\ Rank(u) \in Nat /\ Rank(c) # Rank(d)
        /\ (c # u => Rank(c) # Rank(u)) /\ (d # u => Rank(d) # Rank(u)) /\ UserPos(u) \in Nat
    <2>1. \A e \in Discovered : Rank(e) \in Nat
      BY RankIs
    <2>2. \A e, f \in Discovered : Rank(e) = Rank(f) => e = f
      BY RankIs
    <2> QED
      BY <1>1, <2>1, <2>2, UserPosIs
  <1>3. /\ Placement(c) = IF IsUser(c) THEN 1 ELSE IF Rank(c) < Rank(u) THEN 0 ELSE 2
        /\ Placement(d) = IF IsUser(d) THEN 1 ELSE IF Rank(d) < Rank(u) THEN 0 ELSE 2
    BY <1>1 DEF Placement
  <1>4. BucketBefore(c, d) <=>
          \/ Placement(c) < Placement(d)
          \/ /\ Placement(c) = Placement(d)
             /\ (IF IsUser(c) THEN 0 ELSE Rank(c)) < (IF IsUser(d) THEN 0 ELSE Rank(d))
    BY <1>1, <1>2 DEF BucketBefore
  <1> HIDE DEF u
  <1>5. ~(IsUser(c) /\ IsUser(d))
    BY <1>1
  <1> QED
    BY <1>1, <1>2, <1>3, <1>4, <1>5

\* The order is resolved from the edges that there are in the end.
Resolved == outcome = "done" => order = IF edges = {} THEN UserChannels ELSE ResolvedOrder

\* The order depends on the edges and the depths only.
LEMMA ResolvedOrderKept ==
  ASSUME edges' = edges, depth' = depth
  PROVE  ResolvedOrder' = ResolvedOrder
  BY DEF ResolvedOrder, Graph, Visit, Discovered, Ignored, Conflict, IsUser, UserPos, InsertNext,
         Insert, FirstEdge, EdgeBefore, Reach, UserChain, FirstNode, FirstIn

\* A query that has ended does not change.
LEMMA ResolvedStep ==
  ASSUME Resolved, [Next]_vars
  PROVE  Resolved'
  <1>1. CASE UNCHANGED vars
    <2>1. edges' = edges /\ depth' = depth /\ outcome' = outcome /\ order' = order
      BY <1>1 DEF vars, expanderVars
    <2>2. ResolvedOrder' = ResolvedOrder
      BY <2>1, ResolvedOrderKept
    <2> QED
      BY <2>1, <2>2 DEF Resolved
  <1>2. CASE Complete
    <2>1. /\ edges' = edges /\ depth' = depth
          /\ order' = IF edges = {} THEN UserChannels ELSE ResolvedOrder
      BY <1>2 DEF Complete, Finalize
    <2>2. ResolvedOrder' = ResolvedOrder
      BY <2>1, ResolvedOrderKept
    <2> QED
      BY <2>1, <2>2 DEF Resolved
  <1>3. CASE Step
    <2>1. outcome' # "done"
      <3>1. CASE SpawnPackageFetches
        BY <3>1 DEF SpawnPackageFetches, expanderVars
      <3>2. CASE ObserveRelations
        BY <3>2 DEF ObserveRelations, Relax
      <3>3. CASE \E c \in Channel : SubdirArrives(c)
        BY <3>3 DEF SubdirArrives, Arrived
      <3>4. CASE \E f \in inflight : RecordsArrive(f) \/ RecordsFail(f)
        BY <3>4 DEF RecordsArrive, RecordsFail, Waiting, expanderVars
      <3>5. CASE \E d \in deps : QueueDependency(d)
        BY <3>5 DEF QueueDependency, expanderVars
      <3> QED
        BY <1>3, <3>1, <3>2, <3>3, <3>4, <3>5 DEF Step
    <2> QED
      BY <2>1 DEF Resolved
  <1> QED
    BY <1>1, <1>2, <1>3 DEF Next

\* A query that has ended knows all it needs to put its channels in order.
LEMMA FinishedInTheEnd ==
  ASSUME ExpanderInv, Resolved, outcome = "done"
  PROVE  Finished
  <1>1. EdgesFound
    BY EdgesAreFound
  <1>2. ToSet(UserChannels) \subseteq Discovered
    BY UsersAreChannels, ExpanderAssumption DEF ExpanderInv, Covered, Discovered
  <1>3. ASSUME edges = {}, NEW c \in Discovered PROVE c \in ToSet(UserChannels)
    <2>1. /\ Setting /\ MaxDepth \in Nat /\ MaxDepth \in 0..MaxDepth
          /\ MaxDepth - 1 \in Nat
      BY ExpanderAssumption DEF ExpanderInv, ExpanderType
    <2>2. c \in Within[MaxDepth]
      BY <1>3, <2>1, CanonicalInTheEnd DEF FinalStateIsCanonical, Discovered
    <2> DEFINE T == {k \in Nat : k <= MaxDepth /\ ~(Within[k] \subseteq ToSet(UserChannels))}
    <2>3. ASSUME T # {} PROVE FALSE
      <3>1. PICK k \in T : \A j \in T : k <= j
        BY <2>3, Least
      <3>2. PICK d \in Within[k] : d \notin ToSet(UserChannels)
        BY <3>1
      <3>3. k # 0
        BY <2>1, <3>2, WithinIs
      <3>4. /\ k - 1 \in Nat /\ k - 1 \notin T /\ (k - 1) + 1 = k /\ k - 1 <= MaxDepth - 1
            /\ k - 1 <= MaxDepth
        BY <2>1, <3>1, <3>3
      <3>5. Within[(k - 1) + 1] = Hop(Within[k - 1])
        BY <2>1, <3>4, WithinIs
      <3>6. PICK e \in Within[k - 1] : \E r \in References(e) : r.target = d
        BY <3>2, <3>4, <3>5 DEF Hop
      <3>7. e \in Within[MaxDepth - 1]
        BY <2>1, <3>4, <3>6, WithinGrows
      <3> QED
        BY <1>3, <3>6, <3>7, NearIsDerived
    <2> QED
      BY <2>1, <2>2, <2>3
  <1> QED
    BY <1>1, <1>2, <1>3 DEF Finished, Resolved

\* The order of priority and the order of the results in every state.
LEMMA OrderStep ==
  ASSUME ExpanderInv /\ Resolved
  PROVE  OrderIsSound /\ BucketsFollowOrder
  <1>1. CASE outcome = "done"
    <2>1. OrderIsSound /\ Listing
      BY <1>1, FinishedInTheEnd, SoundInTheEnd
    <2> QED
      BY <2>1, BucketsInTheEnd
  <1>2. CASE outcome # "done"
    BY <1>2 DEF OrderIsSound, BucketsFollowOrder
  <1> QED
    BY <1>1, <1>2

\* finalize stores the order that the edges of the end give.
THEOREM ResolvedInvariant == Spec => []Resolved
  <1>1. Init => Resolved
    BY DEF Init, ExpanderInit, Resolved
  <1>2. Resolved /\ [Next]_vars => Resolved'
    BY ResolvedStep
  <1> QED
    BY <1>1, <1>2, PTL DEF Spec

\* The order that resolve_channel_priority gives (TopoResult::new, greedy
\* insertion and dfs_post_order) is right for every graph of declarations: it
\* lists each channel that was found once, keeps the user's order and every
\* relation that was kept, and contradicts each relation it reports as broken.
THEOREM PriorityIsSound == Spec => []OrderIsSound
  <1>1. ExpanderInv /\ Resolved => OrderIsSound
    BY OrderStep
  <1> QED
    BY <1>1, ExpanderInvariant, ResolvedInvariant, PTL

\* channel_placement and the anchors: the results of the channels that belong to
\* one channel of the user stand around it in the order of priority.
THEOREM ResultsFollowPriority == Spec => []BucketsFollowOrder
  <1>1. ExpanderInv /\ Resolved => BucketsFollowOrder
    BY OrderStep
  <1> QED
    BY <1>1, ExpanderInvariant, ResolvedInvariant, PTL

-----------------------------------------------------------------------------
(* Duplicates *)

\* Names that no pattern matches.
Unglobbed == {n \in Name : PatternsFor(n) = {}}

\* The shapes of what the executor keeps.
QueryType ==
  /\ handles \subseteq Channel
  /\ wanted = [n \in Name |-> wanted[n]] /\ queued = [n \in Name |-> queued[n]]
  /\ fetched = [n \in Name |-> [source |-> fetched[n].source, pkgs |-> fetched[n].pkgs]]
  /\ result \in [Channel -> [Record -> Nat]]
  /\ \A f \in inflight : /\ f = [name |-> f.name, request |-> f.request, channel |-> f.channel]
                         /\ f.name \in Name /\ f.channel \in handles

\* A channel gets its slot when it is scheduled, once.
Slots ==
  /\ pending \subseteq handles /\ handles \subseteq Discovered /\ handles \cap fresh = {}
  /\ \A n \in Name : fetched[n].pkgs \subseteq handles

\* A name that no pattern matches is wanted once and queued once.
Queueing ==
  /\ \A n \in Unglobbed : wanted[n] # NoRequest => queued[n] = NoRequest /\ n \in seen
  /\ \A n \in Unglobbed : queued[n] # NoRequest => n \in seen
  /\ \A n \in Unglobbed : queued[n] = NoRequest => fetched[n].pkgs = {}

\* What is in flight has not been answered.
InFlight ==
  \A f \in inflight : f.name \in Unglobbed =>
    /\ f.channel \notin fetched[f.name].pkgs
    /\ f.request = queued[f.name] /\ queued[f.name] # NoRequest

\* What has been accumulated has been answered.
Accumulated ==
  \A c \in Channel, r \in Record :
    /\ result[c][r] > 0 => c \in fetched[RecordName[r]].pkgs
    /\ RecordName[r] \in Unglobbed => result[c][r] <= 1

QueryInv == QueryType /\ Slots /\ Queueing /\ InFlight /\ Accumulated

\* The set of patterns is fixed.
LEMMA PatternsKept ==
  ASSUME specs' = specs
  PROVE  Unglobbed' = Unglobbed
  BY DEF Unglobbed, PatternsFor

\* At first nothing is in flight.
LEMMA QueryBegins ==
  ASSUME Init
  PROVE  QueryInv
  <1>0. ExpanderInv
    BY ExpanderBegins DEF Init
  <1>1. /\ handles = pending /\ handles = ToSet(UserChannels) /\ inflight = {} /\ fresh = {}
        /\ queued = [n \in Name |-> NoRequest]
        /\ fetched = [n \in Name |-> [source |-> NoRequest, pkgs |-> {}]]
        /\ result = [c \in Channel |-> [r \in Record |-> 0]]
        /\ seen = ExactNames
        /\ wanted = [n \in Name |-> IF n \in ExactNames THEN Input(ExactSpecs(n)) ELSE NoRequest]
    BY DEF Init, ExpanderInit
  <1>2. QueryType
    BY <1>1, UsersAreChannels DEF QueryType
  <1>3. Slots
    BY <1>0, <1>1 DEF Slots, ExpanderInv, Covered
  <1>4. Unglobbed \subseteq Name
    BY DEF Unglobbed
  <1>5. Queueing
    BY <1>1, <1>4 DEF Queueing
  <1>6. InFlight
    BY <1>1 DEF InFlight
  <1>7. Accumulated
    <2>1. \A c \in Channel, r \in Record : result[c][r] = 0
      BY <1>1
    <2> QED
      BY <2>1 DEF Accumulated
  <1> QED
    BY <1>2, <1>3, <1>5, <1>6, <1>7 DEF QueryInv

\* What a name's answers and the slots say stays while they do.
LEMMA AccumulatedKept ==
  ASSUME Accumulated, fetched' = fetched, result' = result, specs' = specs
  PROVE  Accumulated'
  BY PatternsKept DEF Accumulated

\* Steps that leave requests and results alone.
LEMMA QueryUnchanged ==
  ASSUME QueryInv, UNCHANGED queryVars, UNCHANGED <<pending, fresh, depth>>
  PROVE  QueryInv'
  <1>1. /\ specs' = specs /\ seen' = seen /\ wanted' = wanted /\ queued' = queued
        /\ fetched' = fetched /\ handles' = handles /\ inflight' = inflight /\ result' = result
    BY DEF queryVars
  <1>2. Unglobbed' = Unglobbed /\ Discovered' = Discovered
    BY <1>1, PatternsKept DEF Discovered
  <1>3. QueryType'
    BY <1>1 DEF QueryInv, QueryType
  <1>4. Slots'
    BY <1>1, <1>2 DEF QueryInv, Slots
  <1>5. Queueing'
    BY <1>1, <1>2 DEF QueryInv, Queueing
  <1>6. InFlight'
    BY <1>1, <1>2 DEF QueryInv, InFlight
  <1>7. Accumulated'
    BY <1>1, AccumulatedKept DEF QueryInv
  <1> QED
    BY <1>3, <1>4, <1>5, <1>6, <1>7 DEF QueryInv

\* Fetches are spawned.
LEMMA QuerySpawn ==
  ASSUME QueryInv, SpawnPackageFetches
  PROVE  QueryInv'
  <1>1. /\ specs' = specs /\ seen' = seen /\ fetched' = fetched /\ handles' = handles
        /\ result' = result /\ pending' = pending /\ fresh' = fresh /\ depth' = depth
        /\ inflight' = inflight \cup Fetches(Wanted, wanted, handles)
        /\ queued' = [n \in Name |-> IF n \in Wanted THEN wanted[n] ELSE queued[n]]
        /\ wanted' = [n \in Name |-> NoRequest]
    BY DEF SpawnPackageFetches, expanderVars
  <1>2. Unglobbed' = Unglobbed /\ Discovered' = Discovered /\ Unglobbed \subseteq Name
    BY <1>1, PatternsKept DEF Discovered, Unglobbed
  <1>3. \A f \in Fetches(Wanted, wanted, handles) :
          \E n \in Wanted, c \in handles :
            f = [name |-> n, request |-> wanted[n], channel |-> c]
    BY DEF Fetches
  <1>4. Wanted \subseteq Name /\ \A n \in Name : n \in Wanted <=> wanted[n] # NoRequest
    BY DEF Wanted
  <1>5. QueryType'
    <2>1. \A f \in inflight' :
            /\ f = [name |-> f.name, request |-> f.request, channel |-> f.channel]
            /\ f.name \in Name /\ f.channel \in handles
      BY <1>1, <1>3, <1>4 DEF QueryInv, QueryType
    <2>2. queued' = [n \in Name |-> queued'[n]] /\ wanted' = [n \in Name |-> wanted'[n]]
      BY <1>1
    <2> QED
      BY <1>1, <2>1, <2>2 DEF QueryInv, QueryType
  <1>6. Slots'
    BY <1>1, <1>2 DEF QueryInv, Slots
  <1>7. Queueing'
    <2>1. \A n \in Unglobbed : wanted'[n] = NoRequest
      BY <1>1, <1>2
    <2>2. ASSUME NEW n \in Unglobbed
          PROVE  /\ queued'[n] # NoRequest => n \in seen
                 /\ queued'[n] = NoRequest => queued[n] = NoRequest
      BY <1>1, <1>2, <1>4 DEF QueryInv, Queueing
    <2> QED
      BY <1>1, <1>2, <2>1, <2>2 DEF QueryInv, Queueing
  <1>8. InFlight'
    <2> SUFFICES ASSUME NEW f \in inflight', f.name \in Unglobbed
                 PROVE  /\ f.channel \notin fetched[f.name].pkgs
                        /\ f.request = queued'[f.name] /\ queued'[f.name] # NoRequest
      BY <1>1, <1>2 DEF InFlight
    <2>1. CASE f \in inflight
      <3>1. /\ f.channel \notin fetched[f.name].pkgs
            /\ f.request = queued[f.name] /\ queued[f.name] # NoRequest
        BY <2>1 DEF QueryInv, InFlight
      <3>2. wanted[f.name] = NoRequest
        BY <3>1 DEF QueryInv, Queueing
      <3> QED
        BY <1>1, <1>2, <1>4, <3>1, <3>2
    <2>2. CASE f \in Fetches(Wanted, wanted, handles)
      <3>1. PICK n \in Wanted, c \in handles :
              f = [name |-> n, request |-> wanted[n], channel |-> c]
        BY <1>3, <2>2
      <3>2. f.name = n /\ f.request = wanted[n] /\ n \in Name /\ wanted[n] # NoRequest
        BY <1>4, <3>1
      <3>3. fetched[n].pkgs = {}
        BY <3>2 DEF QueryInv, Queueing
      <3> QED
        BY <1>1, <1>4, <3>2, <3>3
    <2> QED
      BY <1>1, <2>1, <2>2
  <1>9. Accumulated'
    BY <1>1, AccumulatedKept DEF QueryInv
  <1> QED
    BY <1>5, <1>6, <1>7, <1>8, <1>9 DEF QueryInv

\* A subdir arrives: only names that a pattern matches are wanted anew.
LEMMA QueryArrives ==
  ASSUME QueryInv, NEW c \in Channel, SubdirArrives(c)
  PROVE  QueryInv'
  <1>1. /\ specs' = specs /\ queued' = queued /\ fetched' = fetched /\ handles' = handles
        /\ inflight' = inflight /\ result' = result /\ fresh' = fresh /\ depth' = depth
        /\ pending' = pending \ {c}
    BY DEF SubdirArrives, Arrived
  <1>2. Unglobbed' = Unglobbed /\ Discovered' = Discovered /\ Unglobbed \subseteq Name
    BY <1>1, PatternsKept DEF Discovered, Unglobbed
  <1>3. \/ seen' = seen /\ wanted' = wanted
        \/ /\ seen' = seen \cup Expanded(c)
           /\ wanted' = [n \in Name |-> IF n \in Expanded(c) THEN Input({FirstPattern(n)})
                                        ELSE wanted[n]]
    BY DEF SubdirArrives
  <1>4. Unglobbed \cap Expanded(c) = {}
    BY DEF Unglobbed, Expanded
  <1>5. /\ seen \subseteq seen' /\ \A n \in Unglobbed : wanted'[n] = wanted[n]
        /\ wanted' = [n \in Name |-> wanted'[n]]
    BY <1>2, <1>3, <1>4 DEF QueryInv, QueryType
  <1>6. QueryType'
    BY <1>1, <1>5 DEF QueryInv, QueryType
  <1>7. Slots'
    BY <1>1, <1>2 DEF QueryInv, Slots
  <1>8. Queueing'
    BY <1>1, <1>2, <1>5 DEF QueryInv, Queueing
  <1>9. InFlight'
    BY <1>1, <1>2 DEF QueryInv, InFlight
  <1>10. Accumulated'
    BY <1>1, AccumulatedKept DEF QueryInv
  <1> QED
    BY <1>6, <1>7, <1>8, <1>9, <1>10 DEF QueryInv

\* What a round of relax schedules was not known before.
LEMMA ScheduledIsNew ==
  ASSUME ExpanderInv, Relax
  PROVE  /\ Discovered \subseteq Discovered' /\ pending \subseteq pending'
         /\ (pending' \ pending) \cup fresh' \subseteq fresh \cup (Channel \ Discovered)
         /\ pending' # pending => fresh' = {}
  <1> DEFINE c == Last(worklist)
             y == Relaxed(c)
             N == NextDepth(c)
             R == Due(c)
  <1>1. CASE UNCHANGED <<depth, fresh, pending>>
    BY <1>1 DEF Discovered
  <1>2. CASE /\ depth' = y.depth
             /\ IF y.worklist = <<>> THEN pending' = pending \cup y.fresh /\ fresh' = {}
                ELSE UNCHANGED pending /\ fresh' = y.fresh
    <2>1. Followed(y, c, R) /\ c \in Channel /\ depth \in [Channel -> 0..(MaxDepth + 1)]
          /\ MaxDepth \in Nat /\ Setting
      BY RelaxedIs, ExpanderAssumption DEF ExpanderInv, ExpanderType, Relax
    <2>2. \A r \in R : r.target \in Channel
      BY <2>1, TargetsAreChannels DEF Due
    <2> HIDE DEF c, y, R
    <2>3. y.fresh = fresh \cup {r.target : r \in {q \in R : depth[q.target] > MaxDepth}}
      BY <2>1 DEF Followed
    <2>4. y.fresh \subseteq fresh \cup (Channel \ Discovered)
      BY <2>1, <2>2, <2>3 DEF Discovered
    <2>5. \A d \in Channel : depth'[d] = depth[d] \/ (depth'[d] = N /\ N < depth[d])
      BY <1>2, <2>1 DEF Followed
    <2>6. N \in Nat
      BY <2>1 DEF NextDepth
    <2>7. Discovered \subseteq Discovered'
      BY <2>1, <2>5, <2>6 DEF Discovered
    <2> QED
      BY <1>2, <2>4, <2>7
  <1> QED
    BY <1>1, <1>2 DEF Relax

\* Relations are observed: new slots are asked for everything queued so far.
LEMMA QueryObserves ==
  ASSUME ExpanderInv, ExpanderInv', QueryInv, ObserveRelations
  PROVE  QueryInv'
  <1> DEFINE new == pending' \ pending
             names == {n \in Name : queued[n] # NoRequest}
  <1>1. /\ specs' = specs /\ seen' = seen /\ wanted' = wanted /\ queued' = queued
        /\ fetched' = fetched /\ result' = result /\ handles' = handles \cup pending'
        /\ inflight' = inflight \cup Fetches(names, queued, new)
    BY DEF ObserveRelations, ScheduleAll
  <1>2. /\ Discovered \subseteq Discovered' /\ pending \subseteq pending'
        /\ new \cup fresh' \subseteq fresh \cup (Channel \ Discovered)
        /\ pending' # pending => fresh' = {}
    BY ScheduledIsNew DEF ObserveRelations
  <1>3. Unglobbed' = Unglobbed /\ Unglobbed \subseteq Name
    BY <1>1, PatternsKept DEF Unglobbed
  <1>4. new \cap handles = {} /\ fresh' \cap handles = {}
    BY <1>2 DEF QueryInv, Slots
  <1>5. \A f \in Fetches(names, queued, new) :
          \E n \in names, c \in new : f = [name |-> n, request |-> queued[n], channel |-> c]
    BY DEF Fetches
  <1>6. pending' \subseteq Channel /\ pending' \subseteq Discovered'
    BY DEF ExpanderInv, ExpanderType, Covered
  <1>7. QueryType'
    <2>1. \A f \in inflight' :
            /\ f = [name |-> f.name, request |-> f.request, channel |-> f.channel]
            /\ f.name \in Name /\ f.channel \in handles'
      <3> SUFFICES ASSUME NEW f \in inflight'
                   PROVE  /\ f = [name |-> f.name, request |-> f.request, channel |-> f.channel]
                          /\ f.name \in Name /\ f.channel \in handles'
        OBVIOUS
      <3>1. CASE f \in inflight
        BY <1>1, <3>1 DEF QueryInv, QueryType
      <3>2. CASE f \in Fetches(names, queued, new)
        <4>1. PICK n \in names, c \in new : f = [name |-> n, request |-> queued[n], channel |-> c]
          BY <1>5, <3>2
        <4>2. n \in Name /\ c \in handles'
          BY <1>1, <4>1
        <4> HIDE DEF names, new
        <4> QED
          BY <4>1, <4>2
      <3> QED
        BY <1>1, <3>1, <3>2
    <2> QED
      BY <1>1, <1>6, <2>1 DEF QueryInv, QueryType
  <1>8. Slots'
    <2>1. handles' \cap fresh' = {}
      <3>1. CASE pending' = pending
        <4>1. handles' = handles
          BY <1>1, <3>1 DEF QueryInv, Slots
        <4> QED
          BY <1>4, <4>1
      <3>2. CASE pending' # pending
        BY <1>2, <3>2
      <3> QED
        BY <3>1, <3>2
    <2> QED
      BY <1>1, <1>2, <1>6, <2>1 DEF QueryInv, Slots
  <1>9. Queueing'
    BY <1>1, <1>3 DEF QueryInv, Queueing
  <1>10. InFlight'
    <2> SUFFICES ASSUME NEW f \in inflight', f.name \in Unglobbed
                 PROVE  /\ f.channel \notin fetched[f.name].pkgs
                        /\ f.request = queued[f.name] /\ queued[f.name] # NoRequest
      BY <1>1, <1>3 DEF InFlight
    <2>1. CASE f \in inflight
      BY <2>1 DEF QueryInv, InFlight
    <2>2. CASE f \in Fetches(names, queued, new)
      <3>1. PICK n \in names, c \in new : f = [name |-> n, request |-> queued[n], channel |-> c]
        BY <1>5, <2>2
      <3>2. f.name = n /\ f.request = queued[n] /\ f.channel = c /\ n \in Name
        BY <3>1
      <3>3. c \notin fetched[n].pkgs
        BY <1>4, <3>1, <3>2 DEF QueryInv, Slots
      <3> QED
        BY <3>1, <3>2, <3>3
    <2> QED
      BY <1>1, <2>1, <2>2
  <1>11. Accumulated'
    BY <1>1, AccumulatedKept DEF QueryInv
  <1> QED
    BY <1>7, <1>8, <1>9, <1>10, <1>11 DEF QueryInv

\* A dependency is queued: a name that is wanted anew has not been seen.
LEMMA QueryQueues ==
  ASSUME QueryInv, NEW d \in deps, QueueDependency(d)
  PROVE  QueryInv'
  <1>1. /\ specs' = specs /\ queued' = queued /\ fetched' = fetched /\ handles' = handles
        /\ inflight' = inflight /\ result' = result /\ fresh' = fresh /\ depth' = depth
        /\ pending' = pending
    BY DEF QueueDependency, expanderVars
  <1>2. Unglobbed' = Unglobbed /\ Discovered' = Discovered /\ Unglobbed \subseteq Name
    BY <1>1, PatternsKept DEF Discovered, Unglobbed
  <1>3. \/ seen' = seen /\ wanted' = wanted
        \/ /\ d.name \notin seen /\ seen' = seen \cup {d.name}
           /\ wanted' = [wanted EXCEPT ![d.name] = Transitive]
    BY DEF QueueDependency, IsNew
  <1>4. /\ seen \subseteq seen' /\ wanted' = [n \in Name |-> wanted'[n]]
        /\ \A n \in Name : wanted'[n] = wanted[n] \/ (n \notin seen /\ n \in seen')
    BY <1>3 DEF QueryInv, QueryType
  <1>5. QueryType'
    BY <1>1, <1>4 DEF QueryInv, QueryType
  <1>6. Slots'
    BY <1>1, <1>2 DEF QueryInv, Slots
  <1>7. Queueing'
    BY <1>1, <1>2, <1>4 DEF QueryInv, Queueing
  <1>8. InFlight'
    BY <1>1, <1>2 DEF QueryInv, InFlight
  <1>9. Accumulated'
    BY <1>1, AccumulatedKept DEF QueryInv
  <1> QED
    BY <1>5, <1>6, <1>7, <1>8, <1>9 DEF QueryInv

\* Records arrive: the name has not been answered by this channel before.
LEMMA QueryRecords ==
  ASSUME QueryInv, NEW f \in inflight, RecordsArrive(f)
  PROVE  QueryInv'
  <1>1. /\ specs' = specs /\ seen' = seen /\ wanted' = wanted /\ queued' = queued
        /\ handles' = handles /\ fresh' = fresh /\ depth' = depth /\ pending' = pending
        /\ inflight' = inflight \ {f} /\ result' = Accumulate(f)
    BY DEF RecordsArrive, expanderVars
  <1>2. Unglobbed' = Unglobbed /\ Discovered' = Discovered /\ Unglobbed \subseteq Name
    BY <1>1, PatternsKept DEF Discovered, Unglobbed
  <1>3. /\ f.name \in Name /\ f.channel \in handles /\ f.channel \in Channel
        /\ f = [name |-> f.name, request |-> f.request, channel |-> f.channel]
    BY DEF QueryInv, QueryType
  <1>4. /\ fetched' = [n \in Name |-> [source |-> fetched'[n].source, pkgs |-> fetched'[n].pkgs]]
        /\ \A n \in Name : fetched'[n].pkgs = IF n = f.name THEN fetched[n].pkgs \cup {f.channel}
                                              ELSE fetched[n].pkgs
    <2>1. fetched' = [fetched EXCEPT ![f.name] =
            [source |-> IF fetched[f.name].source = NoRequest THEN f.request
                        ELSE fetched[f.name].source,
             pkgs |-> fetched[f.name].pkgs \cup {f.channel}]]
      BY DEF RecordsArrive
    <2>2. fetched = [n \in Name |-> [source |-> fetched[n].source, pkgs |-> fetched[n].pkgs]]
      BY DEF QueryInv, QueryType
    <2> QED
      BY <2>1, <2>2
  <1>5. /\ result \in [Channel -> [Record -> Nat]] /\ result' \in [Channel -> [Record -> Nat]]
        /\ \A c \in Channel, r \in Record :
             \/ result'[c][r] = result[c][r]
             \/ /\ c = f.channel /\ RecordName[r] = f.name
                /\ result'[c][r] = result[c][r] + 1
    <2> DEFINE M == Matching(Found(f.channel, f.name), f.request)
               row == [r \in Record |-> IF r \in M THEN result[f.channel][r] + 1
                                        ELSE result[f.channel][r]]
    <2>1. result' = [result EXCEPT ![f.channel] = row]
      BY <1>1 DEF Accumulate
    <2>2. \A r \in M : RecordName[r] = f.name
      BY DEF Matching, Found
    <2> HIDE DEF M
    <2>3. result \in [Channel -> [Record -> Nat]]
      BY DEF QueryInv, QueryType
    <2>4. row \in [Record -> Nat]
      BY <1>3, <2>3
    <2>5. \A r \in Record : row[r] = IF r \in M THEN result[f.channel][r] + 1
                                     ELSE result[f.channel][r]
      OBVIOUS
    <2> HIDE DEF row
    <2>6. \A r \in Record : \/ row[r] = result[f.channel][r]
                            \/ RecordName[r] = f.name /\ row[r] = result[f.channel][r] + 1
      BY <2>2, <2>5
    <2>7. \A c \in Channel : result'[c] = IF c = f.channel THEN row ELSE result[c]
      BY <2>1, <2>3
    <2> QED
      BY <1>3, <2>1, <2>3, <2>4, <2>6, <2>7
  <1>6. QueryType'
    BY <1>1, <1>4, <1>5 DEF QueryInv, QueryType
  <1>7. Slots'
    <2>1. Slots
      BY DEF QueryInv
    <2>2. \A n \in Name : fetched'[n].pkgs \subseteq handles
      BY <1>3, <1>4, <2>1 DEF Slots
    <2> QED
      BY <1>1, <1>2, <2>1, <2>2 DEF Slots
  <1>8. Queueing'
    <2>1. f.name \in Unglobbed => queued[f.name] # NoRequest
      BY DEF QueryInv, InFlight
    <2> QED
      BY <1>1, <1>2, <1>4, <2>1 DEF QueryInv, Queueing
  <1>9. InFlight'
    <2> SUFFICES ASSUME NEW g \in inflight, g # f, g.name \in Unglobbed
                 PROVE  g.channel \notin fetched'[g.name].pkgs
      BY <1>1, <1>2 DEF QueryInv, InFlight
    <2>1. /\ g.channel \notin fetched[g.name].pkgs /\ g.name \in Name
          /\ g.request = queued[g.name]
          /\ g = [name |-> g.name, request |-> g.request, channel |-> g.channel]
      BY DEF QueryInv, InFlight, QueryType
    <2>2. ASSUME g.name = f.name, g.channel = f.channel PROVE FALSE
      <3>1. f.request = queued[f.name]
        BY <2>2 DEF QueryInv, InFlight
      <3> QED
        BY <1>3, <2>1, <2>2, <3>1
    <2> QED
      BY <1>4, <2>1, <2>2
  <1>10. Accumulated'
    <2> SUFFICES ASSUME NEW c \in Channel, NEW r \in Record
                 PROVE  /\ result'[c][r] > 0 => c \in fetched'[RecordName[r]].pkgs
                        /\ RecordName[r] \in Unglobbed => result'[c][r] <= 1
      BY <1>2 DEF Accumulated
    <2>1. RecordName[r] \in Name /\ result[c][r] \in Nat
      BY <1>5, QueryAssumption
    <2>2. /\ result[c][r] > 0 => c \in fetched[RecordName[r]].pkgs
          /\ RecordName[r] \in Unglobbed => result[c][r] <= 1
      BY DEF QueryInv, Accumulated
    <2>3. CASE result'[c][r] = result[c][r]
      BY <1>4, <2>1, <2>2, <2>3
    <2>4. CASE c = f.channel /\ RecordName[r] = f.name /\ result'[c][r] = result[c][r] + 1
      <3>1. c \in fetched'[RecordName[r]].pkgs
        BY <1>4, <2>1, <2>4
      <3>2. ASSUME RecordName[r] \in Unglobbed PROVE result[c][r] = 0
        <4>1. c \notin fetched[RecordName[r]].pkgs
          BY <2>4, <3>2 DEF QueryInv, InFlight
        <4> QED
          BY <2>1, <2>2, <4>1
      <3> QED
        BY <2>1, <2>4, <3>1, <3>2
    <2> QED
      BY <1>5, <2>3, <2>4
  <1> QED
    BY <1>6, <1>7, <1>8, <1>9, <1>10 DEF QueryInv

\* Every step of the executor.
LEMMA QueryStep ==
  ASSUME ExpanderInv, ExpanderInv', QueryInv, [Next]_vars
  PROVE  QueryInv'
  <1>1. CASE UNCHANGED vars
    BY <1>1, QueryUnchanged DEF vars, expanderVars
  <1>2. CASE SpawnPackageFetches
    BY <1>2, QuerySpawn
  <1>3. CASE ObserveRelations
    BY <1>3, QueryObserves
  <1>4. ASSUME NEW c \in Channel, SubdirArrives(c) PROVE QueryInv'
    BY <1>4, QueryArrives
  <1>5. ASSUME NEW f \in inflight, RecordsArrive(f) PROVE QueryInv'
    BY <1>5, QueryRecords
  <1>6. ASSUME NEW f \in inflight, RecordsFail(f) PROVE QueryInv'
    BY <1>6, QueryUnchanged DEF RecordsFail
  <1>7. ASSUME NEW d \in deps, QueueDependency(d) PROVE QueryInv'
    BY <1>7, QueryQueues
  <1>8. CASE Complete
    BY <1>8, QueryUnchanged DEF Complete, Finalize
  <1> QED
    BY <1>1, <1>2, <1>3, <1>4, <1>5, <1>6, <1>7, <1>8 DEF Next, Step

\* A name that no pattern matches is wanted and queued once, a channel has one
\* slot, and a fetch under way is for a name and channel without an answer.
THEOREM QueryInvariant == Spec => []QueryInv
  <1>1. Init => QueryInv
    BY QueryBegins
  <1>2. ExpanderInv /\ ExpanderInv' /\ QueryInv /\ [Next]_vars => QueryInv'
    BY QueryStep
  <1> QED
    BY <1>1, <1>2, ExpanderInvariant, PTL DEF Spec

\* A channel is asked once for a name, whether the name was queued before the
\* channel was found or after: no record is accumulated twice, unless a pattern
\* matches its name (accumulate_records).
THEOREM RecordsAreReportedOnce == Spec => []NoDuplicates
  <1>1. QueryInv => NoDuplicates
    <2> SUFFICES ASSUME QueryInv, NEW c \in Channel, NEW r \in Record, result[c][r] > 1,
                        PatternsFor(RecordName[r]) = {}
                 PROVE  FALSE
      BY DEF NoDuplicates
    <2>1. RecordName[r] \in Unglobbed /\ result[c][r] \in Nat
      BY QueryAssumption DEF Unglobbed, QueryInv, QueryType
    <2> QED
      BY <2>1 DEF QueryInv, Accumulated
  <1> QED
    BY <1>1, QueryInvariant, PTL

-----------------------------------------------------------------------------
(* What a query should find: the rounds of Reached *)

\* The specs of a query ask for extras.
SpecsTyped == \A s \in specs : SpecExtras[s] \subseteq Extra

\* What Grow works on.
World == [names : SUBSET Name, deps : SUBSET Name, active : [Name -> SUBSET Extra]]

\* One of them is contained in another.
Leq(x, y) ==
  /\ x.names \subseteq y.names /\ x.deps \subseteq y.deps
  /\ \A n \in Name : x.active[n] \subseteq y.active[n]

\* There is a first pattern among those that match a name.
LEMMA FirstPatternIs ==
  ASSUME NEW n, PatternsFor(n) # {}
  PROVE  FirstPattern(n) \in PatternsFor(n)
  <1>1. PatternsFor(n) \in SUBSET Nat
    BY QueryAssumption DEF PatternsFor
  <1>2. \E s \in PatternsFor(n) : \A t \in PatternsFor(n) : s <= t
    BY <1>1, Least
  <1> QED
    BY <1>2 DEF FirstPattern

\* The beginning.
LEMMA StartIs ==
  ASSUME SpecsTyped
  PROVE  Start \in World
  <1>1. ExactNames \cup Matched \in SUBSET Name
    BY DEF ExactNames, Matched
  <1>2. ASSUME NEW n \in Name,
               NEW s \in ExactSpecs(n) \cup IF n \in Matched THEN {FirstPattern(n)} ELSE {}
        PROVE  SpecExtras[s] \subseteq Extra
    <2>1. CASE s \in ExactSpecs(n)
      BY <2>1 DEF ExactSpecs, SpecsTyped
    <2>2. CASE n \in Matched /\ s = FirstPattern(n)
      <3>1. s \in PatternsFor(n)
        BY <2>2, FirstPatternIs DEF Matched
      <3> QED
        BY <3>1 DEF PatternsFor, SpecsTyped
    <2> QED
      BY <2>1, <2>2
  <1>3. [n \in Name |-> UNION {SpecExtras[s] :
           s \in ExactSpecs(n) \cup IF n \in Matched THEN {FirstPattern(n)} ELSE {}}]
          \in [Name -> SUBSET Extra]
    BY <1>2
  <1> QED
    BY <1>1, <1>3 DEF Start, World

\* Dependencies of records are dependencies.
LEMMA DependenciesTyped ==
  ASSUME NEW rs \in SUBSET Record, NEW extras \in SUBSET Extra
  PROVE  DependenciesOf(rs, extras) \subseteq Dep
  BY QueryAssumption DEF DependenciesOf

\* More records and more extras have more dependencies.
LEMMA DependenciesGrow ==
  ASSUME NEW rs, NEW ss, rs \subseteq ss, NEW d, NEW e, d \subseteq e
  PROVE  DependenciesOf(rs, d) \subseteq DependenciesOf(ss, e)
  BY DEF DependenciesOf

\* What is needed in a world.
LEMMA NeededTyped ==
  ASSUME NEW all, NEW x \in World
  PROVE  Needed(all, x) \subseteq Dep
  <1>1. x.names \subseteq Name /\ x.active \in [Name -> SUBSET Extra]
    BY DEF World
  <1>2. ASSUME NEW n \in x.names
        PROVE  DependenciesOf(Counting(n, all, x), x.active[n]) \subseteq Dep
    <2>1. Counting(n, all, x) \in SUBSET Record /\ x.active[n] \in SUBSET Extra
      BY <1>1 DEF Counting
    <2> QED
      BY <2>1, DependenciesTyped
  <1> QED
    BY <1>2 DEF Needed

\* A round.
LEMMA GrowIs ==
  ASSUME NEW all, NEW x \in World
  PROVE  Grow(all, x) \in World
  <1> DEFINE new == Needed(all, x)
  <1>1. new \subseteq Dep
    BY NeededTyped
  <1>2. \A d \in new : d.name \in Name /\ d.extras \subseteq Extra
    BY <1>1 DEF Dep
  <1>3. x.names \subseteq Name /\ x.active \in [Name -> SUBSET Extra]
    BY DEF World
  <1> HIDE DEF new
  <1>4. [n \in Name |-> x.active[n] \cup UNION {d.extras : d \in {e \in new : e.name = n}}]
          \in [Name -> SUBSET Extra]
    BY <1>2, <1>3
  <1>5. x.names \cup {d.name : d \in new} \in SUBSET Name /\ {d.name : d \in new} \in SUBSET Name
    BY <1>2, <1>3
  <1>6. Grow(all, x) = [names |-> x.names \cup {d.name : d \in new},
          deps |-> {d.name : d \in new},
          active |-> [n \in Name |-> x.active[n] \cup
                        UNION {d.extras : d \in {e \in new : e.name = n}}]]
    BY DEF Grow, new
  <1> QED
    BY <1>4, <1>5, <1>6 DEF World

\* Rounds keep the order of worlds.
LEMMA NeededGrows ==
  ASSUME NEW all, NEW x \in World, NEW y \in World, Leq(x, y)
  PROVE  Needed(all, x) \subseteq Needed(all, y)
  <1>1. ASSUME NEW n \in x.names
        PROVE  /\ n \in y.names
               /\ DependenciesOf(Counting(n, all, x), x.active[n])
                    \subseteq DependenciesOf(Counting(n, all, y), y.active[n])
    <2>1. /\ n \in Name /\ n \in y.names /\ x.active[n] \subseteq y.active[n]
          /\ x.deps \subseteq y.deps
      BY DEF Leq, World
    <2>2. Counting(n, all, x) \subseteq Counting(n, all, y)
      BY <2>1 DEF Counting
    <2> QED
      BY <2>1, <2>2, DependenciesGrow
  <1> QED
    BY <1>1 DEF Needed

LEMMA GrowGrows ==
  ASSUME NEW all, NEW x \in World, NEW y \in World, Leq(x, y)
  PROVE  Leq(Grow(all, x), Grow(all, y))
  <1> DEFINE nx == Needed(all, x)
             ny == Needed(all, y)
  <1>1. nx \subseteq ny
    BY NeededGrows
  <1>2. /\ Grow(all, x).names = x.names \cup {d.name : d \in nx}
        /\ Grow(all, x).deps = {d.name : d \in nx}
        /\ \A n \in Name : Grow(all, x).active[n]
             = x.active[n] \cup UNION {d.extras : d \in {e \in nx : e.name = n}}
    BY DEF Grow
  <1>3. /\ Grow(all, y).names = y.names \cup {d.name : d \in ny}
        /\ Grow(all, y).deps = {d.name : d \in ny}
        /\ \A n \in Name : Grow(all, y).active[n]
             = y.active[n] \cup UNION {d.extras : d \in {e \in ny : e.name = n}}
    BY DEF Grow
  <1> HIDE DEF nx, ny
  <1>4. x.names \subseteq y.names /\ \A n \in Name : x.active[n] \subseteq y.active[n]
    BY DEF Leq
  <1> QED
    BY <1>1, <1>2, <1>3, <1>4 DEF Leq

\* What Reached is: the last of a number of rounds.
LEMMA ReachedIs ==
  ASSUME SpecsTyped, NEW all
  PROVE  \E g : /\ g[0] = Start
                /\ \A n \in Nat : g[n] \in World /\ g[n + 1] = Grow(all, g[n])
                /\ Reached(all) = g[Cardinality(Name) * (Cardinality(Extra) + 2)]
  <1> DEFINE S == World
             b == Start
             F == [x \in S |-> Grow(all, x)]
             G(f) == [n \in Nat |-> IF n = 0 THEN Start ELSE Grow(all, f[n - 1])]
             N == Cardinality(Name) * (Cardinality(Extra) + 2)
  <1>1. b \in S /\ F \in [S -> S]
    BY StartIs, GrowIs
  <1>2. PICK f \in [Nat -> S] : f[0] = b /\ \A n \in Nat : f[n + 1] = F[f[n]]
    <2> HIDE DEF S, b, F
    <2> QED
      BY <1>1, Recursion
  <1>3. \A n \in Nat : f[n] = IF n = 0 THEN Start ELSE Grow(all, f[n - 1])
    <2> SUFFICES ASSUME NEW n \in Nat
                 PROVE  f[n] = IF n = 0 THEN Start ELSE Grow(all, f[n - 1])
      OBVIOUS
    <2>1. n # 0 => n - 1 \in Nat /\ (n - 1) + 1 = n
      OBVIOUS
    <2> HIDE DEF S
    <2>2. n # 0 => f[n - 1] \in S /\ f[(n - 1) + 1] = F[f[n - 1]]
      BY <1>2, <2>1
    <2> QED
      BY <1>2, <2>1, <2>2
  <1>4. f = G(f)
    BY <1>2, <1>3
  <1> DEFINE g == CHOOSE h : h = G(h)
  <1>5. Reached(all) = g[N]
    BY DEF Reached
  <1>6. g = G(g)
    <2> HIDE DEF G
    <2> QED
      BY <1>4
  <1> HIDE DEF g
  <1>7. g[0] = b /\ \A n \in Nat : g[n + 1] = Grow(all, g[n])
    <2>1. \A n \in Nat : g[n] = IF n = 0 THEN Start ELSE Grow(all, g[n - 1])
      BY <1>6
    <2>2. \A n \in Nat : n + 1 \in Nat /\ n + 1 # 0 /\ (n + 1) - 1 = n
      OBVIOUS
    <2> QED
      BY <2>1, <2>2
  <1>8. \A n \in Nat : g[n] \in S /\ g[n + 1] = F[g[n]]
    <2>1. \A n \in Nat : g[n] \in S => g[n + 1] = F[g[n]]
      <3> HIDE DEF S
      <3> QED
        BY <1>7
    <2> HIDE DEF S, b, F
    <2> QED
      BY <1>1, <1>7, <2>1, RecursionStays
  <1> QED
    BY <1>5, <1>7, <1>8

\* A world as a set of marks on names: an extra is active, the name is there,
\* it is a dependency.
Marks == (Extra \X {0}) \cup ({0, 1} \X {1})
Marked(x) ==
  {p \in Name \X Marks : \/ p[2][2] = 0 /\ p[2][1] \in x.active[p[1]]
                         \/ p[2] = <<0, 1>> /\ p[1] \in x.names
                         \/ p[2] = <<1, 1>> /\ p[1] \in x.deps}

\* There are finitely many marks.
LEMMA MarksAreFinite ==
  /\ IsFiniteSet(Name \X Marks)
  /\ Cardinality(Name \X Marks) = Cardinality(Name) * (Cardinality(Extra) + 2)
  /\ Cardinality(Name \X Marks) \in Nat
  <1>1. IsFiniteSet(Name) /\ IsFiniteSet(Extra)
    BY QueryAssumption
  <1>2. Cardinality(Name) \in Nat /\ Cardinality(Extra) \in Nat
    BY <1>1, FS_CardinalityType
  <1>3. IsFiniteSet({0}) /\ Cardinality({0}) = 1 /\ IsFiniteSet({1}) /\ Cardinality({1}) = 1
    BY FS_Singleton
  <1>4. IsFiniteSet({0, 1}) /\ Cardinality({0, 1}) = 2
    BY TwoNumbers
  <1> DEFINE A == Extra \X {0}
             Z == {0}
             O == {1}
             P == {0, 1}
             B == P \X O
  <1>5. IsFiniteSet(A) /\ Cardinality(A) = Cardinality(Extra)
    <2>1. IsFiniteSet(Extra \X Z) /\ Cardinality(Extra \X Z) = Cardinality(Extra) * Cardinality(Z)
      <3>1. IsFiniteSet(Z)
        BY <1>3
      <3> HIDE DEF Z
      <3> QED
        BY <1>1, <3>1, FS_Product
    <2> QED
      BY <1>2, <1>3, <2>1
  <1>6. IsFiniteSet(B) /\ Cardinality(B) = 2
    <2>1. IsFiniteSet(P \X O) /\ Cardinality(P \X O) = Cardinality(P) * Cardinality(O)
      <3>1. IsFiniteSet(P) /\ IsFiniteSet(O)
        BY <1>3, <1>4
      <3> HIDE DEF P, O
      <3> QED
        BY <3>1, FS_Product
    <2> QED
      BY <1>3, <1>4, <2>1
  <1>7. A \cap B = {} /\ Marks = A \cup B
    BY DEF Marks
  <1> HIDE DEF A, B
  <1>8. IsFiniteSet(Marks) /\ Cardinality(Marks) = Cardinality(Extra) + 2
    <2>1. IsFiniteSet(A \cup B)
          /\ Cardinality(A \cup B) = Cardinality(A) + Cardinality(B) - Cardinality(A \cap B)
      BY <1>5, <1>6, FS_Union
    <2>2. Cardinality(A \cap B) = 0
      BY <1>7, FS_EmptySet
    <2> QED
      BY <1>2, <1>5, <1>6, <1>7, <2>1, <2>2
  <1>9. IsFiniteSet(Name \X Marks)
        /\ Cardinality(Name \X Marks) = Cardinality(Name) * Cardinality(Marks)
    BY <1>1, <1>8, FS_Product
  <1>10. Cardinality(Name \X Marks) \in Nat
    BY <1>9, FS_CardinalityType
  <1> QED
    BY <1>8, <1>9, <1>10

\* Worlds are determined by their marks.
LEMMA MarkedIs ==
  ASSUME NEW x \in World, NEW y \in World
  PROVE  /\ Leq(x, y) => Marked(x) \subseteq Marked(y)
         /\ Marked(x) = Marked(y) => x = y
  <1>1. /\ x = [names |-> x.names, deps |-> x.deps, active |-> x.active]
        /\ y = [names |-> y.names, deps |-> y.deps, active |-> y.active]
        /\ x.names \subseteq Name /\ y.names \subseteq Name
        /\ x.deps \subseteq Name /\ y.deps \subseteq Name
        /\ x.active \in [Name -> SUBSET Extra] /\ y.active \in [Name -> SUBSET Extra]
    BY DEF World
  <1>2. Leq(x, y) => Marked(x) \subseteq Marked(y)
    BY DEF Leq, Marked
  <1>3. ASSUME Marked(x) = Marked(y) PROVE x = y
    <2>1. ASSUME NEW n \in Name
          PROVE  /\ n \in x.names <=> n \in y.names
                 /\ n \in x.deps <=> n \in y.deps
                 /\ \A e \in Extra : e \in x.active[n] <=> e \in y.active[n]
      <3>1. <<0, 1>> \in Marks /\ <<1, 1>> \in Marks /\ \A e \in Extra : <<e, 0>> \in Marks
        BY DEF Marks
      <3>2. /\ <<n, <<0, 1>>>> \in Marked(x) <=> n \in x.names
            /\ <<n, <<0, 1>>>> \in Marked(y) <=> n \in y.names
        BY <3>1 DEF Marked
      <3>3. /\ <<n, <<1, 1>>>> \in Marked(x) <=> n \in x.deps
            /\ <<n, <<1, 1>>>> \in Marked(y) <=> n \in y.deps
        BY <3>1 DEF Marked
      <3>4. \A e \in Extra : /\ <<n, <<e, 0>>>> \in Marked(x) <=> e \in x.active[n]
                             /\ <<n, <<e, 0>>>> \in Marked(y) <=> e \in y.active[n]
        BY <3>1 DEF Marked
      <3> QED
        BY <1>3, <3>2, <3>3, <3>4
    <2>2. x.names = y.names /\ x.deps = y.deps
      BY <1>1, <2>1
    <2>3. \A n \in Name : x.active[n] = y.active[n]
      BY <1>1, <2>1
    <2>4. x.active = y.active
      BY <1>1, <2>3
    <2> QED
      BY <1>1, <2>2, <2>4
  <1> QED
    BY <1>2, <1>3

\* Nothing is lost from round to round.
LEMMA RoundsGrow ==
  ASSUME NEW all, NEW g, g[0] = Start,
         \A n \in Nat : g[n] \in World /\ g[n + 1] = Grow(all, g[n])
  PROVE  \A n \in Nat : Leq(g[n], g[n + 1])
  <1> DEFINE bad == {k \in Nat : ~Leq(g[k], g[k + 1])}
  <1>1. ASSUME bad # {} PROVE FALSE
    <2>1. PICK k \in bad : \A j \in bad : k <= j
      BY <1>1, Least
    <2>2. CASE k = 0
      <3>1. g[1] = Grow(all, g[0]) /\ g[0] = Start
        BY <2>2
      <3>2. Leq(g[0], g[1])
        <4>1. Start.deps = {}
          BY DEF Start
        <4>2. Leq(Start, Grow(all, Start))
          BY <4>1 DEF Leq, Grow
        <4> QED
          BY <3>1, <4>2
      <3> QED
        BY <2>2, <3>2
    <2>3. CASE k # 0
      <3>1. k - 1 \in Nat /\ k - 1 \notin bad /\ (k - 1) + 1 = k /\ k \in Nat
        BY <2>1, <2>3
      <3>2. Leq(g[k - 1], g[k])
        BY <3>1
      <3>3. g[k] = Grow(all, g[k - 1]) /\ g[k + 1] = Grow(all, g[k])
        BY <3>1
      <3>4. g[k - 1] \in World /\ g[k] \in World
        BY <3>1
      <3>5. Leq(g[k], g[k + 1])
        BY <3>2, <3>3, <3>4, GrowGrows
      <3> QED
        BY <3>1, <3>5
    <2> QED
      BY <2>2, <2>3
  <1> QED
    BY <1>1

\* The last round adds nothing.
LEMMA ReachedIsClosed ==
  ASSUME SpecsTyped, NEW all
  PROVE  /\ Reached(all) \in World /\ Leq(Start, Reached(all))
         /\ Grow(all, Reached(all)) = Reached(all)
  <1> DEFINE N == Cardinality(Name) * (Cardinality(Extra) + 2)
             T == Name \X Marks
  <1>1. PICK g : /\ g[0] = Start
                 /\ \A n \in Nat : g[n] \in World /\ g[n + 1] = Grow(all, g[n])
                 /\ Reached(all) = g[N]
    BY ReachedIs
  <1>2. IsFiniteSet(T) /\ Cardinality(T) = N /\ N \in Nat
    BY MarksAreFinite
  <1> HIDE DEF N
  <1>3. \A n \in Nat : Leq(g[n], g[n + 1])
    BY <1>1, RoundsGrow
  <1> DEFINE h == [n \in Nat |-> Marked(g[n])]
  <1>4. /\ h \in [Nat -> SUBSET T]
        /\ \A n \in Nat : h[n] = Marked(g[n]) /\ h[n + 1] = Marked(g[n + 1])
    BY DEF Marked
  <1> HIDE DEF h, T
  <1>5. \A n \in Nat : h[n] \subseteq h[n + 1]
    <2> SUFFICES ASSUME NEW n \in Nat PROVE h[n] \subseteq h[n + 1]
      OBVIOUS
    <2>1. n + 1 \in Nat
      OBVIOUS
    <2>2. g[n] \in World /\ g[n + 1] \in World
      BY <1>1, <2>1
    <2> QED
      BY <1>3, <1>4, <2>2, MarkedIs
  <1>6. PICK n \in 0..N : h[n + 1] = h[n]
    BY <1>2, <1>4, <1>5, GrowthStops
  <1>7. n \in Nat /\ n + 1 \in Nat /\ n <= N /\ n <= N + 1 /\ N + 1 \in Nat
    BY <1>2
  <1>8. g[n + 1] = g[n]
    <2>1. g[n] \in World /\ g[n + 1] \in World /\ Marked(g[n + 1]) = Marked(g[n])
      BY <1>1, <1>4, <1>6, <1>7
    <2> QED
      BY <2>1, MarkedIs
  <1> DEFINE S == World
             F == [x \in S |-> Grow(all, x)]
  <1>9. F \in [S -> S] /\ \A m \in Nat : g[m + 1] = F[g[m]]
    <2>1. F \in [S -> S]
      BY GrowIs
    <2> HIDE DEF S
    <2> QED
      BY <1>1, <2>1 DEF S
  <1>10. g[N] = g[n] /\ g[N + 1] = g[n]
    <2> HIDE DEF S, F
    <2> QED
      BY <1>2, <1>7, <1>8, <1>9, Settled
  <1>11. Grow(all, g[N]) = g[N]
    BY <1>1, <1>2, <1>10
  <1>12. Leq(g[0], g[N])
    <2> DEFINE bad == {k \in Nat : ~Leq(g[0], g[k])}
    <2>1. ASSUME bad # {} PROVE FALSE
      <3>1. PICK k \in bad : \A j \in bad : k <= j
        BY <2>1, Least
      <3>2. k # 0
        BY DEF Leq
      <3>3. k - 1 \in Nat /\ k - 1 \notin bad /\ (k - 1) + 1 = k
        BY <3>1, <3>2
      <3>4. Leq(g[0], g[k - 1]) /\ Leq(g[k - 1], g[k])
        BY <1>3, <3>3
      <3>5. Leq(g[0], g[k])
        BY <3>4 DEF Leq
      <3> QED
        BY <3>5
    <2> QED
      BY <1>2, <2>1
  <1> QED
    BY <1>1, <1>2, <1>11, <1>12

-----------------------------------------------------------------------------
(* The result of a query *)

\* Types.
FoundType ==
  /\ SpecsTyped /\ seen \subseteq Name /\ deps \subseteq Dep
  /\ active \in [Name -> SUBSET Extra]

\* What was asked for is known from the beginning.
AskedFirst ==
  \A n \in ExactNames : n \in seen /\ \A s \in ExactSpecs(n) : SpecExtras[s] \subseteq active[n]

\* What is on its way was requested, and the request whose answer came first is
\* kept.
Sources ==
  /\ \A f \in inflight : f.request # NoRequest
  /\ \A n \in Name : fetched[n].pkgs # {} => fetched[n].source # NoRequest

FoundInv == FoundType /\ AskedFirst /\ Sources

\* A world that contains what the query begins with and all that is needed in
\* it, such as Reached(TRUE).
Bounding(L) ==
  /\ Leq(Start, L)
  /\ \A d \in Needed(TRUE, L) :
       d.name \in L.names /\ d.name \in L.deps /\ d.extras \subseteq L.active[d.name]

\* There is a reason for a request.
Justified(L, n, q) ==
  /\ n \in L.names
  /\ \/ q = Transitive /\ n \in L.deps /\ ExactSpecs(n) = {}
     \/ q = Input(ExactSpecs(n)) /\ ExactSpecs(n) # {}
     \/ q = Input({FirstPattern(n)}) /\ PatternsFor(n) # {}

\* Nothing is known, active, queued or requested but what belongs to L, ...
Bounded(L) ==
  /\ seen \subseteq L.names /\ \A n \in Name : active[n] \subseteq L.active[n]
  /\ deps \subseteq Needed(TRUE, L)
  /\ \A n \in Name : \A q \in {wanted[n], queued[n], fetched[n].source} :
       q # NoRequest => Justified(L, n, q)
  /\ \A f \in inflight : Justified(L, f.name, f.request)

\* ... and nothing else is found.
FoundBounded(L) ==
  \A c \in Channel, r \in Record : result[c][r] > 0 =>
    /\ r \in Found(c, RecordName[r]) /\ RecordName[r] \in L.names
    /\ r \in Counting(RecordName[r], TRUE, L)

BoundInv == \A L \in World : Bounding(L) => Bounded(L) /\ FoundBounded(L)

\* No name is asked for both exactly and by a pattern.
Unmixed == \A n \in Name : ExactSpecs(n) = {} \/ PatternsFor(n) = {}

\* The records of a name in a channel that have to be found.
MustHave(c, n) ==
  {r \in Found(c, n) : Asked(n) = {} \/ \E s \in Asked(n) : r \in SpecRecords[s]}

\* A request that finds them.
Full(n, q) == q = Transitive \/ (q.kind = "input" /\ Asked(n) # {} /\ Asked(n) \subseteq q.specs)

Requests ==
  /\ \A n \in Name : \A q \in {wanted[n], queued[n], fetched[n].source} :
       q # NoRequest => Full(n, q)
  /\ \A f \in inflight : Full(f.name, f.request)

\* A name that is known has been asked for, in every channel that has a slot.
OnTheWay(n, c) == \E f \in inflight : f.name = n /\ f.channel = c

Everywhere ==
  /\ \A n \in Name : n \in seen <=> wanted[n] # NoRequest \/ queued[n] # NoRequest
  /\ \A n \in Name : queued[n] = NoRequest => fetched[n].pkgs = {}
  /\ \A f \in inflight : queued[f.name] # NoRequest
  /\ \A n \in Name, c \in handles :
       queued[n] # NoRequest => c \in fetched[n].pkgs \/ OnTheWay(n, c)

\* A dependency that has been dealt with.
Met(d) == d.name \in seen /\ d.extras \subseteq active[d.name]

\* What has been answered has been accumulated, and its dependencies are dealt
\* with or about to be, unless it is asked for again.
Answered ==
  \A n \in Name : \A c \in fetched[n].pkgs :
    /\ \A r \in MustHave(c, n) : result[c][r] > 0
    /\ wanted[n] # NoRequest \/ OnTheWay(n, c) \/
         \A d \in DependenciesOf(MustHave(c, n), active[n]) : d \in deps \/ Met(d)

\* Patterns have been tried on the names of every channel that has arrived.
Patterns ==
  /\ \A n \in patternSeen : PatternsFor(n) # {} =>
       n \in seen /\ SpecExtras[FirstPattern(n)] \subseteq active[n]
  /\ outcome # "failed" => \A c \in handles \ pending : \A n \in NamesIn(c) :
       PatternsFor(n) # {} => n \in patternSeen

\* All channels that are known have their slots, and in the end nothing is left.
AllSlots ==
  /\ Discovered \subseteq handles \cup fresh
  /\ outcome = "done" => inflight = {} /\ deps = {} /\ Wanted = {}

CompleteInv == Unmixed /\ Requests /\ Everywhere /\ Answered /\ Patterns /\ AllSlots

\* What a query asks for, and what there is, does not change.
LEMMA WorldKept ==
  ASSUME specs' = specs, declares' = declares, broken' = broken
  PROVE  /\ ExactNames' = ExactNames /\ (SpecsTyped' <=> SpecsTyped) /\ (Unmixed' <=> Unmixed)
         /\ \A n : /\ ExactSpecs(n)' = ExactSpecs(n) /\ PatternsFor(n)' = PatternsFor(n)
                   /\ FirstPattern(n)' = FirstPattern(n) /\ Asked(n)' = Asked(n)
         /\ \A c : NamesIn(c)' = NamesIn(c)
         /\ \A c, n : Found(c, n)' = Found(c, n) /\ MustHave(c, n)' = MustHave(c, n)
         /\ \A n, L : Counting(n, TRUE, L)' = Counting(n, TRUE, L)
         /\ \A L : Needed(TRUE, L)' = Needed(TRUE, L) /\ (Bounding(L)' <=> Bounding(L))
         /\ \A L, n, q : Justified(L, n, q)' <=> Justified(L, n, q)
         /\ \A n, q : Full(n, q)' <=> Full(n, q)
  <1>1. \A n : ExactSpecs(n)' = ExactSpecs(n) /\ PatternsFor(n)' = PatternsFor(n)
    BY DEF ExactSpecs, PatternsFor
  <1>2. ExactNames' = ExactNames /\ \A n : FirstPattern(n)' = FirstPattern(n)
    BY <1>1 DEF ExactNames, FirstPattern
  <1>3. \A n : Asked(n)' = Asked(n)
    BY <1>1, <1>2 DEF Asked
  <1>4. (SpecsTyped' <=> SpecsTyped) /\ (Unmixed' <=> Unmixed)
    BY <1>1 DEF SpecsTyped, Unmixed
  <1>5. /\ \A c : NamesIn(c)' = NamesIn(c)
        /\ \A c, n : Found(c, n)' = Found(c, n)
    BY DEF NamesIn, Found
  <1>6. \A c, n : MustHave(c, n)' = MustHave(c, n)
    BY <1>3, <1>5 DEF MustHave
  <1>7. Within' = Within
    BY SettingKept
  <1>8. \A n, L : Counting(n, TRUE, L)' = Counting(n, TRUE, L)
    BY <1>1, <1>3, <1>5, <1>7 DEF Counting
  <1>9. \A L : Needed(TRUE, L)' = Needed(TRUE, L)
    <2>1. \A n, L : DependenciesOf(Counting(n, TRUE, L), L.active[n])'
                       = DependenciesOf(Counting(n, TRUE, L), L.active[n])
      BY <1>8 DEF DependenciesOf
    <2> QED
      BY <2>1 DEF Needed
  <1>10. Matched' = Matched
    BY <1>1, <1>5, <1>7 DEF Matched
  <1>11. Start' = Start
    BY <1>1, <1>2, <1>10 DEF Start
  <1>12. \A L : Bounding(L)' <=> Bounding(L)
    BY <1>9, <1>11 DEF Bounding, Leq
  <1>13. /\ \A L, n, q : Justified(L, n, q)' <=> Justified(L, n, q)
         /\ \A n, q : Full(n, q)' <=> Full(n, q)
    BY <1>1, <1>2, <1>3 DEF Justified, Full, Transitive, Input
  <1> QED
    BY <1>1, <1>2, <1>3, <1>4, <1>5, <1>6, <1>8, <1>9, <1>12, <1>13

LEMMA Fixed ==
  ASSUME [Next]_vars
  PROVE  specs' = specs /\ declares' = declares /\ broken' = broken
  <1>1. CASE UNCHANGED vars
    BY <1>1 DEF vars, expanderVars, queryVars
  <1>2. CASE SpawnPackageFetches
    BY <1>2 DEF SpawnPackageFetches, expanderVars
  <1>3. CASE ObserveRelations
    BY <1>3 DEF ObserveRelations, Relax
  <1>4. ASSUME NEW c \in Channel, SubdirArrives(c)
        PROVE  specs' = specs /\ declares' = declares /\ broken' = broken
    BY <1>4 DEF SubdirArrives, Arrived
  <1>5. ASSUME NEW f \in inflight, RecordsArrive(f) \/ RecordsFail(f)
        PROVE  specs' = specs /\ declares' = declares /\ broken' = broken
    BY <1>5 DEF RecordsArrive, RecordsFail, expanderVars, queryVars
  <1>6. ASSUME NEW d \in deps, QueueDependency(d)
        PROVE  specs' = specs /\ declares' = declares /\ broken' = broken
    BY <1>6 DEF QueueDependency, expanderVars
  <1>7. CASE Complete
    BY <1>7 DEF Complete, Finalize, queryVars
  <1> QED
    BY <1>1, <1>2, <1>3, <1>4, <1>5, <1>6, <1>7 DEF Next, Step

\* Names and records in a channel.
LEMMA FoundTyped ==
  ASSUME NEW c \in Channel
  PROVE  /\ NamesIn(c) \subseteq Name /\ Expanded(c) \subseteq Name
         /\ \A n : Found(c, n) \subseteq Record
         /\ \A n, q : Matching(Found(c, n), q) \subseteq Found(c, n)
  BY QueryAssumption DEF NamesIn, Expanded, Found, Matching

\* Names that are expanded ask for extras.
LEMMA ExpandedTyped ==
  ASSUME SpecsTyped, NEW c \in Channel, NEW n \in Expanded(c)
  PROVE  SpecExtras[FirstPattern(n)] \subseteq Extra
  BY FirstPatternIs DEF Expanded, SpecsTyped, PatternsFor

\* What late_walk finds are dependencies.
LEMMA LateWalkTyped ==
  ASSUME QueryInv, NEW n \in Name, NEW extras \in SUBSET Extra
  PROVE  LateWalk(n, extras) \subseteq Dep
  <1>1. fetched[n].pkgs \subseteq Channel
    BY DEF QueryInv, QueryType, Slots
  <1>2. \A c \in fetched[n].pkgs : Matching(Found(c, n), fetched[n].source) \subseteq Record
    BY <1>1, FoundTyped
  <1>3. \A r \in Record : \A e \in extras : ExtraDepends[r][e] \subseteq Dep
    BY QueryAssumption
  <1> QED
    BY <1>2, <1>3 DEF LateWalk

\* The query begins.
LEMMA FoundBegins ==
  ASSUME Init
  PROVE  FoundInv
  <1>1. /\ specs \in SpecChoices(declares, broken) /\ declares \in Declarations
        /\ broken \in Outages /\ seen = ExactNames /\ deps = {}
        /\ active = [n \in Name |-> UNION {SpecExtras[s] : s \in ExactSpecs(n)}]
        /\ fetched = [n \in Name |-> [source |-> NoRequest, pkgs |-> {}]] /\ inflight = {}
    BY DEF Init, ExpanderInit
  <1>2. SpecsTyped
    BY <1>1, QueryAssumption DEF SpecsTyped
  <1>3. \A n \in Name : \A s \in ExactSpecs(n) : SpecExtras[s] \subseteq Extra
    BY <1>2 DEF ExactSpecs, SpecsTyped
  <1>4. ExactNames \subseteq Name
    BY DEF ExactNames
  <1>5. FoundType
    BY <1>1, <1>2, <1>3, <1>4 DEF FoundType
  <1>6. AskedFirst
    BY <1>1, <1>4 DEF AskedFirst
  <1>7. Sources
    BY <1>1 DEF Sources
  <1> QED
    BY <1>5, <1>6, <1>7 DEF FoundInv

\* Every step.
LEMMA FoundStep ==
  ASSUME QueryInv, FoundInv, [Next]_vars
  PROVE  FoundInv'
  <1>0. specs' = specs /\ declares' = declares /\ broken' = broken
    BY Fixed
  <1>1. /\ ExactNames' = ExactNames /\ SpecsTyped' /\ SpecsTyped
        /\ \A n : ExactSpecs(n)' = ExactSpecs(n)
    BY <1>0, WorldKept DEF FoundInv, FoundType
  <1>2. ExactNames \subseteq Name
    BY DEF ExactNames
  <1>3. ASSUME UNCHANGED <<seen, active, deps, fetched>>,
               \A f \in inflight' : f \in inflight \/ f.request # NoRequest
        PROVE  FoundInv'
    BY <1>1, <1>3 DEF FoundInv, FoundType, AskedFirst, Sources
  <1>4. CASE UNCHANGED vars
    BY <1>3, <1>4 DEF vars, queryVars
  <1>5. CASE SpawnPackageFetches
    <2>1. \A f \in inflight' : f \in inflight \/ f.request # NoRequest
      <3>1. \A f \in Fetches(Wanted, wanted, handles) : f.request # NoRequest
        BY DEF Fetches, Wanted
      <3> QED
        BY <1>5, <3>1 DEF SpawnPackageFetches
    <2> QED
      BY <1>3, <1>5, <2>1 DEF SpawnPackageFetches
  <1>6. CASE ObserveRelations
    <2>1. \A f \in inflight' : f \in inflight \/ f.request # NoRequest
      <3>1. \A f \in Fetches({n \in Name : queued[n] # NoRequest}, queued, pending' \ pending) :
              f.request # NoRequest
        BY DEF Fetches
      <3> QED
        BY <1>6, <3>1 DEF ObserveRelations, ScheduleAll
    <2> QED
      BY <1>3, <1>6, <2>1 DEF ObserveRelations
  <1>7. ASSUME NEW c \in Channel, SubdirArrives(c) PROVE FoundInv'
    <2>1. CASE UNCHANGED <<seen, wanted, active, patternSeen>>
      BY <1>3, <1>7, <2>1 DEF SubdirArrives
    <2>2. CASE /\ seen' = seen \cup Expanded(c)
               /\ active' = [n \in Name |-> IF n \in Expanded(c)
                                            THEN active[n] \cup SpecExtras[FirstPattern(n)]
                                            ELSE active[n]]
      <3>1. deps' = deps /\ fetched' = fetched /\ inflight' = inflight
        BY <1>7 DEF SubdirArrives
      <3>2. Expanded(c) \subseteq Name
        BY FoundTyped
      <3>3. \A n \in Expanded(c) : SpecExtras[FirstPattern(n)] \subseteq Extra
        BY <1>1, ExpandedTyped
      <3>4. FoundType'
        BY <1>1, <2>2, <3>1, <3>2, <3>3 DEF FoundInv, FoundType
      <3>5. \A n \in Name : active[n] \subseteq active'[n]
        BY <2>2
      <3>6. AskedFirst'
        BY <1>1, <1>2, <2>2, <3>5 DEF FoundInv, AskedFirst
      <3> QED
        BY <3>1, <3>4, <3>6 DEF FoundInv, Sources
    <2> QED
      BY <1>7, <2>1, <2>2 DEF SubdirArrives
  <1>8. ASSUME NEW f \in inflight, RecordsArrive(f) PROVE FoundInv'
    <2>1. /\ seen' = seen /\ active' = active
          /\ inflight' \subseteq inflight
          /\ deps' = DependenciesOf(Matching(Found(f.channel, f.name), f.request), active[f.name])
      BY <1>8 DEF RecordsArrive
    <2>2. f.name \in Name /\ f.channel \in Channel /\ f.request # NoRequest
      BY DEF QueryInv, QueryType, FoundInv, Sources
    <2>3. /\ Matching(Found(f.channel, f.name), f.request) \in SUBSET Record
          /\ active[f.name] \in SUBSET Extra
      BY <2>2, FoundTyped DEF FoundInv, FoundType
    <2>4. deps' \subseteq Dep
      BY <2>1, <2>3, DependenciesTyped
    <2>5. \A n \in Name : fetched'[n].pkgs # {} => fetched'[n].source # NoRequest
      <3>1. fetched' = [fetched EXCEPT ![f.name] =
              [source |-> IF fetched[f.name].source = NoRequest THEN f.request
                          ELSE fetched[f.name].source,
               pkgs |-> fetched[f.name].pkgs \cup {f.channel}]]
        BY <1>8 DEF RecordsArrive
      <3>2. \A n \in Name : n # f.name => fetched'[n] = fetched[n]
        BY <2>2, <3>1 DEF QueryInv, QueryType
      <3>3. fetched'[f.name].source # NoRequest
        BY <2>2, <3>1 DEF QueryInv, QueryType
      <3> QED
        BY <3>2, <3>3 DEF FoundInv, Sources
    <2>6. FoundType'
      BY <1>1, <2>1, <2>4 DEF FoundInv, FoundType
    <2>7. AskedFirst'
      BY <1>1, <2>1 DEF FoundInv, AskedFirst
    <2> QED
      BY <2>1, <2>5, <2>6, <2>7 DEF FoundInv, Sources
  <1>9. ASSUME NEW f \in inflight, RecordsFail(f) PROVE FoundInv'
    BY <1>3, <1>9 DEF RecordsFail, queryVars
  <1>10. CASE Complete
    BY <1>3, <1>10 DEF Complete, queryVars
  <1>11. ASSUME NEW d \in deps, QueueDependency(d) PROVE FoundInv'
    <2>1. d \in Dep /\ d.name \in Name /\ d.extras \in SUBSET Extra
      BY DEF FoundInv, FoundType, Dep
    <2>2. /\ fetched' = fetched /\ inflight' = inflight
          /\ active' = [active EXCEPT ![d.name] = @ \cup d.extras]
          /\ seen' = seen \cup {d.name}
      BY <1>11 DEF QueueDependency, IsNew
    <2>3. active' \in [Name -> SUBSET Extra] /\ \A n \in Name : active[n] \subseteq active'[n]
      BY <2>1, <2>2 DEF FoundInv, FoundType
    <2>4. d.extras \ active[d.name] \in SUBSET Extra
      BY <2>1
    <2>5. deps' \subseteq Dep
      <3>1. LateWalk(d.name, d.extras \ active[d.name]) \subseteq Dep
        BY <2>1, <2>4, LateWalkTyped
      <3> QED
        BY <1>11, <3>1 DEF QueueDependency, FoundInv, FoundType
    <2>6. FoundType'
      BY <1>1, <2>1, <2>2, <2>3, <2>5 DEF FoundInv, FoundType
    <2>7. AskedFirst'
      BY <1>1, <1>2, <2>2, <2>3 DEF FoundInv, AskedFirst
    <2> QED
      BY <2>2, <2>6, <2>7 DEF FoundInv, Sources
  <1> QED
    BY <1>4, <1>5, <1>6, <1>7, <1>8, <1>9, <1>10, <1>11 DEF Next, Step

\* Channels with a slot are within reach.
LEMMA SlotsAreWithin ==
  ASSUME ExpanderInv, QueryInv
  PROVE  handles \subseteq Within[MaxDepth]
  <1>1. /\ Setting /\ MaxDepth \in Nat /\ depth \in [Channel -> 0..(MaxDepth + 1)]
        /\ handles \subseteq Discovered
    BY ExpanderAssumption DEF ExpanderInv, ExpanderType, QueryInv, Slots
  <1>2. ASSUME NEW c \in Discovered PROVE c \in Within[MaxDepth]
    <2>1. depth[c] \in Nat /\ depth[c] <= MaxDepth
      BY <1>1 DEF Discovered
    <2>2. c \in Within[depth[c]]
      BY DEF ExpanderInv, Sound
    <2> QED
      BY <1>1, <2>1, <2>2, WithinGrows
  <1> QED
    BY <1>1, <1>2

\* The answer to a request that has a reason counts, ...
LEMMA AnswerCounts ==
  ASSUME NEW L, NEW n, NEW q, Justified(L, n, q), NEW c \in Channel, c \in Within[MaxDepth]
  PROVE  Matching(Found(c, n), q) \subseteq Counting(n, TRUE, L)
  <1> SUFFICES ASSUME NEW r \in Matching(Found(c, n), q)
               PROVE  r \in Counting(n, TRUE, L)
    OBVIOUS
  <1>1. r \in Found(c, n) /\ r \in Record /\ RecordName[r] = n
    BY QueryAssumption DEF Matching, Found
  <1>2. \/ Asked(n) = {}
        \/ PatternsFor(n) # {} /\ n \in L.deps
        \/ \E s \in Asked(n) : r \in SpecRecords[s]
    <2>1. CASE q = Transitive /\ n \in L.deps /\ ExactSpecs(n) = {}
      BY <2>1 DEF Asked
    <2>2. CASE q = Input(ExactSpecs(n))
      BY <2>2 DEF Asked, Matching, Input
    <2>3. CASE q = Input({FirstPattern(n)}) /\ PatternsFor(n) # {}
      BY <2>3 DEF Asked, Matching, Input
    <2> QED
      BY <2>1, <2>2, <2>3 DEF Justified
  <1> QED
    BY <1>1, <1>2 DEF Counting

\* ... and so do its dependencies.
LEMMA NeededHas ==
  ASSUME NEW L, NEW n \in L.names, NEW rs, rs \subseteq Counting(n, TRUE, L),
         NEW extras, extras \subseteq L.active[n]
  PROVE  DependenciesOf(rs, extras) \subseteq Needed(TRUE, L)
  <1>1. DependenciesOf(rs, extras) \subseteq DependenciesOf(Counting(n, TRUE, L), L.active[n])
    BY DependenciesGrow
  <1> QED
    BY <1>1 DEF Needed

\* The query begins.
LEMMA BoundBegins ==
  ASSUME Init, NEW L \in World, Bounding(L)
  PROVE  Bounded(L) /\ FoundBounded(L)
  <1>1. /\ seen = ExactNames /\ deps = {} /\ inflight = {}
        /\ wanted = [n \in Name |-> IF n \in ExactNames THEN Input(ExactSpecs(n)) ELSE NoRequest]
        /\ queued = [n \in Name |-> NoRequest]
        /\ active = [n \in Name |-> UNION {SpecExtras[s] : s \in ExactSpecs(n)}]
        /\ fetched = [n \in Name |-> [source |-> NoRequest, pkgs |-> {}]]
        /\ result = [c \in Channel |-> [r \in Record |-> 0]]
    BY DEF Init
  <1>2. ExactNames \subseteq L.names /\ \A n \in Name : Start.active[n] \subseteq L.active[n]
    BY DEF Bounding, Leq, Start
  <1>3. \A n \in Name : active[n] \subseteq Start.active[n]
    BY <1>1 DEF Start
  <1>4. \A n \in ExactNames : ExactSpecs(n) # {}
    BY DEF ExactNames
  <1>5. \A n \in Name : \A q \in {wanted[n], queued[n], fetched[n].source} :
          q # NoRequest => Justified(L, n, q)
    BY <1>1, <1>2, <1>4 DEF Justified
  <1>6. Bounded(L)
    BY <1>1, <1>2, <1>3, <1>5 DEF Bounded
  <1>7. \A c \in Channel, r \in Record : ~(result[c][r] > 0)
    BY <1>1
  <1> QED
    BY <1>6, <1>7 DEF FoundBounded

\* Spawning.
LEMMA BoundSpawns ==
  ASSUME QueryInv, NEW L \in World, Bounded(L), SpawnPackageFetches
  PROVE  Bounded(L)'
  <1>1. /\ seen' = seen /\ active' = active /\ deps' = deps /\ fetched' = fetched
        /\ specs' = specs /\ declares' = declares /\ broken' = broken
        /\ inflight' = inflight \cup Fetches(Wanted, wanted, handles)
        /\ queued' = [n \in Name |-> IF n \in Wanted THEN wanted[n] ELSE queued[n]]
        /\ wanted' = [n \in Name |-> NoRequest]
    BY DEF SpawnPackageFetches, expanderVars
  <1>2. /\ Needed(TRUE, L)' = Needed(TRUE, L)
        /\ \A n, q : Justified(L, n, q)' <=> Justified(L, n, q)
    BY <1>1, WorldKept
  <1>3. \A f \in Fetches(Wanted, wanted, handles) : Justified(L, f.name, f.request)
    <2>1. \A n \in Wanted : Justified(L, n, wanted[n])
      BY DEF Wanted, Bounded
    <2> QED
      BY <2>1 DEF Fetches
  <1>4. \A n \in Name : \A q \in {wanted'[n], queued'[n], fetched'[n].source} :
          q # NoRequest => q \in {wanted[n], queued[n], fetched[n].source}
    BY <1>1
  <1> QED
    BY <1>1, <1>2, <1>3, <1>4 DEF Bounded

\* A subdir arrives.
LEMMA BoundArrives ==
  ASSUME ExpanderInv, QueryInv, NEW L \in World, Bounding(L), Bounded(L),
         NEW c \in Channel, SubdirArrives(c)
  PROVE  Bounded(L)'
  <1>1. /\ queued' = queued /\ deps' = deps /\ fetched' = fetched /\ inflight' = inflight
        /\ specs' = specs /\ declares' = declares /\ broken' = broken /\ c \in pending
    BY DEF SubdirArrives, Arrived
  <1>2. /\ Needed(TRUE, L)' = Needed(TRUE, L)
        /\ \A n, q : Justified(L, n, q)' <=> Justified(L, n, q)
    BY <1>1, WorldKept
  <1>3. CASE UNCHANGED <<seen, wanted, active>>
    BY <1>1, <1>2, <1>3 DEF Bounded
  <1>4. CASE /\ seen' = seen \cup Expanded(c)
             /\ wanted' = [n \in Name |-> IF n \in Expanded(c) THEN Input({FirstPattern(n)})
                                          ELSE wanted[n]]
             /\ active' = [n \in Name |-> IF n \in Expanded(c)
                                          THEN active[n] \cup SpecExtras[FirstPattern(n)]
                                          ELSE active[n]]
    <2>1. c \in Within[MaxDepth]
      BY <1>1, SlotsAreWithin DEF QueryInv, Slots
    <2>2. ASSUME NEW n \in Expanded(c)
          PROVE  n \in Matched /\ n \in Name /\ PatternsFor(n) # {}
      <3>1. PatternsFor(n) # {} /\ n \in NamesIn(c) /\ n \in Name
        BY FoundTyped DEF Expanded
      <3>2. Found(c, n) # {}
        BY <3>1 DEF NamesIn, Found
      <3> QED
        BY <2>1, <3>1, <3>2 DEF Matched
    <2>3. Matched \subseteq L.names /\ \A n \in Name : Start.active[n] \subseteq L.active[n]
      BY DEF Bounding, Leq, Start
    <2>4. \A n \in Expanded(c) : SpecExtras[FirstPattern(n)] \subseteq L.active[n]
      <3>1. \A n \in Expanded(c) : SpecExtras[FirstPattern(n)] \subseteq Start.active[n]
        BY <2>2 DEF Start
      <3> QED
        BY <2>2, <2>3, <3>1
    <2>5. \A n \in Expanded(c) : Justified(L, n, Input({FirstPattern(n)}))
      BY <2>2, <2>3 DEF Justified
    <2>6. \A n \in Name : \A q \in {wanted'[n], queued'[n], fetched'[n].source} :
            q # NoRequest => Justified(L, n, q)
      BY <1>1, <1>4, <2>5 DEF Bounded
    <2>7. seen' \subseteq L.names /\ \A n \in Name : active'[n] \subseteq L.active[n]
      BY <1>4, <2>2, <2>3, <2>4 DEF Bounded
    <2> QED
      BY <1>1, <1>2, <2>6, <2>7 DEF Bounded
  <1> QED
    BY <1>3, <1>4 DEF SubdirArrives

\* New slots.
LEMMA BoundObserves ==
  ASSUME QueryInv, NEW L \in World, Bounded(L), ObserveRelations
  PROVE  Bounded(L)'
  <1> DEFINE names == {n \in Name : queued[n] # NoRequest}
             new == pending' \ pending
  <1>1. /\ seen' = seen /\ active' = active /\ deps' = deps /\ fetched' = fetched
        /\ specs' = specs /\ declares' = declares /\ broken' = broken
        /\ wanted' = wanted /\ queued' = queued
        /\ inflight' = inflight \cup Fetches(names, queued, new)
    BY DEF ObserveRelations, ScheduleAll, Relax
  <1>2. /\ Needed(TRUE, L)' = Needed(TRUE, L)
        /\ \A n, q : Justified(L, n, q)' <=> Justified(L, n, q)
    BY <1>1, WorldKept
  <1>3. \A f \in Fetches(names, queued, new) : Justified(L, f.name, f.request)
    <2>1. \A n \in names : Justified(L, n, queued[n])
      BY DEF Bounded
    <2> HIDE DEF names, new
    <2> QED
      BY <2>1 DEF Fetches
  <1> HIDE DEF names, new
  <1> QED
    BY <1>1, <1>2, <1>3 DEF Bounded

\* Records arrive.
LEMMA BoundRecords ==
  ASSUME ExpanderInv, QueryInv, NEW L \in World, Bounded(L), NEW f \in inflight, RecordsArrive(f)
  PROVE  Bounded(L)'
  <1> DEFINE M == Matching(Found(f.channel, f.name), f.request)
  <1>1. /\ seen' = seen /\ active' = active /\ wanted' = wanted /\ queued' = queued
        /\ specs' = specs /\ declares' = declares /\ broken' = broken
        /\ inflight' = inflight \ {f} /\ deps' = DependenciesOf(M, active[f.name])
        /\ fetched' = [fetched EXCEPT ![f.name] =
             [source |-> IF fetched[f.name].source = NoRequest THEN f.request
                         ELSE fetched[f.name].source,
              pkgs |-> fetched[f.name].pkgs \cup {f.channel}]]
    BY DEF RecordsArrive, expanderVars
  <1>2. /\ Needed(TRUE, L)' = Needed(TRUE, L)
        /\ \A n, q : Justified(L, n, q)' <=> Justified(L, n, q)
    BY <1>1, WorldKept
  <1>3. /\ f.name \in Name /\ f.channel \in Channel /\ f.channel \in Within[MaxDepth]
        /\ Justified(L, f.name, f.request) /\ f.name \in L.names
    BY SlotsAreWithin DEF QueryInv, QueryType, Bounded, Justified
  <1>4. M \subseteq Counting(f.name, TRUE, L)
    BY <1>3, AnswerCounts
  <1> HIDE DEF M
  <1>5. deps' \subseteq Needed(TRUE, L)
    BY <1>1, <1>3, <1>4, NeededHas DEF Bounded
  <1>6. \A n \in Name : fetched'[n].source # NoRequest =>
          Justified(L, n, fetched'[n].source)
    <2>1. \A n \in Name : n # f.name => fetched'[n].source = fetched[n].source
      BY <1>1, <1>3 DEF QueryInv, QueryType
    <2>2. fetched'[f.name].source \in {f.request, fetched[f.name].source}
      BY <1>1, <1>3 DEF QueryInv, QueryType
    <2> QED
      BY <1>3, <2>1, <2>2 DEF Bounded
  <1>7. \A n \in Name : \A q \in {wanted[n], queued[n]} : q # NoRequest => Justified(L, n, q)
    BY DEF Bounded
  <1>8. /\ seen \subseteq L.names /\ \A n \in Name : active[n] \subseteq L.active[n]
        /\ \A g \in inflight : Justified(L, g.name, g.request)
    BY DEF Bounded
  <1> QED
    BY <1>1, <1>2, <1>5, <1>6, <1>7, <1>8 DEF Bounded

\* What late_walk adds is needed.
LEMMA LateWalkNeeded ==
  ASSUME ExpanderInv, QueryInv, FoundInv, NEW L \in World, Bounded(L), NEW n \in Name,
         NEW extras, extras \subseteq L.active[n]
  PROVE  LateWalk(n, extras) \subseteq Needed(TRUE, L)
  <1>1. CASE fetched[n].pkgs = {}
    BY <1>1 DEF LateWalk
  <1>2. CASE fetched[n].pkgs # {}
    <2>1. Justified(L, n, fetched[n].source) /\ n \in L.names
      BY <1>2 DEF Bounded, FoundInv, Sources, Justified
    <2>2. fetched[n].pkgs \subseteq Channel /\ fetched[n].pkgs \subseteq Within[MaxDepth]
      BY SlotsAreWithin DEF QueryInv, QueryType, Slots
    <2> DEFINE R == UNION {Matching(Found(c, n), fetched[n].source) : c \in fetched[n].pkgs}
    <2>3. R \subseteq Counting(n, TRUE, L)
      BY <2>1, <2>2, AnswerCounts
    <2>4. LateWalk(n, extras) \subseteq DependenciesOf(R, extras)
      BY DEF LateWalk, DependenciesOf
    <2>5. DependenciesOf(R, extras) \subseteq Needed(TRUE, L)
      <3> HIDE DEF R
      <3> QED
        BY <2>1, <2>3, NeededHas
    <2> QED
      BY <2>4, <2>5
  <1> QED
    BY <1>1, <1>2

\* A dependency is queued.
LEMMA BoundQueues ==
  ASSUME ExpanderInv, QueryInv, FoundInv, NEW L \in World, Bounding(L), Bounded(L),
         NEW d \in deps, QueueDependency(d)
  PROVE  Bounded(L)'
  <1>1. /\ queued' = queued /\ fetched' = fetched /\ inflight' = inflight
        /\ specs' = specs /\ declares' = declares /\ broken' = broken
        /\ active' = [active EXCEPT ![d.name] = @ \cup d.extras]
        /\ seen' = seen \cup {d.name}
    BY DEF QueueDependency, IsNew, expanderVars
  <1>2. /\ Needed(TRUE, L)' = Needed(TRUE, L)
        /\ \A n, q : Justified(L, n, q)' <=> Justified(L, n, q)
    BY <1>1, WorldKept
  <1>3. /\ d \in Needed(TRUE, L) /\ d.name \in Name
        /\ d.name \in L.names /\ d.name \in L.deps /\ d.extras \subseteq L.active[d.name]
    BY DEF Bounded, Bounding, FoundInv, FoundType, Dep
  <1>4. deps' \subseteq Needed(TRUE, L)
    <2>1. d.extras \ active[d.name] \subseteq L.active[d.name]
      BY <1>3
    <2>2. LateWalk(d.name, d.extras \ active[d.name]) \subseteq Needed(TRUE, L)
      BY <1>3, <2>1, LateWalkNeeded
    <2> QED
      BY <2>2 DEF QueueDependency, Bounded
  <1>5. seen' \subseteq L.names /\ \A n \in Name : active'[n] \subseteq L.active[n]
    BY <1>1, <1>3 DEF Bounded, FoundInv, FoundType
  <1>6. \A n \in Name : wanted'[n] # NoRequest => Justified(L, n, wanted'[n])
    <2>1. CASE wanted' = wanted
      BY <2>1 DEF Bounded
    <2>2. CASE d.name \notin seen /\ wanted' = [wanted EXCEPT ![d.name] = Transitive]
      <3>1. ExactSpecs(d.name) = {}
        BY <1>3, <2>2 DEF FoundInv, AskedFirst, ExactNames
      <3>2. Justified(L, d.name, Transitive)
        BY <1>3, <3>1 DEF Justified
      <3>3. \A n \in Name : wanted'[n] = IF n = d.name THEN Transitive ELSE wanted[n]
        BY <1>3, <2>2 DEF QueryInv, QueryType
      <3> QED
        BY <3>2, <3>3 DEF Bounded
    <2> QED
      BY <2>1, <2>2 DEF QueueDependency, IsNew
  <1>7. \A n \in Name : \A q \in {queued[n], fetched[n].source} :
          q # NoRequest => Justified(L, n, q)
    BY DEF Bounded
  <1>8. \A g \in inflight : Justified(L, g.name, g.request)
    BY DEF Bounded
  <1> QED
    BY <1>1, <1>2, <1>4, <1>5, <1>6, <1>7, <1>8 DEF Bounded

\* Every step.
LEMMA BoundedStep ==
  ASSUME ExpanderInv, QueryInv, FoundInv, NEW L \in World, Bounding(L), Bounded(L), [Next]_vars
  PROVE  Bounded(L)'
  <1>0. specs' = specs /\ declares' = declares /\ broken' = broken
    BY Fixed
  <1>1. /\ Needed(TRUE, L)' = Needed(TRUE, L)
        /\ \A n, q : Justified(L, n, q)' <=> Justified(L, n, q)
    BY <1>0, WorldKept
  <1>2. CASE UNCHANGED queryVars
    BY <1>1, <1>2 DEF Bounded, queryVars
  <1>3. CASE UNCHANGED vars
    BY <1>2, <1>3 DEF vars
  <1>4. CASE SpawnPackageFetches
    BY <1>4, BoundSpawns
  <1>5. CASE ObserveRelations
    BY <1>5, BoundObserves
  <1>6. ASSUME NEW c \in Channel, SubdirArrives(c) PROVE Bounded(L)'
    BY <1>6, BoundArrives
  <1>7. ASSUME NEW f \in inflight, RecordsArrive(f) PROVE Bounded(L)'
    BY <1>7, BoundRecords
  <1>8. ASSUME NEW f \in inflight, RecordsFail(f) PROVE Bounded(L)'
    BY <1>2, <1>8 DEF RecordsFail
  <1>9. ASSUME NEW d \in deps, QueueDependency(d) PROVE Bounded(L)'
    BY <1>9, BoundQueues
  <1>10. CASE Complete
    BY <1>2, <1>10 DEF Complete
  <1> QED
    BY <1>3, <1>4, <1>5, <1>6, <1>7, <1>8, <1>9, <1>10 DEF Next, Step

\* What accumulate_records counts.
LEMMA AccumulateIs ==
  ASSUME QueryInv, NEW f \in inflight, RecordsArrive(f)
  PROVE  \A c \in Channel, r \in Record :
           result'[c][r] = IF c = f.channel /\ r \in Matching(Found(f.channel, f.name), f.request)
                           THEN result[c][r] + 1 ELSE result[c][r]
  <1> DEFINE M == Matching(Found(f.channel, f.name), f.request)
             row == [r \in Record |-> IF r \in M THEN result[f.channel][r] + 1
                                      ELSE result[f.channel][r]]
  <1>1. result' = [result EXCEPT ![f.channel] = row]
    BY DEF RecordsArrive, Accumulate
  <1>2. result \in [Channel -> [Record -> Nat]] /\ f.channel \in Channel
    BY DEF QueryInv, QueryType
  <1> HIDE DEF M
  <1>3. \A r \in Record : row[r] = IF r \in M THEN result[f.channel][r] + 1
                                   ELSE result[f.channel][r]
    OBVIOUS
  <1> HIDE DEF row
  <1>4. \A c \in Channel : result'[c] = IF c = f.channel THEN row ELSE result[c]
    BY <1>1, <1>2
  <1>5. \A c \in Channel, r \in Record :
          result'[c][r] = IF c = f.channel /\ r \in M THEN result[c][r] + 1 ELSE result[c][r]
    BY <1>3, <1>4
  <1> QED
    BY <1>5 DEF M

\* Only RecordsArrive changes the result.
LEMMA ResultKept ==
  ASSUME [Next]_vars
  PROVE  result' = result \/ \E f \in inflight : RecordsArrive(f)
  BY DEF Next, Step, vars, queryVars, SpawnPackageFetches, ObserveRelations, SubdirArrives,
         RecordsFail, QueueDependency, Complete

\* Nothing is found that does not belong to L.
LEMMA FoundBoundedStep ==
  ASSUME ExpanderInv, QueryInv, NEW L \in World, Bounded(L), FoundBounded(L), [Next]_vars
  PROVE  FoundBounded(L)'
  <1>0. specs' = specs /\ declares' = declares /\ broken' = broken
    BY Fixed
  <1>1. /\ \A c, n : Found(c, n)' = Found(c, n)
        /\ \A n : Counting(n, TRUE, L)' = Counting(n, TRUE, L)
    BY <1>0, WorldKept
  <1>2. CASE result' = result
    BY <1>1, <1>2 DEF FoundBounded
  <1>3. ASSUME NEW f \in inflight, RecordsArrive(f) PROVE FoundBounded(L)'
    <2>1. /\ f.name \in Name /\ f.channel \in Channel /\ f.channel \in Within[MaxDepth]
          /\ Justified(L, f.name, f.request) /\ f.name \in L.names
      BY SlotsAreWithin DEF QueryInv, QueryType, Bounded, Justified
    <2> DEFINE M == Matching(Found(f.channel, f.name), f.request)
    <2>2. M \subseteq Counting(f.name, TRUE, L) /\ M \subseteq Found(f.channel, f.name)
      BY <2>1, AnswerCounts, FoundTyped
    <2>3. \A r \in M : RecordName[r] = f.name
      BY <2>2 DEF Found
    <2>4. \A c \in Channel, r \in Record :
            result'[c][r] = result[c][r] \/ (c = f.channel /\ r \in M)
      BY <1>3, AccumulateIs
    <2> HIDE DEF M
    <2> SUFFICES ASSUME NEW c \in Channel, NEW r \in Record, result'[c][r] > 0
                 PROVE  /\ r \in Found(c, RecordName[r]) /\ RecordName[r] \in L.names
                        /\ r \in Counting(RecordName[r], TRUE, L)
      BY <1>1 DEF FoundBounded
    <2>5. CASE result'[c][r] = result[c][r]
      BY <2>5 DEF FoundBounded
    <2>6. CASE c = f.channel /\ r \in M
      BY <2>1, <2>2, <2>3, <2>6
    <2> QED
      BY <2>4, <2>5, <2>6
  <1> QED
    BY <1>2, <1>3, ResultKept

\* Every step.
LEMMA BoundStep ==
  ASSUME ExpanderInv, QueryInv, FoundInv, BoundInv, [Next]_vars
  PROVE  BoundInv'
  <1>1. specs' = specs /\ declares' = declares /\ broken' = broken
    BY Fixed
  <1>2. ASSUME NEW L \in World, Bounding(L)' PROVE Bounded(L)' /\ FoundBounded(L)'
    <2>1. Bounding(L)
      BY <1>1, <1>2, WorldKept
    <2>2. Bounded(L) /\ FoundBounded(L)
      BY <2>1 DEF BoundInv
    <2> QED
      BY <2>1, <2>2, BoundedStep, FoundBoundedStep
  <1> QED
    BY <1>2 DEF BoundInv, World

\* What is reached bounds a query.
LEMMA ReachedBounds ==
  ASSUME SpecsTyped
  PROVE  Reached(TRUE) \in World /\ Bounding(Reached(TRUE))
  <1> DEFINE L == Reached(TRUE)
  <1>1. L \in World /\ Leq(Start, L) /\ Grow(TRUE, L) = L
    BY ReachedIsClosed
  <1> HIDE DEF L
  <1>2. ASSUME NEW d \in Needed(TRUE, L)
        PROVE  d.name \in L.names /\ d.name \in L.deps /\ d.extras \subseteq L.active[d.name]
    <2>1. Grow(TRUE, L).names = L.names /\ Grow(TRUE, L).deps = L.deps
          /\ Grow(TRUE, L).active = L.active
      BY <1>1
    <2>2. d.name \in Grow(TRUE, L).names /\ d.name \in Grow(TRUE, L).deps
      BY DEF Grow
    <2>3. d.name \in Name
      <3>1. d \in Dep
        BY <1>1, NeededTyped
      <3> QED
        BY <3>1 DEF Dep
    <2>4. d.extras \subseteq Grow(TRUE, L).active[d.name]
      BY <2>3 DEF Grow
    <2> QED
      BY <2>1, <2>2, <2>4
  <1>3. Bounding(L)
    BY <1>1, <1>2 DEF Bounding
  <1> QED
    BY <1>1, <1>3 DEF L

\* What a query finds is there, and counts.
NothingElse ==
  \A c \in Channel, r \in Record :
    result[c][r] > 0 => r \in Found(c, RecordName[r]) /\ r \in Closure(TRUE)

LEMMA NothingElseIsFound ==
  ASSUME FoundInv, BoundInv
  PROVE  NothingElse
  <1> DEFINE L == Reached(TRUE)
  <1>1. L \in World /\ Bounding(L)
    BY ReachedBounds DEF FoundInv, FoundType
  <1>2. Closure(TRUE) = UNION {Counting(n, TRUE, L) : n \in L.names}
    BY DEF Closure
  <1> HIDE DEF L
  <1>3. FoundBounded(L)
    BY <1>1 DEF BoundInv
  <1> QED
    BY <1>2, <1>3 DEF FoundBounded, NothingElse

\* Names, dependencies and extras keep their types, the names that were asked
\* for are known with their extras, and answers belong to requests.
THEOREM FoundInvariant == Spec => []FoundInv
  <1>1. Init => FoundInv
    BY FoundBegins
  <1>2. QueryInv /\ FoundInv /\ [Next]_vars => FoundInv'
    BY FoundStep
  <1> QED
    BY <1>1, <1>2, QueryInvariant, PTL DEF Spec

\* Whatever arrives in whatever order, and also while a query is under way,
\* only records are accumulated that are in the channel and that the query asks
\* for or depends on.
THEOREM NothingElseIsReported == Spec => []NothingElse
  <1>1. Init => BoundInv
    BY BoundBegins DEF BoundInv
  <1>2. ExpanderInv /\ QueryInv /\ FoundInv /\ BoundInv /\ [Next]_vars => BoundInv'
    BY BoundStep
  <1>3. FoundInv /\ BoundInv => NothingElse
    BY NothingElseIsFound
  <1> QED
    BY <1>1, <1>2, <1>3, ExpanderInvariant, QueryInvariant, FoundInvariant, PTL DEF Spec

\* A request that is full finds what must be found.
LEMMA FullFinds ==
  ASSUME NEW n, NEW q, Full(n, q), NEW c
  PROVE  MustHave(c, n) \subseteq Matching(Found(c, n), q)
  <1>1. CASE q = Transitive
    BY <1>1 DEF MustHave, Matching, Transitive
  <1>2. CASE q.kind = "input" /\ Asked(n) # {} /\ Asked(n) \subseteq q.specs
    BY <1>2 DEF MustHave, Matching
  <1> QED
    BY <1>1, <1>2 DEF Full

\* Requests for what is asked for are full.
LEMMA InputsAreFull ==
  ASSUME Unmixed, NEW n \in Name
  PROVE  /\ ExactSpecs(n) # {} => Full(n, Input(ExactSpecs(n)))
         /\ PatternsFor(n) # {} => Full(n, Input({FirstPattern(n)}))
  BY DEF Unmixed, Full, Asked, Input

\* The absence of a request.
LEMMA NoRequestIs ==
  Transitive # NoRequest /\ \A ss : Input(ss) # NoRequest
  BY DEF Transitive, NoRequest, Input

\* What a round of relax makes known is scheduled, or is about to be.
LEMMA NewIsScheduled ==
  ASSUME ExpanderInv, Relax
  PROVE  (Discovered' \ Discovered) \cup fresh \subseteq fresh' \cup pending'
  <1> DEFINE c == Last(worklist)
             y == Relaxed(c)
             N == NextDepth(c)
             R == Due(c)
  <1>1. CASE UNCHANGED <<depth, fresh, pending>>
    BY <1>1 DEF Discovered
  <1>2. CASE /\ depth' = y.depth
             /\ IF y.worklist = <<>> THEN pending' = pending \cup y.fresh /\ fresh' = {}
                ELSE UNCHANGED pending /\ fresh' = y.fresh
    <2>1. Followed(y, c, R) /\ c \in Channel /\ depth \in [Channel -> 0..(MaxDepth + 1)]
          /\ MaxDepth \in Nat
      BY RelaxedIs, ExpanderAssumption DEF ExpanderInv, ExpanderType, Relax
    <2> HIDE DEF c, y, R
    <2>2. y.fresh = fresh \cup {r.target : r \in {q \in R : depth[q.target] > MaxDepth}}
      BY <2>1 DEF Followed
    <2>3. \A d \in Channel : depth'[d] = depth[d] \/ \E r \in R : r.target = d
      BY <1>2, <2>1 DEF Followed
    <2>4. ASSUME NEW d \in Discovered', d \notin Discovered PROVE d \in y.fresh
      <3>1. d \in Channel /\ depth'[d] <= MaxDepth /\ ~(depth[d] <= MaxDepth)
        BY <2>4 DEF Discovered
      <3>2. depth[d] \in Int /\ depth[d] > MaxDepth
        BY <2>1, <3>1
      <3>3. \E r \in R : r.target = d
        BY <2>3, <3>1
      <3> QED
        BY <2>2, <3>2, <3>3
    <2>5. y.fresh \subseteq fresh' \cup pending'
      BY <1>2
    <2> QED
      BY <2>2, <2>4, <2>5
  <1> QED
    BY <1>1, <1>2 DEF Relax

\* The query begins.
LEMMA CompleteBegins ==
  ASSUME Init, Unmixed
  PROVE  CompleteInv
  <1>0. ExpanderInv
    BY ExpanderBegins DEF Init
  <1>1. /\ seen = ExactNames /\ deps = {} /\ inflight = {} /\ patternSeen = {}
        /\ wanted = [n \in Name |-> IF n \in ExactNames THEN Input(ExactSpecs(n)) ELSE NoRequest]
        /\ queued = [n \in Name |-> NoRequest]
        /\ fetched = [n \in Name |-> [source |-> NoRequest, pkgs |-> {}]]
        /\ handles = pending /\ pending = ToSet(UserChannels) /\ outcome = "running"
        /\ depth = [c \in Channel |-> IF IsUser(c) THEN 0 ELSE MaxDepth + 1]
    BY DEF Init, ExpanderInit
  <1>2. \A n \in ExactNames : n \in Name /\ ExactSpecs(n) # {}
    BY DEF ExactNames
  <1>3. Requests
    <2>1. \A n \in Name : wanted[n] # NoRequest => Full(n, wanted[n])
      BY <1>1, <1>2, InputsAreFull
    <2> QED
      BY <1>1, <2>1 DEF Requests
  <1>4. Everywhere
    BY <1>1, <1>2, NoRequestIs DEF Everywhere
  <1>5. Answered
    BY <1>1 DEF Answered
  <1>6. Patterns
    BY <1>1 DEF Patterns
  <1>7. AllSlots
    <2>1. Discovered \subseteq pending
      BY <1>1, ExpanderAssumption DEF Discovered, IsUser
    <2> QED
      BY <1>1, <2>1 DEF AllSlots
  <1> QED
    BY <1>3, <1>4, <1>5, <1>6, <1>7 DEF CompleteInv

\* Fetches are spawned.
LEMMA CompleteSpawns ==
  ASSUME QueryInv, CompleteInv, SpawnPackageFetches
  PROVE  CompleteInv'
  <1>1. /\ seen' = seen /\ active' = active /\ deps' = deps /\ fetched' = fetched
        /\ specs' = specs /\ declares' = declares /\ broken' = broken
        /\ handles' = handles /\ patternSeen' = patternSeen /\ result' = result
        /\ pending' = pending /\ fresh' = fresh /\ depth' = depth
        /\ outcome' = outcome /\ outcome = "running"
        /\ inflight' = inflight \cup Fetches(Wanted, wanted, handles)
        /\ queued' = [n \in Name |-> IF n \in Wanted THEN wanted[n] ELSE queued[n]]
        /\ wanted' = [n \in Name |-> NoRequest]
    BY DEF SpawnPackageFetches, expanderVars
  <1>2. /\ Unmixed' /\ \A n, q : Full(n, q)' <=> Full(n, q)
        /\ \A n : PatternsFor(n)' = PatternsFor(n) /\ FirstPattern(n)' = FirstPattern(n)
        /\ \A c : NamesIn(c)' = NamesIn(c)
        /\ \A c, n : MustHave(c, n)' = MustHave(c, n)
    BY <1>1, WorldKept DEF CompleteInv
  <1>3. \A n \in Name : n \in Wanted <=> wanted[n] # NoRequest
    BY DEF Wanted
  <1>4. ASSUME NEW f \in Fetches(Wanted, wanted, handles)
        PROVE  f.name \in Wanted /\ f.request = wanted[f.name] /\ f.channel \in handles
    BY DEF Fetches
  <1>5. ASSUME NEW n \in Wanted, NEW c \in handles
        PROVE  OnTheWay(n, c)'
    <2> DEFINE f == [name |-> n, request |-> wanted[n], channel |-> c]
    <2>1. f \in inflight' /\ f.name = n /\ f.channel = c
      BY <1>1 DEF Fetches
    <2> QED
      BY <2>1 DEF OnTheWay
  <1>6. \A n, c : OnTheWay(n, c) => OnTheWay(n, c)'
    BY <1>1 DEF OnTheWay
  <1>7. Requests'
    <2>1. \A n \in Name : \A q \in {wanted'[n], queued'[n], fetched'[n].source} :
            q # NoRequest => q \in {wanted[n], queued[n], fetched[n].source}
      BY <1>1
    <2>2. \A f \in Fetches(Wanted, wanted, handles) : Full(f.name, f.request)
      BY <1>3, <1>4 DEF CompleteInv, Requests, Wanted
    <2> QED
      BY <1>1, <1>2, <2>1, <2>2 DEF CompleteInv, Requests
  <1>8. Everywhere'
    <2>1. \A n \in Name : queued'[n] # NoRequest <=> wanted[n] # NoRequest \/ queued[n] # NoRequest
      BY <1>1, <1>3
    <2>2. \A n \in Name : wanted'[n] = NoRequest
      BY <1>1
    <2>3. \A n \in Name : n \in seen' <=> wanted'[n] # NoRequest \/ queued'[n] # NoRequest
      BY <1>1, <2>1, <2>2 DEF CompleteInv, Everywhere
    <2>4. \A n \in Name : queued'[n] = NoRequest => fetched'[n].pkgs = {}
      BY <1>1, <2>1 DEF CompleteInv, Everywhere
    <2>5. \A f \in inflight' : queued'[f.name] # NoRequest
      <3>1. \A f \in inflight : f.name \in Name /\ queued[f.name] # NoRequest
        BY DEF CompleteInv, Everywhere, QueryInv, QueryType
      <3>2. \A f \in Fetches(Wanted, wanted, handles) :
              f.name \in Name /\ wanted[f.name] # NoRequest
        BY <1>4 DEF Wanted
      <3> QED
        BY <1>1, <2>1, <3>1, <3>2
    <2>6. ASSUME NEW n \in Name, NEW c \in handles, queued'[n] # NoRequest
          PROVE  c \in fetched[n].pkgs \/ OnTheWay(n, c)'
      <3>1. CASE n \in Wanted
        BY <1>5, <3>1
      <3>2. CASE n \notin Wanted
        <4>1. queued[n] # NoRequest
          BY <1>3, <2>1, <2>6, <3>2
        <4> QED
          BY <1>6, <4>1 DEF CompleteInv, Everywhere
      <3> QED
        BY <3>1, <3>2
    <2> QED
      BY <1>1, <2>3, <2>4, <2>5, <2>6 DEF Everywhere
  <1>9. Answered'
    <2> SUFFICES ASSUME NEW n \in Name, NEW c \in fetched[n].pkgs
                 PROVE  /\ \A r \in MustHave(c, n) : result[c][r] > 0
                        /\ \/ OnTheWay(n, c)'
                           \/ \A d \in DependenciesOf(MustHave(c, n), active[n]) :
                                d \in deps \/ Met(d)'
      BY <1>1, <1>2 DEF Answered, DependenciesOf
    <2>1. \A d : Met(d)' <=> Met(d)
      BY <1>1 DEF Met
    <2>2. c \in handles
      BY DEF QueryInv, Slots
    <2>3. /\ \A r \in MustHave(c, n) : result[c][r] > 0
          /\ wanted[n] # NoRequest \/ OnTheWay(n, c) \/
               \A d \in DependenciesOf(MustHave(c, n), active[n]) : d \in deps \/ Met(d)
      BY DEF CompleteInv, Answered
    <2> QED
      BY <1>3, <1>5, <1>6, <2>1, <2>2, <2>3
  <1>10. Patterns'
    BY <1>1, <1>2 DEF CompleteInv, Patterns
  <1>11. AllSlots'
    BY <1>1 DEF CompleteInv, AllSlots, Discovered
  <1> QED
    BY <1>2, <1>7, <1>8, <1>9, <1>10, <1>11 DEF CompleteInv

\* A subdir arrives.
LEMMA CompleteArrives ==
  ASSUME QueryInv, FoundInv, CompleteInv, NEW c \in Channel, SubdirArrives(c)
  PROVE  CompleteInv'
  <1>1. /\ queued' = queued /\ deps' = deps /\ fetched' = fetched /\ inflight' = inflight
        /\ specs' = specs /\ declares' = declares /\ broken' = broken
        /\ handles' = handles /\ result' = result
        /\ pending' = pending \ {c} /\ fresh' = fresh /\ depth' = depth
        /\ outcome = "running" /\ outcome' # "done"
    BY DEF SubdirArrives, Arrived, Waiting
  <1>2. /\ Unmixed' /\ \A n, q : Full(n, q)' <=> Full(n, q)
        /\ \A n : PatternsFor(n)' = PatternsFor(n) /\ FirstPattern(n)' = FirstPattern(n)
        /\ \A d : NamesIn(d)' = NamesIn(d)
        /\ \A d, n : MustHave(d, n)' = MustHave(d, n)
    BY <1>1, WorldKept DEF CompleteInv
  <1>3. \A n, d : OnTheWay(n, d)' <=> OnTheWay(n, d)
    BY <1>1 DEF OnTheWay
  <1>4. Discovered' = Discovered
    BY <1>1 DEF Discovered
  <1>5. AllSlots'
    BY <1>1, <1>4 DEF CompleteInv, AllSlots
  <1>6. CASE outcome' = "failed" /\ UNCHANGED <<seen, wanted, active, patternSeen>>
    <2>1. Requests'
      BY <1>1, <1>2, <1>6 DEF CompleteInv, Requests
    <2>2. Everywhere'
      BY <1>1, <1>3, <1>6 DEF CompleteInv, Everywhere
    <2>3. Answered'
      <3>1. \A d : Met(d)' <=> Met(d)
        BY <1>6 DEF Met
      <3> QED
        BY <1>1, <1>2, <1>3, <1>6, <3>1 DEF CompleteInv, Answered, DependenciesOf
    <2>4. Patterns'
      BY <1>1, <1>2, <1>6 DEF CompleteInv, Patterns
    <2> QED
      BY <1>2, <1>5, <2>1, <2>2, <2>3, <2>4 DEF CompleteInv
  <1>7. CASE /\ seen' = seen \cup Expanded(c)
             /\ wanted' = [n \in Name |-> IF n \in Expanded(c) THEN Input({FirstPattern(n)})
                                          ELSE wanted[n]]
             /\ active' = [n \in Name |-> IF n \in Expanded(c)
                                          THEN active[n] \cup SpecExtras[FirstPattern(n)]
                                          ELSE active[n]]
             /\ patternSeen' = IF specs \cap IsPattern = {} THEN patternSeen
                               ELSE patternSeen \cup NamesIn(c)
    <2>1. /\ Expanded(c) \subseteq Name /\ \A n \in Expanded(c) : PatternsFor(n) # {}
          /\ NamesIn(c) \subseteq Name
      BY FoundTyped DEF Expanded
    <2>2. \A n \in Name : /\ active[n] \subseteq active'[n]
                          /\ n \notin Expanded(c) => active'[n] = active[n]
      BY <1>7
    <2>3. \A n \in Name : wanted'[n] = IF n \in Expanded(c) THEN Input({FirstPattern(n)})
                                       ELSE wanted[n]
      BY <1>7
    <2>4. Requests'
      <3>1. \A n \in Name : wanted'[n] # NoRequest => Full(n, wanted'[n])
        BY <2>1, <2>3, InputsAreFull DEF CompleteInv, Requests
      <3>2. \A n \in Name : \A q \in {queued[n], fetched[n].source} :
              q # NoRequest => Full(n, q)
        BY DEF CompleteInv, Requests
      <3>3. \A f \in inflight : Full(f.name, f.request)
        BY DEF CompleteInv, Requests
      <3> QED
        BY <1>1, <1>2, <3>1, <3>2, <3>3 DEF Requests
    <2>5. Everywhere'
      <3>1. \A n \in Name : n \in seen' <=> wanted'[n] # NoRequest \/ queued'[n] # NoRequest
        BY <1>1, <1>7, <2>1, <2>3, NoRequestIs DEF CompleteInv, Everywhere
      <3> QED
        BY <1>1, <1>3, <3>1 DEF CompleteInv, Everywhere
    <2>6. Answered'
      <3> SUFFICES ASSUME NEW n \in Name, NEW d \in fetched[n].pkgs
                   PROVE  /\ \A r \in MustHave(d, n) : result[d][r] > 0
                          /\ \/ wanted'[n] # NoRequest \/ OnTheWay(n, d)
                             \/ \A e \in DependenciesOf(MustHave(d, n), active'[n]) :
                                  e \in deps \/ Met(e)'
        BY <1>1, <1>2, <1>3 DEF Answered, DependenciesOf
      <3>1. \A e \in Dep : Met(e) => Met(e)'
        BY <1>7, <2>2 DEF Met, Dep
      <3>2. DependenciesOf(MustHave(d, n), active[n]) \subseteq Dep
        <4>1. d \in Channel
          BY DEF QueryInv, QueryType, Slots
        <4>2. MustHave(d, n) \in SUBSET Record /\ active[n] \in SUBSET Extra
          BY <4>1, FoundTyped DEF MustHave, FoundInv, FoundType
        <4> QED
          BY <4>2, DependenciesTyped
      <3>3. /\ \A r \in MustHave(d, n) : result[d][r] > 0
            /\ \/ wanted[n] # NoRequest \/ OnTheWay(n, d)
               \/ \A e \in DependenciesOf(MustHave(d, n), active[n]) : e \in deps \/ Met(e)
        BY DEF CompleteInv, Answered
      <3>4. CASE n \in Expanded(c)
        BY <2>3, <3>3, <3>4, NoRequestIs
      <3>5. CASE n \notin Expanded(c)
        <4>1. wanted'[n] = wanted[n] /\ active'[n] = active[n]
          BY <2>2, <2>3, <3>5
        <4> QED
          BY <3>1, <3>2, <3>3, <4>1
      <3> QED
        BY <3>4, <3>5
    <2>7. Patterns'
      <3>1. ASSUME NEW n \in patternSeen', PatternsFor(n) # {}
            PROVE  n \in seen' /\ SpecExtras[FirstPattern(n)] \subseteq active'[n]
        <4>1. CASE n \in patternSeen
          <5>1. n \in seen /\ SpecExtras[FirstPattern(n)] \subseteq active[n] /\ n \in Name
            BY <3>1, <4>1 DEF CompleteInv, Patterns, FoundInv, FoundType
          <5> QED
            BY <1>7, <2>2, <5>1
        <4>2. CASE n \notin patternSeen
          <5>1. n \in NamesIn(c)
            BY <1>7, <3>1, <4>2
          <5>2. n \in Expanded(c)
            BY <3>1, <4>2, <5>1 DEF Expanded
          <5> QED
            BY <1>7, <2>1, <5>2
        <4> QED
          BY <4>1, <4>2
      <3>2. ASSUME NEW d \in handles \ pending', NEW n \in NamesIn(d), PatternsFor(n) # {}
            PROVE  n \in patternSeen'
        <4>1. specs \cap IsPattern # {}
          BY <3>2 DEF PatternsFor
        <4>2. patternSeen' = patternSeen \cup NamesIn(c)
          BY <1>7, <4>1
        <4>3. d = c \/ n \in patternSeen
          BY <1>1, <3>2 DEF CompleteInv, Patterns
        <4> QED
          BY <4>2, <4>3
      <3> QED
        BY <1>1, <1>2, <3>1, <3>2 DEF Patterns
    <2> QED
      BY <1>2, <1>5, <2>4, <2>5, <2>6, <2>7 DEF CompleteInv
  <1> QED
    BY <1>6, <1>7 DEF SubdirArrives

\* Relations are observed.
LEMMA CompleteObserves ==
  ASSUME ExpanderInv, QueryInv, CompleteInv, ObserveRelations
  PROVE  CompleteInv'
  <1> DEFINE names == {n \in Name : queued[n] # NoRequest}
             new == pending' \ pending
  <1>1. /\ seen' = seen /\ active' = active /\ deps' = deps /\ fetched' = fetched
        /\ specs' = specs /\ declares' = declares /\ broken' = broken
        /\ wanted' = wanted /\ queued' = queued /\ patternSeen' = patternSeen /\ result' = result
        /\ outcome = "running" /\ outcome' # "done"
        /\ handles' = handles \cup pending'
        /\ inflight' = inflight \cup Fetches(names, queued, new)
    BY DEF ObserveRelations, ScheduleAll, Relax
  <1>2. /\ Unmixed' /\ \A n, q : Full(n, q)' <=> Full(n, q)
        /\ \A n : PatternsFor(n)' = PatternsFor(n) /\ FirstPattern(n)' = FirstPattern(n)
        /\ \A d : NamesIn(d)' = NamesIn(d)
        /\ \A d, n : MustHave(d, n)' = MustHave(d, n)
    BY <1>1, WorldKept DEF CompleteInv
  <1>3. /\ pending \subseteq pending' /\ pending \subseteq handles
        /\ (Discovered' \ Discovered) \cup fresh \subseteq fresh' \cup pending'
    BY ScheduledIsNew, NewIsScheduled DEF ObserveRelations, QueryInv, Slots
  <1>4. ASSUME NEW n \in names, NEW c \in new
        PROVE  OnTheWay(n, c)'
    <2> DEFINE f == [name |-> n, request |-> queued[n], channel |-> c]
    <2> HIDE DEF names, new
    <2>1. f \in inflight' /\ f.name = n /\ f.channel = c
      BY <1>1 DEF Fetches
    <2> QED
      BY <2>1 DEF OnTheWay
  <1>5. \A n, c : OnTheWay(n, c) => OnTheWay(n, c)'
    BY <1>1 DEF OnTheWay
  <1>6. \A f \in Fetches(names, queued, new) :
          f.name \in Name /\ queued[f.name] # NoRequest /\ f.request = queued[f.name]
    BY DEF Fetches
  <1>7. Requests'
    <2>1. \A f \in Fetches(names, queued, new) : Full(f.name, f.request)
      BY <1>6 DEF CompleteInv, Requests
    <2> HIDE DEF names, new
    <2> QED
      BY <1>1, <1>2, <2>1 DEF CompleteInv, Requests
  <1>8. Everywhere'
    <2>1. ASSUME NEW n \in Name, NEW c \in handles', queued[n] # NoRequest
          PROVE  c \in fetched[n].pkgs \/ OnTheWay(n, c)'
      <3>1. CASE c \in handles
        BY <1>5, <2>1, <3>1 DEF CompleteInv, Everywhere
      <3>2. CASE c \notin handles
        <4>1. c \in new /\ n \in names
          BY <1>1, <1>3, <2>1, <3>2
        <4> QED
          BY <1>4, <4>1
      <3> QED
        BY <3>1, <3>2
    <2>2. \A f \in inflight' : queued[f.name] # NoRequest
      <3> HIDE DEF names, new
      <3> QED
        BY <1>1, <1>6 DEF CompleteInv, Everywhere
    <2> QED
      BY <1>1, <2>1, <2>2 DEF CompleteInv, Everywhere
  <1>9. Answered'
    <2>1. \A d : Met(d)' <=> Met(d)
      BY <1>1 DEF Met
    <2> QED
      BY <1>1, <1>2, <1>5, <2>1 DEF CompleteInv, Answered, DependenciesOf
  <1>10. Patterns'
    <2>1. handles' \ pending' \subseteq handles \ pending
      BY <1>1, <1>3
    <2>2. \A c \in handles \ pending : \A n \in NamesIn(c) :
            PatternsFor(n) # {} => n \in patternSeen
      BY <1>1 DEF CompleteInv, Patterns
    <2> QED
      BY <1>1, <1>2, <2>1, <2>2 DEF CompleteInv, Patterns
  <1>11. AllSlots'
    BY <1>1, <1>3 DEF CompleteInv, AllSlots
  <1> QED
    BY <1>2, <1>7, <1>8, <1>9, <1>10, <1>11 DEF CompleteInv

\* A dependency is queued.
LEMMA CompleteQueues ==
  ASSUME QueryInv, FoundInv, CompleteInv, NEW d \in deps, QueueDependency(d)
  PROVE  CompleteInv'
  <1>1. /\ queued' = queued /\ fetched' = fetched /\ inflight' = inflight
        /\ specs' = specs /\ declares' = declares /\ broken' = broken
        /\ handles' = handles /\ patternSeen' = patternSeen /\ result' = result
        /\ pending' = pending /\ fresh' = fresh /\ depth' = depth
        /\ outcome' = outcome /\ outcome = "running"
        /\ active' = [active EXCEPT ![d.name] = @ \cup d.extras]
        /\ seen' = seen \cup {d.name}
    BY DEF QueueDependency, IsNew, expanderVars
  <1>2. /\ Unmixed' /\ \A n, q : Full(n, q)' <=> Full(n, q)
        /\ \A n : PatternsFor(n)' = PatternsFor(n) /\ FirstPattern(n)' = FirstPattern(n)
        /\ \A c : NamesIn(c)' = NamesIn(c)
        /\ \A c, n : MustHave(c, n)' = MustHave(c, n)
    BY <1>1, WorldKept DEF CompleteInv
  <1>3. d \in Dep /\ d.name \in Name /\ d.extras \subseteq Extra
    BY DEF FoundInv, FoundType, Dep
  <1>4. \A n, c : OnTheWay(n, c)' <=> OnTheWay(n, c)
    BY <1>1 DEF OnTheWay
  <1>5. \A n \in Name : active'[n] = IF n = d.name THEN active[n] \cup d.extras ELSE active[n]
    BY <1>1, <1>3 DEF FoundInv, FoundType
  <1>6. \/ d.name \in seen /\ wanted' = wanted
           /\ deps' = (deps \ {d}) \cup LateWalk(d.name, d.extras \ active[d.name])
        \/ d.name \notin seen /\ deps' = deps \ {d}
           /\ \A n \in Name : wanted'[n] = IF n = d.name THEN Transitive ELSE wanted[n]
    BY <1>3 DEF QueueDependency, IsNew, QueryInv, QueryType
  <1>7. Requests'
    <2>1. \A n \in Name : wanted'[n] # NoRequest => Full(n, wanted'[n])
      BY <1>6 DEF CompleteInv, Requests, Full
    <2>2. \A n \in Name : \A q \in {queued[n], fetched[n].source} :
            q # NoRequest => Full(n, q)
      BY DEF CompleteInv, Requests
    <2>3. \A f \in inflight : Full(f.name, f.request)
      BY DEF CompleteInv, Requests
    <2> QED
      BY <1>1, <1>2, <2>1, <2>2, <2>3 DEF Requests
  <1>8. Everywhere'
    <2>1. \A n \in Name : n \in seen' <=> wanted'[n] # NoRequest \/ queued'[n] # NoRequest
      BY <1>1, <1>3, <1>6, NoRequestIs DEF CompleteInv, Everywhere
    <2> QED
      BY <1>1, <1>4, <2>1 DEF CompleteInv, Everywhere
  <1>9. Answered'
    <2> SUFFICES ASSUME NEW n \in Name, NEW c \in fetched[n].pkgs
                 PROVE  /\ \A r \in MustHave(c, n) : result[c][r] > 0
                        /\ \/ wanted'[n] # NoRequest \/ OnTheWay(n, c)
                           \/ \A e \in DependenciesOf(MustHave(c, n), active'[n]) :
                                e \in deps' \/ Met(e)'
      BY <1>1, <1>2, <1>4 DEF Answered, DependenciesOf
    <2>1. /\ \A r \in MustHave(c, n) : result[c][r] > 0
          /\ \/ wanted[n] # NoRequest \/ OnTheWay(n, c)
             \/ \A e \in DependenciesOf(MustHave(c, n), active[n]) : e \in deps \/ Met(e)
      BY DEF CompleteInv, Answered
    <2>2. wanted[n] # NoRequest => wanted'[n] # NoRequest
      BY <1>6, NoRequestIs
    <2>3. CASE \A e \in DependenciesOf(MustHave(c, n), active[n]) : e \in deps \/ Met(e)
      <3>1. DependenciesOf(MustHave(c, n), active[n]) \subseteq Dep
        <4>1. c \in Channel
          BY DEF QueryInv, QueryType, Slots
        <4>2. MustHave(c, n) \in SUBSET Record /\ active[n] \in SUBSET Extra
          BY <4>1, FoundTyped DEF MustHave, FoundInv, FoundType
        <4> QED
          BY <4>2, DependenciesTyped
      <3>2. Met(d)' /\ \A e \in Dep : Met(e) => Met(e)'
        BY <1>1, <1>3, <1>5 DEF Met, Dep
      <3>3. deps \ {d} \subseteq deps'
        BY <1>6
      <3>4. \A e \in DependenciesOf(MustHave(c, n), active[n]) : e \in deps' \/ Met(e)'
        BY <2>3, <3>1, <3>2, <3>3
      <3>5. CASE n # d.name
        BY <1>5, <2>1, <3>4, <3>5
      <3>6. CASE n = d.name /\ d.name \in seen
        <4>1. MustHave(c, n) \subseteq Matching(Found(c, n), fetched[n].source)
          <5>1. Full(n, fetched[n].source)
            BY DEF FoundInv, Sources, CompleteInv, Requests
          <5> QED
            BY <5>1, FullFinds
        <4>2. \A r \in MustHave(c, n) : \A x \in d.extras \ active[n] :
                ExtraDepends[r][x] \subseteq LateWalk(n, d.extras \ active[n])
          BY <4>1 DEF LateWalk
        <4>3. active'[n] = active[n] \cup d.extras
          BY <1>5, <3>6
        <4>4. \A e \in DependenciesOf(MustHave(c, n), active'[n]) :
                \/ e \in DependenciesOf(MustHave(c, n), active[n])
                \/ e \in LateWalk(n, d.extras \ active[n])
          <5> SUFFICES ASSUME NEW e \in DependenciesOf(MustHave(c, n), active[n] \cup d.extras)
                       PROVE  \/ e \in DependenciesOf(MustHave(c, n), active[n])
                              \/ e \in LateWalk(n, d.extras \ active[n])
            BY <4>3
          <5>1. PICK r \in MustHave(c, n) :
                  e \in Depends[r] \/ \E x \in active[n] \cup d.extras : e \in ExtraDepends[r][x]
            BY DEF DependenciesOf
          <5>2. CASE e \in Depends[r] \/ \E x \in active[n] : e \in ExtraDepends[r][x]
            BY <5>2 DEF DependenciesOf
          <5>3. CASE \E x \in d.extras \ active[n] : e \in ExtraDepends[r][x]
            BY <4>2, <5>3
          <5> QED
            BY <5>1, <5>2, <5>3
        <4>5. LateWalk(n, d.extras \ active[n]) \subseteq deps'
          BY <1>6, <3>6
        <4> QED
          BY <2>1, <3>4, <4>4, <4>5
      <3>7. CASE n = d.name /\ d.name \notin seen
        BY <1>6, <2>1, <3>7, NoRequestIs
      <3> QED
        BY <3>5, <3>6, <3>7
    <2> QED
      BY <2>1, <2>2, <2>3
  <1>10. Patterns'
    <2>1. ASSUME NEW n \in patternSeen, PatternsFor(n) # {}
          PROVE  n \in seen' /\ SpecExtras[FirstPattern(n)] \subseteq active'[n]
      <3>1. n \in seen /\ n \in Name /\ SpecExtras[FirstPattern(n)] \subseteq active[n]
        BY <2>1 DEF CompleteInv, Patterns, FoundInv, FoundType
      <3> QED
        BY <1>1, <1>5, <3>1
    <2> QED
      BY <1>1, <1>2, <2>1 DEF CompleteInv, Patterns
  <1>11. AllSlots'
    BY <1>1 DEF CompleteInv, AllSlots, Discovered
  <1> QED
    BY <1>2, <1>7, <1>8, <1>9, <1>10, <1>11 DEF CompleteInv

\* Records arrive.
LEMMA CompleteRecords ==
  ASSUME QueryInv, FoundInv, CompleteInv, NEW f \in inflight, RecordsArrive(f)
  PROVE  CompleteInv'
  <1> DEFINE M == Matching(Found(f.channel, f.name), f.request)
  <1>1. /\ seen' = seen /\ active' = active /\ wanted' = wanted /\ queued' = queued
        /\ specs' = specs /\ declares' = declares /\ broken' = broken
        /\ handles' = handles /\ patternSeen' = patternSeen
        /\ pending' = pending /\ fresh' = fresh /\ depth' = depth
        /\ outcome' = outcome /\ outcome = "running" /\ deps = {}
        /\ inflight' = inflight \ {f} /\ deps' = DependenciesOf(M, active[f.name])
        /\ fetched' = [fetched EXCEPT ![f.name] =
             [source |-> IF fetched[f.name].source = NoRequest THEN f.request
                         ELSE fetched[f.name].source,
              pkgs |-> fetched[f.name].pkgs \cup {f.channel}]]
    BY DEF RecordsArrive, Waiting, expanderVars
  <1>2. /\ Unmixed' /\ \A n, q : Full(n, q)' <=> Full(n, q)
        /\ \A n : PatternsFor(n)' = PatternsFor(n) /\ FirstPattern(n)' = FirstPattern(n)
        /\ \A c : NamesIn(c)' = NamesIn(c)
        /\ \A c, n : MustHave(c, n)' = MustHave(c, n)
    BY <1>1, WorldKept DEF CompleteInv
  <1>3. /\ f.name \in Name /\ f.channel \in Channel /\ Full(f.name, f.request)
        /\ queued[f.name] # NoRequest
    BY DEF QueryInv, QueryType, CompleteInv, Requests, Everywhere
  <1>4. MustHave(f.channel, f.name) \subseteq M
    BY <1>3, FullFinds
  <1>5. /\ result \in [Channel -> [Record -> Nat]]
        /\ \A c \in Channel, r \in Record :
             result'[c][r] = IF c = f.channel /\ r \in M THEN result[c][r] + 1 ELSE result[c][r]
    BY AccumulateIs DEF QueryInv, QueryType
  <1>6. \A c \in Channel, n \in Name : MustHave(c, n) \subseteq Record
    BY FoundTyped DEF MustHave
  <1> HIDE DEF M
  <1>7. /\ \A n \in Name : n # f.name => fetched'[n] = fetched[n]
        /\ fetched'[f.name].pkgs = fetched[f.name].pkgs \cup {f.channel}
        /\ fetched'[f.name].source \in {f.request, fetched[f.name].source}
    BY <1>1, <1>3 DEF QueryInv, QueryType
  <1>8. \A n, c : OnTheWay(n, c) => OnTheWay(n, c)' \/ (n = f.name /\ c = f.channel)
    BY <1>1 DEF OnTheWay
  <1>9. Requests'
    <2>1. \A n \in Name : fetched'[n].source # NoRequest => Full(n, fetched'[n].source)
      BY <1>3, <1>7 DEF CompleteInv, Requests
    <2>2. \A n \in Name : \A q \in {wanted[n], queued[n]} : q # NoRequest => Full(n, q)
      BY DEF CompleteInv, Requests
    <2>3. \A g \in inflight : Full(g.name, g.request)
      BY DEF CompleteInv, Requests
    <2> QED
      BY <1>1, <1>2, <2>1, <2>2, <2>3 DEF Requests
  <1>10. Everywhere'
    <2>1. ASSUME NEW n \in Name, NEW c \in handles, queued[n] # NoRequest
          PROVE  c \in fetched'[n].pkgs \/ OnTheWay(n, c)'
      <3>1. c \in fetched[n].pkgs \/ OnTheWay(n, c)
        BY <2>1 DEF CompleteInv, Everywhere
      <3>2. fetched[n].pkgs \subseteq fetched'[n].pkgs
        BY <1>7
      <3> QED
        BY <1>7, <1>8, <3>1, <3>2
    <2>2. \A n \in Name : queued[n] = NoRequest => fetched'[n].pkgs = {}
      BY <1>3, <1>7 DEF CompleteInv, Everywhere
    <2>3. \A g \in inflight' : queued[g.name] # NoRequest
      BY <1>1 DEF CompleteInv, Everywhere
    <2>4. \A n \in Name : n \in seen <=> wanted[n] # NoRequest \/ queued[n] # NoRequest
      BY DEF CompleteInv, Everywhere
    <2> QED
      BY <1>1, <2>1, <2>2, <2>3, <2>4 DEF Everywhere
  <1>11. Answered'
    <2> SUFFICES ASSUME NEW n \in Name, NEW c \in fetched'[n].pkgs
                 PROVE  /\ \A r \in MustHave(c, n) : result'[c][r] > 0
                        /\ \/ wanted[n] # NoRequest \/ OnTheWay(n, c)'
                           \/ \A e \in DependenciesOf(MustHave(c, n), active[n]) :
                                e \in deps' \/ Met(e)'
      BY <1>1, <1>2 DEF Answered, DependenciesOf
    <2>1. \A e : Met(e)' <=> Met(e)
      BY <1>1 DEF Met
    <2>2. CASE n = f.name /\ c = f.channel
      <3>1. \A r \in MustHave(c, n) : result'[c][r] > 0
        <4>1. \A r \in MustHave(c, n) : r \in M /\ r \in Record /\ result[c][r] \in Nat
          BY <1>3, <1>4, <1>5, <1>6, <2>2
        <4>2. \A r \in MustHave(c, n) : result'[c][r] = result[c][r] + 1
          BY <1>3, <1>5, <2>2, <4>1
        <4> QED
          BY <4>1, <4>2
      <3>2. DependenciesOf(MustHave(c, n), active[n]) \subseteq deps'
        BY <1>1, <1>4, <2>2, DependenciesGrow
      <3> QED
        BY <3>1, <3>2
    <2>3. CASE ~(n = f.name /\ c = f.channel)
      <3>1. c \in fetched[n].pkgs
        BY <1>7, <2>3
      <3>2. c \in Channel
        BY <3>1 DEF QueryInv, QueryType, Slots
      <3>3. /\ \A r \in MustHave(c, n) : result[c][r] > 0
            /\ \/ wanted[n] # NoRequest \/ OnTheWay(n, c)
               \/ \A e \in DependenciesOf(MustHave(c, n), active[n]) : e \in deps \/ Met(e)
        BY <3>1 DEF CompleteInv, Answered
      <3>4. \A r \in MustHave(c, n) : result'[c][r] > 0
        <4>1. \A r \in MustHave(c, n) : r \in Record /\ result[c][r] \in Nat
          BY <1>5, <1>6, <3>2
        <4>2. \A r \in MustHave(c, n) : result'[c][r] \in {result[c][r], result[c][r] + 1}
          BY <1>5, <3>2, <4>1
        <4> QED
          BY <3>3, <4>1, <4>2
      <3> QED
        BY <1>1, <1>8, <2>1, <2>3, <3>3, <3>4
    <2> QED
      BY <2>2, <2>3
  <1>12. Patterns'
    BY <1>1, <1>2 DEF CompleteInv, Patterns
  <1>13. AllSlots'
    BY <1>1 DEF CompleteInv, AllSlots, Discovered
  <1> QED
    BY <1>2, <1>9, <1>10, <1>11, <1>12, <1>13 DEF CompleteInv

\* The query ends, or nothing happens.
LEMMA CompleteEnds ==
  ASSUME CompleteInv, UNCHANGED queryVars, UNCHANGED <<declares, broken, pending, fresh, depth>>,
         outcome' # "failed" => outcome # "failed",
         outcome' = "done" => outcome = "done" \/ (inflight = {} /\ deps = {} /\ Wanted = {})
  PROVE  CompleteInv'
  <1>1. /\ specs' = specs /\ seen' = seen /\ wanted' = wanted /\ queued' = queued
        /\ active' = active /\ fetched' = fetched /\ handles' = handles /\ inflight' = inflight
        /\ deps' = deps /\ patternSeen' = patternSeen /\ result' = result
    BY DEF queryVars
  <1>2. /\ Unmixed' /\ \A n, q : Full(n, q)' <=> Full(n, q)
        /\ \A n : PatternsFor(n)' = PatternsFor(n) /\ FirstPattern(n)' = FirstPattern(n)
        /\ \A c : NamesIn(c)' = NamesIn(c)
        /\ \A c, n : MustHave(c, n)' = MustHave(c, n)
    BY <1>1, WorldKept DEF CompleteInv
  <1>3. /\ \A n, c : OnTheWay(n, c)' <=> OnTheWay(n, c)
        /\ \A d : Met(d)' <=> Met(d)
    BY <1>1 DEF OnTheWay, Met
  <1>4. Requests'
    BY <1>1, <1>2 DEF CompleteInv, Requests
  <1>5. Everywhere'
    BY <1>1, <1>3 DEF CompleteInv, Everywhere
  <1>6. Answered'
    BY <1>1, <1>2, <1>3 DEF CompleteInv, Answered, DependenciesOf
  <1>7. Patterns'
    BY <1>1, <1>2 DEF CompleteInv, Patterns
  <1>8. AllSlots'
    BY <1>1 DEF CompleteInv, AllSlots, Discovered, Wanted
  <1> QED
    BY <1>2, <1>4, <1>5, <1>6, <1>7, <1>8 DEF CompleteInv

\* Every step.
LEMMA CompleteStep ==
  ASSUME ExpanderInv, QueryInv, FoundInv, CompleteInv, [Next]_vars
  PROVE  CompleteInv'
  <1>1. CASE UNCHANGED vars
    BY <1>1, CompleteEnds DEF vars, expanderVars
  <1>2. CASE SpawnPackageFetches
    BY <1>2, CompleteSpawns
  <1>3. CASE ObserveRelations
    BY <1>3, CompleteObserves
  <1>4. ASSUME NEW c \in Channel, SubdirArrives(c) PROVE CompleteInv'
    BY <1>4, CompleteArrives
  <1>5. ASSUME NEW f \in inflight, RecordsArrive(f) PROVE CompleteInv'
    BY <1>5, CompleteRecords
  <1>6. ASSUME NEW f \in inflight, RecordsFail(f) PROVE CompleteInv'
    BY <1>6, CompleteEnds DEF RecordsFail
  <1>7. ASSUME NEW d \in deps, QueueDependency(d) PROVE CompleteInv'
    BY <1>7, CompleteQueues
  <1>8. CASE Complete
    BY <1>8, CompleteEnds DEF Complete, Waiting, Finalize
  <1> QED
    BY <1>1, <1>2, <1>3, <1>4, <1>5, <1>6, <1>7, <1>8 DEF Next, Step

\* In the end every channel within reach has answered for every name known,
\* and every dependency is met.
LEMMA AllAnswered ==
  ASSUME ExpanderInv, QueryInv, FoundInv, CompleteInv, outcome = "done",
         NEW n \in seen, NEW c \in Within[MaxDepth]
  PROVE  /\ c \in Channel /\ \A r \in MustHave(c, n) : result[c][r] > 0
         /\ \A d \in DependenciesOf(MustHave(c, n), active[n]) : Met(d)
  <1>1. Setting /\ MaxDepth \in Nat /\ MaxDepth \in 0..MaxDepth
    BY ExpanderAssumption DEF ExpanderInv, ExpanderType
  <1>2. c \in Channel /\ depth[c] <= MaxDepth
    BY <1>1, WithinIs, NearIsFound
  <1>3. c \in handles
    <2>1. fresh = {}
      BY DEF ExpanderInv, Covered, Ended
    <2> QED
      BY <1>2, <2>1 DEF CompleteInv, AllSlots, Discovered
  <1>4. n \in Name /\ wanted[n] = NoRequest /\ inflight = {} /\ deps = {}
    BY DEF CompleteInv, AllSlots, Wanted, FoundInv, FoundType
  <1>5. c \in fetched[n].pkgs
    BY <1>3, <1>4 DEF CompleteInv, Everywhere, OnTheWay
  <1> QED
    BY <1>2, <1>4, <1>5 DEF CompleteInv, Answered, OnTheWay

\* All that has to be reached has been reached.
LEMMA ReachedIsKnown ==
  ASSUME ExpanderInv, QueryInv, FoundInv, CompleteInv, outcome = "done"
  PROVE  Reached(FALSE).names \subseteq seen
  <1> DEFINE N == Cardinality(Name) * (Cardinality(Extra) + 2)
             Below(x) == x.names \subseteq seen /\ \A n \in Name : x.active[n] \subseteq active[n]
  <1>1. PICK g : /\ g[0] = Start
                 /\ \A n \in Nat : g[n] \in World /\ g[n + 1] = Grow(FALSE, g[n])
                 /\ Reached(FALSE) = g[N]
    BY ReachedIs DEF FoundInv, FoundType
  <1>2. N \in Nat
    BY MarksAreFinite
  <1> HIDE DEF N
  <1>3. Below(Start)
    <2>1. ASSUME NEW n \in Matched
          PROVE  n \in seen /\ SpecExtras[FirstPattern(n)] \subseteq active[n]
      <3>1. PatternsFor(n) # {} /\ n \in Name
        BY DEF Matched
      <3>2. PICK c \in Within[MaxDepth] : Found(c, n) # {}
        BY DEF Matched
      <3>3. Setting /\ MaxDepth \in Nat /\ MaxDepth \in 0..MaxDepth
        BY ExpanderAssumption DEF ExpanderInv, ExpanderType
      <3>4. c \in Channel /\ depth[c] <= MaxDepth
        BY <3>3, WithinIs, NearIsFound
      <3>5. c \in handles \ pending
        <4>1. fresh = {} /\ pending = {}
          BY DEF ExpanderInv, Covered, Ended
        <4> QED
          BY <3>4, <4>1 DEF CompleteInv, AllSlots, Discovered
      <3>6. n \in NamesIn(c)
        BY <3>2 DEF Found, NamesIn
      <3> QED
        BY <3>1, <3>5, <3>6 DEF CompleteInv, Patterns
    <2>2. Start.names \subseteq seen
      BY <2>1 DEF Start, FoundInv, AskedFirst
    <2>3. ASSUME NEW n \in Name PROVE Start.active[n] \subseteq active[n]
      <3>1. ASSUME NEW s \in ExactSpecs(n) PROVE SpecExtras[s] \subseteq active[n]
        BY DEF FoundInv, AskedFirst, ExactNames
      <3> QED
        BY <2>1, <3>1 DEF Start
    <2> QED
      BY <2>2, <2>3
  <1>4. ASSUME NEW x \in World, Below(x) PROVE Below(Grow(FALSE, x))
    <2>1. ASSUME NEW d \in Needed(FALSE, x) PROVE Met(d)
      <3>1. PICK n \in x.names : d \in DependenciesOf(Counting(n, FALSE, x), x.active[n])
        BY DEF Needed
      <3>2. n \in seen /\ n \in Name /\ x.active[n] \subseteq active[n]
        BY <1>4 DEF FoundInv, FoundType
      <3>3. PICK r \in Counting(n, FALSE, x) : d \in DependenciesOf({r}, x.active[n])
        BY <3>1 DEF DependenciesOf
      <3>4. PICK c \in Within[MaxDepth] : r \in MustHave(c, n)
        BY DEF Counting, MustHave
      <3>5. DependenciesOf({r}, x.active[n]) \subseteq DependenciesOf(MustHave(c, n), active[n])
        <4>1. {r} \subseteq MustHave(c, n)
          BY <3>4
        <4> QED
          BY <3>2, <4>1, DependenciesGrow
      <3> QED
        BY <3>2, <3>3, <3>5, AllAnswered
    <2>2. Grow(FALSE, x).names \subseteq seen
      BY <1>4, <2>1 DEF Grow, Met
    <2>3. ASSUME NEW n \in Name PROVE Grow(FALSE, x).active[n] \subseteq active[n]
      BY <1>4, <2>1 DEF Grow, Met
    <2> QED
      BY <2>2, <2>3
  <1> HIDE DEF Below
  <1> DEFINE bad == {k \in Nat : ~Below(g[k])}
  <1>5. ASSUME bad # {} PROVE FALSE
    <2>1. PICK k \in bad : \A j \in bad : k <= j
      BY <1>5, Least
    <2>2. k # 0
      BY <1>1, <1>3
    <2>3. k - 1 \in Nat /\ k - 1 \notin bad /\ (k - 1) + 1 = k
      BY <2>1, <2>2
    <2>4. Below(g[k - 1]) /\ g[k - 1] \in World /\ g[k] = Grow(FALSE, g[k - 1])
      BY <1>1, <2>3
    <2> QED
      BY <1>4, <2>4
  <1>6. Below(g[N])
    BY <1>2, <1>5
  <1> QED
    BY <1>1, <1>6 DEF Below

\* The result is the closure.
LEMMA ClosureInTheEnd ==
  ASSUME ExpanderInv, QueryInv, FoundInv, CompleteInv, NothingElse
  PROVE  ResultIsClosure
  <1> SUFFICES ASSUME outcome = "done", NEW c \in Within[MaxDepth]
      PROVE  LET found == {r \in Record : result[c][r] > 0}
                 there == IF c \in broken THEN {} ELSE RecordsOf[c]
             IN /\ there \cap Closure(FALSE) \subseteq found
                /\ found \subseteq there \cap Closure(TRUE)
    BY DEF ResultIsClosure
  <1> DEFINE found == {r \in Record : result[c][r] > 0}
             there == IF c \in broken THEN {} ELSE RecordsOf[c]
             L == Reached(FALSE)
  <1>1. c \in Channel
    <2>1. Setting /\ MaxDepth \in Nat
      BY ExpanderAssumption DEF ExpanderInv, ExpanderType
    <2> QED
      BY <2>1, WithinIs
  <1>2. Closure(FALSE) = UNION {Counting(n, FALSE, L) : n \in L.names}
    BY DEF Closure
  <1>3. L.names \subseteq seen
    BY ReachedIsKnown
  <1> HIDE DEF L
  <1>4. ASSUME NEW r \in there \cap Closure(FALSE) PROVE r \in found
    <2>1. PICK n \in L.names : r \in Counting(n, FALSE, L)
      BY <1>2
    <2>2. r \in Record /\ r \in MustHave(c, n)
      BY <2>1 DEF Counting, MustHave, Found
    <2> QED
      BY <1>3, <2>1, <2>2, AllAnswered
  <1>5. ASSUME NEW r \in found PROVE r \in there \cap Closure(TRUE)
    <2>1. r \in Found(c, RecordName[r]) /\ r \in Closure(TRUE)
      BY <1>1 DEF NothingElse
    <2> QED
      BY <2>1 DEF Found
  <1> QED
    BY <1>4, <1>5

\* Whatever arrives first, a query that succeeds has found exactly the closure
\* of what was asked for: its records and those of all dependencies, including
\* those of extras that become active late, from every channel, also those
\* found late.  No name may be asked for both exactly and by a pattern.
THEOREM QueryFindsTheClosure == Spec /\ Unmixed => []ResultIsClosure
  <1>1. Init /\ Unmixed => CompleteInv
    BY CompleteBegins
  <1>2. ExpanderInv /\ QueryInv /\ FoundInv /\ CompleteInv /\ [Next]_vars => CompleteInv'
    BY CompleteStep
  <1>3. ExpanderInv /\ QueryInv /\ FoundInv /\ CompleteInv /\ NothingElse => ResultIsClosure
    BY ClosureInTheEnd
  <1> QED
    BY <1>1, <1>2, <1>3, ExpanderInvariant, QueryInvariant, FoundInvariant,
       NothingElseIsReported, PTL DEF Spec

=============================================================================
