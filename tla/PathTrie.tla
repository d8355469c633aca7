------------------------------ MODULE PathTrie ------------------------------
(***************************************************************************)
(* The data structure of path_resolver: a trie of relative paths, tagged   *)
(* with the packages that have a file at a node (terminals) or at or below *)
(* it (prefixes), and the packages in order of decreasing priority.        *)
(*                                                                         *)
(* A path is a sequence of components; the walks over the trie are written *)
(* as sets of nodes.  A list of changes is a sequence of <<path, package>> *)
(* in the order of a walk, parents first.                                  *)
(***************************************************************************)
EXTENDS Naturals, SequencesExt

CONSTANTS
  Pkg,
  PathSeq    \* the paths, parents first

Path == Range(PathSeq)
Root == <<>>
Node == Path \cup {Root}

ASSUME PathAssumption ==
  /\ \A p \in Path : p # Root /\ \A i \in 1..Len(p) : SubSeq(p, 1, i) \in Path
  /\ \A i, j \in DOMAIN PathSeq : IsStrictPrefix(PathSeq[i], PathSeq[j]) => i < j

AtOrBelow(p) == {q \in Path : IsPrefix(p, q)}
Above(p) == {q \in Node : IsStrictPrefix(q, p)}

EmptyTrie ==
  [packages |-> <<>>, terminals |-> [n \in Node |-> {}], prefixes |-> [n \in Node |-> {}]]

Tries == [packages : Seq(Pkg), terminals : [Node -> SUBSET Pkg],
          prefixes : [Node -> SUBSET Pkg]]

FileAt(t, n) == t.terminals[n] # {}
DirectoryAt(t, p) == \E q \in AtOrBelow(p) \ {p} : t.prefixes[q] # {}
Blocked(t, p) == \E q \in Above(p) : FileAt(t, q)

\* insert_package returns the new paths in conflict with the trie: below an
\* existing file, on a file, or on a directory.
Conflicts(t, files) == {p \in files : Blocked(t, p) \/ FileAt(t, p) \/ DirectoryAt(t, p)}

\* Those that take the place of a directory and of nothing else.
DirInserts(t, files) ==
  {p \in files : ~Blocked(t, p) /\ ~FileAt(t, p) /\ DirectoryAt(t, p)}

\* insert_package: tags every node on the way to a file, and the subtree of a
\* replaced directory.
Insert(t, name, files) ==
  LET onTheWay(n) == \E p \in files : IsPrefix(n, p)
      covered(n) == t.prefixes[n] # {} /\ \E p \in DirInserts(t, files) : IsPrefix(p, n)
  IN [packages |-> IF name \in Range(t.packages) THEN t.packages ELSE Append(t.packages, name),
      terminals |-> [n \in Node |-> t.terminals[n] \cup (IF n \in files THEN {name} ELSE {})],
      prefixes |-> [n \in Node |->
        t.prefixes[n] \cup (IF onTheWay(n) \/ covered(n) THEN {name} ELSE {})]]

\* A set of changes, at most one per path, as the list a walk produces.
InWalkOrder(changes) ==
  FlattenSeq([i \in DOMAIN PathSeq |-> SetToSeq({c \in changes : c[1] = PathSeq[i]})])

\* Where a package stands in a list.
Position(order, name) == CHOOSE i \in DOMAIN order : order[i] = name

\* The packages of lower priority than name.
LowerThan(t, name) == SubSeq(t.packages, Position(t.packages, name) + 1, Len(t.packages))

\* unregister_package returns, for every node the package covers, the next
\* package that has a file there.
NextCandidates(t, name) ==
  LET active(n) == name \in t.prefixes[n] \/ \E q \in Above(n) : name \in t.terminals[q]
      visited == {p \in Path : active(p) /\ \A q \in Above(p) : active(q)}
      heirs(p) == SelectSeq(LowerThan(t, name), LAMBDA c : c \in t.terminals[p])
  IN InWalkOrder({<<p, Head(heirs(p))>> : p \in {q \in visited : heirs(q) # <<>>}})

\* ... and removes its tags.  Nodes without tags are pruned.
Unregister(t, name) ==
  [packages |-> SelectSeq(t.packages, LAMBDA c : c # name),
   terminals |-> [n \in Node |-> t.terminals[n] \ {name}],
   prefixes |-> [n \in Node |-> t.prefixes[n] \ {name}]]

\* The winner at a node, for a list of decreasing priority.
Winner(t, order, n) ==
  CHOOSE p \in t.prefixes[n] : \A q \in t.prefixes[n] : Position(order, p) <= Position(order, q)

IsFile(t, order, n) == t.prefixes[n] # {} /\ Winner(t, order, n) \in t.terminals[n]

\* The topmost nodes at or below n that an order makes files.
TopFiles(t, order, n) ==
  {m \in AtOrBelow(n) : /\ IsFile(t, order, m)
                        /\ \A q \in Above(m) : IsPrefix(n, q) => ~IsFile(t, order, q)}

\* Where the walk of reprioritize_packages stops: a file before or after.
Stops(t, old, new) ==
  {n \in Path : /\ IsFile(t, old, n) \/ IsFile(t, new, n)
                /\ \A q \in Above(n) : ~IsFile(t, old, q) /\ ~IsFile(t, new, q)}

Swapped(t, old, new) ==
  {n \in Stops(t, old, new) : /\ IsFile(t, old, n) /\ IsFile(t, new, n)
                              /\ Winner(t, old, n) # Winner(t, new, n)}
BecomesFile(t, old, new) == {n \in Stops(t, old, new) : ~IsFile(t, old, n)}
BecomesDirectory(t, old, new) == {n \in Stops(t, old, new) : ~IsFile(t, new, n)}

\* reprioritize_packages: the files to move away ...
ToClobbers(t, old, new) ==
  InWalkOrder({<<n, Winner(t, old, n)>> :
    n \in Swapped(t, old, new) \cup BecomesDirectory(t, old, new) \cup
          {m \in UNION {AtOrBelow(n) : n \in BecomesFile(t, old, new)} : IsFile(t, old, m)}})

\* ... and the files to move into place.
FromClobbers(t, old, new) ==
  InWalkOrder({<<n, Winner(t, new, n)>> :
    n \in Swapped(t, old, new) \cup BecomesFile(t, old, new) \cup
          UNION {TopFiles(t, new, n) : n \in BecomesDirectory(t, old, new)}})
=============================================================================
