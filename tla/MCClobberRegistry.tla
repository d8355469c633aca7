-------------------------- MODULE MCClobberRegistry --------------------------
(***************************************************************************)
(* Instances of ClobberRegistry: which packages there are, what their      *)
(* builds contain and how they are sorted.                                 *)
(***************************************************************************)
EXTENDS ClobberRegistry, TLC

CONSTANTS a, b, c,             \* packages
          a1, a2, b1, b2, c1   \* their builds

f == <<"f">>
d == <<"d">>
dx == <<"d", "x">>

MCPaths == <<f, d, dx>>

MCNameOf == [x \in Build |-> IF x \in {a1, a2} THEN a ELSE IF x \in {b1, b2} THEN b ELSE c]

\* b depends on a in some builds, a on b in others: the winner changes.
MCRank == [x \in Build |-> CASE x = b2 -> 0 [] x = a1 -> 1 [] x = b1 -> 2 [] x = c1 -> 3 [] x = a2 -> 4]

\* File against file: all have f, two of them share another file.
FileAgainstFile ==
  [x \in Build |-> CASE x = a1 -> {f, dx} [] x = a2 -> {f} [] x = b1 -> {f, dx}
                     [] x = b2 -> {dx} [] x = c1 -> {f}]

\* All have f; besides, a file of c is a directory of a in one of its builds.
FileAgainstDirectory ==
  [x \in Build |-> CASE x = a1 -> {f, dx} [] x = c1 -> {f, d} [] OTHER -> {f}]
=============================================================================
