--------------------------- MODULE MCRepodataFetch ---------------------------
(* Small instances of RepodataFetch for TLC. *)
EXTENDS RepodataFetch, TLC

\* A call that may use everything, and one that never asks the server.
AllOptions ==
  {[action |-> "CacheOrFetch", zst |-> TRUE, bz2 |-> TRUE],
   [action |-> "ForceCacheOnly", zst |-> TRUE, bz2 |-> TRUE]}

TaskSymmetry == Permutations(Task)

FetchOptions == {[action |-> "CacheOrFetch", zst |-> TRUE, bz2 |-> TRUE]}
=============================================================================
