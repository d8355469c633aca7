------------------------------ MODULE MCGitFetch ------------------------------
(* Three tasks in two processes that share a cache, for TLC. *)
EXTENDS GitFetch, TLC

CONSTANTS p1, p2, t1, t2, t3

TwoAndOne == p1 :> {t1, t2} @@ p2 :> {t3}
=============================================================================
