---------------------------- MODULE MCChannelIndex ----------------------------
(* Two indexers, with and without a patch, for TLC. *)
EXTENDS ChannelIndex, TLC

CONSTANT p1

Symmetric == Permutations(Indexer)

\* Rebuilds, updates, and updates under a patch.
ThreeOptions ==
  {[patch |-> FALSE, force |-> FALSE], [patch |-> FALSE, force |-> TRUE],
   [patch |-> TRUE, force |-> FALSE]}
\* A new channel, or one with a package from the time before timestamps.
OldChannels == {{}, {p1}}
=============================================================================
