--------------------------- MODULE MCBarrierCell ---------------------------
(* Small instances of BarrierCell for TLC. *)
EXTENDS BarrierCell, TLC
=============================================================================
