--------------------------- MODULE MCCoalescedMap ---------------------------
(* Small instances of CoalescedMap for TLC. *)
EXTENDS CoalescedMap, TLC
=============================================================================
