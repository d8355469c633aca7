----------------------- MODULE MCDetectorEnvironment -----------------------
(***************************************************************************)
(* Two tasks of one process and one of another want the same environment.  *)
(***************************************************************************)
EXTENDS DetectorEnvironment, TLC

CONSTANTS t1, t2, t3, p1, p2

MCProcOf == [t \in Task |-> IF t \in {t1, t2} THEN p1 ELSE p2]
=============================================================================
