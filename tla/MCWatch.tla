------------------------------ MODULE MCWatch ------------------------------
(***************************************************************************)
(* Small instance of Watch.tla.  The constants keep the order of the real  *)
(* ones: 10 s = HEALTH < 30 s = GRACE < 60 s = SERVE < 10 min = monitor <   *)
(* 1 h = SLA check.                                                        *)
(***************************************************************************)
EXTENDS Watch

CONSTANTS x, y
=============================================================================
