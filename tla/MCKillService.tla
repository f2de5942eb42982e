----------------------------- MODULE MCKillService -----------------------------
(* Instances of KillService for TLC.                                       *)
EXTENDS KillService

CONSTANTS i1, i2, i3
================================================================================
