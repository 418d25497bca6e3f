--------------------------- MODULE MCScheduler ---------------------------
(***************************************************************************)
(* Instances of Scheduler for TLC: both markets trade at the first instant *)
(* and have closed for the weekend afterwards.                             *)
(***************************************************************************)
EXTENDS Scheduler

CONSTANTS reset, rebuild

SettledAt == [t \in Time |-> IF t = 0 THEN 0 ELSE 1]
FridayClose == [t \in Time |-> IF t = 0 THEN -5 ELSE 1]
=============================================================================
