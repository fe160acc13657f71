--------------------------- MODULE MCJobScheduler ---------------------------
(* JobScheduler for TLC: named jobs, an interval one and a daily one.       *)
EXTENDS JobScheduler
=============================================================================
