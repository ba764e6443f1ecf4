--------------------------- MODULE MCDataScheduler ---------------------------
(* Model values for the runs of the scheduler.                              *)
EXTENDS DataScheduler

CONSTANTS sync, snapshot, late

Periods == [j \in Jobs |-> IF j = sync THEN 2 ELSE 1]
=============================================================================
