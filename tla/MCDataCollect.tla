---------------------------- MODULE MCDataCollect ----------------------------
(* Model values for the runs of kalshi data collect.                        *)
EXTENDS DataCollect

CONSTANTS sync, snapshot

Periods == [j \in Jobs |-> IF j = sync THEN 3 ELSE 2]
=============================================================================
