---------------------------- MODULE MCTokenBucket ----------------------------
(* Model values and bounds for the token bucket runs.                      *)
EXTENDS TokenBucket

(* A read, a batch of two, and a batch that exceeds a burst of three.       *)
RequestCosts == {1, 2, 4}
=============================================================================
