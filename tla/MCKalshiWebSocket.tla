-------------------------- MODULE MCKalshiWebSocket --------------------------
(* Model values for the runs of the streaming client.                       *)
EXTENDS KalshiWebSocket

CONSTANTS u1, u2, u3

(* What each of the users subscribes to.                                    *)
Wanted == [u \in Users |-> IF u = u3 THEN "trade" ELSE IF u = u2 THEN "orderbook" ELSE "ticker"]
=============================================================================
