--------------------------- MODULE MCTradeExecutor ---------------------------
(* Model values and bounds for the runs of the trade safety harness.        *)
EXTENDS TradeExecutor, TLC

Req(side, action, count, price) ==
    [side |-> side, action |-> action, count |-> count, price |-> price]

(* A risk of 120 cents: as much as one order, and as much as a day may have. *)
GoodRequests == {Req("yes", "buy", 2, 40)}


(* A good request, a price out of bounds, a buy of no contracts, and one    *)
(* whose risk exceeds the cap.                                              *)
MixedRequests ==
    {Req("yes", "buy", 2, 40), Req("no", "buy", 1, 0), Req("yes", "buy", 0, 50),
     Req("yes", "sell", 3, 50)}

OneAmendment == {[count |-> 4, price |-> 60]}
NoAmendments == {}

TwoBooks == {[mid |-> 45, depth |-> 2], [mid |-> NoMid, depth |-> 1]}

AttemptSymmetry == Permutations(Attempts)
=============================================================================
