--------------------------- MODULE PortfolioLedger ---------------------------
(***************************************************************************)
(* What the portfolio package computes from the trades table: the FIFO     *)
(* cost basis of a position (portfolio/_sync_helpers.py) and the realised  *)
(* profit with settlements (_fifo.py, _settlements.py, pnl.py).            *)
(*                                                                         *)
(* A trade is [ticker, side, action, qty, price]; a lot of n contracts is  *)
(* n lots of one contract.  Fees are left out: sync_trades stores none, so *)
(* a lot costs price * qty at every moment and its pro-rata share is exact. *)
(***************************************************************************)
EXTENDS Integers, Sequences, SequencesExt

Opposite(side) == IF side = "yes" THEN "no" ELSE "yes"

(* Remove the n oldest lots, or all when there are fewer: the sell in      *)
(* excess is ignored.                                                      *)
DropOldest(lots, n) == SubSeq(lots, n + 1, Len(lots))

SumOf(lots) == FoldLeft(LAMBDA total, price : total + price, 0, lots)

(* round(): half to even.                                                  *)
RoundDiv(n, d) ==
    LET q == n \div d
        r == 2 * (n % d)
    IN  IF r < d \/ (r = d /\ q % 2 = 0) THEN q ELSE q + 1

-----------------------------------------------------------------------------
(* compute_fifo_cost_basis: a trade counts on the side it names, a sell    *)
(* takes the oldest lots of that side.                                     *)
LiteralLots(trades, side) ==
    LET Apply(lots, t) ==
            IF t.side # side THEN lots
            ELSE IF t.action = "buy" THEN lots \o [i \in 1..t.qty |-> t.price]
            ELSE DropOldest(lots, t.qty)
    IN  FoldLeft(Apply, <<>>, trades)

Average(lots) == IF lots = <<>> THEN 0 ELSE RoundDiv(SumOf(lots), Len(lots))

CostBasis(trades, side) == Average(LiteralLots(trades, side))

-----------------------------------------------------------------------------
(* normalize_trade_for_fifo: a sell closes the opposite side at the        *)
(* inverted price.                                                         *)
Normalized(t) ==
    IF t.action = "buy" THEN t
    ELSE [t EXCEPT !.side = Opposite(t.side), !.price = 100 - t.price]

(* Mutant: a sell closes the side it names.                                *)
FifoLiteral(trades, side) ==
    LET Apply(acc, t) ==
            LET matched == SubSeq(acc.lots, 1, IF t.qty < Len(acc.lots) THEN t.qty ELSE Len(acc.lots))
            IN  IF t.side # side THEN acc
                ELSE IF t.action = "buy"
                     THEN [acc EXCEPT !.lots = acc.lots \o [i \in 1..t.qty |-> t.price]]
                     ELSE [lots |-> DropOldest(acc.lots, t.qty),
                           pnl  |-> acc.pnl + t.price * Len(matched) - SumOf(matched)]
    IN  FoldLeft(Apply, [lots |-> <<>>, pnl |-> 0], trades)

(* get_closed_trade_pnls_fifo for one ticker and side: the lots still open *)
(* and the profit of what was closed.                                      *)
Fifo(trades, side) ==
    LET Apply(acc, raw) ==
            LET t == Normalized(raw)
                matched == SubSeq(acc.lots, 1, IF t.qty < Len(acc.lots) THEN t.qty ELSE Len(acc.lots))
            IN  IF t.side # side THEN acc
                ELSE IF t.action = "buy"
                     THEN [acc EXCEPT !.lots = acc.lots \o [i \in 1..t.qty |-> t.price]]
                     ELSE [lots |-> DropOldest(acc.lots, t.qty),
                           pnl  |-> acc.pnl + t.price * Len(matched) - SumOf(matched)]
    IN  FoldLeft(Apply, [lots |-> <<>>, pnl |-> 0], trades)

(* get_settlement_prices_cents: what a contract of a side pays; value is   *)
(* the YES payout of a scalar market.                                      *)
SettlementPrice(result, value, side) ==
    IF result = "scalar" THEN (IF side = "yes" THEN value ELSE 100 - value)
    ELSE IF result = side THEN 100 ELSE 0

(* calculate_summary_with_trades for one ticker: the closed trades, and    *)
(* the settlement as a sale of every lot still open; a void market closes  *)
(* nothing.                                                                *)
Realized(trades, settled, result, value) ==
    LET OfSide(side) ==
            LET f == Fifo(trades, side)
            IN  f.pnl + (IF settled /\ result \in {"yes", "no", "scalar"}
                         THEN SettlementPrice(result, value, side) * Len(f.lots) - SumOf(f.lots)
                         ELSE 0)
    IN  OfSide("yes") + OfSide("no")
=============================================================================
