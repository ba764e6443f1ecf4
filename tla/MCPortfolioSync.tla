--------------------------- MODULE MCPortfolioSync ---------------------------
(* Model values and bounds for the runs of the portfolio sync.              *)
EXTENDS PortfolioSync, TLC

CONSTANT m1

F(t, side, action, qty, price) ==
    [ticker |-> t, side |-> side, action |-> action, qty |-> qty, price |-> price]

(* Two contracts bought, one of them sold; or the other side bought.        *)
EitherSide ==
    {F(m1, "yes", "buy", 2, 40), F(m1, "no", "sell", 1, 30), F(m1, "no", "buy", 1, 55)}

ProcSymmetry == Permutations(Procs)
=============================================================================
