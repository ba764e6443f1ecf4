---- MODULE Orderbook ----
(***************************************************************************)
(* What the analysis package makes of an orderbook snapshot: the levels an *)
(* order crosses, what filling it costs, the largest order within a        *)
(* slippage, the depth around the midpoint and the liquidity score.        *)
(*                                                                         *)
(* A book has the bids of both sides, each a sequence of levels in any     *)
(* order.  Prices are whole cents; averages and scores are kept as         *)
(* fractions with a common denominator instead of floats.                  *)
(***************************************************************************)
EXTENDS Integers, FiniteSets, SequencesExt, FiniteSetsExt, Functions

CONSTANT None   \* no price

Level(price, qty) == [price |-> price, qty |-> qty]

Prices(levels) == {levels[i].price : i \in DOMAIN levels}
BestBid(levels) == IF levels = <<>> THEN None ELSE Max(Prices(levels))

TwoSided(book) == book.yes # <<>> /\ book.no # <<>>

(* Orderbook.spread, and twice Orderbook.midpoint. *)
BookSpread(book) == 100 - BestBid(book.yes) - BestBid(book.no)
TwiceMidpoint(book) == BestBid(book.yes) + 100 - BestBid(book.no)

----
(* list.sort: by key, and stable.  Order lists the indices in S.           *)
Ordered(order, key) ==
    \A p, q \in DOMAIN order : p < q =>
        \/ key[order[p]] < key[order[q]]
        \/ key[order[p]] = key[order[q]] /\ order[p] < order[q]

Order(S, key) == CHOOSE order \in [1..Cardinality(S) -> S] : Ordered(order, key)

Picked(seq, order) == [p \in DOMAIN order |-> seq[order[p]]]

Sorted(seq, key) == Picked(seq, Order(DOMAIN seq, key))

(* A comprehension with a condition: the elements at S, in their order.     *)
Kept(seq, S) == Picked(seq, Order(S, [i \in S |-> i]))

----
(* A buyer of one side crosses the bids of the other.                      *)
Inverted(levels) == [i \in DOMAIN levels |-> Level(100 - levels[i].price, levels[i].qty)]

Cheapest(levels) == Sorted(levels, [i \in DOMAIN levels |-> levels[i].price])
Dearest(levels) == Sorted(levels, [i \in DOMAIN levels |-> -levels[i].price])

Other(side) == IF side = "yes" THEN "no" ELSE "yes"

(* Mutant: levels as the exchange lists them. *)
LevelsAsListed(book, side, action) ==
    IF action = "buy" THEN Inverted(book[Other(side)]) ELSE book[side]

LevelsForExecution(book, side, action) ==
    IF action = "buy" THEN Cheapest(Inverted(book[Other(side)])) ELSE Dearest(book[side])

(* estimate_slippage: one level after the other until the order is filled. *)
Taken(fill, level, quantity) ==
    LET take == Min({level.qty, quantity - fill.filled}) IN
    IF take <= 0 THEN fill
    ELSE [fill EXCEPT !.filled = @ + take, !.cost = @ + take * level.price,
                      !.worst = level.price, !.crossed = @ + 1]

WalkBook(book, side, action, quantity) ==
    LET levels == LevelsForExecution(book, side, action)
        best == IF levels = <<>> THEN 0 ELSE levels[1].price
        after[k \in 0..Len(levels)] ==
            IF k = 0 THEN [best |-> best, worst |-> best, cost |-> 0, filled |-> 0, crossed |-> 0]
            ELSE Taken(after[k - 1], levels[k], quantity)
    IN  after[Len(levels)]

(* Cents lost to slippage, times the contracts filled. *)
Slippage(fill, action) ==
    Max({0, IF action = "buy" THEN fill.cost - fill.best * fill.filled
            ELSE fill.best * fill.filled - fill.cost})

Safe(book, side, quantity, cents) ==
    LET fill == WalkBook(book, side, "buy", quantity) IN
    /\ fill.filled = quantity
    /\ Slippage(fill, "buy") <= cents * quantity

Available(levels) == SumFunctionOnSet([i \in DOMAIN levels |-> levels[i].qty], DOMAIN levels)

Searched(low, high) == low > high

(* max_safe_order_size: a binary search over 1..possible.                  *)
MaxSafeSize(book, side, cents) ==
    LET possible == Available(book[Other(side)])
        search[range \in (1..possible + 1) \X (0..possible)] ==
            LET low == range[1]
                high == range[2]
                mid == (low + high) \div 2
            IN  IF Searched(low, high) THEN low - 1
                ELSE IF Safe(book, side, mid, cents) THEN search[<<mid + 1, high>>]
                ELSE search[<<low, mid - 1>>]
    IN  search[<<1, possible>>]

----
(* orderbook_depth_score: contracts within the radius of the midpoint, and *)
(* the same weighted by their distance, times 2 * (radius + 1).            *)
Near(levels, twiceMid, radius) ==
    {i \in DOMAIN levels : 2 * levels[i].price - twiceMid \in -2 * radius .. 2 * radius}

Away(price, twiceMid) == IF 2 * price > twiceMid THEN 2 * price - twiceMid ELSE twiceMid - 2 * price

Weighted(levels, twiceMid, radius) ==
    SumFunctionOnSet([i \in DOMAIN levels |->
                         levels[i].qty * (2 * (radius + 1) - Away(levels[i].price, twiceMid))],
                     Near(levels, twiceMid, radius))

Depth(book, radius) ==
    IF ~TwoSided(book) THEN [yes |-> 0, no |-> 0, weighted |-> 0]
    ELSE LET twiceMid == TwiceMidpoint(book)
             asks == Inverted(book.no)
             Within(levels) == SumFunctionOnSet([i \in DOMAIN levels |-> levels[i].qty],
                                                Near(levels, twiceMid, radius))
         IN  [yes |-> Within(book.yes), no |-> Within(asks),
              weighted |-> Weighted(book.yes, twiceMid, radius) + Weighted(asks, twiceMid, radius)]

(* liquidity_score with its default weights and a radius of 10 cents.  The *)
(* four parts over 209000: 19 cents of spread range, 22 for the weighted   *)
(* depth, tenths for the weights, hundreds for the volume.                 *)
LiquidityScore(book, volume, interest) ==
    LET spread == IF TwoSided(book) THEN BookSpread(book) ELSE 100
        tight == IF spread <= 1 THEN 19 ELSE IF spread >= 20 THEN 0 ELSE 20 - spread
        parts == 3 * 100 * tight * 1100
                 + 3 * Min({22000, Depth(book, 10).weighted}) * 95
                 + 2 * Min({10000, volume}) * 209
                 + 2 * Min({5000, interest}) * 418
    IN  Max({0, Min({100, parts \div 209000})})
====
