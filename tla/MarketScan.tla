---- MODULE MarketScan ----
(***************************************************************************)
(* The commands that look for markets: scan opportunities, new-markets,    *)
(* movers and arbitrage, and market liquidity.  Each lists the open        *)
(* markets page by page, while the exchange goes on, and then reads more   *)
(* for each market it kept: its orderbook, its event, its price history.   *)
(***************************************************************************)
EXTENDS Orderbook

CONSTANTS
    Listing,      \* tickers in the order the exchange lists them
    EventOf,      \* the event of a ticker
    Category,     \* category of an event as the exchange gives it, or None
    ClassOf,      \* category its ticker's prefix suggests
    Boards,       \* what the exchange may start from
    Changes,      \* what a market may become
    Histories,    \* stored prices a scan may find: ticker -> sequence
    Correlated,   \* correlated pairs the analysis may find
    Books,        \* orderbooks of a candidate
    Ladders,      \* orderbooks of market liquidity
    Scans,        \* command lines
    PageSize,     \* markets, or events, to a page
    MaxCandidates,\* candidates whose orderbooks are fetched, at most (50)
    HistoryLimit, \* snapshots read for a ticker, at most (1000)
    MaxHour,      \* bound on the clock
    MaxMoves      \* bound on the changes of the exchange

Tickers == ToSet(Listing)
Events == {EventOf[k] : k \in Tickers}

(* A market of the exchange, a stored price, an orderbook.                 *)
Quotes == Int \union {None}
Markets == [bid : Quotes, ask : Quotes, active : BOOLEAN, closes : Int, created : Int, volume : Int]
Snapshots == [at : Int, twice : Int]
Sides == Seq([price : Int, qty : Nat])

ASSUME ScanAssumption ==
    /\ \A i, j \in DOMAIN Listing : Listing[i] = Listing[j] => i = j
    /\ Listing \in Seq(Tickers)
    /\ PageSize \in Nat \ {0} /\ MaxCandidates \in Nat /\ HistoryLimit \in Nat
    /\ MaxHour \in Nat /\ MaxMoves \in Nat
    /\ Boards \subseteq [Tickers -> Markets] /\ Changes \subseteq Markets
    /\ Histories \subseteq [Tickers -> Seq(Snapshots)]
    /\ \A stored \in Histories : \A k \in Tickers : \A i \in DOMAIN stored[k] :
          /\ stored[k][i].at <= 0
          /\ \A j \in DOMAIN stored[k] : i < j => stored[k][j].at <= stored[k][i].at
    /\ \A e \in Events : ClassOf[e] # None
    /\ IsFiniteSet(Correlated)
    /\ \A pair \in Correlated :
          /\ pair.kind \in {"positive", "negative"}
          /\ \E a, b \in Tickers : pair.tickers = {a, b}
    /\ Books \subseteq [yes : Sides, no : Sides] /\ Ladders \subseteq [yes : Sides, no : Sides]
    /\ \A opt \in Scans :
          /\ opt.cmd \in {"opportunities", "new-markets", "movers", "arbitrage", "liquidity"}
          /\ opt.cmd = "liquidity" => opt.cents \in Nat
          /\ opt.cmd # "liquidity" => opt.top \in Nat \ {0}
          /\ opt.cmd = "opportunities" =>
                /\ opt.filter \in {"close-race", "high-volume", "wide-spread", "expiring-soon"}
                /\ opt.minLiquidity \in Int \union {None}
          /\ opt.cmd \in {"new-markets", "movers"} => opt.hours \in Int
          /\ opt.cmd = "arbitrage" => opt.threshold \in Int

VARIABLES
    board,     \* the exchange's markets
    halted,    \* trading is halted
    hour,      \* clock
    history,   \* price snapshots in the database, newest first
    moves,     \* changes so far
    scan       \* the command

screen == <<board, halted, hour, history, moves, scan>>

----
(* The exchange and the collector go on while a scan runs. *)

Change ==
    /\ moves < MaxMoves
    /\ moves' = moves + 1
    /\ \/ \E k \in Tickers, m \in Changes : board' = [board EXCEPT ![k] = m] /\ UNCHANGED <<halted, hour, history>>
       \/ halted' = ~halted /\ UNCHANGED <<board, hour, history>>
       \/ hour < MaxHour /\ hour' = hour + 1 /\ UNCHANGED <<board, halted, history>>
       \/ \E k \in Tickers :
            /\ board[k].bid # None /\ board[k].ask # None
            /\ history' = [history EXCEPT ![k] = <<[at |-> hour, twice |-> board[k].bid + board[k].ask]>> \o @]
            /\ UNCHANGED <<board, halted, hour>>
    /\ UNCHANGED scan

----
(* A listed market is priced if both sides are quoted and it is not a      *)
(* placeholder. *)
BothQuoted(m) == m.bid # None /\ m.ask # None
Placeholder(m) == m.bid = 0 /\ m.ask \in {0, 100}
Unpriced(m) == ~BothQuoted(m) \/ Placeholder(m)
Priced(m) == BothQuoted(m) /\ {m.bid, m.ask} \intersect {0, 100} = {}
Spread(m) == m.ask - m.bid
Twice(m) == m.bid + m.ask

(* Mutant: the time is not looked at. *)
VerifiedByStatus(m, status) == status # "halted" /\ m.active

(* MarketStatusVerifier: unless the exchange said it is halted, an active  *)
(* market that has not closed. *)
Verified(m, status) == status # "halted" /\ m.active /\ hour < m.closes

Gap(a, b) == IF a > b THEN a - b ELSE b - a

(* What each filter keeps, and the key it sorts by, least first. *)
Fits(m, opt, at) ==
    /\ BothQuoted(m)
    /\ opt.early # None => m.created >= at - opt.early
    /\ CASE opt.filter = "close-race" ->
              /\ ~Placeholder(m)
              /\ Spread(m) <= opt.maxSpread /\ m.volume >= opt.minVolume
              /\ Twice(m) \in 2 * opt.range[1] .. 2 * opt.range[2]
         [] opt.filter = "high-volume" -> m.volume >= opt.volumeFrom
         [] opt.filter = "wide-spread" -> Spread(m) >= opt.spreadFrom
         [] opt.filter = "expiring-soon" -> m.closes <= at + opt.within

SortKey(m, opt) ==
    CASE opt.filter = "close-race" -> Gap(Twice(m), 100)
      [] opt.filter = "high-volume" -> -m.volume
      [] opt.filter = "wide-spread" -> -Spread(m)
      [] opt.filter = "expiring-soon" -> m.closes

FirstOf(seq, n) == SubSeq(seq, 1, Min({n, Len(seq)}))

----
(* The listing. *)

NoScan == [opt |-> None, stage |-> "off", status |-> None, began |-> 0, page |-> 0, cut |-> FALSE,
           markets |-> <<>>, todo |-> <<>>, scores |-> [k \in Tickers |-> None],
           kinds |-> [e \in Events |-> None], pairs |-> {}, book |-> None, ranked |-> 0, rows |-> <<>>]

Continue(new) ==
    /\ scan' = new
    /\ UNCHANGED <<board, halted, hour, history, moves>>

InScan(stage) == scan.stage = stage
Runs(cmd) == scan.opt.cmd = cmd

StartScan ==
    \E opt \in Scans :
        /\ scan.stage = "off"
        /\ Continue([NoScan EXCEPT !.opt = opt, !.began = hour,
               !.stage = CASE opt.cmd = "opportunities" -> "status"
                           [] opt.cmd = "liquidity" -> "market"
                           [] OTHER -> "page"])

(* fetch_exchange_status: what cannot be read is as good as no halt. *)
AskStatus ==
    /\ InScan("status")
    /\ \E status \in {IF halted THEN "halted" ELSE "trading", None} :
        Continue([scan EXCEPT !.status = status, !.stage = "page"])

(* The events, in the order of their first tickers. *)
EventList ==
    Kept([i \in DOMAIN Listing |-> EventOf[Listing[i]]],
         {i \in DOMAIN Listing : \A j \in 1..i-1 : EventOf[Listing[j]] # EventOf[Listing[i]]})

ListedAs(k) ==
    LET m == board[k] IN
    [ticker |-> k, bid |-> m.bid, ask |-> m.ask, active |-> m.active, closes |-> m.closes,
     created |-> m.created, volume |-> m.volume]

(* A page of open markets; with a category or a prefix, a page of events   *)
(* and, of those wanted, every market.                                     *)
PageOfMarkets(page) ==
    LET slice == SubSeq(Listing, (page - 1) * PageSize + 1, Min({page * PageSize, Len(Listing)}))
        open == Kept(slice, {i \in DOMAIN slice : board[slice[i]].active})
    IN  [i \in DOMAIN open |-> ListedAs(open[i])]

PageOfEvents(page) ==
    LET slice == ToSet(SubSeq(EventList, (page - 1) * PageSize + 1, Min({page * PageSize, Len(EventList)})))
        nested == Kept(Listing, {i \in DOMAIN Listing : EventOf[Listing[i]] \in slice \intersect scan.opt.wanted})
    IN  [i \in DOMAIN nested |-> ListedAs(nested[i])]

ByEvent == scan.opt.wanted # None
LastPage(page) == page * PageSize >= (IF ByEvent THEN Len(EventList) ELSE Len(Listing))

FetchPage ==
    LET page == scan.page + 1
        more == scan.markets \o (IF ByEvent THEN PageOfEvents(page) ELSE PageOfMarkets(page))
        over == LastPage(page) \/ page = scan.opt.maxPages
        next == CASE Runs("opportunities") -> "rank" [] Runs("new-markets") -> "collect"
                  [] Runs("movers") -> "history" [] Runs("arbitrage") -> "pairs"
    IN  /\ InScan("page")
        /\ Continue([scan EXCEPT !.page = page, !.markets = more, !.cut = ~LastPage(page),
                         !.todo = IF over /\ Runs("movers") THEN more ELSE @,
                         !.ranked = hour,
                         !.stage = IF over THEN next ELSE @])

Failing == scan.stage \in {"page", "market", "ladder"} /\ Continue([NoScan EXCEPT !.stage = "failed"])

Shown(rows) == [scan EXCEPT !.stage = "shown", !.rows = rows]

----
(* scan opportunities. *)

NeedsBooks == scan.opt.minLiquidity # None

(* scan_top_n. *)
Candidates(opt) == IF opt.minLiquidity = None THEN opt.top ELSE Min({opt.top * 5, MaxCandidates})

Rank ==
    LET opt == scan.opt
        M == scan.markets
        kept == {i \in DOMAIN M : Verified(M[i], scan.status) /\ Fits(M[i], opt, hour)}
        best == FirstOf(Picked(M, Order(kept, [i \in kept |-> SortKey(M[i], opt)])), Candidates(opt))
    IN  /\ InScan("rank")
        /\ Continue(IF NeedsBooks /\ best # <<>>
                    THEN [scan EXCEPT !.todo = best, !.rows = best, !.ranked = hour, !.stage = "book"]
                    ELSE [Shown(best) EXCEPT !.ranked = hour])

(* An orderbook that cannot be fetched leaves the market without a score.  *)
ScoreNext ==
    /\ InScan("book") /\ scan.todo # <<>>
    /\ LET m == Head(scan.todo) IN
       \E score \in {LiquidityScore(book, m.volume, m.volume) : book \in Books} \union {None} :
          Continue([scan EXCEPT !.todo = Tail(@), !.scores[m.ticker] = score])

ShowOpportunities ==
    LET opt == scan.opt
        Score(m) == IF scan.scores[m.ticker] = None THEN 0 ELSE scan.scores[m.ticker]
        enough == Kept(scan.rows, {i \in DOMAIN scan.rows : Score(scan.rows[i]) >= opt.minLiquidity})
    IN  /\ InScan("book") /\ scan.todo = <<>>
        /\ Continue(Shown(FirstOf(enough, opt.top)))

----
(* scan new-markets: the cutoff is that of the start of the command.       *)

CollectNew ==
    LET M == scan.markets
        fresh == {i \in DOMAIN M : /\ M[i].created >= scan.began - scan.opt.hours
                                   /\ scan.opt.unpriced \/ ~Unpriced(M[i])}
    IN  /\ InScan("collect")
        /\ Continue([scan EXCEPT !.stage = "category", 
                         !.todo = Picked(M, Order(fresh, [i \in fresh |-> -M[i].created]))])

(* _get_event_category: asked once for each event. *)
KindsOf(e) ==
    IF scan.kinds[e] # None THEN {scan.kinds[e]}
    ELSE {ClassOf[e], IF Category[e] = None THEN ClassOf[e] ELSE Category[e]}

BuildNew ==
    /\ InScan("category")
    /\ \/ /\ scan.todo = <<>> \/ Len(scan.rows) >= scan.opt.top
          /\ Continue(Shown(scan.rows))
       \/ /\ scan.todo # <<>> /\ Len(scan.rows) < scan.opt.top
          /\ LET m == Head(scan.todo)
                 e == EventOf[m.ticker]
             IN \E kind \in KindsOf(e) :
                  Continue([scan EXCEPT !.todo = Tail(@), !.kinds[e] = kind,
                      !.rows = IF scan.opt.kinds = None \/ kind \in scan.opt.kinds
                               THEN Append(@, [ticker |-> m.ticker, created |-> m.created, kind |-> kind]) ELSE @])

----
(* scan movers: for each market of the listing the stored prices of the    *)
(* window, the newest against the oldest.                                  *)

Recent(k) ==
    LET newest == FirstOf(history[k], HistoryLimit)
    IN  Kept(newest, {i \in DOMAIN newest : newest[i].at >= scan.ranked - scan.opt.hours})

ReadHistory ==
    /\ InScan("history")
    /\ IF scan.todo = <<>> THEN Continue(Shown(FirstOf(Sorted(scan.rows, [i \in DOMAIN scan.rows |-> -Gap(scan.rows[i].change, 0)]), scan.opt.top)))
       ELSE LET k == Head(scan.todo).ticker
                prices == Recent(k)
                change == prices[1].twice - prices[Len(prices)].twice
            IN  Continue([scan EXCEPT !.todo = Tail(@),
                    !.rows = IF Len(prices) >= 2 /\ Gap(change, 0) > 2
                             THEN Append(@, [ticker |-> k, change |-> change, was |-> prices]) ELSE @])

----
(* scan arbitrage: pairs that correlate and diverge, and events whose      *)
(* midpoints do not add up to 100.                                         *)

PricedAs(k) == {i \in DOMAIN scan.markets : Priced(scan.markets[i]) /\ scan.markets[i].ticker = k}
PriceOf(k) == Twice(scan.markets[Max(PricedAs(k))])

BothPriced(pair) == \A k \in pair.tickers : PricedAs(k) # {}

PairDivergence(pair) ==
    IF pair.kind = "negative" THEN Gap(SumFunctionOnSet([k \in pair.tickers |-> PriceOf(k)], pair.tickers), 200)
    ELSE Max({PriceOf(k) : k \in pair.tickers}) - Min({PriceOf(k) : k \in pair.tickers})

PairRows ==
    LET found == {p \in scan.pairs : BothPriced(p) /\ PairDivergence(p) > 2 * scan.opt.threshold}
    IN  SetToSeq({[tickers |-> p.tickers, kind |-> p.kind, divergence |-> PairDivergence(p)] : p \in found})

(* find_inverse_market_groups. *)
Group(e) ==
    LET all == {i \in DOMAIN scan.markets : EventOf[scan.markets[i].ticker] = e}
    IN  IF \A i \in all : Priced(scan.markets[i]) THEN all ELSE {}

GroupRow(e) ==
    [tickers |-> {scan.markets[i].ticker : i \in Group(e)}, kind |-> "group",
     divergence |-> Gap(SumFunctionOnSet([i \in Group(e) |-> Twice(scan.markets[i])], Group(e)), 200)]

(* In the order in which the events are met among the markets.              *)
GroupRows ==
    LET EventAt(i) == EventOf[scan.markets[i].ticker]
        off == {i \in DOMAIN scan.markets :
                  /\ \A j \in 1..i-1 : EventAt(j) # EventAt(i)
                  /\ Cardinality(Group(EventAt(i))) >= 2
                  /\ GroupRow(EventAt(i)).divergence > 2 * scan.opt.threshold}
    IN  Kept([i \in DOMAIN scan.markets |-> GroupRow(EventAt(i))], off)

FindPairs ==
    /\ InScan("pairs")
    /\ \E pairs \in SUBSET Correlated :
        Continue([scan EXCEPT !.pairs = pairs, !.stage = IF scan.markets = <<>> THEN "shown" ELSE "compare"])

ShowArbitrage ==
    LET rows == PairRows \o GroupRows IN
    /\ InScan("compare")
    /\ Continue(Shown(FirstOf(Sorted(rows, [i \in DOMAIN rows |-> -rows[i].divergence]), scan.opt.top)))

----
(* market liquidity: the market, then its orderbook. *)

GetMarket ==
    /\ InScan("market")
    /\ \E k \in Tickers : Continue([scan EXCEPT !.markets = <<ListedAs(k)>>, !.stage = "ladder"])

GetOrderbook ==
    /\ InScan("ladder")
    /\ \E book \in Ladders :
        Continue([scan EXCEPT !.book = book, !.stage = "shown",
            !.rows = [side \in {"yes", "no"} |-> MaxSafeSize(book, side, scan.opt.cents)]])

----
ScanInit ==
    /\ board \in Boards
    /\ halted = FALSE
    /\ hour = 0
    /\ history \in Histories
    /\ moves = 0
    /\ scan = NoScan

ScanNext ==
    \/ Change
    \/ StartScan \/ AskStatus \/ FetchPage \/ Failing
    \/ Rank \/ ScoreNext \/ ShowOpportunities
    \/ CollectNew \/ BuildNew
    \/ ReadHistory
    \/ FindPairs \/ ShowArbitrage
    \/ GetMarket \/ GetOrderbook

ScanSpec == ScanInit /\ [][ScanNext]_screen

----
(* The rows of scan opportunities, said by counting who comes before whom: *)
(* whatever became of the listing, the status and the orderbooks on the    *)
(* way, they are the best of the candidates, in order, that were open when *)
(* they were ranked and whose orderbook scored enough; and there is none   *)
(* if the exchange had said it is halted.                                  *)
OpportunitiesRight ==
    scan.stage = "shown" /\ Runs("opportunities") =>
        LET opt == scan.opt
            M == scan.markets
            Before(i, j) == \/ SortKey(M[i], opt) < SortKey(M[j], opt)
                            \/ SortKey(M[i], opt) = SortKey(M[j], opt) /\ i < j
            Top(S, n) == {i \in S : Cardinality({j \in S : Before(j, i)}) < n}
            open == {i \in DOMAIN M : scan.status # "halted" /\ M[i].active /\ M[i].closes > scan.ranked
                                      /\ Fits(M[i], opt, scan.ranked)}
            enough == {i \in Top(open, Candidates(opt)) :
                          \/ opt.minLiquidity <= 0
                          \/ scan.scores[M[i].ticker] # None /\ scan.scores[M[i].ticker] >= opt.minLiquidity}
            best == IF NeedsBooks THEN Top(enough, opt.top) ELSE Top(open, opt.top)
        IN  /\ Len(scan.rows) = Cardinality(best)
            /\ \A r \in DOMAIN scan.rows : \E i \in best :
                  M[i] = scan.rows[r] /\ Cardinality({j \in best : Before(j, i)}) = r - 1

(* scan new-markets: newest first, each young enough at the start of the   *)
(* command, one category for each event whether its event could be read    *)
(* every time or not, and nothing newer left out that had been looked at.  *)
NewMarketsRight ==
    /\ \A i, j \in DOMAIN scan.rows :
          /\ i < j => scan.rows[i].created >= scan.rows[j].created
          /\ EventOf[scan.rows[i].ticker] = EventOf[scan.rows[j].ticker] => scan.rows[i].kind = scan.rows[j].kind
    /\ \A i \in DOMAIN scan.markets :
          LET m == scan.markets[i]
              kind == scan.kinds[EventOf[m.ticker]]
          IN  \/ \E r \in DOMAIN scan.rows : scan.rows[r].ticker = m.ticker
              \/ m.created < scan.began - scan.opt.hours
              \/ Unpriced(m) /\ ~scan.opt.unpriced
              \/ scan.opt.kinds # None /\ kind # None /\ kind \notin scan.opt.kinds
              \/ Len(scan.rows) = scan.opt.top /\ m.created <= scan.rows[scan.opt.top].created

(* scan movers: a change is the newest price stored within the window less *)
(* the oldest within it, of those that were read; none is shown that is    *)
(* smaller than one left out.                                              *)
MoversRight ==
    \A r \in DOMAIN scan.rows :
        LET row == scan.rows[r] IN
        /\ \E new, old \in DOMAIN history[row.ticker] :
              /\ row.change = history[row.ticker][new].twice - history[row.ticker][old].twice
              /\ history[row.ticker][old].at >= scan.ranked - scan.opt.hours
              /\ old - new < HistoryLimit
              /\ \/ old = Len(history[row.ticker])
                 \/ old - new + 1 = HistoryLimit
                 \/ history[row.ticker][old + 1].at < scan.ranked - scan.opt.hours
        /\ \A q \in DOMAIN scan.rows : q < r => Gap(scan.rows[q].change, 0) >= Gap(row.change, 0)

(* scan arbitrage: an event is reported with all of its listed markets, all *)
(* priced, and off by more than the threshold; one that is off is reported *)
(* or there are as many rows that are further off.                         *)
ArbitrageRight ==
    LET Of(e) == {i \in DOMAIN scan.markets : EventOf[scan.markets[i].ticker] = e}
        Names(S) == {scan.markets[i].ticker : i \in S}
        Priciest(e) == Gap(SumFunctionOnSet([i \in Of(e) |-> Twice(scan.markets[i])], Of(e)), 200)
    IN  /\ \A r \in DOMAIN scan.rows : scan.rows[r].kind = "group" =>
              \E e \in Events : /\ scan.rows[r].tickers = Names(Of(e))
                               /\ \A i \in Of(e) : Priced(scan.markets[i])
                               /\ scan.rows[r].divergence = Priciest(e)
        /\ \A e \in Events :
              \/ Cardinality(Of(e)) < 2 \/ \E i \in Of(e) : ~Priced(scan.markets[i])
              \/ Priciest(e) <= 2 * scan.opt.threshold
              \/ \E r \in DOMAIN scan.rows : scan.rows[r].tickers = Names(Of(e))
              \/ Len(scan.rows) = scan.opt.top /\ \A r \in DOMAIN scan.rows : scan.rows[r].divergence >= Priciest(e)

ReportsRight ==
    scan.stage = "shown" =>
        /\ Runs("new-markets") => NewMarketsRight
        /\ Runs("movers") => MoversRight
        /\ Runs("arbitrage") => ArbitrageRight

(* Every report says what its requests warrant, in whatever order the      *)
(* exchange and the database changed between them.                         *)
ScansRight ==
    /\ OpportunitiesRight
    /\ ReportsRight

(* market liquidity: the size it calls safe can be filled within the       *)
(* slippage, and no larger one that can be filled at all can: the binary   *)
(* search misses nothing.  Filling takes the cheapest contracts first,     *)
(* whatever the order of the levels in the answer.                         *)
SizingSound ==
    scan.stage = "shown" /\ Runs("liquidity") =>
        \A side \in {"yes", "no"} :
            LET bids == scan.book[Other(side)]
                Quantity(S) == SumFunctionOnSet([i \in DOMAIN bids |-> bids[i].qty], S)
                Cheaper(i) == {j \in DOMAIN bids :
                    \/ bids[j].price > bids[i].price
                    \/ bids[j].price = bids[i].price /\ j < i}
                Cost(n) == SumFunctionOnSet(
                    [i \in DOMAIN bids |->
                        (100 - bids[i].price) * Max({0, Min({bids[i].qty, n - Quantity(Cheaper(i))})})],
                    DOMAIN bids)
                possible == Quantity(DOMAIN bids)
                best == Min({100 - bids[i].price : i \in DOMAIN bids})
                Within(n) == Cost(n) - best * n <= scan.opt.cents * n
            IN  /\ scan.rows[side] = Max({0} \union {n \in 1..possible : Within(n)})
                /\ \A n \in 1..possible : WalkBook(scan.book, side, "buy", n).cost = Cost(n)
====
