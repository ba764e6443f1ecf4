---------------------------- MODULE PortfolioSync ----------------------------
(***************************************************************************)
(* kalshi portfolio sync (portfolio/syncer.py, _sync_trades.py,            *)
(* _sync_settlements.py, _sync_positions.py, _mark_prices.py): processes   *)
(* that copy fills, settlements and positions from an exchange that goes   *)
(* on trading into one SQLite database, then mark the open positions.      *)
(*                                                                         *)
(* A SELECT of these transactions takes no lock: pysqlite begins one at    *)
(* the first INSERT or UPDATE.  So what a function read may be old when it *)
(* writes, and an UPDATE sets the columns that differ from what was read.  *)
(***************************************************************************)
EXTENDS PortfolioLedger, FiniteSets

CONSTANTS
    Procs,          \* processes that may run the command
    Tickers,        \* markets
    FillKinds,      \* fills the account may get: [ticker, side, action, qty, price]
    Quotes,         \* midpoints a market may show
    NoQuote,        \* no or placeholder quotes, or a failed request; also "not marked"
    ScalarValue,    \* what a YES contract of a scalar market pays
    PageSize,       \* fills of one answer
    MaxFills,       \* bound: fills
    MaxSyncs,       \* bound: runs of the command
    MaxRows         \* bound: rows of the positions table

Results == {"open", "yes", "no", "scalar", "void"}

ASSUME PortfolioAssumption ==
    /\ IsFiniteSet(Procs) /\ Procs # {} /\ IsFiniteSet(Tickers)
    /\ FillKinds \subseteq [ticker : Tickers, side : {"yes", "no"}, action : {"buy", "sell"},
                            qty : Nat \ {0}, price : 1..99]
    /\ Quotes \subseteq 1..99
    /\ NoQuote \notin Int
    /\ ScalarValue \in 0..100
    /\ PageSize \in Nat \ {0}
    /\ MaxFills \in Nat /\ MaxSyncs \in Nat /\ MaxRows \in Nat

VARIABLES
    fills,          \* exchange: the account's fills, oldest first
    position,       \* exchange: contracts held, > 0 on the YES side
    result,         \* exchange: result of a settled market
    cash,           \* exchange: what a market paid to the account so far
    trades,         \* table trades, as indices into fills
    settlements,    \* table portfolio_settlements, as tickers
    rows,           \* table positions, by primary key
    run,            \* run[p]: the command process p runs
    syncs,          \* counter of the bounded runs
    synced,         \* history: a lone sync was completed since the exchange changed
    fresh           \* history: tickers a lone sync marked since then

exchange == <<fills, position, result, cash>>
tables   == <<trades, settlements, rows>>
syncVars == <<exchange, tables, run, syncs, synced, fresh>>

-----------------------------------------------------------------------------
SetMax(S) == CHOOSE i \in S : \A j \in S : j <= i

(* The trades of a ticker, by executed_at.                                 *)
TradesOf(t, ids) ==
    FoldLeftDomain(LAMBDA list, i : IF fills[i].ticker = t /\ i \in ids
                                    THEN Append(list, fills[i]) ELSE list,
                   <<>>, fills)

SideOf(n)  == IF n > 0 THEN "yes" ELSE "no"

(* quantity = abs(position).                                               *)
Size(n)    == IF n > 0 THEN n ELSE -n
Settled    == {t \in Tickers : result[t] # "open"}
OpenRows(t) == {i \in 1..Len(rows) : rows[i].ticker = t /\ ~rows[i].closed}

Row(t, side, qty, avg) ==
    [ticker |-> t, side |-> side, qty |-> qty, avg |-> avg, mark |-> NoQuote,
     unrealized |-> NoQuote, closed |-> FALSE]

NoRun == [pc |-> "idle", oldest |-> 0, got |-> {}, twice |-> {}, known |-> {},
          pos |-> [t \in Tickers |-> 0], read |-> <<>>, ids |-> {}, lone |-> FALSE]

(* The table may hold a row of the time when positions of zero contracts   *)
(* were stored as open ones.                                               *)
SyncInit ==
    /\ fills = <<>>
    /\ position = [t \in Tickers |-> 0]
    /\ result = [t \in Tickers |-> "open"]
    /\ cash = [t \in Tickers |-> 0]
    /\ trades = {} /\ settlements = {}
    /\ rows \in {<<>>} \cup {<<Row(t, "yes", 0, 0)>> : t \in Tickers}
    /\ run = [p \in Procs |-> NoRun]
    /\ syncs = 0
    /\ synced = FALSE /\ fresh = {}

-----------------------------------------------------------------------------
(* The exchange.  A market trades one side of a position at a time, and a  *)
(* sale is reported on the side opposite to the one it closes, at that     *)
(* side's price, as _fifo.py describes the fills it observes.              *)
Moved ==
    /\ run' = [p \in Procs |-> [run[p] EXCEPT !.lone = FALSE]]
    /\ synced' = FALSE
    /\ fresh' = {}
    /\ UNCHANGED <<tables, syncs>>

Fill(f) ==
    LET held == Normalized(f).side
        sign == IF held = "yes" THEN 1 ELSE -1
        n    == sign * position[f.ticker]
    IN  /\ Len(fills) < MaxFills
        /\ result[f.ticker] = "open"
        /\ IF f.action = "buy" THEN n >= 0 ELSE n >= f.qty
        /\ fills' = Append(fills, f)
        /\ position' = [position EXCEPT ![f.ticker] =
               @ + sign * (IF f.action = "buy" THEN f.qty ELSE -f.qty)]
        /\ cash' = [cash EXCEPT ![f.ticker] =
               @ + (IF f.action = "buy" THEN -f.price ELSE 100 - f.price) * f.qty]
        /\ UNCHANGED result
        /\ Moved

(* A market that was held settles; a void one is refunded outside fills    *)
(* and settlements.                                                        *)
Settle(t, r) ==
    /\ result[t] = "open"
    /\ position[t] # 0
    /\ result' = [result EXCEPT ![t] = r]
    /\ cash' = [cash EXCEPT ![t] =
           @ + (IF r = "void" THEN 0
                ELSE Size(position[t]) * SettlementPrice(r, ScalarValue, SideOf(position[t])))]
    /\ position' = [position EXCEPT ![t] = 0]
    /\ UNCHANGED fills
    /\ Moved

-----------------------------------------------------------------------------
Duplicates == \E t \in Tickers : Cardinality(OpenRows(t)) > 1

(* The command starts; the runs that overlap are not lone ones.            *)
BeginSync(p) ==
    /\ run[p].pc = "idle"
    /\ syncs < MaxSyncs
    /\ syncs' = syncs + 1
    /\ run' = [q \in Procs |->
           IF q = p THEN [NoRun EXCEPT !.pc = "fills",
                                       !.lone = ~Duplicates /\ \A o \in Procs : run[o].pc = "idle"]
           ELSE [run[q] EXCEPT !.lone = FALSE]]
    /\ UNCHANGED <<exchange, tables, synced, fresh>>

Go(p, r) ==
    /\ run' = [run EXCEPT ![p] = r]
    /\ UNCHANGED <<exchange, syncs>>

(* The command is over: completed, or with an exception.                   *)
Finish(p, marked) ==
    /\ Go(p, NoRun)
    /\ synced' = (synced \/ run[p].lone)
    /\ fresh' = IF ~synced' THEN {} ELSE IF run[p].lone THEN fresh \cup marked ELSE fresh

GiveUp(p) == Go(p, NoRun) /\ UNCHANGED <<synced, fresh>>

(* An API error, a locked database, or Ctrl+C: what was committed stays.   *)
Abort(p) == run[p].pc # "idle" /\ GiveUp(p) /\ UNCHANGED tables

(* Mutant: the cursor of the answer is not followed.                        *)
FetchFirstPage(p) ==
    LET r    == run[p]
        page == {i \in 1..Len(fills) : i > Len(fills) - PageSize}
    IN  /\ r.pc = "fills"
        /\ Go(p, [r EXCEPT !.got = page, !.pc = "trades"])
        /\ UNCHANGED <<tables, synced, fresh>>

(* sync_trades: one page of get_fills, newest first.  What a cursor means  *)
(* is the exchange's: while fills arrive, a page may begin with the fill   *)
(* the one before it ended with.                                           *)
FetchFills(p) ==
    LET r == run[p]
    IN  /\ r.pc = "fills"
        /\ \E first \in IF r.oldest = 0 THEN {Len(fills)} ELSE {r.oldest - 1, r.oldest} :
              LET page == {i \in 1..first : i > first - PageSize}
              IN  Go(p, [r EXCEPT !.got = @ \cup page,
                                  !.twice = @ \cup (r.got \cap page),
                                  !.oldest = IF page = {} THEN 0 ELSE first - Cardinality(page) + 1,
                                  !.pc = IF page = {} \/ 1 \in page THEN "trades" ELSE "fills"])
        /\ UNCHANGED <<tables, synced, fresh>>

(* The ids already stored are read ...                                     *)
ReadTrades(p) ==
    /\ run[p].pc = "trades"
    /\ Go(p, [run[p] EXCEPT !.known = trades, !.pc = "insert"])
    /\ UNCHANGED <<tables, synced, fresh>>

(* ... and the other fills inserted, all or none: kalshi_trade_id is       *)
(* unique, so a fill that came twice or was stored meanwhile undoes it.    *)
InsertTrades(p) ==
    LET r   == run[p]
        new == r.got \ r.known
    IN  /\ r.pc = "insert"
        /\ IF new \cap (r.twice \cup trades) = {}
           THEN /\ trades' = trades \cup new
                /\ Go(p, [r EXCEPT !.pc = "settlements", !.got = {}, !.twice = {}, !.known = {},
                                   !.oldest = 0])
                /\ UNCHANGED <<settlements, rows, synced, fresh>>
           ELSE GiveUp(p) /\ UNCHANGED tables

(* sync_settlements, the same way; its own list of keys also catches a     *)
(* settlement that comes twice.                                            *)
FetchSettlements(p) ==
    /\ run[p].pc = "settlements"
    /\ Go(p, [run[p] EXCEPT !.got = Settled, !.pc = "keys"])
    /\ UNCHANGED <<tables, synced, fresh>>

ReadSettlements(p) ==
    /\ run[p].pc = "keys"
    /\ Go(p, [run[p] EXCEPT !.known = settlements, !.pc = "settle"])
    /\ UNCHANGED <<tables, synced, fresh>>

InsertSettlements(p) ==
    LET r   == run[p]
        new == r.got \ r.known
    IN  /\ r.pc = "settle"
        /\ IF new \cap settlements = {}
           THEN /\ settlements' = settlements \cup new
                /\ Go(p, [r EXCEPT !.pc = "positions", !.got = {}, !.known = {}])
                /\ UNCHANGED <<trades, rows, synced, fresh>>
           ELSE GiveUp(p) /\ UNCHANGED tables

(* sync_positions: the answer of get_positions, then the rows not closed.  *)
FetchPositions(p) ==
    /\ run[p].pc = "positions"
    /\ Go(p, [run[p] EXCEPT !.pos = position, !.pc = "rows"])
    /\ UNCHANGED <<tables, synced, fresh>>

ReadRows(p) ==
    /\ run[p].pc = "rows"
    /\ Go(p, [run[p] EXCEPT !.read = rows, !.pc = "write",
                            !.ids = {i \in 1..Len(rows) : ~rows[i].closed}])
    /\ UNCHANGED <<tables, synced, fresh>>

(* The UPDATE of row i: columns whose new value is the one read are left.  *)
Put(old, read, new) ==
    [c \in DOMAIN old |-> IF new[c] = read[c] THEN old[c] ELSE new[c]]

(* existing_open: per ticker the last of the rows with contracts.          *)
Existing(r, t) ==
    LET ids == {i \in r.ids : r.read[i].ticker = t /\ r.read[i].qty > 0}
    IN  IF ids = {} THEN 0 ELSE SetMax(ids)

Closed(row) == [row EXCEPT !.qty = 0, !.closed = TRUE]

(* What sync_positions makes of row i: closed without contracts, updated   *)
(* when the ticker is held, closed when it is not.                         *)
Revised(r, i) ==
    LET row == r.read[i]
        n   == r.pos[row.ticker]
    IN  IF i \notin r.ids THEN row
        ELSE IF row.qty <= 0 THEN Closed(row)
        ELSE IF i # Existing(r, row.ticker) THEN row
        ELSE IF n = 0 THEN Closed(row)
        ELSE [row EXCEPT !.qty = Size(n), !.side = SideOf(n),
                         !.avg = CostBasis(TradesOf(row.ticker, trades), SideOf(n))]

(* Rows and new rows are written; mark prices follow when something is    *)
(* held, unless --skip-mark-prices was given.                              *)
WriteRows(p) ==
    LET r    == run[p]
        held == {t \in Tickers : r.pos[t] # 0}
        new  == SetToSeq({t \in held : Existing(r, t) = 0})
        kept == [i \in 1..Len(rows) |->
                    IF i <= Len(r.read) THEN Put(rows[i], r.read[i], Revised(r, i)) ELSE rows[i]]
    IN  /\ r.pc = "write"
        /\ Len(rows) + Len(new) <= MaxRows
        /\ rows' = kept \o [k \in 1..Len(new) |->
               Row(new[k], SideOf(r.pos[new[k]]), Size(r.pos[new[k]]),
                   CostBasis(TradesOf(new[k], trades), SideOf(r.pos[new[k]])))]
        /\ UNCHANGED <<trades, settlements>>
        /\ \/ Finish(p, {})
           \/ /\ held # {}
              /\ Go(p, [r EXCEPT !.pc = "marks", !.read = <<>>, !.ids = {},
                                 !.pos = [t \in Tickers |-> 0]])
              /\ UNCHANGED <<synced, fresh>>

(* update_mark_prices reads the open rows in one transaction, asks for the *)
(* quotes without any, ...                                                 *)
ReadOpen(p) ==
    LET open == {i \in 1..Len(rows) : rows[i].qty > 0 /\ ~rows[i].closed}
    IN  /\ run[p].pc = "marks"
        /\ IF open = {} THEN Finish(p, {})
           ELSE /\ Go(p, [run[p] EXCEPT !.pc = "quotes", !.read = rows, !.ids = open])
                /\ UNCHANGED <<synced, fresh>>
        /\ UNCHANGED tables

Marked(row, quote) ==
    [row EXCEPT !.mark = quote,
                !.unrealized = IF row.avg > 0 THEN (quote - row.avg) * row.qty ELSE NoQuote]

(* ... and writes what it made of the rows it read.                        *)
WriteMarks(p) ==
    LET r == run[p]
    IN  /\ r.pc = "quotes"
        /\ \E quote \in [{r.read[i].ticker : i \in r.ids} -> Quotes \cup {NoQuote}] :
              LET ids == {i \in r.ids : quote[r.read[i].ticker] # NoQuote}
              IN  /\ rows' = [i \in 1..Len(rows) |->
                         IF i \in ids
                         THEN Put(rows[i], r.read[i], Marked(r.read[i], quote[r.read[i].ticker]))
                         ELSE rows[i]]
                  /\ Finish(p, {r.read[i].ticker : i \in ids})
        /\ UNCHANGED <<trades, settlements>>

SyncStep(p) ==
    \/ FetchFills(p)
    \/ ReadTrades(p)
    \/ InsertTrades(p)
    \/ FetchSettlements(p)
    \/ ReadSettlements(p)
    \/ InsertSettlements(p)
    \/ FetchPositions(p)
    \/ ReadRows(p)
    \/ WriteRows(p)
    \/ ReadOpen(p)
    \/ WriteMarks(p)

SyncNext ==
    \/ \E f \in FillKinds : Fill(f)
    \/ \E t \in Tickers, r \in Results \ {"open"} : Settle(t, r)
    \/ \E p \in Procs : BeginSync(p) \/ SyncStep(p) \/ Abort(p)

SyncSpec == SyncInit /\ [][SyncNext]_syncVars

-----------------------------------------------------------------------------
Rows == [ticker : Tickers, side : {"yes", "no"}, qty : Nat, avg : Nat,
         mark : Quotes \cup {NoQuote}, unrealized : Int \cup {NoQuote}, closed : BOOLEAN]

SyncTypeOK ==
    /\ fills \in Seq(FillKinds)
    /\ position \in [Tickers -> Int] /\ cash \in [Tickers -> Int]
    /\ result \in [Tickers -> Results]
    /\ trades \subseteq 1..Len(fills)
    /\ settlements \subseteq Tickers
    /\ rows \in Seq(Rows)
    /\ syncs \in 0..MaxSyncs
    /\ synced \in BOOLEAN /\ fresh \subseteq Tickers
    /\ \A p \in Procs : /\ run[p].twice \subseteq run[p].got
                        /\ run[p].ids \subseteq 1..Len(run[p].read)

(* After a sync that no other one overlapped, on an exchange that did not   *)
(* change meanwhile and a table without duplicate rows, whatever failed or  *)
(* overlapped before: every fill and settlement is stored, every market     *)
(* held has exactly one open row, of the right size, side and cost basis,   *)
(* no other row is open, and the profit shown is that of the row, once a    *)
(* sync that ran alone has marked it: two that mark at once can leave the   *)
(* quote of one beside the profit of the other.  Later syncs, completed,    *)
(* aborted or overlapping, leave all of it so.                              *)
SyncConverges ==
    synced =>
        /\ trades = 1..Len(fills)
        /\ settlements = Settled
        /\ \A t \in Tickers :
              IF position[t] = 0 THEN OpenRows(t) = {}
              ELSE \E i \in 1..Len(rows) :
                      /\ OpenRows(t) = {i}
                      /\ rows[i].qty = Size(position[t])
                      /\ rows[i].side = SideOf(position[t])
                      /\ rows[i].avg = CostBasis(TradesOf(t, trades), rows[i].side)
                      /\ t \in fresh /\ rows[i].avg > 0 =>
                            rows[i].unrealized = (rows[i].mark - rows[i].avg) * rows[i].qty

(* Processes that overlap each insert a row for a ticker they found none    *)
(* for (ticker is not unique in the positions table), but never more than   *)
(* one each: a market has at most as many open rows as there are processes. *)
OpenRowsBounded ==
    \A t \in Tickers : Cardinality(OpenRows(t)) <= Cardinality(Procs)

(* The tables follow the exchange: whatever syncs fail or overlap, the      *)
(* damage is bounded and one undisturbed sync repairs it.                   *)
TablesFollow ==
    /\ SyncTypeOK
    /\ SyncConverges
    /\ OpenRowsBounded

(* Once all its fills are stored, the profit calculate_summary_with_trades  *)
(* realises for a market without a position is what the market paid to the  *)
(* account, whether it was closed by trades or by a settlement.             *)
ProfitIsCash ==
    \A t \in Tickers :
        /\ position[t] = 0
        /\ \A i \in 1..Len(fills) : fills[i].ticker = t => i \in trades
        /\ result[t] # "open" => t \in settlements
        /\ result[t] # "void"
        => Realized(TradesOf(t, trades), t \in settlements, result[t], ScalarValue) = cash[t]

=============================================================================
