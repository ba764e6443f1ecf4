--------------------------- MODULE NewsDeskProofs ---------------------------
(***************************************************************************)
(* For any markets, events and articles, any number of processes and any   *)
(* interleaving of their statements: the news and data commands leave no   *)
(* orphan in the database, one that runs alone meets no integrity error, a *)
(* prune takes exactly the old, an export nobody committed beside is       *)
(* consistent, and no commit forgets what is known of the exchange.        *)
(***************************************************************************)
EXTENDS NewsDesk, TLAPS

(* What a command remembers between its phases.                            *)
PrunedTables == {"prices", "articles", "market_links", "event_links", "scores"}
Enrolment == {"no", "active", "inactive"}
PruneMemo == [found : SUBSET PrunedTables]
TrackMemo == [ticker : Tickers, event : Events, given : EventRow, market : MarketRow,
              seen_event : EventRow \union {Null}, seen_market : MarketRow \union {Null}, seen_item : Enrolment]
UntrackMemo == [ticker : Tickers, seen_item : Enrolment]
CollectMemo == [items : SUBSET Tickers, item : Tickers \union {Null}]

CommandNames == {"none", "sync-markets", "sync-settlements", "snapshot", "full-sync", "prune",
                 "export", "track", "untrack", "collect"}
PhaseNames == Sweeps \union PrunedTables \union
    {"delete", "tables", "find_event", "find_market", "merge", "find_item", "enrol", "retire",
     "items", "results", "store", "link"}
ExportTables == {"events", "markets", "settlements", "prices"}
Options == {"mve_events", "open_only", "exclude_mve", "max_pages", "prices", "news", "apply", "csv", "parquet"}
Page == [of : Events \union Markets \union Urls, full : BOOLEAN, status : {"open", "settled"}]

Commands ==
    [cmd : CommandNames, phases : Seq(PhaseNames),
     rest : SUBSET (Events \union Markets \union Urls \union ExportTables),
     page : Page \union {Null}, opt : SUBSET Options, at : Times,
     memo : PruneMemo \union TrackMemo \union UntrackMemo \union CollectMemo \union {Null},
     overlap : BOOLEAN, end : {"ok", "running", "aborted", "integrity"}]

(* What no command takes back.                                             *)
Grows(d, e) ==
    /\ \A v \in Events : d.events[v] # Null => e.events[v] # Null
    /\ \A m \in Markets : d.markets[m] # Null => e.markets[m] # Null
    /\ \A t \in Tickers : d.tracked[t] # "no" => e.tracked[t] # "no"

(* A sweep deletes nothing and leaves the news alone.                      *)
Extends(d, e) ==
    /\ e \in Database /\ ForeignKeysHold(e) /\ Grows(d, e)
    /\ d.prices \subseteq e.prices /\ d.settled \subseteq e.settled
    /\ e.tracked = d.tracked /\ e.articles = d.articles /\ e.links = d.links /\ e.scores = d.scores

----
Objects(phase) == IF phase = "events" THEN Events ELSE Markets

Sweeping(c) ==
    /\ c.cmd \in {"sync-markets", "sync-settlements", "snapshot", "full-sync"}
    /\ c.phases \in Seq(Sweeps)
    /\ c.rest \subseteq Objects(Head(c.phases))
    /\ c.page # Null => c.page.of \in Objects(Head(c.phases))

PrunePhases ==
    {<<"prices", "articles", "market_links", "event_links", "scores", "delete">>,
     <<"articles", "market_links", "event_links", "scores", "delete">>,
     <<"market_links", "event_links", "scores", "delete">>,
     <<"event_links", "scores", "delete">>, <<"scores", "delete">>, <<"delete">>}

(* The tables whose rows have been counted when a phase begins.            *)
Passed(phase) ==
    CASE phase = "prices" -> {}
      [] phase = "articles" -> {"prices"}
      [] phase = "market_links" -> {"prices", "articles"}
      [] phase = "event_links" -> {"prices", "articles", "market_links"}
      [] phase = "scores" -> {"prices", "articles", "market_links", "event_links"}
      [] phase = "delete" -> PrunedTables

(* Unless something was committed since, the counts are right.             *)
Pruning(d, c) ==
    /\ c.cmd = "prune"
    /\ c.memo \in PruneMemo
    /\ c.phases \in PrunePhases
    /\ c.memo.found \subseteq Passed(Head(c.phases))
    /\ ~c.overlap => \A t \in Passed(Head(c.phases)) : t \in c.memo.found <=> Matches(d, t, c)

Exporting(c) == c.cmd = "export" /\ c.phases = <<"tables">> /\ c.rest \subseteq ExportTables

(* Unless something was committed since, the rows found are the rows.      *)
TrackPhases(t) ==
    IF t \in Markets
    THEN {<<"find_event", "find_market", "merge", "find_item", "enrol">>,
          <<"find_market", "merge", "find_item", "enrol">>,
          <<"merge", "find_item", "enrol">>, <<"find_item", "enrol">>, <<"enrol">>}
    ELSE {<<"find_event", "merge", "find_item", "enrol">>,
          <<"merge", "find_item", "enrol">>, <<"find_item", "enrol">>, <<"enrol">>}

Tracking(d, c) ==
    LET k == c.memo
        phase == Head(c.phases)
    IN  /\ c.cmd = "track"
        /\ k \in TrackMemo
        /\ k.event = IF k.ticker \in Markets THEN EventOf[k.ticker] ELSE k.ticker
        /\ c.phases \in TrackPhases(k.ticker)
        /\ k.seen_event # Null => d.events[k.event] # Null
        /\ k.seen_market # Null /\ k.ticker \in Markets => d.markets[k.ticker] # Null
        /\ phase \in {"find_market", "merge"} /\ ~c.overlap => k.seen_event = d.events[k.event]
        /\ phase = "merge" /\ k.ticker \in Markets /\ ~c.overlap => k.seen_market = d.markets[k.ticker]
        /\ phase \in {"find_item", "enrol"} => Known(d, k.ticker)
        /\ phase = "enrol" /\ ~c.overlap => k.seen_item = d.tracked[k.ticker]

Untracking(d, c) ==
    /\ c.cmd = "untrack"
    /\ c.memo \in UntrackMemo
    /\ c.phases \in {<<"find_item", "retire">>, <<"retire">>}
    /\ Head(c.phases) = "retire" /\ c.memo.seen_item # "no" => d.tracked[c.memo.ticker] # "no"

Collecting(d, c) ==
    /\ c.cmd = "collect"
    /\ c.memo \in CollectMemo
    /\ \A t \in c.memo.items : d.tracked[t] # "no"
    /\ c.phases \in {<<"items">>, <<"results", "items">>,
                     <<"store", "results", "items">>, <<"link", "results", "items">>}
    /\ c.phases # <<"items">> =>
          c.rest \subseteq Urls /\ c.memo.item \in Tickers /\ d.tracked[c.memo.item] # "no"
    /\ Head(c.phases) \in {"store", "link"} => c.page \in Page /\ c.page.of \in Urls

AtWork(d, c) == Sweeping(c) \/ Pruning(d, c) \/ Exporting(c) \/ Tracking(d, c) \/ Untracking(d, c) \/ Collecting(d, c)

Good(d, c) ==
    /\ c \in Commands
    /\ c.end = "running" <=> c.phases # <<>>
    /\ c.end = "integrity" => c.overlap /\ c.cmd \in {"track", "prune"}
    /\ c.phases # <<>> => AtWork(d, c)

(* What the holder of the write lock has made of the database so far.      *)
WorkOf(c, d, w) ==
    \/ Sweeping(c) /\ Extends(d, w)
    \/ Collecting(d, c) /\ Head(c.phases) = "link" /\ \E t \in Times : w = [d EXCEPT !.articles[c.page.of] = t]

LockSound ==
    /\ holder \in Procs \union {Null}
    /\ holder = Null => work = db
    /\ holder # Null => Running(holder) /\ WorkOf(proc[holder], db, work)
    /\ \A p \in Procs : In(p, "link") => holder = p

Inv ==
    /\ listing \in [Markets -> {"open", "settled"}]
    /\ now \in Times
    /\ started \in 0..MaxCommands
    /\ proc \in [Procs -> Commands]
    /\ Whole(db)
    /\ LockSound
    /\ \A p \in Procs : Good(db, proc[p])

-----------------------------------------------------------------------------
(* The rows.                                                               *)
LEMMA RowsAreThere ==
    /\ Null \notin EventRow /\ Null \notin MarketRow /\ Null \notin Times
    /\ \A m \in Markets : EventOf[m] \in Events
    /\ \A t \in Markets : t \notin Events
  BY TablesAssumption

LEMMA RowsMade ==
    /\ \A r, c \in BOOLEAN : [real |-> r, cat |-> c] \in EventRow
    /\ \A s \in {"open", "settled"}, c \in BOOLEAN : [status |-> s, cat |-> c] \in MarketRow
  BY DEF EventRow, MarketRow

LEMMA Columns ==
    ASSUME NEW d \in Database
    PROVE  /\ d.events \in [Events -> EventRow \union {Null}]
           /\ d.markets \in [Markets -> MarketRow \union {Null}]
           /\ d.prices \subseteq Markets \X Times
           /\ d.settled \subseteq Markets
           /\ d.tracked \in [Tickers -> Enrolment]
           /\ d.articles \in [Urls -> Times \union {Null}]
           /\ d.links \subseteq Urls \X Tickers
           /\ d.scores \subseteq Urls
  BY DEF Database, Enrolment

LEMMA ExtendsItself ==
    ASSUME NEW d \in Database, ForeignKeysHold(d)
    PROVE  Extends(d, d)
  BY DEF Extends, Grows

LEMMA ExtendsFurther ==
    ASSUME NEW d, NEW e, NEW f, Extends(d, e), Extends(e, f)
    PROVE  Extends(d, f)
  BY DEF Extends, Grows

(* A table of events, of markets, of what hangs from markets replaced by a *)
(* larger one.                                                             *)
LEMMA MoreEvents ==
    ASSUME NEW d \in Database, ForeignKeysHold(d),
           NEW f \in [Events -> EventRow \union {Null}],
           \A v \in Events : d.events[v] # Null => f[v] # Null
    PROVE  Extends(d, [d EXCEPT !.events = f]) /\ [d EXCEPT !.events = f].events = f
<1> DEFINE e == [d EXCEPT !.events = f]
<1>1. /\ e \in Database /\ e.events = f /\ e.markets = d.markets /\ e.prices = d.prices
      /\ e.settled = d.settled /\ e.tracked = d.tracked /\ e.articles = d.articles
      /\ e.links = d.links /\ e.scores = d.scores
  BY DEF Database
<1> HIDE DEF e
<1>2. ForeignKeysHold(e)
  BY <1>1, RowsAreThere DEF ForeignKeysHold
<1>3. Grows(d, e)
  BY <1>1 DEF Grows
<1>4. QED
  BY <1>1, <1>2, <1>3 DEF Extends, e

LEMMA MoreMarkets ==
    ASSUME NEW d \in Database, ForeignKeysHold(d),
           NEW f \in [Markets -> MarketRow \union {Null}],
           \A m \in Markets : d.markets[m] # Null => f[m] # Null,
           \A m \in Markets : f[m] # Null => d.events[EventOf[m]] # Null
    PROVE  /\ Extends(d, [d EXCEPT !.markets = f])
           /\ [d EXCEPT !.markets = f].markets = f
           /\ [d EXCEPT !.markets = f].events = d.events
<1> DEFINE e == [d EXCEPT !.markets = f]
<1>1. /\ e \in Database /\ e.events = d.events /\ e.markets = f /\ e.prices = d.prices
      /\ e.settled = d.settled /\ e.tracked = d.tracked /\ e.articles = d.articles
      /\ e.links = d.links /\ e.scores = d.scores
  BY DEF Database
<1> HIDE DEF e
<1>2. ForeignKeysHold(e)
  <2>1. \A r \in d.prices : r[1] \in Markets
    BY Columns
  <2>2. d.settled \subseteq Markets
    BY Columns
  <2>3. QED
    BY <1>1, <2>1, <2>2 DEF ForeignKeysHold
<1>3. Grows(d, e)
  BY <1>1 DEF Grows
<1>4. QED
  BY <1>1, <1>2, <1>3 DEF Extends, e

LEMMA MorePrices ==
    ASSUME NEW d \in Database, ForeignKeysHold(d), NEW m \in Markets, d.markets[m] # Null, NEW t \in Times
    PROVE  Extends(d, AddPrice(d, m, t))
<1> DEFINE e == AddPrice(d, m, t)
<1>1. /\ e \in Database /\ e.events = d.events /\ e.markets = d.markets
      /\ e.prices = d.prices \union {<<m, t>>}
      /\ e.settled = d.settled /\ e.tracked = d.tracked /\ e.articles = d.articles
      /\ e.links = d.links /\ e.scores = d.scores
  BY DEF Database, AddPrice
<1> HIDE DEF e
<1>2. ForeignKeysHold(e)
  BY <1>1 DEF ForeignKeysHold
<1>3. QED
  BY <1>1, <1>2 DEF Extends, Grows, e

LEMMA MoreSettlements ==
    ASSUME NEW d \in Database, ForeignKeysHold(d), NEW m \in Markets, d.markets[m] # Null
    PROVE  Extends(d, UpsertSettlement(d, m))
<1> DEFINE e == UpsertSettlement(d, m)
<1>1. /\ e \in Database /\ e.events = d.events /\ e.markets = d.markets /\ e.prices = d.prices
      /\ e.settled = d.settled \union {m} /\ e.tracked = d.tracked /\ e.articles = d.articles
      /\ e.links = d.links /\ e.scores = d.scores
  BY DEF Database, UpsertSettlement
<1> HIDE DEF e
<1>2. ForeignKeysHold(e)
  BY <1>1 DEF ForeignKeysHold
<1>3. QED
  BY <1>1, <1>2 DEF Extends, Grows, e

(* What each statement of the repositories does.                           *)
LEMMA EventIgnored ==
    ASSUME NEW d \in Database, ForeignKeysHold(d), NEW v \in Events
    PROVE  Extends(d, IgnoreEvent(d, v)) /\ IgnoreEvent(d, v).events[v] # Null
<1>1. CASE d.events[v] # Null
  BY <1>1, ExtendsItself DEF IgnoreEvent
<1>2. CASE d.events[v] = Null
  <2> DEFINE row == [real |-> FALSE, cat |-> FALSE]
             f == [d.events EXCEPT ![v] = row]
  <2>1. row \in EventRow /\ row # Null
    BY RowsAreThere, RowsMade
  <2> HIDE DEF row
  <2>2. f \in [Events -> EventRow \union {Null}] /\ f[v] = row /\ \A w \in Events : w # v => f[w] = d.events[w]
    BY <2>1, Columns
  <2> HIDE DEF f
  <2>3. IgnoreEvent(d, v) = [d EXCEPT !.events = f]
    BY <1>2 DEF IgnoreEvent, f, row
  <2>4. QED
    BY <2>1, <2>2, <2>3, MoreEvents
<1>3. QED
  BY <1>1, <1>2

LEMMA EventUpserted ==
    ASSUME NEW d \in Database, ForeignKeysHold(d), NEW v \in Events, NEW cat \in BOOLEAN
    PROVE  Extends(d, UpsertEvent(d, v, cat))
<1> DEFINE row == [real |-> TRUE, cat |-> cat \/ (d.events[v] # Null /\ d.events[v].cat)]
           f == [d.events EXCEPT ![v] = row]
<1>1. row \in EventRow /\ row # Null
  <2>1. d.events[v] \in EventRow \union {Null}
    BY Columns
  <2>2. (cat \/ (d.events[v] # Null /\ d.events[v].cat)) \in BOOLEAN
    BY <2>1 DEF EventRow
  <2>3. QED
    BY <2>2, RowsAreThere, RowsMade
<1> HIDE DEF row
<1>2. f \in [Events -> EventRow \union {Null}] /\ f[v] = row /\ \A w \in Events : w # v => f[w] = d.events[w]
  BY <1>1, Columns
<1> HIDE DEF f
<1>3. UpsertEvent(d, v, cat) = [d EXCEPT !.events = f]
  BY DEF UpsertEvent, f, row
<1>4. QED
  BY <1>1, <1>2, <1>3, MoreEvents

LEMMA MarketUpserted ==
    ASSUME NEW d \in Database, ForeignKeysHold(d), NEW m \in Markets, NEW s \in {"open", "settled"},
           d.events[EventOf[m]] # Null
    PROVE  Extends(d, UpsertMarket(d, m, s)) /\ UpsertMarket(d, m, s).markets[m] # Null
<1> DEFINE row == [status |-> s, cat |-> FALSE]
           f == [d.markets EXCEPT ![m] = row]
<1>1. row \in MarketRow /\ row # Null
  BY RowsAreThere, RowsMade
<1> HIDE DEF row
<1>2. f \in [Markets -> MarketRow \union {Null}] /\ f[m] = row /\ \A w \in Markets : w # m => f[w] = d.markets[w]
  BY <1>1, Columns
<1> HIDE DEF f
<1>3. UpsertMarket(d, m, s) = [d EXCEPT !.markets = f]
  BY DEF UpsertMarket, f, row
<1>4. \A w \in Markets : f[w] # Null => d.events[EventOf[w]] # Null
  BY <1>2 DEF ForeignKeysHold
<1>5. QED
  BY <1>1, <1>2, <1>3, <1>4, MoreMarkets

LEMMA MarketIgnored ==
    ASSUME NEW d \in Database, ForeignKeysHold(d), NEW m \in Markets, NEW s \in {"open", "settled"},
           d.events[EventOf[m]] # Null
    PROVE  Extends(d, IgnoreMarket(d, m, s)) /\ IgnoreMarket(d, m, s).markets[m] # Null
<1>1. CASE d.markets[m] # Null
  BY <1>1, ExtendsItself DEF IgnoreMarket
<1>2. CASE d.markets[m] = Null
  <2>1. IgnoreMarket(d, m, s) = UpsertMarket(d, m, s)
    BY <1>2 DEF IgnoreMarket, UpsertMarket
  <2>2. QED
    BY <2>1, MarketUpserted
<1>3. QED
  BY <1>1, <1>2

LEMMA CategoriesCopied ==
    ASSUME NEW d \in Database, ForeignKeysHold(d)
    PROVE  Extends(d, Denormalize(d))
<1> DEFINE f == [m \in Markets |->
        IF d.markets[m] = Null \/ d.events[EventOf[m]] = Null THEN d.markets[m]
        ELSE [d.markets[m] EXCEPT !.cat = @ \/ d.events[EventOf[m]].cat]]
<1>1. ASSUME NEW m \in Markets
      PROVE  /\ f[m] \in MarketRow \union {Null}
             /\ f[m] # Null <=> d.markets[m] # Null
  <2>1. d.markets[m] \in MarketRow \union {Null} /\ d.events[EventOf[m]] \in EventRow \union {Null}
    BY Columns, RowsAreThere
  <2>2. CASE d.markets[m] = Null \/ d.events[EventOf[m]] = Null
    BY <2>1, <2>2
  <2>3. CASE d.markets[m] # Null /\ d.events[EventOf[m]] # Null
    <3>1. d.events[EventOf[m]].cat \in BOOLEAN
      BY <2>1, <2>3 DEF EventRow
    <3>2. [d.markets[m] EXCEPT !.cat = @ \/ d.events[EventOf[m]].cat] \in MarketRow
      BY <2>1, <2>3, <3>1 DEF MarketRow
    <3>3. QED
      BY <2>3, <3>2, RowsAreThere
  <2>4. QED
    BY <2>2, <2>3
<1>2. f \in [Markets -> MarketRow \union {Null}]
  BY <1>1
<1>3. Denormalize(d) = [d EXCEPT !.markets = f]
  BY DEF Denormalize
<1> HIDE DEF f
<1>4. \A m \in Markets : f[m] # Null => d.events[EventOf[m]] # Null
  BY <1>1 DEF ForeignKeysHold
<1>5. QED
  BY <1>1, <1>2, <1>3, <1>4, MoreMarkets

(* What each sweep does with one object of the listing.                    *)
LEMMA ListedApplied ==
    ASSUME NEW d \in Database, ForeignKeysHold(d), NEW phase \in Sweeps,
           NEW page \in Page, page.of \in Objects(phase), NEW at \in Times
    PROVE  Extends(d, Applied(phase, d, page, at))
<1>0. page.full \in BOOLEAN /\ page.status \in {"open", "settled"}
  BY DEF Page
<1>1. CASE phase = "events"
  BY <1>0, <1>1, EventUpserted DEF Applied, SyncedEvent, Objects
<1>2. ASSUME phase # "events"
      PROVE  /\ page.of \in Markets /\ EventOf[page.of] \in Events
             /\ IgnoreEvent(d, EventOf[page.of]) \in Database
             /\ ForeignKeysHold(IgnoreEvent(d, EventOf[page.of]))
             /\ Extends(d, IgnoreEvent(d, EventOf[page.of]))
             /\ IgnoreEvent(d, EventOf[page.of]).events[EventOf[page.of]] # Null
  BY <1>2, EventIgnored, RowsAreThere DEF Objects, Extends
<1> DEFINE m == page.of
           e == IgnoreEvent(d, EventOf[m])
<1> HIDE DEF e
<1>3. ASSUME phase # "events"
      PROVE  /\ m \in Markets /\ EventOf[m] \in Events /\ e \in Database
             /\ ForeignKeysHold(e) /\ Extends(d, e) /\ e.events[EventOf[m]] # Null
  BY <1>2, <1>3 DEF e
<1> HIDE DEF m
<1>4. CASE phase = "markets"
  <2>1. Extends(e, UpsertMarket(e, m, page.status))
    BY <1>0, <1>3, <1>4, MarketUpserted
  <2>2. Applied(phase, d, page, at) = UpsertMarket(e, m, page.status)
    BY <1>4 DEF Applied, SyncedMarket, e, m
  <2>3. QED
    BY <1>3, <1>4, <2>1, <2>2, ExtendsFurther
<1>5. CASE phase = "settlements"
  <2>1. CASE ~page.full
    <3>1. Applied(phase, d, page, at) = d
      BY <1>5, <2>1 DEF Applied, SettledMarket
    <3>2. QED
      BY <3>1, ExtendsItself
  <2>2. CASE page.full
    <3> DEFINE g == UpsertMarket(e, m, page.status)
    <3>1. Extends(e, g) /\ g.markets[m] # Null
      BY <1>0, <1>3, <1>5, MarketUpserted
    <3>2. Applied(phase, d, page, at) = UpsertSettlement(g, m)
      BY <1>5, <2>2 DEF Applied, SettledMarket, e, m
    <3> HIDE DEF g
    <3>3. Extends(g, UpsertSettlement(g, m))
      BY <1>3, <1>5, <3>1, MoreSettlements DEF Extends
    <3>4. QED
      BY <1>3, <1>5, <3>1, <3>2, <3>3, ExtendsFurther
  <2>3. QED
    BY <1>0, <2>1, <2>2
<1>6. CASE phase = "snapshot"
  <2> DEFINE g == IgnoreMarket(e, m, page.status)
  <2>1. Extends(e, g) /\ g.markets[m] # Null
    BY <1>0, <1>3, <1>6, MarketIgnored
  <2>2. Applied(phase, d, page, at) = IF page.full THEN AddPrice(g, m, at) ELSE g
    BY <1>6 DEF Applied, SnappedMarket, e, m
  <2> HIDE DEF g
  <2>3. Extends(g, AddPrice(g, m, at))
    BY <1>3, <1>6, <2>1, MorePrices DEF Extends
  <2>4. QED
    BY <1>3, <1>6, <2>1, <2>2, <2>3, ExtendsFurther
<1>7. QED
  BY <1>1, <1>4, <1>5, <1>6 DEF Sweeps

(* What was committed after a sweep is as whole as it was.                 *)
LEMMA ExtendedIsWhole ==
    ASSUME NEW d, Whole(d), NEW e, Extends(d, e)
    PROVE  Whole(e) /\ Grows(d, e)
  BY DEF Whole, Extends, Grows, ArticlesLinked, TrackedKnown, Known

-----------------------------------------------------------------------------
(* What a step of a process does to the invariant: it only touches its own *)
(* record; it gives up; it writes; it commits.                             *)
LEMMA Updated ==
    ASSUME Inv, NEW p \in Procs, NEW c \in Commands, proc' = [proc EXCEPT ![p] = c]
    PROVE  proc' \in [Procs -> Commands] /\ \A q \in Procs : proc'[q] = IF q = p THEN c ELSE proc[q]
  BY DEF Inv

LEMMA NoteKeeps ==
    ASSUME Inv, NEW p \in Procs, NEW c, proc' = [proc EXCEPT ![p] = c],
           UNCHANGED <<listing, now, db, work, holder>>, started' \in 0..MaxCommands,
           Good(db, c),
           holder = p => c.phases # <<>> /\ WorkOf(c, db, work),
           c.phases # <<>> /\ Head(c.phases) = "link" => holder = p
    PROVE  Inv'
<1>1. c \in Commands
  BY DEF Good
<1>2. proc' \in [Procs -> Commands] /\ \A q \in Procs : proc'[q] = IF q = p THEN c ELSE proc[q]
  BY <1>1, Updated
<1>3. \A q \in Procs : Good(db', proc'[q])
  BY <1>2 DEF Inv
<1>4. LockSound'
  <2>1. holder' # Null => Running(holder)' /\ WorkOf(proc'[holder'], db', work')
    <3>1. CASE holder = p
      BY <1>2, <3>1 DEF Running
    <3>2. CASE holder # p
      BY <1>2, <3>2 DEF Inv, LockSound, Running
    <3>3. QED
      BY <3>1, <3>2
  <2>2. ASSUME NEW q \in Procs, In(q, "link")' PROVE holder' = q
    <3>1. CASE q = p
      BY <1>2, <2>2, <3>1 DEF In, Running, Phase
    <3>2. CASE q # p
      <4>1. In(q, "link")
        BY <1>2, <2>2, <3>2 DEF In, Running, Phase
      <4>2. QED
        BY <4>1 DEF Inv, LockSound
    <3>3. QED
      BY <3>1, <3>2
  <2>3. QED
    BY <2>1, <2>2 DEF Inv, LockSound
<1>5. QED
  BY <1>2, <1>3, <1>4 DEF Inv

LEMMA NullIsNoProcess == Null \notin Procs
  BY PipelineAssumption

LEMMA IdleIsCommand == Idle \in Commands /\ Idle.phases = <<>>
<1>1. 0 \in Times
  BY TablesAssumption DEF Times
<1>2. <<>> \in Seq(PhaseNames)
  OBVIOUS
<1>3. QED
  BY <1>1, <1>2 DEF Idle, Commands, CommandNames

LEMMA EndedIsGood ==
    ASSUME NEW d, NEW c \in Commands, NEW how \in {"ok", "aborted", "integrity"},
           how = "integrity" => c.overlap /\ c.cmd \in {"track", "prune"}
    PROVE  Good(d, Ended(c, how)) /\ Ended(c, how).phases = <<>>
<1> DEFINE o == c.overlap /\ how = "integrity"
           e == [Idle EXCEPT !.cmd = c.cmd, !.overlap = o, !.end = how]
<1>1. Ended(c, how) = e
  BY DEF Ended
<1>2. c.cmd \in CommandNames /\ c.overlap \in BOOLEAN
  BY DEF Commands
<1>3. o \in BOOLEAN
  BY <1>2
<1>4. how = "integrity" => o /\ c.cmd \in {"track", "prune"}
  OBVIOUS
<1> HIDE DEF o
<1>5. e \in Commands /\ e.cmd = c.cmd /\ e.phases = <<>> /\ e.overlap = o /\ e.end = how
  BY <1>2, <1>3, IdleIsCommand, ZenonT(60) DEF Commands
<1> HIDE DEF e
<1>6. Good(d, e)
  BY <1>4, <1>5 DEF Good
<1>7. QED
  BY <1>1, <1>5, <1>6

LEMMA FailKeeps ==
    ASSUME Inv, NEW p \in Procs, NEW why \in {"aborted", "integrity"}, Fail(p, why),
           why = "integrity" => proc[p].overlap /\ proc[p].cmd \in {"track", "prune"},
           Running(p)
    PROVE  Inv'
<1> DEFINE c == Ended(proc[p], why)
<1>1. proc[p] \in Commands
  BY DEF Inv
<1>2. Good(db, c) /\ c.phases = <<>> /\ c \in Commands
  BY <1>1, EndedIsGood DEF Good
<1>3. proc' = [proc EXCEPT ![p] = c]
  BY DEF Fail, Inv
<1> HIDE DEF c
<1>4. proc' \in [Procs -> Commands] /\ \A q \in Procs : proc'[q] = IF q = p THEN c ELSE proc[q]
  BY <1>2, <1>3, Updated
<1>5. db' = db /\ listing' = listing /\ now' = now /\ started' = started
      /\ holder' = (IF holder = p THEN Null ELSE holder)
      /\ work' = (IF holder = p THEN db ELSE work)
  BY DEF Fail
<1>6. \A q \in Procs : Good(db', proc'[q])
  BY <1>2, <1>4, <1>5 DEF Inv
<1>7. LockSound'
  <2>1. holder' # Null => Running(holder)' /\ WorkOf(proc'[holder'], db', work')
    BY <1>4, <1>5, NullIsNoProcess DEF Inv, LockSound, Running
  <2>2. ASSUME NEW q \in Procs, In(q, "link")' PROVE holder' = q
    <3>1. q # p
      BY <1>2, <1>4, <2>2 DEF In, Running
    <3>2. In(q, "link")
      BY <1>4, <2>2, <3>1 DEF In, Running, Phase
    <3>3. QED
      BY <1>5, <3>1, <3>2 DEF Inv, LockSound
  <2>3. holder' \in Procs \union {Null} /\ (holder' = Null => work' = db')
    BY <1>5 DEF Inv, LockSound
  <2>4. QED
    BY <2>1, <2>2, <2>3 DEF LockSound
<1>8. QED
  BY <1>4, <1>5, <1>6, <1>7 DEF Inv

LEMMA WriteKeeps ==
    ASSUME Inv, NEW p \in Procs, NEW d, NEW c, Write(p, d, c), ForeignKeysHold(d),
           Good(db, c), c.phases # <<>>, WorkOf(c, db, d)
    PROVE  Inv'
<1>1. /\ holder \in {Null, p} /\ work' = d /\ holder' = p /\ proc' = [proc EXCEPT ![p] = c]
      /\ listing' = listing /\ now' = now /\ db' = db /\ started' = started
  BY DEF Write, LockFree
<1>2. c \in Commands
  BY DEF Good
<1>3. proc' \in [Procs -> Commands] /\ \A q \in Procs : proc'[q] = IF q = p THEN c ELSE proc[q]
  BY <1>1, <1>2, Updated
<1>4. \A q \in Procs : Good(db', proc'[q])
  BY <1>1, <1>3 DEF Inv
<1>5. LockSound'
  <2>1. Running(holder)' /\ WorkOf(proc'[holder'], db', work') /\ holder' # Null
    BY <1>1, <1>3, NullIsNoProcess DEF Running
  <2>2. ASSUME NEW q \in Procs, In(q, "link")' PROVE holder' = q
    <3>1. CASE q # p
      <4>1. In(q, "link")
        BY <1>3, <2>2, <3>1 DEF In, Running, Phase
      <4>2. QED
        BY <1>1, <3>1, <4>1, NullIsNoProcess DEF Inv, LockSound
    <3>2. QED
      BY <1>1, <3>1
  <2>3. QED
    BY <1>1, <2>1, <2>2 DEF LockSound
<1>6. QED
  BY <1>1, <1>3, <1>4, <1>5 DEF Inv

(* Who looks on while somebody commits is told so, and remembers of the    *)
(* database only what no command takes back.                               *)
LEMMA WatchersStayGood ==
    ASSUME NEW d \in Database, NEW e, Grows(d, e), NEW c, Good(d, c), NEW b \in BOOLEAN,
           c.phases # <<>> /\ e # d => b,
           NEW n, n = [c EXCEPT !.overlap = @ \/ b]
    PROVE  Good(e, n) /\ n.phases = c.phases /\ n.cmd = c.cmd
<1>1. c \in Commands
  BY DEF Good
<1>2. /\ n \in Commands
      /\ n.cmd = c.cmd /\ n.phases = c.phases /\ n.rest = c.rest /\ n.page = c.page /\ n.opt = c.opt
      /\ n.at = c.at /\ n.memo = c.memo /\ n.overlap = (c.overlap \/ b) /\ n.end = c.end
  <2>1. c.overlap \in BOOLEAN /\ (c.overlap \/ b) \in BOOLEAN
    BY <1>1 DEF Commands
  <2>2. QED
    BY <1>1, <2>1 DEF Commands
<1>3. c.phases # <<>> /\ ~n.overlap => e = d /\ ~c.overlap
  BY <1>2
<1>4. ASSUME c.phases # <<>> PROVE AtWork(e, n)
  <2>1. CASE Sweeping(c)
    BY <1>2, <2>1 DEF Sweeping, AtWork
  <2>2. CASE Pruning(d, c)
    <3>1. /\ c.memo \in PruneMemo /\ c.phases \in PrunePhases
          /\ c.memo.found \subseteq Passed(Head(c.phases))
          /\ ~c.overlap => \A t \in Passed(Head(c.phases)) : t \in c.memo.found <=> Matches(d, t, c)
      BY <2>2 DEF Pruning
    <3>2. \A table : Matches(d, table, n) = Matches(d, table, c)
      BY <1>2 DEF Matches
    <3>3. ~n.overlap => \A t \in Passed(Head(n.phases)) : t \in n.memo.found <=> Matches(e, t, n)
      BY <1>2, <1>3, <1>4, <3>1, <3>2
    <3>4. QED
      BY <1>2, <2>2, <3>1, <3>3 DEF Pruning, AtWork
  <2>3. CASE Exporting(c)
    BY <1>2, <2>3 DEF Exporting, AtWork
  <2>4. CASE Tracking(d, c)
    <3> DEFINE k == c.memo
    <3>1. k \in TrackMemo /\ k.event = IF k.ticker \in Markets THEN EventOf[k.ticker] ELSE k.ticker
      BY <2>4 DEF Tracking
    <3>2. k.event \in Events /\ k.ticker \in Tickers
      BY <3>1 DEF TrackMemo
    <3>3. /\ k.seen_event # Null => e.events[k.event] # Null
          /\ k.seen_market # Null /\ k.ticker \in Markets => e.markets[k.ticker] # Null
      BY <2>4, <3>2 DEF Tracking, Grows
    <3>4. Known(d, k.ticker) => Known(e, k.ticker)
      BY <3>2 DEF Known, Grows
    <3>5. QED
      BY <1>2, <1>3, <1>4, <2>4, <3>3, <3>4 DEF Tracking, AtWork
  <2>5. CASE Untracking(d, c)
    <3>1. c.memo.ticker \in Tickers
      BY <2>5 DEF Untracking, UntrackMemo
    <3>2. Untracking(e, n)
      BY <1>2, <2>5, <3>1 DEF Untracking, Grows
    <3>3. QED
      BY <3>2 DEF AtWork
  <2>6. CASE Collecting(d, c)
    <3>1. c.memo.items \subseteq Tickers
      BY <2>6 DEF Collecting, CollectMemo
    <3>2. Collecting(e, n)
      BY <1>2, <2>6, <3>1 DEF Collecting, Grows
    <3>3. QED
      BY <3>2 DEF AtWork
  <2>7. QED
    BY <1>4, <2>1, <2>2, <2>3, <2>4, <2>5, <2>6 DEF Good, AtWork
<1>5. QED
  BY <1>2, <1>4 DEF Good

LEMMA CommitKeeps ==
    ASSUME Inv, NEW p \in Procs, NEW d, NEW c, WriteAndCommit(p, d, c), Whole(d), Grows(db, d),
           Good(d, c), c.phases # <<>> => Head(c.phases) # "link"
    PROVE  Inv'
<1>1. /\ holder \in {Null, p} /\ db' = d /\ work' = d /\ holder' = Null
      /\ listing' = listing /\ now' = now /\ started' = started
      /\ proc' = [q \in Procs |-> IF q = p THEN c
                                  ELSE [proc[q] EXCEPT !.overlap = @ \/ (Running(q) /\ d # db)]]
  BY DEF WriteAndCommit, LockFree, Whole
<1>2. ASSUME NEW q \in Procs, q # p
      PROVE  Good(d, proc'[q]) /\ proc'[q].phases = proc[q].phases
  <2> DEFINE b == Running(q) /\ d # db
  <2>1. b \in BOOLEAN /\ (proc[q].phases # <<>> /\ d # db => b)
    BY DEF Running
  <2>2. proc'[q] = [proc[q] EXCEPT !.overlap = @ \/ b]
    BY <1>1, <1>2
  <2> HIDE DEF b
  <2>3. db \in Database /\ Good(db, proc[q])
    BY DEF Inv, Whole
  <2>4. QED
    BY <2>1, <2>2, <2>3, WatchersStayGood
<1>3. \A q \in Procs : Good(db', proc'[q])
  BY <1>1, <1>2
<1>4. proc' \in [Procs -> Commands]
  BY <1>1, <1>3 DEF Good
<1>5. ASSUME NEW q \in Procs, In(q, "link")' PROVE FALSE
  <2>1. CASE q = p
    BY <1>1, <1>5, <2>1 DEF In, Running, Phase
  <2>2. CASE q # p
    <3>1. In(q, "link")
      BY <1>2, <1>5, <2>2 DEF In, Running, Phase
    <3>2. QED
      BY <1>1, <2>2, <3>1, NullIsNoProcess DEF Inv, LockSound
  <2>3. QED
    BY <2>1, <2>2
<1>6. LockSound'
  BY <1>1, <1>5 DEF LockSound
<1>7. QED
  BY <1>1, <1>3, <1>4, <1>6 DEF Inv

-----------------------------------------------------------------------------
(* The phases of a command.                                                *)
LEMMA One == ASSUME NEW a
  PROVE Head(<<a>>) = a /\ Tail(<<a>>) = <<>> /\ <<a>> # <<>>
  OBVIOUS

LEMMA Two == ASSUME NEW a, NEW b
  PROVE Head(<<a, b>>) = a /\ Tail(<<a, b>>) = <<b>> /\ <<a, b>> # <<>>
  OBVIOUS

LEMMA Three == ASSUME NEW a, NEW b, NEW c
  PROVE Head(<<a, b, c>>) = a /\ Tail(<<a, b, c>>) = <<b, c>> /\ <<a, b, c>> # <<>>
  OBVIOUS

LEMMA Four == ASSUME NEW a, NEW b, NEW c, NEW d
  PROVE Head(<<a, b, c, d>>) = a /\ Tail(<<a, b, c, d>>) = <<b, c, d>> /\ <<a, b, c, d>> # <<>>
  OBVIOUS

LEMMA Five == ASSUME NEW a, NEW b, NEW c, NEW d, NEW e
  PROVE Head(<<a, b, c, d, e>>) = a /\ Tail(<<a, b, c, d, e>>) = <<b, c, d, e>> /\ <<a, b, c, d, e>> # <<>>
  OBVIOUS

LEMMA HeadAndTail ==
    ASSUME NEW S, NEW s \in Seq(S), s # <<>>
    PROVE  Head(s) \in S /\ Tail(s) \in Seq(S)
  OBVIOUS

LEMMA LargerAlphabet ==
    ASSUME NEW S, NEW T, S \subseteq T, NEW s \in Seq(S)
    PROVE  s \in Seq(T)
  OBVIOUS

LEMMA TrackParts ==
    ASSUME NEW t, NEW s \in TrackPhases(t)
    PROVE  /\ s # <<>>
           /\ Head(s) \in {"find_event", "find_market", "merge", "find_item", "enrol"}
           /\ Head(s) = "find_event" => Tail(s) = IF t \in Markets
                                                 THEN <<"find_market", "merge", "find_item", "enrol">>
                                                 ELSE <<"merge", "find_item", "enrol">>
           /\ Head(s) = "find_market" => t \in Markets /\ Tail(s) = <<"merge", "find_item", "enrol">>
           /\ Head(s) = "merge" => Tail(s) = <<"find_item", "enrol">>
           /\ Head(s) = "find_item" => Tail(s) = <<"enrol">>
           /\ Head(s) = "enrol" => Tail(s) = <<>>
<1>1. CASE s = <<"find_event", "find_market", "merge", "find_item", "enrol">> /\ t \in Markets
  <2>1. Head(<<"find_event", "find_market", "merge", "find_item", "enrol">>) = "find_event"
    BY Five
  <2>2. Tail(<<"find_event", "find_market", "merge", "find_item", "enrol">>) = <<"find_market", "merge", "find_item", "enrol">>
    BY Five
  <2>3. Head(s) = "find_event" /\ Tail(s) = <<"find_market", "merge", "find_item", "enrol">> /\ s # <<>>
    BY <1>1, <2>1, <2>2, Five
  <2>4. QED
    BY <1>1, <2>3
<1>2. CASE s = <<"find_event", "merge", "find_item", "enrol">> /\ t \notin Markets
  <2>1. Head(<<"find_event", "merge", "find_item", "enrol">>) = "find_event"
    BY Four
  <2>2. Tail(<<"find_event", "merge", "find_item", "enrol">>) = <<"merge", "find_item", "enrol">>
    BY Four
  <2>3. Head(s) = "find_event" /\ Tail(s) = <<"merge", "find_item", "enrol">> /\ s # <<>>
    BY <1>2, <2>1, <2>2, Four
  <2>4. QED
    BY <1>2, <2>3
<1>3. CASE s = <<"find_market", "merge", "find_item", "enrol">> /\ t \in Markets
  <2>1. Head(<<"find_market", "merge", "find_item", "enrol">>) = "find_market"
    BY Four
  <2>2. Tail(<<"find_market", "merge", "find_item", "enrol">>) = <<"merge", "find_item", "enrol">>
    BY Four
  <2>3. Head(s) = "find_market" /\ Tail(s) = <<"merge", "find_item", "enrol">> /\ s # <<>>
    BY <1>3, <2>1, <2>2, Four
  <2>4. QED
    BY <1>3, <2>3
<1>4. CASE s = <<"merge", "find_item", "enrol">>
  <2>1. Head(<<"merge", "find_item", "enrol">>) = "merge"
    BY Three
  <2>2. Tail(<<"merge", "find_item", "enrol">>) = <<"find_item", "enrol">>
    BY Three
  <2>3. Head(s) = "merge" /\ Tail(s) = <<"find_item", "enrol">> /\ s # <<>>
    BY <1>4, <2>1, <2>2, Three
  <2>4. QED
    BY <1>4, <2>3
<1>5. CASE s = <<"find_item", "enrol">>
  <2>1. Head(<<"find_item", "enrol">>) = "find_item"
    BY Two
  <2>2. Tail(<<"find_item", "enrol">>) = <<"enrol">>
    BY Two
  <2>3. Head(s) = "find_item" /\ Tail(s) = <<"enrol">> /\ s # <<>>
    BY <1>5, <2>1, <2>2, Two
  <2>4. QED
    BY <1>5, <2>3
<1>6. CASE s = <<"enrol">>
  <2>1. Head(<<"enrol">>) = "enrol"
    BY One
  <2>2. Tail(<<"enrol">>) = <<>>
    BY One
  <2>3. Head(s) = "enrol" /\ Tail(s) = <<>> /\ s # <<>>
    BY <1>6, <2>1, <2>2, One
  <2>4. QED
    BY <1>6, <2>3
<1>7. QED
  BY <1>1, <1>2, <1>3, <1>4, <1>5, <1>6 DEF TrackPhases

LEMMA UntrackParts ==
    ASSUME NEW s \in {<<"find_item", "retire">>, <<"retire">>}
    PROVE  /\ s # <<>>
           /\ Head(s) \in {"find_item", "retire"}
           /\ Head(s) = "find_item" => Tail(s) = <<"retire">>
           /\ Head(s) = "retire" => Tail(s) = <<>>
<1>1. CASE s = <<"find_item", "retire">>
  <2>1. Head(<<"find_item", "retire">>) = "find_item"
    BY Two
  <2>2. Tail(<<"find_item", "retire">>) = <<"retire">>
    BY Two
  <2>3. Head(s) = "find_item" /\ Tail(s) = <<"retire">> /\ s # <<>>
    BY <1>1, <2>1, <2>2, Two
  <2>4. QED
    BY <1>1, <2>3
<1>2. CASE s = <<"retire">>
  <2>1. Head(<<"retire">>) = "retire"
    BY One
  <2>2. Tail(<<"retire">>) = <<>>
    BY One
  <2>3. Head(s) = "retire" /\ Tail(s) = <<>> /\ s # <<>>
    BY <1>2, <2>1, <2>2, One
  <2>4. QED
    BY <1>2, <2>3
<1>3. QED
  BY <1>1, <1>2

LEMMA PassedTables ==
    /\ Passed("prices") = {}
    /\ Passed("articles") = Passed("prices") \union {"prices"}
    /\ Passed("market_links") = Passed("articles") \union {"articles"}
    /\ Passed("event_links") = Passed("market_links") \union {"market_links"}
    /\ Passed("scores") = Passed("event_links") \union {"event_links"}
    /\ Passed("delete") = Passed("scores") \union {"scores"}
    /\ "prices" \notin Passed("prices") /\ "articles" \notin Passed("articles") /\ "market_links" \notin Passed("market_links")
    /\ "event_links" \notin Passed("event_links") /\ "scores" \notin Passed("scores")
  BY DEF Passed, PrunedTables

LEMMA PruneParts ==
    ASSUME NEW s \in PrunePhases
    PROVE  /\ s # <<>>
           /\ Head(s) \in PrunedTables \union {"delete"}
           /\ Head(s) # "delete" => /\ Tail(s) # <<>> /\ Tail(s) \in PrunePhases
                                   /\ Passed(Head(Tail(s))) = Passed(Head(s)) \union {Head(s)}
                                   /\ Head(s) \notin Passed(Head(s))
           /\ Head(s) = "delete" => Tail(s) = <<>>
<1>1. CASE s = <<"prices", "articles", "market_links", "event_links", "scores", "delete">>
  <2>1. Head(s) = "prices" /\ Tail(s) = <<"articles", "market_links", "event_links", "scores", "delete">> /\ s # <<>>
    BY <1>1
  <2>2. Head(Tail(s)) = "articles" /\ Tail(s) # <<>>
    <3>1. PICK t : t = Tail(s)
      OBVIOUS
    <3>2. t = <<"articles", "market_links", "event_links", "scores", "delete">>
      BY <2>1, <3>1
    <3>3. Head(t) = "articles" /\ t # <<>>
      BY <3>2
    <3>4. QED
      BY <3>1, <3>3
  <2>3. Head(s) = "prices"
    BY <2>1
  <2>4. Head(s) \in PrunedTables /\ Head(s) # "delete"
    BY <2>1 DEF PrunedTables
  <2>5. Tail(s) \in PrunePhases
    BY <2>1 DEF PrunePhases
  <2>6. Passed(Head(Tail(s))) = Passed(Head(s)) \union {Head(s)} /\ Head(s) \notin Passed(Head(s))
    BY <2>2, <2>3, PassedTables
  <2>7. QED
    BY <2>1, <2>2, <2>4, <2>5, <2>6
<1>2. CASE s = <<"articles", "market_links", "event_links", "scores", "delete">>
  <2>1. Head(s) = "articles" /\ Tail(s) = <<"market_links", "event_links", "scores", "delete">> /\ s # <<>>
    BY <1>2
  <2>2. Head(Tail(s)) = "market_links" /\ Tail(s) # <<>>
    <3>1. PICK t : t = Tail(s)
      OBVIOUS
    <3>2. t = <<"market_links", "event_links", "scores", "delete">>
      BY <2>1, <3>1
    <3>3. Head(t) = "market_links" /\ t # <<>>
      BY <3>2
    <3>4. QED
      BY <3>1, <3>3
  <2>3. Head(s) = "articles"
    BY <2>1
  <2>4. Head(s) \in PrunedTables /\ Head(s) # "delete"
    BY <2>1 DEF PrunedTables
  <2>5. Tail(s) \in PrunePhases
    BY <2>1 DEF PrunePhases
  <2>6. Passed(Head(Tail(s))) = Passed(Head(s)) \union {Head(s)} /\ Head(s) \notin Passed(Head(s))
    BY <2>2, <2>3, PassedTables
  <2>7. QED
    BY <2>1, <2>2, <2>4, <2>5, <2>6
<1>3. CASE s = <<"market_links", "event_links", "scores", "delete">>
  <2>1. Head(s) = "market_links" /\ Tail(s) = <<"event_links", "scores", "delete">> /\ s # <<>>
    BY <1>3
  <2>2. Head(Tail(s)) = "event_links" /\ Tail(s) # <<>>
    <3>1. PICK t : t = Tail(s)
      OBVIOUS
    <3>2. t = <<"event_links", "scores", "delete">>
      BY <2>1, <3>1
    <3>3. Head(t) = "event_links" /\ t # <<>>
      BY <3>2
    <3>4. QED
      BY <3>1, <3>3
  <2>3. Head(s) = "market_links"
    BY <2>1
  <2>4. Head(s) \in PrunedTables /\ Head(s) # "delete"
    BY <2>1 DEF PrunedTables
  <2>5. Tail(s) \in PrunePhases
    BY <2>1 DEF PrunePhases
  <2>6. Passed(Head(Tail(s))) = Passed(Head(s)) \union {Head(s)} /\ Head(s) \notin Passed(Head(s))
    BY <2>2, <2>3, PassedTables
  <2>7. QED
    BY <2>1, <2>2, <2>4, <2>5, <2>6
<1>4. CASE s = <<"event_links", "scores", "delete">>
  <2>1. Head(s) = "event_links" /\ Tail(s) = <<"scores", "delete">> /\ s # <<>>
    BY <1>4
  <2>2. Head(Tail(s)) = "scores" /\ Tail(s) # <<>>
    <3>1. PICK t : t = Tail(s)
      OBVIOUS
    <3>2. t = <<"scores", "delete">>
      BY <2>1, <3>1
    <3>3. Head(t) = "scores" /\ t # <<>>
      BY <3>2
    <3>4. QED
      BY <3>1, <3>3
  <2>3. Head(s) = "event_links"
    BY <2>1
  <2>4. Head(s) \in PrunedTables /\ Head(s) # "delete"
    BY <2>1 DEF PrunedTables
  <2>5. Tail(s) \in PrunePhases
    BY <2>1 DEF PrunePhases
  <2>6. Passed(Head(Tail(s))) = Passed(Head(s)) \union {Head(s)} /\ Head(s) \notin Passed(Head(s))
    BY <2>2, <2>3, PassedTables
  <2>7. QED
    BY <2>1, <2>2, <2>4, <2>5, <2>6
<1>5. CASE s = <<"scores", "delete">>
  <2>1. Head(s) = "scores" /\ Tail(s) = <<"delete">> /\ s # <<>>
    BY <1>5
  <2>2. Head(Tail(s)) = "delete" /\ Tail(s) # <<>>
    <3>1. PICK t : t = Tail(s)
      OBVIOUS
    <3>2. t = <<"delete">>
      BY <2>1, <3>1
    <3>3. Head(t) = "delete" /\ t # <<>>
      BY <3>2
    <3>4. QED
      BY <3>1, <3>3
  <2>3. Head(s) = "scores"
    BY <2>1
  <2>4. Head(s) \in PrunedTables /\ Head(s) # "delete"
    BY <2>1 DEF PrunedTables
  <2>5. Tail(s) \in PrunePhases
    BY <2>1 DEF PrunePhases
  <2>6. Passed(Head(Tail(s))) = Passed(Head(s)) \union {Head(s)} /\ Head(s) \notin Passed(Head(s))
    BY <2>2, <2>3, PassedTables
  <2>7. QED
    BY <2>1, <2>2, <2>4, <2>5, <2>6
<1>6. CASE s = <<"delete">>
  <2>1. Head(s) = "delete" /\ Tail(s) = <<>> /\ s # <<>>
    BY <1>6
  <2>2. QED
    BY <2>1
<1>7. QED
  BY <1>1, <1>2, <1>3, <1>4, <1>5, <1>6 DEF PrunePhases

LEMMA CollectParts ==
    ASSUME NEW s \in {<<"items">>, <<"results", "items">>,
                      <<"store", "results", "items">>, <<"link", "results", "items">>}
    PROVE  /\ s # <<>>
           /\ Head(s) \in {"items", "results", "store", "link"}
           /\ Head(s) = "items" => s = <<"items">> /\ Tail(s) = <<>>
           /\ Head(s) = "results" => s = <<"results", "items">> /\ Tail(s) = <<"items">>
           /\ Head(s) = "store" => Tail(s) = <<"results", "items">>
           /\ Head(s) = "link" => Tail(s) = <<"results", "items">>
           /\ s # <<"items">> <=> Head(s) # "items"
<1>1. CASE s = <<"items">>
  <2>1. Head(<<"items">>) = "items"
    BY One
  <2>2. Tail(<<"items">>) = <<>>
    BY One
  <2>3. Head(s) = "items" /\ Tail(s) = <<>> /\ s # <<>>
    BY <1>1, <2>1, <2>2, One
  <2>4. QED
    BY <1>1, <2>3
<1>2. CASE s = <<"results", "items">>
  <2>1. Head(<<"results", "items">>) = "results"
    BY Two
  <2>2. Tail(<<"results", "items">>) = <<"items">>
    BY Two
  <2>3. Head(s) = "results" /\ Tail(s) = <<"items">> /\ s # <<>>
    BY <1>2, <2>1, <2>2, Two
  <2>4. QED
    BY <1>2, <2>3
<1>3. CASE s = <<"store", "results", "items">>
  <2>1. Head(<<"store", "results", "items">>) = "store"
    BY Three
  <2>2. Tail(<<"store", "results", "items">>) = <<"results", "items">>
    BY Three
  <2>3. Head(s) = "store" /\ Tail(s) = <<"results", "items">> /\ s # <<>>
    BY <1>3, <2>1, <2>2, Three
  <2>4. QED
    BY <1>3, <2>3
<1>4. CASE s = <<"link", "results", "items">>
  <2>1. Head(<<"link", "results", "items">>) = "link"
    BY Three
  <2>2. Tail(<<"link", "results", "items">>) = <<"results", "items">>
    BY Three
  <2>3. Head(s) = "link" /\ Tail(s) = <<"results", "items">> /\ s # <<>>
    BY <1>4, <2>1, <2>2, Three
  <2>4. QED
    BY <1>4, <2>3
<1>5. QED
  BY <1>1, <1>2, <1>3, <1>4

LEMMA TodoBounds ==
    ASSUME NEW phase, NEW opt
    PROVE  /\ Todo(phase, opt) \subseteq Events \union Markets \union Urls \union ExportTables
           /\ phase \in Sweeps => Todo(phase, opt) \subseteq Objects(phase)
<1>1. phase = "events" => Todo(phase, opt) \subseteq Events
  BY DEF Todo
<1>2. phase \in {"markets", "settlements", "snapshot"} => Todo(phase, opt) = Markets
  BY DEF Todo
<1>3. phase = "tables" => Todo(phase, opt) = ExportTables
  BY DEF Todo, ExportTables
<1>4. phase \notin {"events", "markets", "settlements", "snapshot", "tables"} => Todo(phase, opt) = {}
  BY DEF Todo
<1>5. QED
  BY <1>1, <1>2, <1>3, <1>4 DEF Sweeps, Objects

Memos == PruneMemo \union TrackMemo \union UntrackMemo \union CollectMemo \union {Null}

LEMMA CommandMade ==
    ASSUME NEW cmd \in CommandNames, NEW phases \in Seq(PhaseNames), phases # <<>>,
           NEW opt \in SUBSET Options, NEW at \in Times, NEW memo \in Memos,
           NEW c, c = Command(cmd, phases, opt, at, memo)
    PROVE  /\ c \in Commands
           /\ c.cmd = cmd /\ c.phases = phases /\ c.rest = Todo(Head(phases), opt) /\ c.page = Null
           /\ c.opt = opt /\ c.at = at /\ c.memo = memo /\ c.overlap = FALSE /\ c.end = "running"
<1>1. Todo(Head(phases), opt) \subseteq Events \union Markets \union Urls \union ExportTables
  BY TodoBounds
<1>2. QED
  BY <1>1 DEF Command, Commands, Memos

LEMMA BeginKeeps ==
    ASSUME Inv, NEW p \in Procs, NEW c, Begin(p, c), Good(db, c), c.phases # <<>> => Head(c.phases) # "link"
    PROVE  Inv'
<1>1. holder # p
  BY NullIsNoProcess DEF Begin, Inv, LockSound
<1>2. started' \in 0..MaxCommands
  BY PipelineAssumption DEF Begin, Inv
<1>3. proc' = [proc EXCEPT ![p] = c] /\ UNCHANGED <<listing, now, db, work, holder>>
  BY DEF Begin
<1>4. QED
  BY <1>1, <1>2, <1>3, NoteKeeps

(* The next phase of a command, if there is one.                           *)
LEMMA Advanced ==
    ASSUME now \in Times, NEW c \in Commands, c.phases # <<>>, Tail(c.phases) # <<>>,
           NEW n, n = NextPhase(c)
    PROVE  /\ n \in Commands
           /\ n.cmd = c.cmd /\ n.phases = Tail(c.phases) /\ n.rest = Todo(Head(Tail(c.phases)), c.opt)
           /\ n.page = Null /\ n.opt = c.opt /\ n.memo = c.memo /\ n.overlap = c.overlap /\ n.end = c.end
           /\ Head(Tail(c.phases)) \notin Sweeps => n.at = c.at
<1> DEFINE t == Tail(c.phases)
           todo == Todo(Head(t), c.opt)
           at == IF Head(t) \in Sweeps THEN now ELSE c.at
<1>1. t \in Seq(PhaseNames)
  BY HeadAndTail DEF Commands
<1>2. todo \subseteq Events \union Markets \union Urls \union ExportTables
  BY TodoBounds
<1>3. at \in Times
  BY DEF Commands
<1>4. n = [c EXCEPT !.phases = t, !.rest = todo, !.page = Null, !.at = at]
  BY DEF NextPhase
<1>5. Head(t) \notin Sweeps => at = c.at
  OBVIOUS
<1> HIDE DEF t, todo, at
<1>6. /\ n \in Commands
      /\ n.cmd = c.cmd /\ n.phases = t /\ n.rest = todo
      /\ n.page = Null /\ n.opt = c.opt /\ n.memo = c.memo /\ n.overlap = c.overlap /\ n.end = c.end
      /\ n.at = at
  BY <1>1, <1>2, <1>3, <1>4, ZenonT(60) DEF Commands
<1>7. QED
  BY <1>5, <1>6 DEF t, todo, at

LEMMA Finished ==
    ASSUME NEW c \in Commands, Tail(c.phases) = <<>>, NEW d
    PROVE  Good(d, NextPhase(c)) /\ NextPhase(c).phases = <<>>
<1>1. NextPhase(c) = Ended(c, "ok")
  BY DEF NextPhase
<1>2. QED
  BY <1>1, EndedIsGood

LEMMA NowIsATime == ASSUME Inv PROVE now \in Times
  BY DEF Inv

(* What is true of a process that runs.                                    *)
LEMMA AtWorkNow ==
    ASSUME Inv, NEW p \in Procs, Running(p)
    PROVE  /\ proc[p] \in Commands /\ proc[p].phases # <<>> /\ proc[p].end = "running"
           /\ AtWork(db, proc[p]) /\ Good(db, proc[p])
           /\ proc[p].phases \in Seq(PhaseNames)
  BY DEF Inv, Good, Running, Commands

(* Each phase belongs to a command.                                        *)
LEMMA WhoseIsThis ==
    ASSUME Inv, NEW p \in Procs, Running(p)
    PROVE  \/ Sweeping(proc[p]) /\ Phase(p) \in Sweeps
           \/ Pruning(db, proc[p]) /\ Phase(p) \in PrunedTables \union {"delete"}
           \/ Exporting(proc[p]) /\ Phase(p) = "tables"
           \/ Tracking(db, proc[p]) /\ Phase(p) \in {"find_event", "find_market", "merge", "find_item", "enrol"}
           \/ Untracking(db, proc[p]) /\ Phase(p) \in {"find_item", "retire"}
           \/ Collecting(db, proc[p]) /\ Phase(p) \in {"items", "results", "store", "link"}
<1> DEFINE c == proc[p]
<1>1. c.phases # <<>> /\ AtWork(db, c) /\ Phase(p) = Head(c.phases)
  BY AtWorkNow DEF Phase
<1> HIDE DEF c
<1>2. Sweeping(c) => Head(c.phases) \in Sweeps
  BY <1>1, HeadAndTail DEF Sweeping
<1>3. Pruning(db, c) => Head(c.phases) \in PrunedTables \union {"delete"}
  BY PruneParts DEF Pruning
<1>4. Exporting(c) => Head(c.phases) = "tables"
  BY One DEF Exporting
<1>5. Tracking(db, c) => Head(c.phases) \in {"find_event", "find_market", "merge", "find_item", "enrol"}
  BY TrackParts DEF Tracking
<1>6. Untracking(db, c) => Head(c.phases) \in {"find_item", "retire"}
  BY UntrackParts DEF Untracking
<1>7. Collecting(db, c) => Head(c.phases) \in {"items", "results", "store", "link"}
  BY CollectParts DEF Collecting
<1>8. QED
  BY <1>1, <1>2, <1>3, <1>4, <1>5, <1>6, <1>7 DEF AtWork, c

-----------------------------------------------------------------------------
(* The sweeps.                                                             *)
LEMMA SweepIsGood ==
    ASSUME NEW d, NEW c \in Commands, c.end = "running", Sweeping(c), c.phases # <<>>
    PROVE  Good(d, c) /\ Head(c.phases) \in Sweeps /\ Head(c.phases) # "link"
<1>1. Head(c.phases) \in Sweeps
  BY HeadAndTail DEF Sweeping
<1>2. QED
  BY <1>1 DEF Good, AtWork, Sweeps

LEMMA OnlySweepsSweep ==
    ASSUME Inv, NEW p \in Procs, Running(p), Phase(p) \in Sweeps
    PROVE  Sweeping(proc[p])
<1>1. Phase(p) \notin PrunedTables \union {"delete", "tables", "retire"}
      /\ Phase(p) \notin {"find_event", "find_market", "merge", "find_item", "enrol"}
      /\ Phase(p) \notin {"items", "results", "store", "link"}
  BY DEF Sweeps, PrunedTables
<1>2. QED
  BY <1>1, WhoseIsThis

LEMMA SweptSoFar ==
    ASSUME Inv, NEW p \in Procs, Sweeping(proc[p]), holder \in {Null, p}
    PROVE  Extends(db, work)
<1>1. CASE holder = Null
  BY <1>1, ExtendsItself DEF Inv, LockSound, Whole
<1>2. CASE holder = p
  <2>1. WorkOf(proc[p], db, work)
    BY <1>2, NullIsNoProcess DEF Inv, LockSound
  <2>2. QED
    BY <2>1 DEF WorkOf, Sweeping, Collecting
<1>3. QED
  BY <1>1, <1>2

LEMMA SweepsBegin ==
    ASSUME Inv, NEW p \in Procs,
           NEW cmd \in {"sync-markets", "sync-settlements", "snapshot", "full-sync"},
           NEW phases \in Seq(Sweeps), phases # <<>>, NEW opt \in SUBSET Options,
           Begin(p, Command(cmd, phases, opt, now, Null))
    PROVE  Inv'
<1> DEFINE c == Command(cmd, phases, opt, now, Null)
<1>1. phases \in Seq(PhaseNames)
  <2>1. Sweeps \subseteq PhaseNames
    BY DEF PhaseNames
  <2>2. QED
    BY <2>1, LargerAlphabet
<1>2. cmd \in CommandNames /\ Null \in Memos
  BY DEF CommandNames, Memos
<1>3. c \in Commands /\ c.cmd = cmd /\ c.phases = phases /\ c.rest = Todo(Head(phases), opt)
      /\ c.page = Null /\ c.end = "running"
  <2>1. Todo(Head(phases), opt) \subseteq Events \union Markets \union Urls \union ExportTables
    BY TodoBounds
  <2>2. QED
    BY <1>1, <1>2, <2>1, NowIsATime DEF Command, Commands, Memos
<1> HIDE DEF c
<1>4. Head(phases) \in Sweeps
  BY HeadAndTail
<1>5. Sweeping(c)
  BY <1>3, <1>4, TodoBounds DEF Sweeping
<1>6. Good(db, c) /\ Head(c.phases) # "link"
  BY <1>3, <1>5, SweepIsGood
<1>7. QED
  BY <1>6, BeginKeeps DEF c

LEMMA SweepBeginnings ==
    ASSUME Inv, NEW p \in Procs,
           BeginSyncMarkets(p) \/ BeginSyncSettlements(p) \/ BeginSnapshot(p) \/ BeginFullSync(p)
    PROVE  Inv'
<1>1. \A opt \in SyncOptions : opt \in SUBSET Options
  BY PipelineAssumption DEF Options
<1>2. /\ <<"events", "markets">> \in Seq(Sweeps) /\ <<"events", "markets">> # <<>>
      /\ <<"events", "markets", "snapshot">> \in Seq(Sweeps) /\ <<"events", "markets", "snapshot">> # <<>>
      /\ <<"settlements">> \in Seq(Sweeps) /\ <<"settlements">> # <<>>
      /\ <<"snapshot">> \in Seq(Sweeps) /\ <<"snapshot">> # <<>>
      /\ {} \in SUBSET Options
  BY DEF Sweeps
<1>3. CASE BeginSyncMarkets(p)
  BY <1>1, <1>2, <1>3, SweepsBegin DEF BeginSyncMarkets
<1>4. CASE BeginFullSync(p)
  BY <1>1, <1>2, <1>4, SweepsBegin DEF BeginFullSync
<1>5. CASE BeginSyncSettlements(p)
  BY <1>2, <1>5, SweepsBegin DEF BeginSyncSettlements
<1>6. CASE BeginSnapshot(p)
  BY <1>2, <1>6, SweepsBegin DEF BeginSnapshot
<1>7. QED
  BY <1>3, <1>4, <1>5, <1>6

LEMMA FetchKeeps == ASSUME Inv, NEW p \in Procs, Fetch(p) PROVE Inv'
<1> DEFINE c == proc[p]
           x == CHOOSE y \in Ahead(p) : TRUE
<1>1. Running(p) /\ Phase(p) \in Sweeps
  BY DEF Fetch
<1>2. c \in Commands /\ c.phases # <<>> /\ c.end = "running" /\ Sweeping(c)
  BY <1>1, AtWorkNow, OnlySweepsSweep
<1>3. x \in c.rest
  BY DEF Fetch, Ahead
<1>4. x \in Objects(Phase(p))
  BY <1>2, <1>3 DEF Sweeping, Phase
<1> HIDE DEF x
<1> DEFINE status == IF x \in Markets THEN listing[x] ELSE "open"
<1>5. status \in {"open", "settled"}
  BY DEF Inv
<1> HIDE DEF status
<1>6. PICK full \in BOOLEAN :
        Note(p, [c EXCEPT !.rest = @ \ {x}, !.page = [of |-> x, full |-> full, status |-> status]])
  BY DEF Fetch, x, status
<1> DEFINE page == [of |-> x, full |-> full, status |-> status]
           n == [c EXCEPT !.rest = @ \ {x}, !.page = page]
<1>7. page \in Page /\ page.of = x
  BY <1>4, <1>5 DEF Page, Objects
<1> HIDE DEF page
<1>8. n \in Commands /\ n.cmd = c.cmd /\ n.phases = c.phases /\ n.end = c.end /\ n.page = page
      /\ n.rest = c.rest \ {x}
  BY <1>2, <1>7 DEF Commands
<1>9. proc' = [proc EXCEPT ![p] = n] /\ UNCHANGED <<listing, now, db, work, holder, started>>
  BY <1>6 DEF Note, page
<1> HIDE DEF n
<1>10. Sweeping(n)
  BY <1>2, <1>4, <1>7, <1>8 DEF Sweeping, Phase
<1>11. Good(db, n) /\ Head(n.phases) # "link"
  BY <1>2, <1>8, <1>10, SweepIsGood
<1>12. holder = p => WorkOf(n, db, work)
  BY <1>2, <1>10, SweptSoFar DEF WorkOf
<1>13. QED
  BY <1>2, <1>8, <1>9, <1>11, <1>12, NoteKeeps DEF Inv

LEMMA ApplyKeeps == ASSUME Inv, NEW p \in Procs, Apply(p) PROVE Inv'
<1> DEFINE c == proc[p]
           n == [c EXCEPT !.page = Null]
<1>1. Running(p) /\ Phase(p) \in Sweeps /\ c.page # Null
  BY DEF Apply
<1>2. c \in Commands /\ c.phases # <<>> /\ c.end = "running" /\ Sweeping(c)
  BY <1>1, AtWorkNow, OnlySweepsSweep
<1>3. c.page \in Page /\ c.page.of \in Objects(Phase(p)) /\ c.at \in Times
  BY <1>1, <1>2 DEF Commands, Sweeping, Phase
<1>4. n \in Commands /\ n.cmd = c.cmd /\ n.phases = c.phases /\ n.end = c.end /\ n.page = Null
      /\ n.rest = c.rest
  BY <1>2 DEF Commands
<1>5. \/ Note(p, n)
      \/ Write(p, Applied(Phase(p), work, c.page, c.at), n)
  BY DEF Apply
<1> HIDE DEF n
<1>6. Sweeping(n)
  BY <1>2, <1>4 DEF Sweeping
<1>7. Good(db, n) /\ Head(n.phases) # "link"
  BY <1>2, <1>4, <1>6, SweepIsGood
<1>8. CASE Note(p, n)
  <2>1. holder = p => WorkOf(n, db, work)
    BY <1>2, <1>6, SweptSoFar DEF WorkOf
  <2>2. QED
    BY <1>2, <1>4, <1>7, <1>8, <2>1, NoteKeeps DEF Note, Inv
<1>9. CASE Write(p, Applied(Phase(p), work, c.page, c.at), n)
  <2> DEFINE d == Applied(Phase(p), work, c.page, c.at)
  <2>1. Extends(db, work)
    BY <1>2, <1>9, SweptSoFar DEF Write, LockFree
  <2>2. Extends(work, d)
    BY <1>1, <1>3, <2>1, ListedApplied DEF Extends
  <2>3. Extends(db, d) /\ ForeignKeysHold(d)
    BY <2>1, <2>2, ExtendsFurther DEF Extends
  <2> HIDE DEF d
  <2>4. QED
    BY <1>2, <1>4, <1>6, <1>7, <1>9, <2>3, WriteKeeps DEF WorkOf, d
<1>10. QED
  BY <1>5, <1>8, <1>9

LEMMA EndSweepKeeps == ASSUME Inv, NEW p \in Procs, EndSweep(p) PROVE Inv'
<1> DEFINE c == proc[p]
           n == NextPhase(c)
<1>1. Running(p) /\ Phase(p) \in Sweeps
  BY DEF EndSweep
<1>2. c \in Commands /\ c.phases # <<>> /\ c.end = "running" /\ Sweeping(c)
  BY <1>1, AtWorkNow, OnlySweepsSweep
<1>3. ASSUME NEW d PROVE Good(d, n) /\ (n.phases # <<>> => Head(n.phases) # "link")
  <2>1. CASE Tail(c.phases) = <<>>
    BY <1>2, <2>1, Finished
  <2>2. CASE Tail(c.phases) # <<>>
    <3>1. n \in Commands /\ n.cmd = c.cmd /\ n.phases = Tail(c.phases)
          /\ n.rest = Todo(Head(Tail(c.phases)), c.opt) /\ n.page = Null /\ n.end = c.end
      BY <1>2, <2>2, Advanced, NowIsATime
    <3> HIDE DEF n
    <3>2. Tail(c.phases) \in Seq(Sweeps) /\ Head(Tail(c.phases)) \in Sweeps
      <4>1. c.phases \in Seq(Sweeps)
        BY <1>2 DEF Sweeping
      <4>2. Tail(c.phases) \in Seq(Sweeps)
        BY <1>2, <4>1, HeadAndTail
      <4>3. QED
        BY <2>2, <4>2, HeadAndTail
    <3>3. Sweeping(n)
      BY <1>2, <3>1, <3>2, TodoBounds DEF Sweeping
    <3>4. QED
      BY <1>2, <2>2, <3>1, <3>3, SweepIsGood
  <2>3. QED
    BY <2>1, <2>2
<1> HIDE DEF n
<1>4. Whole(db)
  BY DEF Inv
<1>5. CASE Phase(p) = "markets"
  <2> DEFINE d == Denormalize(work)
  <2>1. WriteAndCommit(p, d, n)
    BY <1>5 DEF EndSweep, n
  <2>2. Extends(db, work)
    BY <1>2, <2>1, SweptSoFar DEF WriteAndCommit, LockFree
  <2>3. Extends(db, d)
    BY <2>2, CategoriesCopied, ExtendsFurther DEF Extends
  <2>4. Whole(d) /\ Grows(db, d)
    BY <1>4, <2>3, ExtendedIsWhole
  <2> HIDE DEF d
  <2>5. QED
    BY <1>3, <2>1, <2>4, CommitKeeps
<1>6. CASE Phase(p) # "markets" /\ holder = p
  <2>1. WriteAndCommit(p, work, n)
    BY <1>6 DEF EndSweep, n
  <2>2. Extends(db, work)
    BY <1>2, <1>6, SweptSoFar
  <2>3. Whole(work) /\ Grows(db, work)
    BY <1>4, <2>2, ExtendedIsWhole
  <2>4. QED
    BY <1>3, <2>1, <2>3, CommitKeeps
<1>7. CASE Phase(p) # "markets" /\ holder # p
  <2>1. Note(p, n)
    BY <1>7 DEF EndSweep, n
  <2>2. QED
    BY <1>3, <1>7, <2>1, NoteKeeps DEF Note, Inv
<1>8. QED
  BY <1>5, <1>6, <1>7

LEMMA AbortKeeps == ASSUME Inv, NEW p \in Procs, Abort(p) PROVE Inv'
  BY FailKeeps DEF Abort

-----------------------------------------------------------------------------
(* Only a sweep, or the collector with an article it has yet to link, holds *)
(* the lock between two steps.                                             *)
LEMMA WhoHoldsTheLock ==
    ASSUME Inv, NEW p \in Procs, holder = p
    PROVE  /\ Running(p)
           /\ \/ Sweeping(proc[p]) /\ Extends(db, work)
              \/ /\ Collecting(db, proc[p]) /\ Phase(p) = "link"
                 /\ \E t \in Times : work = [db EXCEPT !.articles[proc[p].page.of] = t]
  BY NullIsNoProcess DEF Inv, LockSound, WorkOf, Phase

LEMMA TheyHoldNoLock ==
    ASSUME Inv, NEW p \in Procs, Running(p), Phase(p) # "link",
           proc[p].cmd \in {"prune", "export", "track", "untrack", "collect"}
    PROVE  holder # p
<1>1. ~Sweeping(proc[p])
  BY DEF Sweeping
<1>2. QED
  BY <1>1, WhoHoldsTheLock

LEMMA FreeLockSeesTheFile ==
    ASSUME Inv, NEW p \in Procs, holder # p, LockFree(p)
    PROVE  holder = Null /\ work = db
  BY DEF Inv, LockSound, LockFree

-----------------------------------------------------------------------------
(* prune.                                                                  *)
LEMMA CountedThenDelete == Append(Counted, "delete") \in PrunePhases
<1>1. ASSUME NEW a, NEW b, NEW c, NEW d, NEW e, NEW f
      PROVE  Append(<<a, b, c, d, e>>, f) = <<a, b, c, d, e, f>>
  <2> DEFINE t == Append(<<a, b, c, d, e>>, f)
  <2>1. Len(t) = 6 /\ t[1] = a /\ t[2] = b /\ t[3] = c /\ t[4] = d /\ t[5] = e /\ t[6] = f
    OBVIOUS
  <2>2. t \in Seq({a, b, c, d, e, f})
    OBVIOUS
  <2> HIDE DEF t
  <2>3. t = <<a, b, c, d, e, f>>
    BY <2>1, <2>2
  <2>4. QED
    BY <2>3 DEF t
<1>2. Append(Counted, "delete") = <<"prices", "articles", "market_links", "event_links", "scores", "delete">>
  BY <1>1 DEF Counted
<1>3. QED
  BY <1>2 DEF PrunePhases

LEMMA PrunePhasesArePhases == \A s \in PrunePhases : s \in Seq(PhaseNames)
<1>1. ASSUME NEW s \in PrunePhases PROVE s \in Seq(PrunedTables \union {"delete"})
  <2>1. CASE s = <<"prices", "articles", "market_links", "event_links", "scores", "delete">>
    BY <2>1 DEF PrunedTables
  <2>2. CASE s = <<"articles", "market_links", "event_links", "scores", "delete">>
    BY <2>2 DEF PrunedTables
  <2>3. CASE s = <<"market_links", "event_links", "scores", "delete">>
    BY <2>3 DEF PrunedTables
  <2>4. CASE s = <<"event_links", "scores", "delete">>
    BY <2>4 DEF PrunedTables
  <2>5. CASE s = <<"scores", "delete">>
    BY <2>5 DEF PrunedTables
  <2>6. CASE s = <<"delete">>
    BY <2>6 DEF PrunedTables
  <2>7. QED
    BY <2>1, <2>2, <2>3, <2>4, <2>5, <2>6 DEF PrunePhases
<1>2. PrunedTables \union {"delete"} \subseteq PhaseNames
  BY DEF PhaseNames
<1>3. QED
  BY <1>1, <1>2, LargerAlphabet

LEMMA BeginPruneKeeps == ASSUME Inv, NEW p \in Procs, BeginPrune(p) PROVE Inv'
<1>1. PICK opt \in SUBSET {"prices", "news", "apply"} : \E cutoff \in 1..now :
        Begin(p, Command("prune", Append(Counted, "delete"), opt, cutoff, [found |-> {}]))
  BY DEF BeginPrune
<1>2. PICK cutoff \in 1..now :
        Begin(p, Command("prune", Append(Counted, "delete"), opt, cutoff, [found |-> {}]))
  BY <1>1
<1>3. PICK phases : phases = Append(Counted, "delete")
  OBVIOUS
<1>4. phases \in PrunePhases /\ phases \in Seq(PhaseNames) /\ phases # <<>>
      /\ Head(phases) \in PrunedTables \union {"delete"}
  BY <1>3, CountedThenDelete, PrunePhasesArePhases, PruneParts
<1>5. PICK memo : memo = [found |-> {}]
  OBVIOUS
<1>6. memo \in PruneMemo /\ memo \in Memos /\ memo.found = {}
  BY <1>5 DEF PruneMemo, Memos
<1>7. opt \in SUBSET Options /\ "prune" \in CommandNames
  BY DEF Options, CommandNames
<1>8. cutoff \in Times
  <2>1. now \in 0..MaxTime /\ MaxTime \in Nat
    BY TablesAssumption DEF Inv, Times
  <2>2. QED
    BY <2>1 DEF Times
<1>9. PICK c : c = Command("prune", phases, opt, cutoff, memo)
  OBVIOUS
<1>10. Begin(p, c)
  BY <1>2, <1>3, <1>5, <1>9
<1>11. c \in Commands /\ c.cmd = "prune" /\ c.phases = phases /\ c.memo = memo /\ c.overlap = FALSE
       /\ c.end = "running"
  <2>1. Todo(Head(phases), opt) \subseteq Events \union Markets \union Urls \union ExportTables
    BY TodoBounds
  <2>2. QED
    BY <1>4, <1>6, <1>7, <1>8, <1>9, <2>1 DEF Command, Commands, Memos
<1>12. Head(phases) = "prices"
  BY <1>3 DEF Counted
<1>13. Pruning(db, c)
  BY <1>4, <1>6, <1>11, <1>12, PassedTables DEF Pruning
<1>14. Good(db, c)
  BY <1>4, <1>11, <1>13 DEF Good, AtWork
<1>15. QED
  BY <1>10, <1>11, <1>12, <1>14, BeginKeeps

LEMMA CountRowsKeeps == ASSUME Inv, NEW p \in Procs, CountRows(p) PROVE Inv'
<1> DEFINE c == proc[p]
           f == IF Matches(db, Phase(p), c) THEN c.memo.found \union {Phase(p)} ELSE c.memo.found
<1>1. Running(p) /\ Phase(p) # "delete" /\ c.cmd = "prune" /\ Phase(p) = Head(c.phases)
  BY DEF CountRows, Phase
<1>2. c \in Commands /\ c.phases # <<>> /\ c.end = "running" /\ Pruning(db, c)
      /\ Phase(p) \in PrunedTables \union {"delete"}
  BY <1>1, AtWorkNow, WhoseIsThis DEF Sweeping, Exporting, Tracking, Untracking, Collecting
<1>3. c.memo \in PruneMemo /\ c.phases \in PrunePhases
      /\ c.memo.found \subseteq Passed(Head(c.phases))
      /\ (~c.overlap => \A t \in Passed(Head(c.phases)) : t \in c.memo.found <=> Matches(db, t, c))
  BY <1>2 DEF Pruning
<1>4. Tail(c.phases) # <<>> /\ Tail(c.phases) \in PrunePhases
      /\ Passed(Head(Tail(c.phases))) = Passed(Head(c.phases)) \union {Head(c.phases)}
      /\ Head(c.phases) \notin Passed(Head(c.phases))
  BY <1>1, <1>3, PruneParts
<1>5. Head(Tail(c.phases)) \notin Sweeps /\ Head(Tail(c.phases)) # "link"
  <2>1. Head(Tail(c.phases)) \in PrunedTables \union {"delete"}
    BY <1>4, PruneParts
  <2>2. QED
    BY <2>1 DEF PrunedTables, Sweeps
<1>6. PICK m : m = NextPhase(c)
  OBVIOUS
<1>7. m \in Commands /\ m.cmd = c.cmd /\ m.phases = Tail(c.phases) /\ m.opt = c.opt /\ m.memo = c.memo
      /\ m.overlap = c.overlap /\ m.end = c.end /\ m.at = c.at
  BY <1>2, <1>4, <1>5, <1>6, Advanced, NowIsATime
<1>8. PICK n : n = [m EXCEPT !.memo.found = f]
  OBVIOUS
<1>9. Note(p, n)
  BY <1>6, <1>7, <1>8 DEF CountRows
<1>10. f \in SUBSET PrunedTables
  BY <1>1, <1>2, <1>3 DEF PruneMemo
<1> HIDE DEF f
<1>11. PICK memo : memo = [m.memo EXCEPT !.found = f]
  OBVIOUS
<1>12. memo \in PruneMemo /\ memo.found = f
  BY <1>3, <1>7, <1>10, <1>11 DEF PruneMemo
<1>13. n \in Commands /\ n.cmd = "prune" /\ n.phases = Tail(c.phases) /\ n.opt = c.opt /\ n.memo = memo
       /\ n.overlap = c.overlap /\ n.end = "running" /\ n.at = c.at
  <2>1. n = [m EXCEPT !.memo = memo]
    BY <1>7, <1>8, <1>11
  <2>2. QED
    BY <1>1, <1>2, <1>7, <1>12, <2>1 DEF Commands
<1>14. \A t : Matches(db, t, n) = Matches(db, t, c)
  BY <1>13 DEF Matches
<1>15. ~n.overlap => \A t \in Passed(Head(n.phases)) : t \in n.memo.found <=> Matches(db, t, n)
  <2>1. SUFFICES ASSUME ~c.overlap, NEW t \in Passed(Head(Tail(c.phases)))
                 PROVE  t \in f <=> Matches(db, t, c)
    BY <1>12, <1>13, <1>14
  <2>2. CASE t = Phase(p)
    <3>1. t \notin c.memo.found \/ Matches(db, t, c)
      BY <1>1, <1>3, <1>4, <2>2
    <3>2. QED
      BY <2>2, <3>1 DEF f
  <2>3. CASE t # Phase(p)
    <3>1. t \in Passed(Head(c.phases))
      BY <1>1, <1>4, <2>1, <2>3
    <3>2. QED
      BY <1>3, <2>1, <2>3, <3>1 DEF f
  <2>4. QED
    BY <2>2, <2>3
<1>16. Pruning(db, n)
  <2>1. f \subseteq Passed(Head(Tail(c.phases)))
    BY <1>1, <1>3, <1>4 DEF f
  <2>2. QED
    BY <1>4, <1>12, <1>13, <1>15, <2>1 DEF Pruning
<1>17. Good(db, n)
  BY <1>4, <1>13, <1>16 DEF Good, AtWork
<1>18. holder # p
  BY <1>1, <1>2, TheyHoldNoLock DEF PrunedTables
<1>19. QED
  BY <1>5, <1>9, <1>13, <1>17, <1>18, NoteKeeps DEF Note, Inv
(* What a prune deletes, table by table.                                   *)
LEMMA PrunedParts ==
    ASSUME NEW d \in Database, NEW found, NEW cutoff, NEW e, e = Pruned(d, found, cutoff)
    PROVE  /\ e.events = d.events /\ e.markets = d.markets /\ e.settled = d.settled /\ e.tracked = d.tracked
           /\ e.prices \subseteq d.prices /\ e.scores \subseteq d.scores
           /\ \A l \in d.links : l \notin e.links =>
                 "articles" \in found /\ l[1] \in OldArticles(d, cutoff)
           /\ e.links \subseteq d.links
           /\ \A l \in d.links : "articles" \in found /\ l[1] \in OldArticles(d, cutoff) =>
                 /\ "market_links" \in found /\ l[2] \in Markets => l \notin e.links
                 /\ "event_links" \in found /\ l[2] \in Events => l \notin e.links
           /\ "articles" \in found /\ "scores" \in found => e.scores \cap OldArticles(d, cutoff) = {}
           /\ \A u \in Urls : e.articles[u] =
                 IF "articles" \in found /\ u \in OldArticles(d, cutoff) THEN Null ELSE d.articles[u]
           /\ e \in Database
<1> DEFINE visit == IF "articles" \in found THEN found ELSE found \intersect {"prices"}
           old == OldArticles(d, cutoff)
           ml == IF "market_links" \in visit THEN OldLinks(d, cutoff, Markets) ELSE {}
           el == IF "event_links" \in visit THEN OldLinks(d, cutoff, Events) ELSE {}
           pr == IF "prices" \in visit THEN d.prices \ OldPrices(d, cutoff) ELSE d.prices
           sc == IF "scores" \in visit THEN d.scores \ OldScores(d, cutoff) ELSE d.scores
           li == d.links \ (ml \union el)
           ar == [u \in Urls |-> IF "articles" \in visit /\ u \in old THEN Null ELSE d.articles[u]]
<1>1. e = [d EXCEPT !.prices = pr, !.scores = sc, !.links = li, !.articles = ar]
  BY DEF Pruned
<1>2. /\ "articles" \in visit <=> "articles" \in found
      /\ \A table \in visit : table \in found
      /\ \A table \in {"scores", "market_links", "event_links"} :
            "articles" \in found /\ table \in found => table \in visit
      /\ \A table \in {"scores", "market_links", "event_links"} : table \in visit => "articles" \in found
  OBVIOUS
<1> HIDE DEF visit
<1>3. /\ \A l \in ml \union el : l \in d.links /\ l[1] \in old /\ "articles" \in found
      /\ \A l \in d.links : "articles" \in found /\ l[1] \in old =>
            /\ "market_links" \in found /\ l[2] \in Markets => l \in ml
            /\ "event_links" \in found /\ l[2] \in Events => l \in el
  BY <1>2 DEF OldLinks
<1>4. pr \subseteq d.prices /\ sc \subseteq d.scores
      /\ ("articles" \in found /\ "scores" \in found => sc \cap old = {})
  BY <1>2 DEF OldScores
<1>5. ar \in [Urls -> Times \union {Null}]
      /\ \A u \in Urls : ar[u] = IF "articles" \in found /\ u \in old THEN Null ELSE d.articles[u]
  BY <1>2, Columns
<1> HIDE DEF pr, sc, ar, ml, el
<1>6. e \in Database /\ e.events = d.events /\ e.markets = d.markets /\ e.settled = d.settled
      /\ e.tracked = d.tracked /\ e.prices = pr /\ e.scores = sc /\ e.links = li /\ e.articles = ar
  <2>1. li \subseteq d.links
    OBVIOUS
  <2> HIDE DEF li
  <2>2. /\ pr \subseteq Markets \X Times /\ sc \subseteq Urls /\ li \subseteq Urls \X Tickers
        /\ ar \in [Urls -> Times \union {Null}]
    BY <1>4, <1>5, <2>1, Columns
  <2>3. /\ e.events = d.events /\ e.markets = d.markets /\ e.settled = d.settled
        /\ e.tracked = d.tracked /\ e.prices = pr /\ e.scores = sc /\ e.links = li /\ e.articles = ar
    BY <1>1 DEF Database
  <2>4. e \in Database
    <3> DEFINE e1 == [d EXCEPT !.prices = pr]
               e2 == [e1 EXCEPT !.scores = sc]
               e3 == [e2 EXCEPT !.links = li]
    <3>1. e1 \in Database
      BY <2>2 DEF Database
    <3> HIDE DEF e1
    <3>2. e2 \in Database
      BY <2>2, <3>1 DEF Database
    <3> HIDE DEF e2
    <3>3. e3 \in Database
      BY <2>2, <3>2 DEF Database
    <3> HIDE DEF e3
    <3>4. [e3 EXCEPT !.articles = ar] \in Database
      BY <2>2, <3>3 DEF Database
    <3>5. e = [e3 EXCEPT !.articles = ar]
      BY <1>1 DEF e1, e2, e3
    <3>6. QED
      BY <3>4, <3>5
  <2>5. QED
    BY <2>3, <2>4
<1>7. QED
  BY <1>3, <1>4, <1>5, <1>6

LEMMA PrunedKeepsTheRest ==
    ASSUME NEW d, Whole(d), NEW found, NEW cutoff, NEW e, e = Pruned(d, found, cutoff)
    PROVE  e \in Database /\ ArticlesLinked(e) /\ TrackedKnown(e) /\ Grows(d, e)
<1>1. d \in Database
  BY DEF Whole
<1>2. e \in Database /\ e.events = d.events /\ e.markets = d.markets /\ e.tracked = d.tracked
  BY <1>1, PrunedParts
<1>3. ASSUME NEW u \in Urls, e.articles[u] # Null
      PROVE  \E t \in Tickers : <<u, t>> \in e.links /\ e.tracked[t] # "no"
  <2>1. d.articles[u] # Null /\ ~("articles" \in found /\ u \in OldArticles(d, cutoff))
    BY <1>1, <1>3, PrunedParts
  <2>2. PICK t \in Tickers : <<u, t>> \in d.links /\ d.tracked[t] # "no"
    BY <2>1 DEF Whole, ArticlesLinked
  <2>3. PICK l \in d.links : l = <<u, t>>
    BY <2>2
  <2>4. l[1] = u
    BY <2>3
  <2>5. l \in e.links
    BY <1>1, <2>1, <2>4, PrunedParts
  <2>6. QED
    BY <1>2, <2>2, <2>3, <2>5
<1>4. QED
  BY <1>2, <1>3 DEF Whole, ArticlesLinked, TrackedKnown, Known, Grows

(* With the counts right, everything that hangs from an article goes with it. *)
LEMMA PrunedFits ==
    ASSUME NEW d, Whole(d), NEW c, c.memo.found \subseteq PrunedTables,
           \A t \in PrunedTables : t \in c.memo.found <=> Matches(d, t, c),
           NEW e, e = Pruned(d, c.memo.found, c.at)
    PROVE  ForeignKeysHold(e)
<1> DEFINE found == c.memo.found
           old == OldArticles(d, c.at)
<1>1. d \in Database /\ ForeignKeysHold(d)
  BY DEF Whole
<1>2. \A l \in d.links : l[1] \in Urls /\ l[2] \in Tickers
  BY <1>1, Columns
<1>3. \A u \in d.scores : u \in Urls
  BY <1>1, Columns
<1>4. "articles" \in found => "news" \in c.opt
  BY DEF Matches, PrunedTables
<1>5. ASSUME "articles" \in found, NEW l \in d.links, l[1] \in old
      PROVE  l \notin e.links
  <2>1. l[2] \in Markets \/ l[2] \in Events
    BY <1>2 DEF Tickers
  <2>2. CASE l[2] \in Markets
    <3>1. OldLinks(d, c.at, Markets) # {}
      BY <1>5, <2>2 DEF OldLinks
    <3>2. "market_links" \in found
      BY <1>4, <1>5, <3>1 DEF Matches, PrunedTables
    <3>3. QED
      BY <1>1, <1>5, <2>2, <3>2, PrunedParts
  <2>3. CASE l[2] \in Events
    <3>1. OldLinks(d, c.at, Events) # {}
      BY <1>5, <2>3 DEF OldLinks
    <3>2. "event_links" \in found
      BY <1>4, <1>5, <3>1 DEF Matches, PrunedTables
    <3>3. QED
      BY <1>1, <1>5, <2>3, <3>2, PrunedParts
  <2>4. QED
    BY <2>1, <2>2, <2>3
<1>6. ASSUME "articles" \in found, NEW u \in d.scores, u \in old
      PROVE  u \notin e.scores
  <2>1. OldScores(d, c.at) # {}
    BY <1>6 DEF OldScores
  <2>2. "scores" \in found
    BY <1>4, <1>6, <2>1 DEF Matches, PrunedTables
  <2>3. QED
    BY <1>1, <1>6, <2>2, PrunedParts
<1>7. /\ e.events = d.events /\ e.markets = d.markets /\ e.settled = d.settled
      /\ e.prices \subseteq d.prices /\ e.scores \subseteq d.scores /\ e.links \subseteq d.links
      /\ \A u \in Urls : e.articles[u] = IF "articles" \in found /\ u \in old THEN Null ELSE d.articles[u]
  BY <1>1, PrunedParts
<1> HIDE DEF found, old
<1>8. \A l \in e.links : e.articles[l[1]] # Null
  BY <1>1, <1>2, <1>5, <1>7 DEF ForeignKeysHold
<1>9. \A u \in e.scores : e.articles[u] # Null
  BY <1>1, <1>3, <1>6, <1>7 DEF ForeignKeysHold
<1>10. QED
  BY <1>1, <1>7, <1>8, <1>9 DEF ForeignKeysHold

LEMMA PruneKeeps == ASSUME Inv, NEW p \in Procs, Prune(p) PROVE Inv'
<1> DEFINE c == proc[p]
<1>1. Running(p) /\ Phase(p) = "delete" /\ c.cmd = "prune" /\ Phase(p) = Head(c.phases)
  BY DEF Prune, In, Phase
<1>2. c \in Commands /\ c.phases # <<>> /\ c.end = "running" /\ Pruning(db, c)
  BY <1>1, AtWorkNow, WhoseIsThis DEF Sweeping, Exporting, Tracking, Untracking, Collecting
<1>3. c.memo \in PruneMemo /\ c.phases \in PrunePhases
      /\ (~c.overlap => \A t \in PrunedTables : t \in c.memo.found <=> Matches(db, t, c))
  BY <1>1, <1>2 DEF Pruning, Passed
<1>4. Tail(c.phases) = <<>>
  BY <1>1, <1>3, PruneParts
<1>5. PICK n : n = NextPhase(c)
  OBVIOUS
<1>6. \A d : Good(d, n) /\ n.phases = <<>>
  BY <1>2, <1>4, <1>5, Finished
<1>7. holder # p
  BY <1>1, TheyHoldNoLock
<1>8. \/ Note(p, n)
      \/ WriteAndCommit(p, Pruned(work, c.memo.found, c.at), n)
  BY <1>5 DEF Prune
<1>9. CASE Note(p, n)
  BY <1>6, <1>7, <1>9, NoteKeeps DEF Note, Inv
<1>10. CASE WriteAndCommit(p, Pruned(work, c.memo.found, c.at), n)
  <2>1. PICK e : e = Pruned(db, c.memo.found, c.at)
    OBVIOUS
  <2>2. WriteAndCommit(p, e, n) /\ LockFree(p)
    BY <1>7, <1>10, <2>1, FreeLockSeesTheFile DEF WriteAndCommit
  <2>3. Whole(db)
    BY DEF Inv
  <2>4. CASE ForeignKeysHold(e)
    <3>1. Whole(e) /\ Grows(db, e)
      BY <2>1, <2>3, <2>4, PrunedKeepsTheRest DEF Whole
    <3>2. QED
      BY <1>6, <2>2, <3>1, CommitKeeps
  <2>5. CASE ~ForeignKeysHold(e)
    <3>1. Fail(p, "integrity")
      BY <2>2, <2>5 DEF WriteAndCommit
    <3>2. c.overlap
      <4>1. c.memo.found \subseteq PrunedTables /\ c.overlap \in BOOLEAN
        BY <1>2, <1>3 DEF PruneMemo, Commands
      <4>2. QED
        BY <1>3, <2>1, <2>3, <2>5, <4>1, PrunedFits
    <3>3. QED
      BY <1>1, <3>1, <3>2, FailKeeps
  <2>6. QED
    BY <2>4, <2>5
<1>11. QED
  BY <1>8, <1>9, <1>10

-----------------------------------------------------------------------------
(* export.                                                                 *)
LEMMA BeginExportKeeps == ASSUME Inv, NEW p \in Procs, BeginExport(p) PROVE Inv'
<1>1. PICK opt \in {{"csv"}, {"parquet"}} : Begin(p, Command("export", <<"tables">>, opt, now, Null))
  BY DEF BeginExport
<1>2. PICK phases : phases = <<"tables">>
  OBVIOUS
<1>3. phases \in Seq(PhaseNames) /\ phases # <<>> /\ Head(phases) = "tables"
  BY <1>2 DEF PhaseNames
<1>4. opt \in SUBSET Options /\ "export" \in CommandNames
  BY DEF Options, CommandNames
<1>5. PICK c : c = Command("export", phases, opt, now, Null)
  OBVIOUS
<1>6. c \in Commands /\ c.cmd = "export" /\ c.phases = phases /\ c.end = "running"
  <2>1. Todo(Head(phases), opt) \subseteq Events \union Markets \union Urls \union ExportTables
    BY TodoBounds
  <2>2. QED
    BY <1>3, <1>4, <1>5, <2>1, NowIsATime DEF Command, Commands
<1>7. Good(db, c)
  <2>1. c.rest = Todo("tables", opt)
    BY <1>3, <1>5 DEF Command
  <2>2. c.rest \subseteq ExportTables
    BY <2>1 DEF Todo, ExportTables
  <2>3. Exporting(c)
    BY <1>2, <1>6, <2>2 DEF Exporting
  <2>4. QED
    BY <1>3, <1>6, <2>3 DEF Good, AtWork
<1>8. QED
  BY <1>1, <1>2, <1>3, <1>5, <1>6, <1>7, BeginKeeps

LEMMA ExportTableKeeps == ASSUME Inv, NEW p \in Procs, ExportTable(p) PROVE Inv'
<1> DEFINE c == proc[p]
<1>1. Running(p) /\ Phase(p) = "tables" /\ Phase(p) = Head(c.phases)
  BY DEF ExportTable, In, Phase
<1>2. c \in Commands /\ c.phases # <<>> /\ c.end = "running" /\ Good(db, c) /\ Exporting(c)
  BY <1>1, AtWorkNow, WhoseIsThis DEF Sweeps, PrunedTables
<1>3. c.cmd = "export" /\ Tail(c.phases) = <<>>
  BY <1>2, One DEF Exporting
<1>4. UNCHANGED <<listing, now, db, work, holder, started>>
  BY DEF ExportTable
<1>5. holder # p
  BY <1>1, <1>3, TheyHoldNoLock
<1>6. PICK table \in c.rest : proc' = [proc EXCEPT ![p] =
          IF c.rest = {table} THEN NextPhase(c) ELSE [c EXCEPT !.rest = @ \ {table}]]
  BY DEF ExportTable
<1>7. CASE c.rest = {table}
  <2>1. proc' = [proc EXCEPT ![p] = NextPhase(c)]
    BY <1>6, <1>7
  <2>2. Good(db, NextPhase(c)) /\ NextPhase(c).phases = <<>>
    BY <1>2, <1>3, Finished
  <2>3. QED
    BY <1>4, <1>5, <2>1, <2>2, NoteKeeps DEF Inv
<1>8. CASE c.rest # {table}
  <2>1. PICK n : n = [c EXCEPT !.rest = @ \ {table}]
    OBVIOUS
  <2>2. proc' = [proc EXCEPT ![p] = n]
    BY <1>6, <1>8, <2>1
  <2>3. n \in Commands /\ n.cmd = c.cmd /\ n.phases = c.phases /\ n.end = c.end
        /\ n.rest = c.rest \ {table}
    BY <1>2, <2>1 DEF Commands
  <2>4. Good(db, n)
    BY <1>2, <2>3 DEF Good, AtWork, Exporting
  <2>5. QED
    BY <1>1, <1>4, <1>5, <2>2, <2>3, <2>4, NoteKeeps DEF Inv
<1>9. QED
  BY <1>7, <1>8

-----------------------------------------------------------------------------
(* track.                                                                  *)
LEMMA TrackNext ==
    ASSUME NEW t, NEW s \in TrackPhases(t), Head(s) # "enrol"
    PROVE  /\ Tail(s) # <<>> /\ Tail(s) \in TrackPhases(t)
           /\ Head(Tail(s)) = CASE Head(s) = "find_event" -> IF t \in Markets THEN "find_market" ELSE "merge"
                                [] Head(s) = "find_market" -> "merge"
                                [] Head(s) = "merge" -> "find_item"
                                [] Head(s) = "find_item" -> "enrol"
<1> DEFINE h == Head(s)
<1>1. PICK r : r = Tail(s)
  OBVIOUS
<1>2. CASE h = "find_event" /\ t \in Markets
  <2>1. r = <<"find_market", "merge", "find_item", "enrol">>
    BY <1>1, <1>2, TrackParts
  <2>2. r # <<>> /\ Head(r) = "find_market" /\ r \in TrackPhases(t)
    BY <1>2, <2>1 DEF TrackPhases
  <2>3. QED
    BY <1>1, <1>2, <2>2
<1>3. CASE h = "find_event" /\ t \notin Markets
  <2>1. r = <<"merge", "find_item", "enrol">>
    BY <1>1, <1>3, TrackParts
  <2>2. r # <<>> /\ Head(r) = "merge" /\ r \in TrackPhases(t)
    BY <1>3, <2>1 DEF TrackPhases
  <2>3. QED
    BY <1>1, <1>3, <2>2
<1>4. CASE h = "find_market"
  <2>1. r = <<"merge", "find_item", "enrol">>
    BY <1>1, <1>4, TrackParts
  <2>2. r # <<>> /\ Head(r) = "merge" /\ r \in TrackPhases(t)
    BY <2>1 DEF TrackPhases
  <2>3. QED
    BY <1>1, <1>4, <2>2
<1>5. CASE h = "merge"
  <2>1. r = <<"find_item", "enrol">>
    BY <1>1, <1>5, TrackParts
  <2>2. r # <<>> /\ Head(r) = "find_item" /\ r \in TrackPhases(t)
    BY <2>1 DEF TrackPhases
  <2>3. QED
    BY <1>1, <1>5, <2>2
<1>6. CASE h = "find_item"
  <2>1. r = <<"enrol">>
    BY <1>1, <1>6, TrackParts
  <2>2. r # <<>> /\ Head(r) = "enrol" /\ r \in TrackPhases(t)
    BY <2>1 DEF TrackPhases
  <2>3. QED
    BY <1>1, <1>6, <2>2
<1>7. h \in {"find_event", "find_market", "merge", "find_item", "enrol"}
  BY TrackParts
<1>8. QED
  BY <1>2, <1>3, <1>4, <1>5, <1>6, <1>7

LEMMA TrackStarts ==
    ASSUME NEW t,
           NEW s, s = IF t \in Markets
                      THEN <<"find_event", "find_market", "merge", "find_item", "enrol">>
                      ELSE <<"find_event", "merge", "find_item", "enrol">>
    PROVE  s \in TrackPhases(t) /\ s \in Seq(PhaseNames) /\ s # <<>> /\ Head(s) = "find_event"
<1>1. s \in TrackPhases(t)
  BY DEF TrackPhases
<1>2. CASE t \in Markets
  <2>1. s = <<"find_event", "find_market", "merge", "find_item", "enrol">>
    BY <1>2
  <2>2. s \in Seq({"find_event", "find_market", "merge", "find_item", "enrol"}) /\ s # <<>> /\ Head(s) = "find_event"
    <3>1. s # <<>> /\ Head(s) = "find_event"
      BY <2>1
    <3>2. s \in Seq({"find_event", "find_market", "merge", "find_item", "enrol"})
      <4>1. <<"find_event", "find_market", "merge", "find_item", "enrol">>
                \in Seq({"find_event", "find_market", "merge", "find_item", "enrol"})
        OBVIOUS
      <4>2. QED
        BY <2>1, <4>1, Zenon
    <3>3. QED
      BY <3>1, <3>2
  <2>3. {"find_event", "find_market", "merge", "find_item", "enrol"} \subseteq PhaseNames
    BY DEF PhaseNames
  <2>4. s \in Seq(PhaseNames)
    BY <2>2, <2>3, LargerAlphabet
  <2>5. QED
    BY <1>1, <2>2, <2>4
<1>3. CASE t \notin Markets
  <2>1. s = <<"find_event", "merge", "find_item", "enrol">>
    BY <1>3
  <2>2. s \in Seq({"find_event", "find_market", "merge", "find_item", "enrol"}) /\ s # <<>> /\ Head(s) = "find_event"
    <3>1. s # <<>> /\ Head(s) = "find_event"
      BY <2>1
    <3>2. s \in Seq({"find_event", "find_market", "merge", "find_item", "enrol"})
      <4>1. <<"find_event", "merge", "find_item", "enrol">>
                \in Seq({"find_event", "find_market", "merge", "find_item", "enrol"})
        OBVIOUS
      <4>2. QED
        BY <2>1, <4>1, Zenon
    <3>3. QED
      BY <3>1, <3>2
  <2>3. {"find_event", "find_market", "merge", "find_item", "enrol"} \subseteq PhaseNames
    BY DEF PhaseNames
  <2>4. s \in Seq(PhaseNames)
    BY <2>2, <2>3, LargerAlphabet
  <2>5. QED
    BY <1>1, <2>2, <2>4
<1>4. QED
  BY <1>2, <1>3

LEMMA BeginTrackKeeps == ASSUME Inv, NEW p \in Procs, BeginTrack(p) PROVE Inv'
<1> DEFINE Steps(t) == IF t \in Markets
                       THEN <<"find_event", "find_market", "merge", "find_item", "enrol">>
                       ELSE <<"find_event", "merge", "find_item", "enrol">>
           Ev(t) == IF t \in Markets THEN EventOf[t] ELSE t
           St(t) == IF t \in Markets THEN listing[t] ELSE "open"
           Memo(t, cat) == [ticker |-> t, event |-> Ev(t), given |-> [real |-> TRUE, cat |-> cat],
                            market |-> [status |-> St(t), cat |-> FALSE],
                            seen_event |-> Null, seen_market |-> Null, seen_item |-> "no"]
<1>1. PICK t \in Watched : \E cat \in BOOLEAN :
        Begin(p, Command("track", Steps(t), {}, now, Memo(t, cat)))
  BY DEF BeginTrack
<1>2. PICK cat \in BOOLEAN : Begin(p, Command("track", Steps(t), {}, now, Memo(t, cat)))
  BY <1>1
<1>3. PICK s : s = Steps(t)
  OBVIOUS
<1>4. s \in TrackPhases(t) /\ s \in Seq(PhaseNames) /\ s # <<>> /\ Head(s) = "find_event"
  BY <1>3, TrackStarts
<1>5. PICK given : given = [real |-> TRUE, cat |-> cat]
  OBVIOUS
<1>6. PICK row : row = [status |-> St(t), cat |-> FALSE]
  OBVIOUS
<1>7. t \in Tickers
  BY PipelineAssumption
<1>8. Ev(t) \in Events
  BY <1>7, RowsAreThere DEF Tickers
<1>9. given \in EventRow
  BY <1>5, RowsMade
<1>10. row \in MarketRow
  <2>1. St(t) \in {"open", "settled"}
    BY DEF Inv
  <2>2. QED
    BY <1>6, <2>1, RowsMade
<1>11. PICK memo : memo = [ticker |-> t, event |-> Ev(t), given |-> given, market |-> row,
                           seen_event |-> Null, seen_market |-> Null, seen_item |-> "no"]
  OBVIOUS
<1>12. Begin(p, Command("track", s, {}, now, memo))
  BY <1>2, <1>3, <1>5, <1>6, <1>11
<1> HIDE DEF Steps, St, Memo
<1>13. memo \in TrackMemo /\ memo.ticker = t /\ memo.event = Ev(t) /\ memo.seen_event = Null
       /\ memo.seen_market = Null
  BY <1>7, <1>8, <1>9, <1>10, <1>11 DEF TrackMemo, Enrolment
<1>14. PICK c : c = Command("track", s, {}, now, memo)
  OBVIOUS
<1>15. c \in Commands /\ c.cmd = "track" /\ c.phases = s /\ c.memo = memo /\ c.end = "running"
  <2>1. Todo(Head(s), {}) \subseteq Events \union Markets \union Urls \union ExportTables
    BY TodoBounds
  <2>2. "track" \in CommandNames /\ memo \in Memos
    BY <1>13 DEF CommandNames, Memos
  <2>3. QED
    BY <1>4, <1>14, <2>1, <2>2, NowIsATime DEF Command, Commands, Memos
<1>16. Tracking(db, c)
  BY <1>4, <1>13, <1>15 DEF Tracking
<1>17. Good(db, c)
  BY <1>4, <1>15, <1>16 DEF Good, AtWork
<1>18. QED
  BY <1>4, <1>12, <1>14, <1>15, <1>17, BeginKeeps

(* A command that tracks, and the same command in its next phase.          *)
LEMMA WhoTracks ==
    ASSUME Inv, NEW p \in Procs, Running(p), Phase(p) \in {"find_event", "find_market", "merge", "enrol"}
    PROVE  Tracking(db, proc[p]) /\ holder # p
<1>1. Phase(p) \notin Sweeps /\ Phase(p) \notin PrunedTables \union {"delete"} /\ Phase(p) # "link"
  BY DEF Sweeps, PrunedTables
<1>2. Tracking(db, proc[p])
  BY <1>1, WhoseIsThis
<1>3. QED
  BY <1>1, <1>2, TheyHoldNoLock DEF Tracking

LEMMA TrackingAdvances ==
    ASSUME Inv, NEW p \in Procs, Running(p), Tracking(db, proc[p]), Phase(p) # "enrol",
           NEW m, m = NextPhase(proc[p])
    PROVE  /\ m \in Commands /\ m.cmd = "track" /\ m.phases = Tail(proc[p].phases) /\ m.phases # <<>>
           /\ m.phases \in TrackPhases(proc[p].memo.ticker) /\ m.memo = proc[p].memo
           /\ m.overlap = proc[p].overlap /\ m.end = "running" /\ Head(m.phases) # "link"
           /\ Head(m.phases) = CASE Phase(p) = "find_event" ->
                                    IF proc[p].memo.ticker \in Markets THEN "find_market" ELSE "merge"
                                 [] Phase(p) = "find_market" -> "merge"
                                 [] Phase(p) = "merge" -> "find_item"
                                 [] Phase(p) = "find_item" -> "enrol"
<1> DEFINE c == proc[p]
<1>1. c \in Commands /\ c.phases # <<>> /\ c.end = "running"
  BY AtWorkNow
<1>2. PICK s : s = c.phases
  OBVIOUS
<1>3. s \in TrackPhases(c.memo.ticker) /\ c.cmd = "track" /\ Head(s) = Phase(p)
  BY <1>2 DEF Tracking, Phase
<1>4. Tail(s) # <<>> /\ Tail(s) \in TrackPhases(c.memo.ticker)
      /\ Head(Tail(s)) = CASE Head(s) = "find_event" -> IF c.memo.ticker \in Markets THEN "find_market" ELSE "merge"
                           [] Head(s) = "find_market" -> "merge"
                           [] Head(s) = "merge" -> "find_item"
                           [] Head(s) = "find_item" -> "enrol"
  BY <1>3, TrackNext
<1>5. Head(s) \in {"find_event", "find_market", "merge", "find_item", "enrol"}
  BY <1>3, TrackParts
<1>6. m \in Commands /\ m.cmd = c.cmd /\ m.phases = Tail(c.phases) /\ m.memo = c.memo
      /\ m.overlap = c.overlap /\ m.end = c.end
  BY <1>1, <1>2, <1>4, Advanced, NowIsATime
<1>7. Head(Tail(s)) # "link"
  BY <1>3, <1>4, <1>5
<1>8. QED
  BY <1>1, <1>2, <1>3, <1>4, <1>6, <1>7

(* The same command with something more to remember.                       *)
LEMMA TrackingRemembers ==
    ASSUME NEW m \in Commands, NEW memo \in TrackMemo, NEW n, n = [m EXCEPT !.memo = memo]
    PROVE  n \in Commands /\ n.cmd = m.cmd /\ n.phases = m.phases /\ n.memo = memo
           /\ n.overlap = m.overlap /\ n.end = m.end
  BY DEF Commands

LEMMA FindEventKeeps == ASSUME Inv, NEW p \in Procs, FindEvent(p) PROVE Inv'
<1> DEFINE c == proc[p]
           k == c.memo
           seen == db.events[k.event]
<1>1. Running(p) /\ Phase(p) = "find_event"
  BY DEF FindEvent, In
<1>2. Tracking(db, c) /\ holder # p
  BY <1>1, WhoTracks
<1>3. PICK m : m = NextPhase(c)
  OBVIOUS
<1>4. m \in Commands /\ m.cmd = "track" /\ m.phases # <<>> /\ m.phases \in TrackPhases(k.ticker) /\ m.memo = k
      /\ m.overlap = c.overlap /\ m.end = "running"
      /\ Head(m.phases) = IF k.ticker \in Markets THEN "find_market" ELSE "merge"
  BY <1>1, <1>2, <1>3, TrackingAdvances
<1>5. PICK memo : memo = [k EXCEPT !.seen_event = seen]
  OBVIOUS
<1>6. k \in TrackMemo /\ k.event = (IF k.ticker \in Markets THEN EventOf[k.ticker] ELSE k.ticker)
      /\ (k.seen_market # Null /\ k.ticker \in Markets => db.markets[k.ticker] # Null)
  BY <1>2 DEF Tracking
<1>7. seen \in EventRow \union {Null}
  <2>1. k.event \in Events /\ db \in Database
    BY <1>6 DEF TrackMemo, Inv, Whole
  <2>2. QED
    BY <2>1, Columns
<1> HIDE DEF seen
<1>8. memo \in TrackMemo /\ memo.ticker = k.ticker /\ memo.event = k.event /\ memo.seen_event = seen
      /\ memo.seen_market = k.seen_market
  BY <1>5, <1>6, <1>7 DEF TrackMemo
<1>9. PICK n : n = [m EXCEPT !.memo = memo]
  OBVIOUS
<1>10. n \in Commands /\ n.cmd = "track" /\ n.phases = m.phases /\ n.memo = memo
       /\ n.overlap = c.overlap /\ n.end = "running"
  BY <1>4, <1>8, <1>9, TrackingRemembers
<1>11. Note(p, n)
  <2>1. Note(p, [m EXCEPT !.memo.seen_event = seen])
    BY <1>3 DEF FindEvent, seen
  <2>2. QED
    BY <1>4, <1>5, <1>9, <2>1
<1>12. Tracking(db, n)
  BY <1>4, <1>6, <1>8, <1>10 DEF Tracking, seen
<1>13. Good(db, n)
  BY <1>4, <1>10, <1>12 DEF Good, AtWork
<1>14. Head(n.phases) # "link"
  BY <1>4, <1>10
<1>15. QED
  BY <1>2, <1>11, <1>13, <1>14, NoteKeeps DEF Note, Inv

LEMMA FindMarketKeeps == ASSUME Inv, NEW p \in Procs, FindMarket(p) PROVE Inv'
<1> DEFINE c == proc[p]
           k == c.memo
           seen == db.markets[k.ticker]
<1>1. Running(p) /\ Phase(p) = "find_market" /\ Phase(p) = Head(c.phases)
  BY DEF FindMarket, In, Phase
<1>2. Tracking(db, c) /\ holder # p
  BY <1>1, WhoTracks
<1>3. PICK m : m = NextPhase(c)
  OBVIOUS
<1>4. m \in Commands /\ m.cmd = "track" /\ m.phases # <<>> /\ m.phases \in TrackPhases(k.ticker) /\ m.memo = k
      /\ m.overlap = c.overlap /\ m.end = "running" /\ Head(m.phases) = "merge"
  BY <1>1, <1>2, <1>3, TrackingAdvances
<1>5. PICK memo : memo = [k EXCEPT !.seen_market = seen]
  OBVIOUS
<1>6. k \in TrackMemo /\ k.event = (IF k.ticker \in Markets THEN EventOf[k.ticker] ELSE k.ticker)
      /\ (k.seen_event # Null => db.events[k.event] # Null)
      /\ (~c.overlap => k.seen_event = db.events[k.event])
  BY <1>1, <1>2 DEF Tracking
<1>7. k.ticker \in Markets
  BY <1>1, <1>2, TrackParts DEF Tracking
<1>8. seen \in MarketRow \union {Null}
  <2>1. db \in Database
    BY DEF Inv, Whole
  <2>2. QED
    BY <1>7, <2>1, Columns
<1> HIDE DEF seen
<1>9. memo \in TrackMemo /\ memo.ticker = k.ticker /\ memo.event = k.event /\ memo.seen_event = k.seen_event
      /\ memo.seen_market = seen
  BY <1>5, <1>6, <1>8 DEF TrackMemo
<1>10. PICK n : n = [m EXCEPT !.memo = memo]
  OBVIOUS
<1>11. n \in Commands /\ n.cmd = "track" /\ n.phases = m.phases /\ n.memo = memo
       /\ n.overlap = c.overlap /\ n.end = "running"
  BY <1>4, <1>9, <1>10, TrackingRemembers
<1>12. Note(p, n)
  <2>1. Note(p, [m EXCEPT !.memo.seen_market = seen])
    BY <1>3 DEF FindMarket, seen
  <2>2. QED
    BY <1>4, <1>5, <1>10, <2>1
<1>13. Tracking(db, n)
  BY <1>4, <1>6, <1>9, <1>11 DEF Tracking, seen
<1>14. Good(db, n)
  BY <1>4, <1>11, <1>13 DEF Good, AtWork
<1>15. Head(n.phases) # "link"
  BY <1>4, <1>11
<1>16. QED
  BY <1>2, <1>12, <1>14, <1>15, NoteKeeps DEF Note, Inv
(* find item: for track and for untrack.                                   *)
LEMMA FindItemKeeps == ASSUME Inv, NEW p \in Procs, FindItem(p) PROVE Inv'
<1> DEFINE c == proc[p]
           k == c.memo
           seen == db.tracked[k.ticker]
<1>1. Running(p) /\ Phase(p) = "find_item" /\ Phase(p) = Head(c.phases)
  BY DEF FindItem, In, Phase
<1>2. Tracking(db, c) \/ Untracking(db, c)
  <2>1. Phase(p) \notin Sweeps /\ Phase(p) \notin PrunedTables \union {"delete"}
    BY <1>1 DEF Sweeps, PrunedTables
  <2>2. QED
    BY <1>1, <2>1, WhoseIsThis
<1>3. c \in Commands /\ c.phases # <<>> /\ c.end = "running"
  BY <1>1, AtWorkNow
<1>4. holder # p
  BY <1>1, <1>2, TheyHoldNoLock DEF Tracking, Untracking
<1>5. k.ticker \in Tickers
  BY <1>2 DEF Tracking, Untracking, TrackMemo, UntrackMemo
<1>6. seen \in Enrolment
  <2>1. db \in Database
    BY DEF Inv, Whole
  <2>2. QED
    BY <1>5, <2>1, Columns
<1>7. PICK m : m = NextPhase(c)
  OBVIOUS
<1>8. Note(p, [m EXCEPT !.memo.seen_item = seen])
  BY <1>7 DEF FindItem
<1>9. PICK memo : memo = [k EXCEPT !.seen_item = seen]
  OBVIOUS
<1>10. PICK n : n = [m EXCEPT !.memo = memo]
  OBVIOUS
<1>11. CASE Tracking(db, c)
  <2>1. m \in Commands /\ m.cmd = "track" /\ m.phases # <<>> /\ m.phases \in TrackPhases(k.ticker) /\ m.memo = k
        /\ m.overlap = c.overlap /\ m.end = "running" /\ Head(m.phases) = "enrol"
    BY <1>1, <1>7, <1>11, TrackingAdvances
  <2>2. k \in TrackMemo /\ k.event = (IF k.ticker \in Markets THEN EventOf[k.ticker] ELSE k.ticker)
        /\ (k.seen_event # Null => db.events[k.event] # Null)
        /\ (k.seen_market # Null /\ k.ticker \in Markets => db.markets[k.ticker] # Null)
        /\ Known(db, k.ticker)
    BY <1>1, <1>11 DEF Tracking
  <2>3. memo \in TrackMemo /\ memo.ticker = k.ticker /\ memo.event = k.event /\ memo.seen_event = k.seen_event
        /\ memo.seen_market = k.seen_market /\ memo.seen_item = seen
    BY <1>6, <1>9, <2>2 DEF TrackMemo
  <2>4. n \in Commands /\ n.cmd = "track" /\ n.phases = m.phases /\ n.memo = memo
        /\ n.overlap = c.overlap /\ n.end = "running"
    BY <1>10, <2>1, <2>3, TrackingRemembers
  <2>5. Note(p, n)
    BY <1>8, <1>9, <1>10, <2>1
  <2>6. Tracking(db, n)
    BY <2>1, <2>2, <2>3, <2>4 DEF Tracking
  <2>7. Good(db, n) /\ Head(n.phases) # "link"
    BY <2>1, <2>4, <2>6 DEF Good, AtWork
  <2>8. QED
    BY <1>4, <2>5, <2>7, NoteKeeps DEF Note, Inv
<1>12. CASE Untracking(db, c)
  <2>1. c.cmd = "untrack" /\ k \in UntrackMemo /\ c.phases \in {<<"find_item", "retire">>, <<"retire">>}
    BY <1>12 DEF Untracking
  <2>2. Tail(c.phases) = <<"retire">>
    BY <1>1, <2>1, UntrackParts
  <2>3. Tail(c.phases) # <<>> /\ Head(Tail(c.phases)) = "retire"
    BY <2>2, One
  <2>4. m \in Commands /\ m.cmd = c.cmd /\ m.phases = Tail(c.phases) /\ m.memo = c.memo
        /\ m.overlap = c.overlap /\ m.end = c.end
    BY <1>3, <1>7, <2>3, Advanced, NowIsATime
  <2>5. memo \in UntrackMemo /\ memo.ticker = k.ticker /\ memo.seen_item = seen
    BY <1>6, <1>9, <2>1 DEF UntrackMemo
  <2>6. n \in Commands /\ n.cmd = m.cmd /\ n.phases = m.phases /\ n.memo = memo /\ n.end = m.end
    BY <1>10, <2>4, <2>5 DEF Commands
  <2>7. Note(p, n)
    BY <1>8, <1>9, <1>10, <2>4
  <2>8. Untracking(db, n)
    BY <2>1, <2>2, <2>3, <2>4, <2>5, <2>6 DEF Untracking
  <2>9. Good(db, n) /\ Head(n.phases) # "link"
    BY <1>3, <2>3, <2>4, <2>6, <2>8 DEF Good, AtWork
  <2>10. QED
    BY <1>4, <2>7, <2>9, NoteKeeps DEF Note, Inv
<1>13. QED
  BY <1>2, <1>11, <1>12

(* merge: the row it writes is a row, and none is lost by it.              *)
LEMMA MergedEvent ==
    ASSUME NEW seen \in EventRow \union {Null}, NEW row \in EventRow \union {Null}, NEW given \in EventRow,
           seen # Null => row # Null
    PROVE  /\ MergeRow(seen, row, given) \in EventRow
           /\ seen = Null => MergeRow(seen, row, given) = given
           /\ seen # Null =>
                 MergeRow(seen, row, given) = [real |-> IF given.real = seen.real THEN row.real ELSE given.real,
                                               cat  |-> IF given.cat = seen.cat THEN row.cat ELSE given.cat]
<1>1. CASE seen = Null
  BY <1>1 DEF MergeRow
<1>2. CASE seen # Null
  <2>1. row.real \in BOOLEAN /\ row.cat \in BOOLEAN /\ given.real \in BOOLEAN /\ given.cat \in BOOLEAN
    BY <1>2 DEF EventRow
  <2>2. DOMAIN given = {"real", "cat"}
    BY DEF EventRow
  <2>3. MergeRow(seen, row, given) =
            [f \in {"real", "cat"} |-> IF given[f] = seen[f] THEN row[f] ELSE given[f]]
    BY <1>2, <2>2 DEF MergeRow
  <2>4. PICK r : r = MergeRow(seen, row, given)
    OBVIOUS
  <2>5. r = [real |-> IF given.real = seen.real THEN row.real ELSE given.real,
             cat  |-> IF given.cat = seen.cat THEN row.cat ELSE given.cat]
    BY <2>3, <2>4
  <2>6. QED
    BY <1>2, <2>1, <2>4, <2>5, RowsMade
<1>3. QED
  BY <1>1, <1>2

LEMMA MergedMarket ==
    ASSUME NEW seen \in MarketRow \union {Null}, NEW row \in MarketRow \union {Null}, NEW given \in MarketRow,
           seen # Null => row # Null
    PROVE  /\ MergeRow(seen, row, given) \in MarketRow
           /\ seen = Null => MergeRow(seen, row, given) = given
           /\ seen # Null =>
                 MergeRow(seen, row, given) =
                     [status |-> IF given.status = seen.status THEN row.status ELSE given.status,
                      cat    |-> IF given.cat = seen.cat THEN row.cat ELSE given.cat]
<1>1. CASE seen = Null
  BY <1>1 DEF MergeRow
<1>2. CASE seen # Null
  <2>1. row.status \in {"open", "settled"} /\ row.cat \in BOOLEAN
        /\ given.status \in {"open", "settled"} /\ given.cat \in BOOLEAN
    BY <1>2 DEF MarketRow
  <2>2. DOMAIN given = {"status", "cat"}
    BY DEF MarketRow
  <2>3. MergeRow(seen, row, given) =
            [f \in {"status", "cat"} |-> IF given[f] = seen[f] THEN row[f] ELSE given[f]]
    BY <1>2, <2>2 DEF MergeRow
  <2>4. PICK r : r = MergeRow(seen, row, given)
    OBVIOUS
  <2>5. r = [status |-> IF given.status = seen.status THEN row.status ELSE given.status,
             cat    |-> IF given.cat = seen.cat THEN row.cat ELSE given.cat]
    BY <2>3, <2>4
  <2>6. QED
    BY <1>2, <2>1, <2>4, <2>5, RowsMade
<1>3. QED
  BY <1>1, <1>2

LEMMA MergedFile ==
    ASSUME NEW d \in Database, ForeignKeysHold(d), NEW k \in TrackMemo,
           k.event = IF k.ticker \in Markets THEN EventOf[k.ticker] ELSE k.ticker,
           k.seen_event # Null => d.events[k.event] # Null,
           k.seen_market # Null /\ k.ticker \in Markets => d.markets[k.ticker] # Null,
           NEW e, e = [d EXCEPT !.events[k.event] = MergeRow(k.seen_event, d.events[k.event], k.given),
                                !.markets = IF k.ticker \in Markets
                                    THEN [@ EXCEPT ![k.ticker] =
                                            MergeRow(k.seen_market, d.markets[k.ticker], k.market)]
                                    ELSE @]
    PROVE  Extends(d, e) /\ Known(e, k.ticker)
<1> DEFINE t == k.ticker
           v == k.event
           er == MergeRow(k.seen_event, d.events[v], k.given)
           mr == MergeRow(k.seen_market, d.markets[t], k.market)
           f == [d.events EXCEPT ![v] = er]
           g == [d.markets EXCEPT ![t] = mr]
           b == [d EXCEPT !.events = f]
<1>1. v \in Events /\ t \in Tickers /\ k.given \in EventRow /\ k.market \in MarketRow
      /\ k.seen_event \in EventRow \union {Null} /\ k.seen_market \in MarketRow \union {Null}
  BY DEF TrackMemo
<1>2. er \in EventRow /\ er # Null
  <2>1. d.events[v] \in EventRow \union {Null}
    BY <1>1, Columns
  <2>2. er \in EventRow
    BY <1>1, <2>1, MergedEvent
  <2>3. QED
    BY <2>2, RowsAreThere
<1>3. e = IF t \in Markets THEN [[d EXCEPT !.events = f] EXCEPT !.markets = g] ELSE [d EXCEPT !.events = f]
  BY DEF Database
<1> HIDE DEF er
<1>4. f \in [Events -> EventRow \union {Null}] /\ f[v] = er /\ \A w \in Events : w # v => f[w] = d.events[w]
  BY <1>1, <1>2, Columns
<1> HIDE DEF f
<1>5. Extends(d, b) /\ b.events = f
  BY <1>2, <1>4, MoreEvents
<1>6. b.markets = d.markets
  BY DEF Database
<1> HIDE DEF b
<1>7. b \in Database /\ ForeignKeysHold(b)
  BY <1>5 DEF Extends
<1>8. CASE t \in Markets
  <2>1. mr \in MarketRow /\ mr # Null
    <3>1. d.markets[t] \in MarketRow \union {Null}
      BY <1>8, Columns
    <3>2. mr \in MarketRow
      BY <1>1, <1>8, <3>1, MergedMarket
    <3>3. QED
      BY <3>2, RowsAreThere
  <2> HIDE DEF mr
  <2>2. g \in [Markets -> MarketRow \union {Null}] /\ g[t] = mr /\ \A w \in Markets : w # t => g[w] = d.markets[w]
    BY <1>8, <2>1, Columns
  <2> HIDE DEF g
  <2>3. \A w \in Markets : g[w] # Null => b.events[EventOf[w]] # Null
    BY <1>2, <1>4, <1>5, <1>6, <1>7, <1>8, <2>2 DEF ForeignKeysHold
  <2>4. \A w \in Markets : b.markets[w] # Null => g[w] # Null
    BY <1>6, <2>1, <2>2
  <2>5. PICK a : a = [b EXCEPT !.markets = g]
    OBVIOUS
  <2>6. Extends(b, a) /\ a.markets = g
    BY <1>7, <2>2, <2>3, <2>4, <2>5, MoreMarkets
  <2>7. e = a
    BY <1>3, <1>8, <2>5 DEF b
  <2>8. Known(e, t)
    BY <1>8, <2>1, <2>2, <2>6, <2>7, RowsAreThere DEF Known
  <2>9. QED
    BY <1>5, <2>6, <2>7, <2>8, ExtendsFurther
<1>9. CASE t \notin Markets
  <2>1. e = b
    BY <1>3, <1>9 DEF b
  <2>2. Known(e, t)
    BY <1>2, <1>4, <1>5, <1>9, <2>1 DEF Known
  <2>3. QED
    BY <1>5, <2>1, <2>2
<1>10. QED
  BY <1>8, <1>9

LEMMA MergeRowsKeeps == ASSUME Inv, NEW p \in Procs, MergeRows(p) PROVE Inv'
<1> DEFINE c == proc[p]
           k == c.memo
           Merged(d) ==
               [d EXCEPT !.events[k.event] = MergeRow(k.seen_event, d.events[k.event], k.given),
                         !.markets = IF k.ticker \in Markets
                             THEN [@ EXCEPT ![k.ticker] = MergeRow(k.seen_market, d.markets[k.ticker], k.market)]
                             ELSE @]
           Changed == k.seen_event # k.given \/ (k.ticker \in Markets /\ k.seen_market # k.market)
           Conflict(d) == \/ MergeConflicts(k.seen_event, d.events[k.event])
                          \/ k.ticker \in Markets /\ MergeConflicts(k.seen_market, d.markets[k.ticker])
<1>1. Running(p) /\ Phase(p) = "merge" /\ Phase(p) = Head(c.phases)
  BY DEF MergeRows, In, Phase
<1>2. Tracking(db, c) /\ holder # p
  BY <1>1, WhoTracks
<1>3. PICK n : n = NextPhase(c)
  OBVIOUS
<1>4. n \in Commands /\ n.cmd = "track" /\ n.phases # <<>> /\ n.phases \in TrackPhases(k.ticker) /\ n.memo = k
      /\ n.overlap = c.overlap /\ n.end = "running" /\ Head(n.phases) = "find_item"
  BY <1>1, <1>2, <1>3, TrackingAdvances
<1>5. /\ k \in TrackMemo /\ k.event = (IF k.ticker \in Markets THEN EventOf[k.ticker] ELSE k.ticker)
      /\ k.seen_event # Null => db.events[k.event] # Null
      /\ k.seen_market # Null /\ k.ticker \in Markets => db.markets[k.ticker] # Null
      /\ ~c.overlap => k.seen_event = db.events[k.event]
      /\ ~c.overlap /\ k.ticker \in Markets => k.seen_market = db.markets[k.ticker]
  BY <1>1, <1>2 DEF Tracking
<1>6. Whole(db) /\ db \in Database /\ ForeignKeysHold(db)
  BY DEF Inv, Whole
<1>7. ASSUME NEW d, Known(d, k.ticker), Grows(db, d) PROVE Good(d, n)
  <2>1. k.event \in Events /\ k.ticker \in Tickers
    BY <1>5 DEF TrackMemo
  <2>2. (k.seen_event # Null => d.events[k.event] # Null)
        /\ (k.seen_market # Null /\ k.ticker \in Markets => d.markets[k.ticker] # Null)
    BY <1>5, <1>7, <2>1 DEF Grows
  <2>3. Tracking(d, n)
    BY <1>4, <1>5, <1>7, <2>2 DEF Tracking
  <2>4. QED
    BY <1>4, <2>3 DEF Good, AtWork
<1>8. \/ ~Changed /\ Note(p, n)
      \/ Changed /\ Conflict(work) /\ LockFree(p) /\ Fail(p, "integrity")
      \/ Changed /\ ~Conflict(work) /\ WriteAndCommit(p, Merged(work), n)
  BY <1>3 DEF MergeRows
<1> HIDE DEF Merged, Conflict
<1>9. CASE ~Changed /\ Note(p, n)
  <2>1. k.seen_event = k.given /\ (k.ticker \in Markets => k.seen_market = k.market)
    BY <1>9
  <2>2. k.given # Null /\ k.market # Null
    BY <1>5, RowsAreThere DEF TrackMemo
  <2>3. k.ticker \in Events => k.ticker \notin Markets
    BY RowsAreThere
  <2>4. Known(db, k.ticker)
    BY <1>5, <2>1, <2>2, <2>3 DEF Known
  <2>5. Good(db, n)
    BY <1>7, <2>4 DEF Grows
  <2>6. QED
    BY <1>2, <1>4, <1>9, <2>5, NoteKeeps DEF Note, Inv
<1>10. CASE Conflict(work) /\ LockFree(p) /\ Fail(p, "integrity")
  <2>1. work = db
    BY <1>2, <1>10, FreeLockSeesTheFile
  <2>2. c.overlap \in BOOLEAN /\ c.cmd = "track"
    BY <1>1, <1>2, AtWorkNow DEF Commands, Tracking
  <2>3. c.overlap
    BY <1>5, <1>10, <2>1, <2>2 DEF Conflict, MergeConflicts
  <2>4. QED
    BY <1>1, <1>10, <2>2, <2>3, FailKeeps
<1>11. CASE WriteAndCommit(p, Merged(work), n)
  <2>1. PICK e : e = Merged(db)
    OBVIOUS
  <2>2. WriteAndCommit(p, e, n)
    BY <1>2, <1>11, <2>1, FreeLockSeesTheFile DEF WriteAndCommit
  <2>3. Extends(db, e) /\ Known(e, k.ticker)
    BY <1>5, <1>6, <2>1, MergedFile DEF Merged
  <2>4. Whole(e) /\ Grows(db, e)
    BY <1>6, <2>3, ExtendedIsWhole
  <2>5. Good(e, n)
    BY <1>7, <2>3, <2>4
  <2>6. QED
    BY <1>4, <2>2, <2>4, <2>5, CommitKeeps
<1>12. QED
  BY <1>8, <1>9, <1>10, <1>11

(* The list of tracked items with one entry rewritten.                     *)
LEMMA ItemsRewritten ==
    ASSUME NEW d, Whole(d), NEW t \in Tickers, NEW v \in {"active", "inactive"}, Known(d, t),
           NEW e, e = [d EXCEPT !.tracked[t] = v]
    PROVE  Whole(e) /\ Grows(d, e)
<1> DEFINE f == [d.tracked EXCEPT ![t] = v]
<1>1. d \in Database
  BY DEF Whole
<1>2. f \in [Tickers -> Enrolment] /\ f[t] = v /\ \A w \in Tickers : w # t => f[w] = d.tracked[w]
  BY <1>1, Columns DEF Enrolment
<1>3. e = [d EXCEPT !.tracked = f]
  BY <1>1 DEF Database
<1> HIDE DEF f
<1>4. e \in Database /\ e.events = d.events /\ e.markets = d.markets /\ e.prices = d.prices
      /\ e.settled = d.settled /\ e.tracked = f /\ e.articles = d.articles
      /\ e.links = d.links /\ e.scores = d.scores
  BY <1>1, <1>2, <1>3 DEF Database, Enrolment
<1>5. ForeignKeysHold(e)
  BY <1>4 DEF Whole, ForeignKeysHold
<1>6. \A w \in Tickers : d.tracked[w] # "no" => e.tracked[w] # "no"
  BY <1>2, <1>4
<1>7. ArticlesLinked(e)
  BY <1>4, <1>6 DEF Whole, ArticlesLinked
<1>8. TrackedKnown(e)
  BY <1>2, <1>4 DEF Whole, TrackedKnown, Known
<1>9. QED
  BY <1>4, <1>5, <1>6, <1>7, <1>8 DEF Whole, Grows

LEMMA EnrolKeeps == ASSUME Inv, NEW p \in Procs, Enrol(p) PROVE Inv'
<1> DEFINE c == proc[p]
           t == c.memo.ticker
<1>1. Running(p) /\ Phase(p) = "enrol" /\ Phase(p) = Head(c.phases)
  BY DEF Enrol, In, Phase
<1>2. Tracking(db, c) /\ holder # p /\ c \in Commands /\ c.phases # <<>>
  BY <1>1, WhoTracks, AtWorkNow
<1>3. Known(db, t) /\ t \in Tickers /\ c.cmd = "track" /\ (~c.overlap => c.memo.seen_item = db.tracked[t])
  BY <1>1, <1>2 DEF Tracking, TrackMemo
<1>4. Tail(c.phases) = <<>>
  BY <1>1, <1>2, TrackParts DEF Tracking
<1>5. PICK n : n = NextPhase(c)
  OBVIOUS
<1>6. \A d : Good(d, n) /\ n.phases = <<>>
  BY <1>2, <1>4, <1>5, Finished
<1>7. LockFree(p)
  BY DEF Enrol, WriteAndCommit
<1>8. work = db
  BY <1>2, <1>7, FreeLockSeesTheFile
<1>9. \/ c.memo.seen_item = "no" /\ work.tracked[t] # "no" /\ Fail(p, "integrity")
      \/ WriteAndCommit(p, [work EXCEPT !.tracked[t] = "active"], n)
  BY <1>5 DEF Enrol
<1>10. CASE c.memo.seen_item = "no" /\ work.tracked[t] # "no" /\ Fail(p, "integrity")
  <2>1. c.overlap
    BY <1>2, <1>3, <1>8, <1>10 DEF Commands
  <2>2. QED
    BY <1>1, <1>3, <1>10, <2>1, FailKeeps
<1>11. CASE WriteAndCommit(p, [work EXCEPT !.tracked[t] = "active"], n)
  <2>1. PICK e : e = [db EXCEPT !.tracked[t] = "active"]
    OBVIOUS
  <2>2. WriteAndCommit(p, e, n)
    BY <1>8, <1>11, <2>1
  <2>3. Whole(e) /\ Grows(db, e)
    BY <1>3, <2>1, ItemsRewritten DEF Inv
  <2>4. QED
    BY <1>6, <2>2, <2>3, CommitKeeps
<1>12. QED
  BY <1>9, <1>10, <1>11

-----------------------------------------------------------------------------
(* untrack.                                                                *)
LEMMA BeginUntrackKeeps == ASSUME Inv, NEW p \in Procs, BeginUntrack(p) PROVE Inv'
<1>1. PICK t \in Watched : Begin(p, Command("untrack", <<"find_item", "retire">>, {}, now,
                                            [ticker |-> t, seen_item |-> "no"]))
  BY DEF BeginUntrack
<1>2. PICK s : s = <<"find_item", "retire">>
  OBVIOUS
<1>3. s \in Seq({"find_item", "retire"}) /\ s # <<>> /\ Head(s) = "find_item"
  BY <1>2
<1>4. s \in Seq(PhaseNames)
  <2>1. {"find_item", "retire"} \subseteq PhaseNames
    BY DEF PhaseNames
  <2>2. QED
    BY <1>3, <2>1, LargerAlphabet
<1>5. PICK memo : memo = [ticker |-> t, seen_item |-> "no"]
  OBVIOUS
<1>6. memo \in UntrackMemo /\ memo \in Memos
  <2>1. t \in Tickers
    BY PipelineAssumption
  <2>2. QED
    BY <1>5, <2>1 DEF UntrackMemo, Enrolment, Memos
<1>7. PICK c : c = Command("untrack", s, {}, now, memo)
  OBVIOUS
<1>8. Begin(p, c)
  BY <1>1, <1>2, <1>5, <1>7
<1>9. c \in Commands /\ c.cmd = "untrack" /\ c.phases = s /\ c.memo = memo /\ c.end = "running"
  <2>1. Todo(Head(s), {}) \subseteq Events \union Markets \union Urls \union ExportTables
    BY TodoBounds
  <2>2. "untrack" \in CommandNames
    BY DEF CommandNames
  <2>3. QED
    BY <1>3, <1>4, <1>6, <1>7, <2>1, <2>2, NowIsATime DEF Command, Commands, Memos
<1>10. Untracking(db, c)
  BY <1>2, <1>3, <1>6, <1>9 DEF Untracking
<1>11. Good(db, c)
  BY <1>3, <1>9, <1>10 DEF Good, AtWork
<1>12. QED
  BY <1>3, <1>8, <1>9, <1>11, BeginKeeps

LEMMA RetireKeeps == ASSUME Inv, NEW p \in Procs, Retire(p) PROVE Inv'
<1> DEFINE c == proc[p]
           t == c.memo.ticker
<1>1. Running(p) /\ Phase(p) = "retire" /\ Phase(p) = Head(c.phases)
  BY DEF Retire, In, Phase
<1>2. Untracking(db, c) /\ c \in Commands /\ c.phases # <<>>
  <2>1. Phase(p) \notin Sweeps /\ Phase(p) \notin PrunedTables \union {"delete"}
    BY <1>1 DEF Sweeps, PrunedTables
  <2>2. QED
    BY <1>1, <2>1, WhoseIsThis, AtWorkNow
<1>3. t \in Tickers /\ c.cmd = "untrack" /\ (c.memo.seen_item # "no" => db.tracked[t] # "no")
  BY <1>1, <1>2 DEF Untracking, UntrackMemo
<1>4. holder # p
  BY <1>1, <1>3, TheyHoldNoLock
<1>5. Tail(c.phases) = <<>>
  BY <1>1, <1>2, UntrackParts DEF Untracking
<1>6. PICK n : n = NextPhase(c)
  OBVIOUS
<1>7. \A d : Good(d, n) /\ n.phases = <<>>
  BY <1>2, <1>5, <1>6, Finished
<1>8. \/ c.memo.seen_item = "active" /\ WriteAndCommit(p, [work EXCEPT !.tracked[t] = "inactive"], n)
      \/ Note(p, n)
  BY <1>6 DEF Retire
<1>9. CASE c.memo.seen_item = "active" /\ WriteAndCommit(p, [work EXCEPT !.tracked[t] = "inactive"], n)
  <2>1. PICK e : e = [db EXCEPT !.tracked[t] = "inactive"]
    OBVIOUS
  <2>2. work = db
    BY <1>4, <1>9, FreeLockSeesTheFile DEF WriteAndCommit
  <2>3. WriteAndCommit(p, e, n)
    BY <1>9, <2>1, <2>2
  <2>4. Known(db, t)
    BY <1>3, <1>9 DEF Inv, Whole, TrackedKnown
  <2>5. Whole(e) /\ Grows(db, e)
    BY <1>3, <2>1, <2>4, ItemsRewritten DEF Inv
  <2>6. QED
    BY <1>7, <2>3, <2>5, CommitKeeps
<1>10. CASE Note(p, n)
  BY <1>4, <1>7, <1>10, NoteKeeps DEF Note, Inv
<1>11. QED
  BY <1>8, <1>9, <1>10
-----------------------------------------------------------------------------
(* collect.                                                                *)
LEMMA OneMore == ASSUME NEW a, NEW b, NEW c PROVE <<a>> \o <<b, c>> = <<a, b, c>>
<1> DEFINE t == <<a>> \o <<b, c>>
<1>1. Len(t) = 3 /\ t[1] = a /\ t[2] = b /\ t[3] = c
  OBVIOUS
<1>2. t \in Seq({a, b, c})
  OBVIOUS
<1> HIDE DEF t
<1>3. t = <<a, b, c>>
  BY <1>1, <1>2
<1>4. QED
  BY <1>3 DEF t

LEMMA CollectPhases ==
    /\ <<"items">> \in Seq(PhaseNames) /\ <<"results", "items">> \in Seq(PhaseNames)
    /\ <<"store", "results", "items">> \in Seq(PhaseNames) /\ <<"link", "results", "items">> \in Seq(PhaseNames)
    /\ <<"store">> \o <<"results", "items">> = <<"store", "results", "items">>
    /\ <<"link">> \o <<"results", "items">> = <<"link", "results", "items">>
<1>1. "items" \in PhaseNames /\ "results" \in PhaseNames /\ "store" \in PhaseNames /\ "link" \in PhaseNames
  BY DEF PhaseNames
<1>2. /\ <<"items">> \in Seq(PhaseNames) /\ <<"results", "items">> \in Seq(PhaseNames)
      /\ <<"store", "results", "items">> \in Seq(PhaseNames) /\ <<"link", "results", "items">> \in Seq(PhaseNames)
  BY <1>1
<1>3. QED
  BY <1>2, OneMore

LEMMA WhoCollects ==
    ASSUME Inv, NEW p \in Procs, Running(p), Phase(p) \in {"items", "results", "store", "link"}
    PROVE  /\ Collecting(db, proc[p]) /\ proc[p].cmd = "collect" /\ proc[p].end = "running"
           /\ proc[p] \in Commands /\ proc[p].phases # <<>>
           /\ Phase(p) # "link" => holder # p
<1>1. Phase(p) \notin Sweeps /\ Phase(p) \notin PrunedTables \union {"delete"}
  BY DEF Sweeps, PrunedTables
<1>2. Collecting(db, proc[p])
  BY <1>1, WhoseIsThis
<1>3. QED
  BY <1>2, TheyHoldNoLock, AtWorkNow DEF Collecting

LEMMA CollectingIsGood ==
    ASSUME NEW d, NEW c \in Commands, c.end = "running", Collecting(d, c)
    PROVE  Good(d, c) /\ c.phases # <<>>
<1>1. c.phases # <<>>
  BY CollectParts DEF Collecting
<1>2. QED
  BY <1>1 DEF Good, AtWork

LEMMA BeginCollectKeeps == ASSUME Inv, NEW p \in Procs, BeginCollect(p) PROVE Inv'
<1>1. PICK items \in {ActiveItems} \union {{t} : t \in ActiveItems} :
        Begin(p, Command("collect", <<"items">>, {}, now, [items |-> items, item |-> Null]))
  BY DEF BeginCollect
<1>2. items \subseteq Tickers /\ \A t \in items : db.tracked[t] # "no"
  BY <1>1 DEF ActiveItems
<1>3. PICK s : s = <<"items">>
  OBVIOUS
<1>4. s \in Seq(PhaseNames) /\ s # <<>> /\ Head(s) = "items"
  BY <1>3, CollectPhases, One
<1>5. PICK memo : memo = [items |-> items, item |-> Null]
  OBVIOUS
<1>6. memo \in CollectMemo /\ memo \in Memos /\ memo.items = items
  BY <1>2, <1>5 DEF CollectMemo, Memos
<1>7. PICK c : c = Command("collect", s, {}, now, memo)
  OBVIOUS
<1>8. Begin(p, c)
  BY <1>1, <1>3, <1>5, <1>7
<1>9. c \in Commands /\ c.cmd = "collect" /\ c.phases = s /\ c.memo = memo /\ c.end = "running"
  <2>1. Todo(Head(s), {}) \subseteq Events \union Markets \union Urls \union ExportTables
    BY TodoBounds
  <2>2. "collect" \in CommandNames
    BY DEF CommandNames
  <2>3. QED
    BY <1>4, <1>6, <1>7, <2>1, <2>2, NowIsATime DEF Command, Commands, Memos
<1>10. Collecting(db, c)
  BY <1>2, <1>3, <1>4, <1>6, <1>9 DEF Collecting
<1>11. QED
  BY <1>4, <1>8, <1>9, <1>10, CollectingIsGood, BeginKeeps

LEMMA QueryKeeps == ASSUME Inv, NEW p \in Procs, Query(p) PROVE Inv'
<1> DEFINE c == proc[p]
<1>1. Running(p) /\ Phase(p) = "items"
  BY DEF Query, In
<1>2. Collecting(db, c) /\ c.cmd = "collect" /\ c.end = "running" /\ c \in Commands /\ holder # p
  BY <1>1, WhoCollects
<1>3. PICK t \in c.memo.items : \E urls \in SUBSET Urls :
        Note(p, [c EXCEPT !.phases = <<"results", "items">>, !.rest = urls,
                          !.memo = [items |-> @.items \ {t}, item |-> t]])
  BY DEF Query
<1>4. PICK urls \in SUBSET Urls :
        Note(p, [c EXCEPT !.phases = <<"results", "items">>, !.rest = urls,
                          !.memo = [items |-> @.items \ {t}, item |-> t]])
  BY <1>3
<1>5. PICK memo : memo = [items |-> c.memo.items \ {t}, item |-> t]
  OBVIOUS
<1>6. c.memo \in CollectMemo /\ \A i \in c.memo.items : db.tracked[i] # "no"
  BY <1>2 DEF Collecting
<1>7. t \in Tickers /\ memo \in CollectMemo /\ memo.items = c.memo.items \ {t} /\ memo.item = t
  BY <1>5, <1>6 DEF CollectMemo
<1>8. PICK s : s = <<"results", "items">>
  OBVIOUS
<1>9. s \in Seq(PhaseNames) /\ Head(s) = "results"
  BY <1>8, CollectPhases, Two
<1>10. PICK n : n = [c EXCEPT !.phases = s, !.rest = urls, !.memo = memo]
  OBVIOUS
<1>11. Note(p, n)
  BY <1>4, <1>5, <1>8, <1>10
<1>12. n \in Commands /\ n.cmd = c.cmd /\ n.phases = s /\ n.rest = urls /\ n.memo = memo /\ n.end = c.end
  BY <1>2, <1>7, <1>9, <1>10 DEF Commands
<1>13. Collecting(db, n)
  BY <1>2, <1>6, <1>7, <1>8, <1>9, <1>12 DEF Collecting
<1>14. Good(db, n) /\ Head(n.phases) # "link"
  BY <1>2, <1>9, <1>12, <1>13, CollectingIsGood
<1>15. QED
  BY <1>2, <1>11, <1>14, NoteKeeps DEF Note, Inv

LEMMA ExhaustedKeeps == ASSUME Inv, NEW p \in Procs, Exhausted(p) PROVE Inv'
<1> DEFINE c == proc[p]
<1>1. Running(p) /\ Phase(p) = "items" /\ Phase(p) = Head(c.phases)
  BY DEF Exhausted, In, Phase
<1>2. Collecting(db, c) /\ c \in Commands /\ holder # p
  BY <1>1, WhoCollects
<1>3. Tail(c.phases) = <<>>
  BY <1>1, <1>2, CollectParts DEF Collecting
<1>4. PICK n : n = NextPhase(c)
  OBVIOUS
<1>5. Good(db, n) /\ n.phases = <<>>
  BY <1>2, <1>3, <1>4, Finished
<1>6. Note(p, n)
  BY <1>4 DEF Exhausted
<1>7. QED
  BY <1>2, <1>5, <1>6, NoteKeeps DEF Note, Inv

LEMMA LookUpKeeps == ASSUME Inv, NEW p \in Procs, LookUp(p) PROVE Inv'
<1> DEFINE c == proc[p]
<1>1. Running(p) /\ Phase(p) = "results" /\ Phase(p) = Head(c.phases)
  BY DEF LookUp, In, Phase
<1>2. Collecting(db, c) /\ c.cmd = "collect" /\ c.end = "running" /\ c \in Commands /\ holder # p
  BY <1>1, WhoCollects
<1>3. c.phases = <<"results", "items">> /\ c.phases # <<"items">>
  BY <1>1, <1>2, CollectParts DEF Collecting
<1>4. c.memo \in CollectMemo /\ (\A i \in c.memo.items : db.tracked[i] # "no")
      /\ c.rest \subseteq Urls /\ c.memo.item \in Tickers /\ db.tracked[c.memo.item] # "no"
  BY <1>2, <1>3 DEF Collecting
<1>5. PICK u \in c.rest : \E text \in BOOLEAN :
        Note(p, IF db.articles[u] # Null
                THEN [c EXCEPT !.rest = @ \ {u}]
                ELSE [c EXCEPT !.rest = @ \ {u}, !.phases = <<"store">> \o @,
                               !.page = [of |-> u, full |-> text, status |-> "open"]])
  BY DEF LookUp
<1>6. PICK text \in BOOLEAN :
        Note(p, IF db.articles[u] # Null
                THEN [c EXCEPT !.rest = @ \ {u}]
                ELSE [c EXCEPT !.rest = @ \ {u}, !.phases = <<"store">> \o @,
                               !.page = [of |-> u, full |-> text, status |-> "open"]])
  BY <1>5
<1>7. CASE db.articles[u] # Null
  <2>1. PICK n : n = [c EXCEPT !.rest = @ \ {u}]
    OBVIOUS
  <2>2. Note(p, n)
    BY <1>6, <1>7, <2>1
  <2>3. n \in Commands /\ n.cmd = c.cmd /\ n.phases = c.phases /\ n.rest = c.rest \ {u}
        /\ n.memo = c.memo /\ n.page = c.page /\ n.end = c.end
    BY <1>2, <2>1 DEF Commands
  <2>4. Collecting(db, n)
    BY <1>2, <1>4, <2>3 DEF Collecting
  <2>5. Good(db, n) /\ Head(n.phases) # "link"
    BY <1>1, <1>2, <2>3, <2>4, CollectingIsGood
  <2>6. QED
    BY <1>2, <2>2, <2>5, NoteKeeps DEF Note, Inv
<1>8. CASE db.articles[u] = Null
  <2>1. PICK page : page = [of |-> u, full |-> text, status |-> "open"]
    OBVIOUS
  <2>2. page \in Page /\ page.of = u /\ u \in Urls
    BY <1>4, <2>1 DEF Page
  <2>3. PICK s : s = <<"store", "results", "items">>
    OBVIOUS
  <2>4. s \in Seq(PhaseNames) /\ Head(s) = "store" /\ s = <<"store">> \o c.phases
    BY <1>3, <2>3, CollectPhases, Three
  <2>5. PICK n : n = [c EXCEPT !.rest = @ \ {u}, !.phases = s, !.page = page]
    OBVIOUS
  <2>6. Note(p, n)
    BY <1>6, <1>8, <2>1, <2>4, <2>5
  <2>7. n \in Commands /\ n.cmd = c.cmd /\ n.phases = s /\ n.rest = c.rest \ {u}
        /\ n.memo = c.memo /\ n.page = page /\ n.end = c.end
    BY <1>2, <2>2, <2>4, <2>5 DEF Commands
  <2>8. Collecting(db, n)
    BY <1>2, <1>4, <2>2, <2>3, <2>4, <2>7 DEF Collecting
  <2>9. Good(db, n) /\ Head(n.phases) # "link"
    BY <1>2, <2>4, <2>7, <2>8, CollectingIsGood
  <2>10. QED
    BY <1>2, <2>6, <2>9, NoteKeeps DEF Note, Inv
<1>9. QED
  BY <1>7, <1>8

(* The article just added keeps every foreign key.                         *)
OneMoreArticle(d, u, t, w) ==
    /\ w \in Database /\ ForeignKeysHold(w)
    /\ w.events = d.events /\ w.markets = d.markets /\ w.prices = d.prices
    /\ w.settled = d.settled /\ w.tracked = d.tracked /\ w.links = d.links /\ w.scores = d.scores
    /\ w.articles[u] = t /\ \A x \in Urls : x # u => w.articles[x] = d.articles[x]

LEMMA ArticleAdded ==
    ASSUME NEW d, Whole(d), NEW u \in Urls, NEW t \in Times, NEW w, w = [d EXCEPT !.articles[u] = t]
    PROVE  OneMoreArticle(d, u, t, w) /\ ForeignKeysHold(w)
<1> DEFINE f == [d.articles EXCEPT ![u] = t]
<1>1. d \in Database
  BY DEF Whole
<1>2. f \in [Urls -> Times \union {Null}] /\ f[u] = t /\ \A x \in Urls : x # u => f[x] = d.articles[x]
  BY <1>1, Columns
<1>3. w = [d EXCEPT !.articles = f]
  BY <1>1 DEF Database
<1> HIDE DEF f
<1>4. w \in Database /\ w.events = d.events /\ w.markets = d.markets /\ w.prices = d.prices
      /\ w.settled = d.settled /\ w.tracked = d.tracked /\ w.links = d.links /\ w.scores = d.scores
      /\ w.articles = f
  BY <1>1, <1>2, <1>3 DEF Database
<1>5. \A x \in Urls : d.articles[x] # Null => w.articles[x] # Null
  BY <1>2, <1>4, RowsAreThere
<1>6. /\ \A l \in d.links : l[1] \in Urls
      /\ \A x \in d.scores : x \in Urls
  BY <1>1, Columns
<1>7. ForeignKeysHold(w)
  BY <1>4, <1>5, <1>6 DEF Whole, ForeignKeysHold
<1>8. QED
  BY <1>2, <1>4, <1>7 DEF OneMoreArticle

LEMMA StoreKeeps == ASSUME Inv, NEW p \in Procs, Store(p) PROVE Inv'
<1> DEFINE c == proc[p]
           u == c.page.of
<1>1. Running(p) /\ Phase(p) = "store" /\ Phase(p) = Head(c.phases) /\ LockFree(p)
  BY DEF Store, In, Phase
<1>2. Collecting(db, c) /\ c.cmd = "collect" /\ c.end = "running" /\ c \in Commands /\ holder # p
  BY <1>1, WhoCollects
<1>3. Tail(c.phases) = <<"results", "items">> /\ c.phases # <<"items">>
  BY <1>1, <1>2, CollectParts DEF Collecting
<1>4. c.memo \in CollectMemo /\ (\A i \in c.memo.items : db.tracked[i] # "no")
      /\ c.rest \subseteq Urls /\ c.memo.item \in Tickers /\ db.tracked[c.memo.item] # "no"
      /\ c.page \in Page /\ u \in Urls
  BY <1>1, <1>2, <1>3 DEF Collecting
<1>5. work = db /\ Whole(db)
  BY <1>1, <1>2, FreeLockSeesTheFile DEF Inv
<1>6. CASE work.articles[u] # Null
  <2>1. PICK s : s = <<"results", "items">>
    OBVIOUS
  <2>2. s \in Seq(PhaseNames) /\ Head(s) = "results"
    BY <2>1, CollectPhases, Two
  <2>3. PICK n : n = [c EXCEPT !.phases = s, !.page = Null]
    OBVIOUS
  <2>4. Note(p, n)
    BY <1>3, <1>6, <2>1, <2>3 DEF Store
  <2>5. n \in Commands /\ n.cmd = c.cmd /\ n.phases = s /\ n.rest = c.rest /\ n.memo = c.memo /\ n.end = c.end
    BY <1>2, <2>2, <2>3 DEF Commands
  <2>6. Collecting(db, n)
    BY <1>2, <1>4, <2>1, <2>2, <2>5 DEF Collecting
  <2>7. Good(db, n) /\ Head(n.phases) # "link"
    BY <1>2, <2>2, <2>5, <2>6, CollectingIsGood
  <2>8. QED
    BY <1>2, <2>4, <2>7, NoteKeeps DEF Note, Inv
<1>7. CASE work.articles[u] = Null
  <2>1. PICK s : s = <<"link", "results", "items">>
    OBVIOUS
  <2>2. s \in Seq(PhaseNames) /\ Head(s) = "link" /\ s = <<"link">> \o Tail(c.phases)
    BY <1>3, <2>1, CollectPhases, Three
  <2>3. PICK n : n = [c EXCEPT !.phases = s]
    OBVIOUS
  <2>4. PICK w : w = [db EXCEPT !.articles[u] = now]
    OBVIOUS
  <2>5. Write(p, w, n)
    BY <1>5, <1>7, <2>2, <2>3, <2>4 DEF Store
  <2>6. n \in Commands /\ n.cmd = c.cmd /\ n.phases = s /\ n.rest = c.rest /\ n.memo = c.memo
        /\ n.page = c.page /\ n.end = c.end
    BY <1>2, <2>2, <2>3 DEF Commands
  <2>7. Collecting(db, n)
    BY <1>2, <1>4, <2>1, <2>2, <2>6 DEF Collecting
  <2>8. Good(db, n) /\ n.phases # <<>>
    BY <1>2, <2>6, <2>7, CollectingIsGood
  <2>9. ForeignKeysHold(w)
    BY <1>4, <1>5, <2>4, NowIsATime, ArticleAdded
  <2>10. WorkOf(n, db, w)
    BY <2>2, <2>4, <2>6, <2>7, NowIsATime DEF WorkOf
  <2>11. QED
    BY <2>5, <2>8, <2>9, <2>10, WriteKeeps
<1>8. QED
  BY <1>6, <1>7

(* The article with its link, and its score.                               *)
LEMMA ArticleLinked ==
    ASSUME NEW d, Whole(d), NEW u \in Urls, NEW t \in Times, NEW item \in Tickers, d.tracked[item] # "no",
           NEW text \in BOOLEAN,
           NEW w, w = [d EXCEPT !.articles[u] = t],
           NEW e, e = Linked(w, u, item, text)
    PROVE  Whole(e) /\ Grows(d, e)
<1> DEFINE li == w.links \union {<<u, item>>}
           sc == IF text THEN w.scores \union {u} ELSE w.scores
<1>1. /\ ForeignKeysHold(w) /\ w.events = d.events /\ w.markets = d.markets /\ w.prices = d.prices
      /\ w.settled = d.settled /\ w.tracked = d.tracked /\ w.links = d.links /\ w.scores = d.scores
      /\ w.articles[u] = t /\ \A x \in Urls : x # u => w.articles[x] = d.articles[x]
      /\ w \in Database
  <2>1. OneMoreArticle(d, u, t, w)
    BY ArticleAdded
  <2>2. QED
    BY <2>1 DEF OneMoreArticle
<1>2. e = [w EXCEPT !.links = li, !.scores = sc]
  BY DEF Linked
<1>3. li \subseteq Urls \X Tickers /\ sc \subseteq Urls
  <2>1. w.links \subseteq Urls \X Tickers /\ w.scores \subseteq Urls
    BY <1>1, Columns
  <2>2. QED
    BY <2>1
<1>4. \A l \in li : l \in w.links \/ l = <<u, item>>
  OBVIOUS
<1>5. \A x \in sc : x \in w.scores \/ x = u
  OBVIOUS
<1>6. w.links \subseteq li /\ <<u, item>> \in li
  OBVIOUS
<1> HIDE DEF li, sc
<1>7. e \in Database /\ e.events = w.events /\ e.markets = w.markets /\ e.prices = w.prices
      /\ e.settled = w.settled /\ e.tracked = w.tracked /\ e.articles = w.articles
      /\ e.links = li /\ e.scores = sc
  <2>1. PICK v : v = [w EXCEPT !.links = li]
    OBVIOUS
  <2>2. v \in Database /\ v.events = w.events /\ v.markets = w.markets /\ v.prices = w.prices
        /\ v.settled = w.settled /\ v.tracked = w.tracked /\ v.articles = w.articles
        /\ v.links = li /\ v.scores = w.scores
    BY <1>1, <1>3, <2>1 DEF Database
  <2>3. e = [v EXCEPT !.scores = sc]
    BY <1>2, <2>1
  <2>4. QED
    BY <1>3, <2>2, <2>3 DEF Database
<1>8. Known(d, item)
  BY DEF Whole, TrackedKnown
<1>9. w.articles[u] # Null
  BY <1>1, RowsAreThere
<1>10. ASSUME NEW l \in li
       PROVE  /\ w.articles[l[1]] # Null
              /\ l[2] \in Markets => w.markets[l[2]] # Null
              /\ l[2] \in Events => w.events[l[2]] # Null
  <2>1. CASE l \in w.links
    BY <1>1, <2>1 DEF ForeignKeysHold
  <2>2. CASE l = <<u, item>>
    <3>1. l[1] = u /\ l[2] = item
      BY <2>2
    <3>2. QED
      BY <1>1, <1>8, <1>9, <3>1 DEF Known
  <2>3. QED
    BY <1>4, <2>1, <2>2
<1>11. \A x \in sc : w.articles[x] # Null
  BY <1>1, <1>5, <1>9 DEF ForeignKeysHold
<1>12. ForeignKeysHold(e)
  <2>1. /\ \A m \in Markets : w.markets[m] # Null => w.events[EventOf[m]] # Null
        /\ \A r \in w.prices : w.markets[r[1]] # Null
        /\ \A m \in w.settled : w.markets[m] # Null
    BY <1>1 DEF ForeignKeysHold
  <2>2. QED
    BY <1>7, <1>10, <1>11, <2>1, ZenonT(60) DEF ForeignKeysHold
<1>13. ASSUME NEW x \in Urls, e.articles[x] # Null
       PROVE  \E i \in Tickers : <<x, i>> \in e.links /\ e.tracked[i] # "no"
  <2>1. CASE x = u
    BY <1>1, <1>6, <1>7, <2>1
  <2>2. CASE x # u
    <3>1. d.articles[x] # Null
      BY <1>1, <1>7, <1>13, <2>2
    <3>2. PICK i \in Tickers : <<x, i>> \in d.links /\ d.tracked[i] # "no"
      BY <3>1 DEF Whole, ArticlesLinked
    <3>3. QED
      BY <1>1, <1>6, <1>7, <3>2
  <2>3. QED
    BY <2>1, <2>2
<1>14. ArticlesLinked(e)
  BY <1>13 DEF ArticlesLinked
<1>15. TrackedKnown(e) /\ Grows(d, e)
  BY <1>1, <1>7 DEF Whole, TrackedKnown, Known, Grows
<1>16. QED
  BY <1>7, <1>12, <1>14, <1>15 DEF Whole

LEMMA LinkKeeps == ASSUME Inv, NEW p \in Procs, Link(p) PROVE Inv'
<1> DEFINE c == proc[p]
           u == c.page.of
<1>1. Running(p) /\ Phase(p) = "link" /\ Phase(p) = Head(c.phases) /\ In(p, "link")
  BY DEF Link, In, Phase
<1>2. Collecting(db, c) /\ c.cmd = "collect" /\ c.end = "running" /\ c \in Commands
  BY <1>1, WhoCollects
<1>3. Tail(c.phases) = <<"results", "items">> /\ c.phases # <<"items">>
  BY <1>1, <1>2, CollectParts DEF Collecting
<1>4. c.memo \in CollectMemo /\ (\A i \in c.memo.items : db.tracked[i] # "no")
      /\ c.rest \subseteq Urls /\ c.memo.item \in Tickers /\ db.tracked[c.memo.item] # "no"
      /\ c.page \in Page /\ u \in Urls
  BY <1>1, <1>2, <1>3 DEF Collecting
<1>5. holder = p
  BY <1>1 DEF Inv, LockSound
<1>6. PICK t \in Times : work = [db EXCEPT !.articles[u] = t]
  <2>1. Phase(p) \notin Sweeps /\ ~Sweeping(c)
    BY <1>1, <1>2 DEF Sweeping, Sweeps
  <2>2. QED
    BY <1>5, <2>1, WhoHoldsTheLock
<1>7. c.page.full \in BOOLEAN
  BY <1>4 DEF Page
<1>8. PICK e : e = Linked(work, u, c.memo.item, c.page.full)
  OBVIOUS
<1>9. PICK s : s = <<"results", "items">>
  OBVIOUS
<1>10. s \in Seq(PhaseNames) /\ Head(s) = "results"
  BY <1>9, CollectPhases, Two
<1>11. PICK n : n = [c EXCEPT !.phases = s, !.page = Null]
  OBVIOUS
<1>12. WriteAndCommit(p, e, n)
  BY <1>3, <1>8, <1>9, <1>11 DEF Link
<1>13. Whole(db)
  BY DEF Inv
<1>14. Whole(e) /\ Grows(db, e)
  BY <1>4, <1>6, <1>7, <1>8, <1>13, ArticleLinked
<1>15. n \in Commands /\ n.cmd = c.cmd /\ n.phases = s /\ n.rest = c.rest /\ n.memo = c.memo /\ n.end = c.end
  BY <1>2, <1>10, <1>11 DEF Commands
<1>16. \A i \in Tickers : db.tracked[i] # "no" => e.tracked[i] # "no"
  BY <1>14 DEF Grows
<1>17. Collecting(e, n)
  <2>1. c.memo.items \subseteq Tickers
    BY <1>4 DEF CollectMemo
  <2>2. QED
    BY <1>2, <1>4, <1>9, <1>10, <1>15, <1>16, <2>1 DEF Collecting
<1>18. Good(e, n) /\ Head(n.phases) # "link"
  BY <1>2, <1>10, <1>15, <1>17, CollectingIsGood
<1>19. QED
  BY <1>12, <1>14, <1>18, CommitKeeps

LEMMA ItemDoneKeeps == ASSUME Inv, NEW p \in Procs, ItemDone(p) PROVE Inv'
<1> DEFINE c == proc[p]
<1>1. Running(p) /\ Phase(p) = "results" /\ Phase(p) = Head(c.phases)
  BY DEF ItemDone, In, Phase
<1>2. Collecting(db, c) /\ c.cmd = "collect" /\ c.end = "running" /\ c \in Commands /\ c.phases # <<>> /\ holder # p
  BY <1>1, WhoCollects
<1>3. Tail(c.phases) = <<"items">>
  BY <1>1, <1>2, CollectParts DEF Collecting
<1>4. c.memo \in CollectMemo /\ \A i \in c.memo.items : db.tracked[i] # "no"
  BY <1>2 DEF Collecting
<1>5. Note(p, Ended(c, "ok")) \/ Note(p, NextPhase(c))
  BY DEF ItemDone
<1>6. CASE Note(p, Ended(c, "ok"))
  <2>1. Good(db, Ended(c, "ok")) /\ Ended(c, "ok").phases = <<>>
    BY <1>2, EndedIsGood
  <2>2. QED
    BY <1>2, <1>6, <2>1, NoteKeeps DEF Note, Inv
<1>7. CASE Note(p, NextPhase(c))
  <2>1. Tail(c.phases) # <<>> /\ Head(Tail(c.phases)) = "items"
    BY <1>3, One
  <2>2. PICK n : n = NextPhase(c)
    OBVIOUS
  <2>3. n \in Commands /\ n.cmd = c.cmd /\ n.phases = Tail(c.phases) /\ n.memo = c.memo /\ n.end = c.end
    BY <1>2, <2>1, <2>2, Advanced, NowIsATime
  <2>4. Collecting(db, n)
    BY <1>2, <1>3, <1>4, <2>1, <2>3 DEF Collecting
  <2>5. Good(db, n) /\ Head(n.phases) # "link"
    BY <1>2, <2>1, <2>3, <2>4, CollectingIsGood
  <2>6. QED
    BY <1>2, <1>7, <2>2, <2>5, NoteKeeps DEF Note, Inv
<1>8. QED
  BY <1>5, <1>6, <1>7
-----------------------------------------------------------------------------
LEMMA SettleKeeps == ASSUME Inv, NEW m \in Markets, Settle(m) PROVE Inv'
<1>1. listing' \in [Markets -> {"open", "settled"}]
  BY DEF Settle, Inv
<1>2. UNCHANGED <<now, db, work, holder, proc, started>>
  BY DEF Settle
<1>3. LockSound'
  BY <1>2 DEF Inv, LockSound, Running, In, Phase
<1>4. QED
  BY <1>1, <1>2, <1>3 DEF Inv

LEMMA TickKeeps == ASSUME Inv, Tick PROVE Inv'
<1>1. now' \in Times
  BY TablesAssumption DEF Tick, Inv, Times
<1>2. UNCHANGED <<listing, db, work, holder, proc, started>>
  BY DEF Tick
<1>3. LockSound'
  BY <1>2 DEF Inv, LockSound, Running, In, Phase
<1>4. QED
  BY <1>1, <1>2, <1>3 DEF Inv

LEMMA StutterKeeps == ASSUME Inv, UNCHANGED pipeline PROVE Inv'
<1>1. UNCHANGED <<listing, now, db, work, holder, proc, started>>
  BY DEF pipeline
<1>2. LockSound'
  BY <1>1 DEF Inv, LockSound, Running, In, Phase
<1>3. QED
  BY <1>1, <1>2 DEF Inv

LEMMA InitIsSound == ASSUME PipelineInit PROVE Inv
<1>1. Whole(db)
  BY PipelineAssumption DEF PipelineInit
<1>2. \A p \in Procs : proc[p] = Idle
  BY DEF PipelineInit
<1>3. Idle \in Commands /\ Idle.phases = <<>> /\ Idle.end = "ok"
  BY IdleIsCommand DEF Idle
<1>4. proc \in [Procs -> Commands]
  BY <1>3 DEF PipelineInit
<1>5. \A p \in Procs : Good(db, proc[p])
  BY <1>2, <1>3 DEF Good
<1>6. LockSound
  BY <1>2, <1>3 DEF PipelineInit, LockSound, In, Running
<1>7. listing \in [Markets -> {"open", "settled"}] /\ now \in Times /\ started \in 0..MaxCommands
  BY TablesAssumption, PipelineAssumption DEF PipelineInit, Times
<1>8. QED
  BY <1>1, <1>4, <1>5, <1>6, <1>7 DEF Inv

LEMMA PipelineStepKeeps == ASSUME Inv, PipelineNext PROVE Inv'
<1>1. CASE \E m \in Markets : Settle(m)
  BY <1>1, SettleKeeps
<1>2. CASE Tick
  BY <1>2, TickKeeps
<1>3. ASSUME NEW p \in Procs,
             \/ BeginSyncMarkets(p) \/ BeginSyncSettlements(p)
             \/ BeginSnapshot(p) \/ BeginFullSync(p)
      PROVE  Inv'
  BY <1>3, SweepBeginnings
<1>4. ASSUME NEW p \in Procs, BeginPrune(p) \/ CountRows(p) \/ Prune(p) PROVE Inv'
  BY <1>4, BeginPruneKeeps, CountRowsKeeps, PruneKeeps
<1>5. ASSUME NEW p \in Procs, BeginExport(p) \/ ExportTable(p) PROVE Inv'
  BY <1>5, BeginExportKeeps, ExportTableKeeps
<1>6. ASSUME NEW p \in Procs, Fetch(p) \/ Apply(p) \/ EndSweep(p) \/ Abort(p) PROVE Inv'
  BY <1>6, FetchKeeps, ApplyKeeps, EndSweepKeeps, AbortKeeps
<1>7. QED
  BY <1>1, <1>2, <1>3, <1>4, <1>5, <1>6 DEF PipelineNext

LEMMA StepKeeps == ASSUME Inv, [Next]_pipeline PROVE Inv'
<1>1. CASE PipelineNext
  BY <1>1, PipelineStepKeeps
<1>2. CASE UNCHANGED pipeline
  BY <1>2, StutterKeeps
<1>3. ASSUME NEW p \in Procs,
             \/ BeginTrack(p) \/ FindEvent(p) \/ FindMarket(p) \/ MergeRows(p) \/ FindItem(p) \/ Enrol(p)
      PROVE  Inv'
  BY <1>3, BeginTrackKeeps, FindEventKeeps, FindMarketKeeps, MergeRowsKeeps, FindItemKeeps, EnrolKeeps
<1>4. ASSUME NEW p \in Procs, BeginUntrack(p) \/ Retire(p) PROVE Inv'
  BY <1>4, BeginUntrackKeeps, RetireKeeps
<1>5. ASSUME NEW p \in Procs,
             \/ BeginCollect(p) \/ Query(p) \/ Exhausted(p) \/ LookUp(p) \/ Store(p) \/ Link(p)
             \/ ItemDone(p)
      PROVE  Inv'
  BY <1>5, BeginCollectKeeps, QueryKeeps, ExhaustedKeeps, LookUpKeeps, StoreKeeps, LinkKeeps, ItemDoneKeeps
<1>6. QED
  BY <1>1, <1>2, <1>3, <1>4, <1>5 DEF Next

(* What the holder of the lock is writing keeps every foreign key too.     *)
LEMMA WorkFits == ASSUME Inv PROVE work \in Database /\ ForeignKeysHold(work)
<1>1. CASE holder = Null
  BY <1>1 DEF Inv, LockSound, Whole
<1>2. CASE holder # Null
  <2>1. PICK p \in Procs : holder = p
    BY <1>2 DEF Inv, LockSound
  <2>2. CASE Sweeping(proc[p]) /\ Extends(db, work)
    BY <2>2 DEF Extends
  <2>3. CASE Collecting(db, proc[p]) /\ Phase(p) = "link"
             /\ \E t \in Times : work = [db EXCEPT !.articles[proc[p].page.of] = t]
    <3>1. PICK t \in Times : work = [db EXCEPT !.articles[proc[p].page.of] = t]
      BY <2>3
    <3>2. proc[p].page.of \in Urls
      BY <2>3 DEF Collecting, Phase
    <3>3. OneMoreArticle(db, proc[p].page.of, t, work)
      BY <3>1, <3>2, ArticleAdded DEF Inv
    <3>4. QED
      BY <3>3 DEF OneMoreArticle
  <2>4. QED
    BY <2>1, <2>2, <2>3, WhoHoldsTheLock
<1>3. QED
  BY <1>1, <1>2

LEMMA SoundImpliesProperties == ASSUME Inv PROVE NewsWhole /\ IntegrityErrorsNeedOverlap
<1>1. work \in Database /\ ForeignKeysHold(work)
  BY WorkFits
<1>2. \A p \in Procs : proc[p].end = "running" <=> Running(p)
  BY DEF Inv, Good, Running
<1>3. TypeOK
  BY <1>1, <1>2 DEF Inv, LockSound, Whole, TypeOK
<1>4. NewsWhole
  BY <1>1, <1>3 DEF NewsWhole, Inv, Whole
<1>5. IntegrityErrorsNeedOverlap
  BY DEF Inv, Good, IntegrityErrorsNeedOverlap
<1>6. QED
  BY <1>4, <1>5

-----------------------------------------------------------------------------
LEMMA StaysSound == Spec => []Inv
<1>1. PipelineInit => Inv
  BY InitIsSound
<1>2. Inv /\ [Next]_pipeline => Inv'
  BY StepKeeps
<1>3. QED
  BY <1>1, <1>2, PTL DEF Spec

(* No command of the news desk or of the data pipeline leaves an orphan,    *)
(* however their statements interleave and wherever they die: every row a   *)
(* foreign key of models.py points to is there, committed or not, and every *)
(* stored article can be found from an item somebody tracked.               *)
THEOREM NoOrphans == Spec => []NewsWhole
<1>1. Inv => NewsWhole
  BY SoundImpliesProperties
<1>2. QED
  BY <1>1, StaysSound, PTL

(* Only track, whose look-ups precede its lock, and prune, whose counts do, *)
(* ever meet an integrity error, and only if somebody committed meanwhile.  *)
THEOREM AloneNothingIsRefused == Spec => []IntegrityErrorsNeedOverlap
<1>1. Inv => IntegrityErrorsNeedOverlap
  BY SoundImpliesProperties
<1>2. QED
  BY <1>1, StaysSound, PTL

-----------------------------------------------------------------------------
(* Who acts in a step, and what it means to the others.                    *)
Begins(p) ==
    \/ BeginSyncMarkets(p) \/ BeginSyncSettlements(p) \/ BeginSnapshot(p) \/ BeginFullSync(p)
    \/ BeginPrune(p) \/ BeginExport(p) \/ BeginTrack(p) \/ BeginUntrack(p) \/ BeginCollect(p)

Commits(p) == EndSweep(p) \/ Prune(p) \/ MergeRows(p) \/ Enrol(p) \/ Retire(p) \/ Link(p)

Reads(p) ==
    \/ Fetch(p) \/ CountRows(p) \/ ExportTable(p) \/ FindEvent(p) \/ FindMarket(p) \/ FindItem(p)
    \/ Query(p) \/ Exhausted(p) \/ LookUp(p) \/ ItemDone(p)

Acts(p) == Begins(p) \/ Reads(p) \/ Apply(p) \/ Store(p) \/ Abort(p) \/ Commits(p)

LEMMA WhoActs ==
    ASSUME [Next]_pipeline
    PROVE  \/ \E m \in Markets : Settle(m)
           \/ Tick
           \/ UNCHANGED pipeline
           \/ \E p \in Procs : Acts(p)
  BY DEF Next, PipelineNext, Acts, Begins, Reads, Commits

(* Its own record changes, and the file does not.                          *)
Privately(p) == db' = db /\ \E c : proc' = [proc EXCEPT ![p] = c]

LEMMA PrivateSteps ==
    ASSUME NEW p \in Procs
    PROVE  /\ \A c : Begin(p, c) => Privately(p)
           /\ \A c : Note(p, c) => Privately(p)
           /\ \A why : Fail(p, why) => Privately(p)
           /\ \A d, c : Write(p, d, c) => Privately(p)
<1>1. \A c : Begin(p, c) => Privately(p)
  BY DEF Begin, Privately
<1>2. \A c : Note(p, c) => Privately(p)
  BY DEF Note, Privately
<1>3. \A why : Fail(p, why) => Privately(p)
  <2> SUFFICES ASSUME NEW why, Fail(p, why) PROVE Privately(p)
    OBVIOUS
  <2>1. PICK c : c = Ended(proc[p], why)
    OBVIOUS
  <2>2. proc' = [proc EXCEPT ![p] = c] /\ db' = db
    BY <2>1 DEF Fail
  <2>3. QED
    BY <2>2 DEF Privately
<1>4. \A d, c : Write(p, d, c) => Privately(p)
  BY <1>3 DEF Write, Privately
<1>5. QED
  BY <1>1, <1>2, <1>3, <1>4

(* Nobody else notices, unless the file changed.                           *)
StandBy(p) ==
    \A q \in Procs : q # p =>
        /\ proc'[q].cmd = proc[q].cmd /\ proc'[q].phases = proc[q].phases /\ proc'[q].rest = proc[q].rest
        /\ proc'[q].page = proc[q].page /\ proc'[q].opt = proc[q].opt /\ proc'[q].at = proc[q].at
        /\ proc'[q].memo = proc[q].memo /\ proc'[q].end = proc[q].end
        /\ Running(q) /\ ~proc'[q].overlap => db' = db /\ ~proc[q].overlap

LEMMA TheOthersStandBy ==
    ASSUME Inv, NEW p \in Procs
    PROVE  /\ Privately(p) => StandBy(p)
           /\ \A d, c : WriteAndCommit(p, d, c) => StandBy(p)
<1>1. \A q \in Procs : proc[q] \in Commands
  BY DEF Inv
<1>2. ASSUME Privately(p) PROVE StandBy(p)
  <2>1. PICK c : proc' = [proc EXCEPT ![p] = c]
    BY <1>2 DEF Privately
  <2>2. \A q \in Procs : q # p => proc'[q] = proc[q]
    BY <2>1 DEF Inv
  <2>3. QED
    BY <1>2, <2>2 DEF StandBy, Privately
<1>3. ASSUME NEW d, NEW c, WriteAndCommit(p, d, c) PROVE StandBy(p)
  <2>1. CASE ForeignKeysHold(d)
    <3>1. db' = d
      BY <1>3, <2>1 DEF WriteAndCommit
    <3>2. ASSUME NEW q \in Procs, q # p
          PROVE  /\ proc'[q].cmd = proc[q].cmd /\ proc'[q].phases = proc[q].phases
                 /\ proc'[q].rest = proc[q].rest
                 /\ proc'[q].page = proc[q].page /\ proc'[q].opt = proc[q].opt /\ proc'[q].at = proc[q].at
                 /\ proc'[q].memo = proc[q].memo /\ proc'[q].end = proc[q].end
                 /\ proc'[q].overlap = (proc[q].overlap \/ (Running(q) /\ d # db))
      <4>1. PICK b : b = (Running(q) /\ d # db)
        OBVIOUS
      <4>2. proc'[q] = [proc[q] EXCEPT !.overlap = @ \/ b]
        BY <1>3, <2>1, <3>2, <4>1 DEF WriteAndCommit
      <4>3. QED
        BY <1>1, <4>1, <4>2 DEF Commands
    <3>3. QED
      BY <3>1, <3>2 DEF StandBy
  <2>2. CASE ~ForeignKeysHold(d)
    <3>1. Privately(p)
      BY <1>3, <2>2, PrivateSteps DEF WriteAndCommit
    <3>2. QED
      BY <1>2, <3>1
  <2>3. QED
    BY <2>1, <2>2
<1>4. QED
  BY <1>2, <1>3

LEMMA BeginningsArePrivate == ASSUME NEW p \in Procs, Begins(p) PROVE Privately(p) /\ ~Running(p)
<1>1. \E c : Begin(p, c)
  <2>1. CASE BeginSyncMarkets(p) \/ BeginSyncSettlements(p) \/ BeginSnapshot(p)
    BY <2>1 DEF BeginSyncMarkets, BeginSyncSettlements, BeginSnapshot
  <2>2. CASE BeginFullSync(p) \/ BeginPrune(p) \/ BeginExport(p)
    BY <2>2 DEF BeginFullSync, BeginPrune, BeginExport
  <2>3. CASE BeginTrack(p) \/ BeginUntrack(p) \/ BeginCollect(p)
    BY <2>3 DEF BeginTrack, BeginUntrack, BeginCollect
  <2>4. QED
    BY <2>1, <2>2, <2>3 DEF Begins
<1>2. QED
  BY <1>1, PrivateSteps DEF Begin

LEMMA ReadingIsPrivate ==
    ASSUME NEW p \in Procs, Reads(p) \/ Apply(p) \/ Store(p) \/ Abort(p)
    PROVE  Privately(p)
<1>1. CASE Fetch(p)
  BY <1>1, PrivateSteps DEF Fetch
<1>2. CASE CountRows(p) \/ FindEvent(p) \/ FindMarket(p) \/ FindItem(p)
  BY <1>2, PrivateSteps DEF CountRows, FindEvent, FindMarket, FindItem
<1>3. CASE ExportTable(p)
  BY <1>3 DEF ExportTable, Privately
<1>4. CASE Query(p) \/ Exhausted(p) \/ LookUp(p) \/ ItemDone(p)
  BY <1>4, PrivateSteps DEF Query, Exhausted, LookUp, ItemDone
<1>5. CASE Apply(p)
  BY <1>5, PrivateSteps DEF Apply
<1>6. CASE Store(p)
  BY <1>6, PrivateSteps DEF Store
<1>7. CASE Abort(p)
  BY <1>7, PrivateSteps DEF Abort
<1>8. QED
  BY <1>1, <1>2, <1>3, <1>4, <1>5, <1>6, <1>7 DEF Reads

LEMMA CommitsAreSeen == ASSUME Inv, NEW p \in Procs, Commits(p) PROVE StandBy(p)
<1>1. Privately(p) \/ \E d, c : WriteAndCommit(p, d, c)
  <2>1. CASE EndSweep(p)
    BY <2>1, PrivateSteps DEF EndSweep
  <2>2. CASE Prune(p)
    BY <2>2, PrivateSteps DEF Prune
  <2>3. CASE MergeRows(p)
    BY <2>3, PrivateSteps DEF MergeRows
  <2>4. CASE Enrol(p)
    BY <2>4, PrivateSteps DEF Enrol
  <2>5. CASE Retire(p)
    BY <2>5, PrivateSteps DEF Retire
  <2>6. CASE Link(p)
    BY <2>6, PrivateSteps DEF Link
  <2>7. QED
    BY <2>1, <2>2, <2>3, <2>4, <2>5, <2>6 DEF Commits
<1>2. QED
  BY <1>1, TheOthersStandBy

LEMMA EveryoneElseStandsBy == ASSUME Inv, NEW p \in Procs, Acts(p) PROVE StandBy(p)
  BY BeginningsArePrivate, ReadingIsPrivate, CommitsAreSeen, TheOthersStandBy DEF Acts

LEMMA OnlyCommitsChangeTheFile ==
    ASSUME NEW p \in Procs, Acts(p), db' # db
    PROVE  Commits(p)
  BY BeginningsArePrivate, ReadingIsPrivate DEF Acts, Privately

-----------------------------------------------------------------------------
(* Rows are deleted by a prune alone, and by it exactly the old ones.      *)
LEMMA SweepCommits ==
    ASSUME Inv, NEW p \in Procs, EndSweep(p)
    PROVE  /\ Running(p) /\ Phase(p) \in Sweeps /\ Sweeping(proc[p]) /\ proc[p].page = Null
           /\ proc' = [proc EXCEPT ![p] = NextPhase(proc[p])] \/ WriteAndCommit(p, db', NextPhase(proc[p]))
           /\ \/ db' = db /\ UNCHANGED <<work, holder>> /\ Phase(p) # "markets" /\ holder # p
              \/ /\ Extends(db, work) /\ LockFree(p) /\ holder' = Null /\ work' = db'
                 /\ db' = IF Phase(p) = "markets" THEN Denormalize(work) ELSE work
                 /\ Phase(p) # "markets" => holder = p
           /\ Extends(db, db')
<1>1. Running(p) /\ Phase(p) \in Sweeps /\ proc[p].page = Null
  BY DEF EndSweep
<1>2. Sweeping(proc[p])
  BY <1>1, OnlySweepsSweep
<1>3. PICK n : n = NextPhase(proc[p])
  OBVIOUS
<1>4. Whole(db)
  BY DEF Inv
<1>5. CASE Phase(p) = "markets"
  <2>1. PICK d : d = Denormalize(work)
    OBVIOUS
  <2>2. WriteAndCommit(p, d, n) /\ LockFree(p)
    BY <1>3, <1>5, <2>1 DEF EndSweep, WriteAndCommit
  <2>3. Extends(db, work)
    BY <1>2, <2>2, SweptSoFar DEF LockFree
  <2>4. Extends(db, d) /\ ForeignKeysHold(d)
    BY <2>1, <2>3, CategoriesCopied, ExtendsFurther DEF Extends
  <2>5. db' = d /\ work' = d /\ holder' = Null
    BY <2>2, <2>4 DEF WriteAndCommit
  <2>6. QED
    BY <1>1, <1>2, <1>3, <1>5, <2>1, <2>2, <2>3, <2>4, <2>5
<1>6. CASE Phase(p) # "markets" /\ holder = p
  <2>1. WriteAndCommit(p, work, n) /\ LockFree(p)
    BY <1>3, <1>6 DEF EndSweep, LockFree
  <2>2. Extends(db, work) /\ ForeignKeysHold(work)
    BY <1>2, <1>6, SweptSoFar DEF Extends
  <2>3. db' = work /\ work' = work /\ holder' = Null
    BY <2>1, <2>2 DEF WriteAndCommit
  <2>4. QED
    BY <1>1, <1>2, <1>3, <1>6, <2>1, <2>2, <2>3
<1>7. CASE Phase(p) # "markets" /\ holder # p
  <2>1. Note(p, n)
    BY <1>3, <1>7 DEF EndSweep
  <2>2. QED
    BY <1>1, <1>2, <1>3, <1>4, <1>7, <2>1, ExtendsItself DEF Note, Whole
<1>8. QED
  BY <1>5, <1>6, <1>7

(* The commits of the news desk.                                           *)
LEMMA NewsCommits ==
    ASSUME Inv, NEW p \in Procs, Enrol(p) \/ Retire(p) \/ Link(p)
    PROVE  /\ db'.events = db.events /\ db'.markets = db.markets
           /\ db'.prices = db.prices /\ db'.settled = db.settled
           /\ \A u \in Urls : db.articles[u] # Null => db'.articles[u] # Null
<1>1. db \in Database
  BY DEF Inv, Whole
<1>2. CASE Enrol(p) \/ Retire(p)
  <2>1. CASE db' = db
    BY <2>1
  <2>2. CASE db' # db
    <3>1. PICK t, s : WriteAndCommit(p, [work EXCEPT !.tracked[t] = s], NextPhase(proc[p])) /\ holder # p
      <4>1. holder # p
        <5>1. Running(p) /\ Phase(p) \in {"enrol", "retire"}
          BY <1>2 DEF Enrol, Retire, In
        <5>2. proc[p].cmd \in {"track", "untrack"}
          BY <5>1, WhoseIsThis DEF Tracking, Untracking, Sweeps, PrunedTables
        <5>3. QED
          BY <5>1, <5>2, TheyHoldNoLock
      <4>2. CASE Enrol(p)
        BY <2>2, <4>1, <4>2 DEF Enrol, Fail
      <4>3. CASE Retire(p)
        BY <2>2, <4>1, <4>3 DEF Retire, Note
      <4>4. QED
        BY <1>2, <4>2, <4>3
    <3>2. work = db /\ db' = [work EXCEPT !.tracked[t] = s]
      <4>1. PICK e : e = [work EXCEPT !.tracked[t] = s]
        OBVIOUS
      <4>2. db' = e /\ LockFree(p)
        BY <2>2, <3>1, <4>1 DEF WriteAndCommit, Fail
      <4>3. QED
        BY <3>1, <4>1, <4>2, FreeLockSeesTheFile
    <3>3. QED
      BY <1>1, <3>2 DEF Database
  <2>3. QED
    BY <2>1, <2>2
<1>3. CASE Link(p)
  <2>1. holder = p /\ Phase(p) = "link"
    BY <1>3 DEF Link, In, Inv, LockSound
  <2>2. work.events = db.events /\ work.markets = db.markets /\ work.prices = db.prices
        /\ work.settled = db.settled /\ work \in Database
        /\ \A u \in Urls : db.articles[u] # Null => work.articles[u] # Null
    <3>1. ~Sweeping(proc[p])
      BY <2>1, WhoHoldsTheLock, HeadAndTail DEF Sweeping, Sweeps, Phase, Running
    <3>2. PICK t \in Times : work = [db EXCEPT !.articles[proc[p].page.of] = t]
      BY <2>1, <3>1, WhoHoldsTheLock
    <3>3. QED
      BY <1>1, <3>2, WorkFits, RowsAreThere DEF Database
  <2>3. CASE db' = db
    BY <2>3
  <2>4. CASE db' # db
    <3>1. PICK e : e = Linked(work, proc[p].page.of, proc[p].memo.item, proc[p].page.full)
      OBVIOUS
    <3>2. db' = e
      BY <1>3, <2>4, <3>1 DEF Link, WriteAndCommit, Fail
    <3>3. e.events = work.events /\ e.markets = work.markets /\ e.prices = work.prices
          /\ e.settled = work.settled /\ e.articles = work.articles
      BY <2>2, <3>1 DEF Linked, Database
    <3>4. QED
      BY <2>2, <3>2, <3>3
  <2>5. QED
    BY <2>3, <2>4
<1>4. QED
  BY <1>2, <1>3

(* merge, as it is or beside the rows it found.                            *)
Merges(k, d, e) ==
    /\ ~MergeConflicts(k.seen_event, d.events[k.event])
    /\ k.ticker \in Markets => ~MergeConflicts(k.seen_market, d.markets[k.ticker])
    /\ e.events = [d.events EXCEPT ![k.event] = MergeRow(k.seen_event, d.events[k.event], k.given)]
    /\ k.ticker \in Markets =>
          e.markets = [d.markets EXCEPT ![k.ticker] = MergeRow(k.seen_market, d.markets[k.ticker], k.market)]
    /\ k.ticker \notin Markets => e.markets = d.markets
    /\ e.prices = d.prices /\ e.settled = d.settled /\ e.articles = d.articles

LEMMA MergeCommits ==
    ASSUME Inv, NEW p \in Procs, MergeRows(p)
    PROVE  /\ Running(p) /\ Phase(p) = "merge" /\ Tracking(db, proc[p])
           /\ db' = db \/ (Merges(proc[p].memo, db, db') /\ proc' = [q \in Procs |->
                    IF q = p THEN NextPhase(proc[p])
                    ELSE [proc[q] EXCEPT !.overlap = @ \/ (Running(q) /\ db' # db)]])
<1> DEFINE k == proc[p].memo
           Merged(d) ==
               [d EXCEPT !.events[k.event] = MergeRow(k.seen_event, d.events[k.event], k.given),
                         !.markets = IF k.ticker \in Markets
                             THEN [@ EXCEPT ![k.ticker] = MergeRow(k.seen_market, d.markets[k.ticker], k.market)]
                             ELSE @]
<1>1. Running(p) /\ Phase(p) = "merge"
  BY DEF MergeRows, In
<1>2. Tracking(db, proc[p]) /\ holder # p
  BY <1>1, WhoTracks
<1>3. CASE db' = db
  BY <1>1, <1>2, <1>3
<1>4. CASE db' # db
  <2>1. /\ WriteAndCommit(p, Merged(work), NextPhase(proc[p]))
        /\ ~MergeConflicts(k.seen_event, work.events[k.event])
        /\ k.ticker \in Markets => ~MergeConflicts(k.seen_market, work.markets[k.ticker])
    BY <1>4 DEF MergeRows, Note, Fail
  <2>2. work = db
    BY <1>2, <2>1, FreeLockSeesTheFile DEF WriteAndCommit
  <2>3. PICK e : e = Merged(db)
    OBVIOUS
  <2>4. WriteAndCommit(p, e, NextPhase(proc[p]))
    BY <2>1, <2>2, <2>3
  <2> HIDE DEF Merged
  <2>5. db' = e /\ proc' = [q \in Procs |->
                    IF q = p THEN NextPhase(proc[p])
                    ELSE [proc[q] EXCEPT !.overlap = @ \/ (Running(q) /\ e # db)]]
    BY <1>4, <2>4 DEF WriteAndCommit, Fail
  <2>6. Merges(k, db, e)
    <3>1. db \in Database
      BY DEF Inv, Whole
    <3>2. /\ e.events = [db.events EXCEPT ![k.event] = MergeRow(k.seen_event, db.events[k.event], k.given)]
          /\ k.ticker \in Markets =>
                e.markets = [db.markets EXCEPT ![k.ticker] =
                                MergeRow(k.seen_market, db.markets[k.ticker], k.market)]
          /\ k.ticker \notin Markets => e.markets = db.markets
          /\ e.prices = db.prices /\ e.settled = db.settled /\ e.articles = db.articles
      <4>1. PICK er : er = MergeRow(k.seen_event, db.events[k.event], k.given)
        OBVIOUS
      <4>2. PICK mr : mr = MergeRow(k.seen_market, db.markets[k.ticker], k.market)
        OBVIOUS
      <4>3. e = [db EXCEPT !.events[k.event] = er,
                           !.markets = IF k.ticker \in Markets THEN [@ EXCEPT ![k.ticker] = mr] ELSE @]
        BY <2>3, <4>1, <4>2 DEF Merged
      <4> HIDE DEF k
      <4>4. QED
        BY <3>1, <4>1, <4>2, <4>3 DEF Database
    <3>3. QED
      BY <2>1, <2>2, <3>2 DEF Merges
  <2>7. QED
    BY <1>1, <1>2, <2>5, <2>6
<1>5. QED
  BY <1>3, <1>4

(* A prune that goes through.                                              *)
LEMMA PruneCommits ==
    ASSUME Inv, NEW p \in Procs, Prune(p)
    PROVE  /\ Running(p) /\ Phase(p) = "delete" /\ Pruning(db, proc[p])
           /\ proc'[p].phases = <<>>
           /\ \/ db' = db /\ (proc'[p].end = "ok" => ~("apply" \in proc[p].opt
                                    /\ proc[p].memo.found \intersect {"prices", "articles"} # {}))
              \/ /\ "apply" \in proc[p].opt
                 /\ db' = Pruned(db, proc[p].memo.found, proc[p].at)
<1> DEFINE c == proc[p]
<1>1. Running(p) /\ Phase(p) = "delete" /\ c.cmd = "prune"
  BY DEF Prune, In
<1>2. c \in Commands /\ c.phases # <<>> /\ Pruning(db, c)
  BY <1>1, AtWorkNow, WhoseIsThis DEF Sweeping, Exporting, Tracking, Untracking, Collecting
<1>3. Tail(c.phases) = <<>>
  BY <1>1, <1>2, PruneParts DEF Pruning, Phase
<1>4. holder # p
  BY <1>1, TheyHoldNoLock
<1>5. PICK n : n = NextPhase(c)
  OBVIOUS
<1>6. n.phases = <<>>
  BY <1>2, <1>3, <1>5, Finished
<1>7. proc \in [Procs -> Commands]
  BY DEF Inv
<1>8. CASE Note(p, n) /\ ~("apply" \in c.opt /\ c.memo.found \intersect {"prices", "articles"} # {})
  BY <1>1, <1>2, <1>6, <1>7, <1>8 DEF Note
<1>9. CASE WriteAndCommit(p, Pruned(work, c.memo.found, c.at), n) /\ "apply" \in c.opt
  <2>1. PICK e : e = Pruned(db, c.memo.found, c.at)
    OBVIOUS
  <2>2. WriteAndCommit(p, e, n)
    BY <1>4, <1>9, <2>1, FreeLockSeesTheFile DEF WriteAndCommit
  <2>3. CASE ForeignKeysHold(e)
    BY <1>1, <1>2, <1>6, <1>9, <2>1, <2>2, <2>3 DEF WriteAndCommit
  <2>4. CASE ~ForeignKeysHold(e)
    <3>1. PICK m : m = Ended(c, "integrity")
      OBVIOUS
    <3>2. m.end = "integrity" /\ m.phases = <<>>
      BY <3>1 DEF Ended, Idle
    <3>3. db' = db /\ proc'[p] = m
      BY <1>7, <2>2, <2>4, <3>1 DEF WriteAndCommit, Fail
    <3>4. QED
      BY <1>1, <1>2, <3>2, <3>3
  <2>5. QED
    BY <2>3, <2>4
<1>10. QED
  BY <1>5, <1>8, <1>9 DEF Prune

(* What a process may do in a phase.                                       *)
LEMMA OwnSteps ==
    ASSUME Inv, NEW p \in Procs, Acts(p), Running(p)
    PROVE  /\ Phase(p) = "delete" => Prune(p) \/ Abort(p)
           /\ Phase(p) = "tables" => ExportTable(p) \/ Abort(p)
           /\ Phase(p) \in Sweeps => Fetch(p) \/ Apply(p) \/ EndSweep(p) \/ Abort(p)
<1>1. ~Begins(p)
  BY BeginningsArePrivate
<1>2. /\ Fetch(p) \/ Apply(p) \/ EndSweep(p) => Phase(p) \in Sweeps
      /\ FindEvent(p) => Phase(p) = "find_event"
      /\ FindMarket(p) => Phase(p) = "find_market"
      /\ FindItem(p) => Phase(p) = "find_item"
      /\ MergeRows(p) => Phase(p) = "merge"
      /\ Enrol(p) => Phase(p) = "enrol"
      /\ Retire(p) => Phase(p) = "retire"
      /\ Query(p) \/ Exhausted(p) => Phase(p) = "items"
      /\ LookUp(p) \/ ItemDone(p) => Phase(p) = "results"
      /\ Store(p) => Phase(p) = "store"
      /\ Link(p) => Phase(p) = "link"
      /\ ExportTable(p) => Phase(p) = "tables"
      /\ Prune(p) => Phase(p) = "delete"
  BY DEF In, Fetch, Apply, EndSweep, FindEvent, FindMarket, FindItem, MergeRows, Enrol, Retire, Query,
         Exhausted, LookUp, ItemDone, Store, Link, ExportTable, Prune
<1>3. CountRows(p) => Phase(p) \in PrunedTables
  BY WhoseIsThis DEF CountRows, Sweeping, Exporting, Tracking, Untracking, Collecting
<1>4. CASE Phase(p) = "delete" \/ Phase(p) = "tables"
  BY <1>1, <1>2, <1>3, <1>4 DEF Acts, Reads, Commits, Sweeps, PrunedTables
<1>5. CASE Phase(p) \in Sweeps
  BY <1>1, <1>2, <1>3, <1>5 DEF Acts, Reads, Commits, Sweeps, PrunedTables
<1>6. QED
  BY <1>4, <1>5 DEF Sweeps

LEMMA AbortEnds ==
    ASSUME Inv, NEW p \in Procs, NEW why, Fail(p, why)
    PROVE  proc'[p].end = why /\ proc'[p].phases = <<>>
<1>1. PICK m : m = Ended(proc[p], why)
  OBVIOUS
<1>2. m.end = why /\ m.phases = <<>>
  BY <1>1 DEF Ended, Idle
<1>3. proc'[p] = m
  BY <1>1 DEF Inv, Fail
<1>4. QED
  BY <1>2, <1>3

(* Who has changed phase or ended has acted.                               *)
LEMMA ItActed ==
    ASSUME Inv, [Next]_pipeline, NEW p \in Procs, Running(p),
           proc'[p].phases # proc[p].phases \/ proc'[p].end # proc[p].end
    PROVE  Acts(p)
<1>1. proc' # proc
  OBVIOUS
<1>2. PICK q \in Procs : Acts(q)
  BY <1>1, WhoActs DEF pipeline, Settle, Tick
<1>3. StandBy(q)
  BY <1>2, EveryoneElseStandsBy
<1>4. p = q
  BY <1>3 DEF StandBy
<1>5. QED
  BY <1>2, <1>4

LEMMA PruningIsExact == ASSUME Inv, [Next]_pipeline PROVE PruneStep
<1>1. ASSUME \/ ~(db.prices \subseteq db'.prices)
             \/ \E u \in Urls : db.articles[u] # Null /\ db'.articles[u] = Null
      PROVE  \E p \in Procs : Loses(p, {"prune"})
  <2>1. db' # db
    BY <1>1
  <2>2. PICK p \in Procs : Acts(p)
    BY <2>1, WhoActs DEF pipeline, Settle, Tick
  <2>3. Commits(p)
    BY <2>1, <2>2, OnlyCommitsChangeTheFile
  <2>4. ~EndSweep(p)
    BY <1>1, SweepCommits DEF Extends
  <2>5. ~(Enrol(p) \/ Retire(p) \/ Link(p))
    BY <1>1, NewsCommits
  <2>6. ~MergeRows(p)
    BY <1>1, <2>1, MergeCommits DEF Merges
  <2>7. Prune(p)
    BY <2>3, <2>4, <2>5, <2>6 DEF Commits
  <2>8. proc'[p] # proc[p] /\ proc[p].cmd = "prune"
    BY <2>7, PruneCommits DEF Pruning, Running
  <2>9. QED
    BY <2>8 DEF Loses
<1>2. ASSUME NEW p \in Procs, proc[p].cmd = "prune", In(p, "delete"), proc'[p].end = "ok"
      PROVE  /\ db.prices \ db'.prices \subseteq OldPrices(db, proc[p].at)
             /\ \A u \in Urls : db'.articles[u] # db.articles[u] => u \in OldArticles(db, proc[p].at)
             /\ "apply" \notin proc[p].opt => db' = db
             /\ db'.links = {l \in db.links : db'.articles[l[1]] # Null}
             /\ ~proc[p].overlap /\ "apply" \in proc[p].opt =>
                   /\ "prices" \in proc[p].opt => OldPrices(db', proc[p].at) = {}
                   /\ "news" \in proc[p].opt => OldArticles(db', proc[p].at) = {}
  <2> DEFINE c == proc[p]
             found == c.memo.found
  <2>1. Running(p) /\ Phase(p) = "delete"
    BY <1>2 DEF In
  <2>2. c.end = "running" /\ Pruning(db, c)
    BY <2>1, AtWorkNow, WhoseIsThis DEF PrunedTables, Sweeps
  <2>3. Prune(p)
    BY <1>2, <2>1, <2>2, ItActed, OwnSteps, AbortEnds DEF Abort
  <2>4. \/ db' = db /\ ~("apply" \in c.opt /\ found \intersect {"prices", "articles"} # {})
        \/ "apply" \in c.opt /\ db' = Pruned(db, found, c.at)
    BY <1>2, <2>3, PruneCommits
  <2>5. ~c.overlap => /\ "prices" \in found <=> Matches(db, "prices", c)
                      /\ "articles" \in found <=> Matches(db, "articles", c)
    BY <2>1, <2>2 DEF Pruning, Passed, PrunedTables, Phase
  <2>6. /\ Matches(db, "prices", c) <=> "prices" \in c.opt /\ OldPrices(db, c.at) # {}
        /\ Matches(db, "articles", c) <=> "news" \in c.opt /\ OldArticles(db, c.at) # {}
    BY DEF Matches
  <2>7. db \in Database /\ ForeignKeysHold(db) /\ \A l \in db.links : l[1] \in Urls
    BY Columns DEF Inv, Whole
  <2>8. Whole(db')
    BY StepKeeps DEF Inv
  <2> HIDE DEF c, found
  <2>9. CASE db' = db /\ ~("apply" \in c.opt /\ found \intersect {"prices", "articles"} # {})
    <3>1. db.links = {l \in db.links : db.articles[l[1]] # Null}
      BY <2>7 DEF ForeignKeysHold
    <3>2. "apply" \in c.opt => "prices" \notin found /\ "articles" \notin found
      BY <2>9
    <3>3. QED
      BY <2>5, <2>6, <2>9, <3>1, <3>2 DEF c
  <2>10. CASE "apply" \in c.opt /\ db' = Pruned(db, found, c.at)
    <3>1. PICK e : e = Pruned(db, found, c.at)
      OBVIOUS
    <3>2. /\ e.links \subseteq db.links
          /\ \A l \in db.links : l \notin e.links => "articles" \in found /\ l[1] \in OldArticles(db, c.at)
          /\ \A u \in Urls : e.articles[u] =
                IF "articles" \in found /\ u \in OldArticles(db, c.at) THEN Null ELSE db.articles[u]
      BY <2>7, <3>1, PrunedParts
    <3>3. e.prices = IF "prices" \in found THEN db.prices \ OldPrices(db, c.at) ELSE db.prices
      BY <2>7, <3>1 DEF Pruned, Database
    <3>4. e = db' /\ ForeignKeysHold(e)
      BY <2>8, <2>10, <3>1 DEF Whole
    <3>5. e.links = {l \in db.links : e.articles[l[1]] # Null}
      BY <2>7, <3>2, <3>4 DEF ForeignKeysHold
    <3>6. "prices" \in found => OldPrices(e, c.at) = {}
      BY <3>3 DEF OldPrices
    <3>7. "articles" \in found => OldArticles(e, c.at) = {}
      BY <3>2 DEF OldArticles
    <3>8. OldPrices(db, c.at) = {} => OldPrices(e, c.at) = {}
      BY <3>3 DEF OldPrices
    <3>9. OldArticles(db, c.at) = {} => OldArticles(e, c.at) = {}
      BY <3>2 DEF OldArticles
    <3>10. QED
      BY <2>5, <2>6, <2>10, <3>2, <3>3, <3>4, <3>5, <3>6, <3>7, <3>8, <3>9 DEF c
  <2>11. QED
    BY <2>4, <2>9, <2>10 DEF c
<1>3. QED
  BY <1>1, <1>2 DEF PruneStep

(* A prune takes exactly what is older than its cutoff and what hangs from *)
(* it, and nothing else ever deletes a price or an article.                *)
THEOREM PruneTakesTheOld == Spec => PruneExact
<1>1. Inv /\ [Next]_pipeline => PruneStep
  BY PruningIsExact
<1>2. QED
  BY <1>1, StaysSound, PTL DEF Spec, PruneExact

-----------------------------------------------------------------------------
(* No event and no market row ever goes.                                   *)
LEMMA RowsStay ==
    ASSUME Inv, [Next]_pipeline
    PROVE  /\ \A v \in Events : db.events[v] # Null => db'.events[v] # Null
           /\ \A m \in Markets : db.markets[m] # Null => db'.markets[m] # Null
           /\ db.settled \subseteq db'.settled
<1>1. CASE db' = db
  BY <1>1
<1>2. CASE db' # db
  <2>1. PICK p \in Procs : Acts(p)
    BY <1>2, WhoActs DEF pipeline, Settle, Tick
  <2>2. Commits(p)
    BY <1>2, <2>1, OnlyCommitsChangeTheFile
  <2>3. db \in Database
    BY DEF Inv, Whole
  <2>4. CASE EndSweep(p)
    BY <2>4, SweepCommits DEF Extends, Grows
  <2>5. CASE Enrol(p) \/ Retire(p) \/ Link(p)
    BY <2>5, NewsCommits
  <2>6. CASE Prune(p)
    <3>1. PICK found, at : db' = Pruned(db, found, at)
      BY <1>2, <2>6, PruneCommits
    <3>2. PICK e : e = Pruned(db, found, at)
      OBVIOUS
    <3>3. QED
      BY <2>3, <3>1, <3>2, PrunedParts
  <2>7. CASE MergeRows(p)
    <3>1. PICK k : k = proc[p].memo
      OBVIOUS
    <3>2. Merges(k, db, db') /\ Tracking(db, proc[p])
      BY <1>2, <2>7, <3>1, MergeCommits
    <3>3. /\ k \in TrackMemo
          /\ k.seen_event # Null => db.events[k.event] # Null
          /\ k.seen_market # Null /\ k.ticker \in Markets => db.markets[k.ticker] # Null
      BY <3>1, <3>2 DEF Tracking
    <3>4. /\ k.event \in Events /\ k.given \in EventRow /\ k.market \in MarketRow
          /\ k.seen_event \in EventRow \union {Null} /\ k.seen_market \in MarketRow \union {Null}
      BY <3>3 DEF TrackMemo
    <3>5. PICK er : er = MergeRow(k.seen_event, db.events[k.event], k.given)
      OBVIOUS
    <3>6. db'.events = [db.events EXCEPT ![k.event] = er] /\ er # Null
      <4>1. er \in EventRow
        <5>1. PICK row : row = db.events[k.event]
          OBVIOUS
        <5>2. row \in EventRow \union {Null} /\ (k.seen_event # Null => row # Null)
          BY <2>3, <3>3, <3>4, <5>1, Columns
        <5>3. QED
          BY <3>4, <3>5, <5>1, <5>2, MergedEvent
      <4>2. QED
        BY <3>2, <3>5, <4>1, RowsAreThere DEF Merges
    <3>7. CASE k.ticker \notin Markets
      BY <2>3, <3>2, <3>4, <3>6, <3>7, Columns DEF Merges
    <3>8. CASE k.ticker \in Markets
      <4>1. PICK mr : mr = MergeRow(k.seen_market, db.markets[k.ticker], k.market)
        OBVIOUS
      <4>2. mr \in MarketRow
        <5>1. PICK row : row = db.markets[k.ticker]
          OBVIOUS
        <5>2. row \in MarketRow \union {Null} /\ (k.seen_market # Null => row # Null)
          BY <2>3, <3>3, <3>8, <5>1, Columns
        <5>3. QED
          BY <3>4, <4>1, <5>1, <5>2, MergedMarket
      <4>3. db'.markets = [db.markets EXCEPT ![k.ticker] = mr] /\ mr # Null
        BY <3>2, <3>8, <4>1, <4>2, RowsAreThere DEF Merges
      <4>4. QED
        BY <2>3, <3>2, <3>4, <3>6, <3>8, <4>3, Columns DEF Merges
    <3>9. QED
      BY <3>7, <3>8
  <2>8. QED
    BY <2>2, <2>4, <2>5, <2>6, <2>7 DEF Commits
<1>3. QED
  BY <1>1, <1>2

(* A command keeps its name until it is over.                              *)
LEMMA NextPhaseOf ==
    ASSUME NEW c \in Commands
    PROVE  NextPhase(c).cmd = c.cmd
<1>1. CASE Tail(c.phases) = <<>>
  BY <1>1 DEF NextPhase, Ended, Idle
<1>2. CASE Tail(c.phases) # <<>>
  <2>1. PICK n : n = NextPhase(c)
    OBVIOUS
  <2>2. PICK a, b, d : n = [c EXCEPT !.phases = a, !.rest = b, !.page = Null, !.at = d]
    BY <1>2, <2>1 DEF NextPhase
  <2>3. n.cmd = c.cmd
    BY <2>2 DEF Commands
  <2>4. QED
    BY <2>1, <2>3
<1>3. QED
  BY <1>1, <1>2

Named(p) == proc'[p].cmd = proc[p].cmd

LEMMA NamesKept ==
    ASSUME Inv, NEW p \in Procs
    PROVE  /\ \A c : Note(p, c) /\ c.cmd = proc[p].cmd => Named(p)
           /\ \A why : Fail(p, why) => Named(p)
           /\ \A d, c : Write(p, d, c) /\ c.cmd = proc[p].cmd => Named(p)
           /\ \A d, c : WriteAndCommit(p, d, c) /\ c.cmd = proc[p].cmd => Named(p)
<1>1. proc \in [Procs -> Commands]
  BY DEF Inv
<1>2. \A c : Note(p, c) /\ c.cmd = proc[p].cmd => Named(p)
  BY <1>1 DEF Note, Named
<1>3. \A why : Fail(p, why) => Named(p)
  <2> SUFFICES ASSUME NEW why, Fail(p, why) PROVE Named(p)
    OBVIOUS
  <2>1. PICK c : c = Ended(proc[p], why)
    OBVIOUS
  <2>2. c.cmd = proc[p].cmd
    BY <2>1 DEF Ended, Idle
  <2>3. QED
    BY <1>1, <2>1, <2>2 DEF Fail, Named
<1>4. \A d, c : Write(p, d, c) /\ c.cmd = proc[p].cmd => Named(p)
  BY <1>1, <1>3 DEF Write, Named
<1>5. \A d, c : WriteAndCommit(p, d, c) /\ c.cmd = proc[p].cmd => Named(p)
  BY <1>1, <1>3 DEF WriteAndCommit, Named
<1>6. QED
  BY <1>2, <1>3, <1>4, <1>5

LEMMA CommandKept ==
    ASSUME Inv, NEW p \in Procs, Acts(p), Running(p)
    PROVE  Named(p)
<1> DEFINE c == proc[p]
<1>1. c \in Commands /\ proc \in [Procs -> Commands]
  BY DEF Inv
<1>2. PICK n : n = NextPhase(c)
  OBVIOUS
<1>3. n.cmd = c.cmd
  BY <1>1, <1>2, NextPhaseOf
<1>4. ~Begins(p)
  BY BeginningsArePrivate
<1>5. CASE Fetch(p)
  <2>1. PICK rest, page : Note(p, [c EXCEPT !.rest = rest, !.page = page])
    BY <1>5 DEF Fetch
  <2>2. [c EXCEPT !.rest = rest, !.page = page].cmd = c.cmd
    BY <1>1 DEF Commands
  <2>3. QED
    BY <2>1, <2>2, NamesKept
<1>6. CASE Apply(p)
  <2>1. PICK m : m = [c EXCEPT !.page = Null]
    OBVIOUS
  <2>2. m.cmd = c.cmd
    BY <1>1, <2>1 DEF Commands
  <2>3. Note(p, m) \/ \E d : Write(p, d, m)
    BY <1>6, <2>1 DEF Apply
  <2>4. QED
    BY <2>2, <2>3, NamesKept
<1>7. CASE Abort(p)
  BY <1>7, NamesKept DEF Abort
<1>8. CASE EndSweep(p) \/ Prune(p)
  BY <1>2, <1>3, <1>8, NamesKept DEF EndSweep, Prune
<1>9. CASE MergeRows(p)
  BY <1>2, <1>3, <1>9, NamesKept DEF MergeRows
<1>10. CASE Enrol(p) \/ Retire(p)
  BY <1>2, <1>3, <1>10, NamesKept DEF Enrol, Retire
<1>11. CASE Exhausted(p)
  BY <1>2, <1>3, <1>11, NamesKept DEF Exhausted
<1>12. CASE CountRows(p) \/ FindEvent(p) \/ FindMarket(p) \/ FindItem(p)
  <2>2. ASSUME NEW memo, Note(p, [n EXCEPT !.memo = memo]) PROVE Named(p)
    <3>1. PICK m : m = [n EXCEPT !.memo = memo]
      OBVIOUS
    <3>2. m.cmd = n.cmd
      BY <3>1
    <3>3. QED
      BY <1>3, <2>2, <3>1, <3>2, NamesKept
  <2>3. CASE CountRows(p)
    <3>1. PICK memo : memo = [n.memo EXCEPT !.found = IF Matches(db, Phase(p), proc[p])
                                                      THEN @ \union {Phase(p)} ELSE @]
      OBVIOUS
    <3>2. Note(p, [n EXCEPT !.memo = memo])
      BY <1>2, <2>3, <3>1 DEF CountRows
    <3>3. QED
      BY <2>2, <3>2
  <2>4. CASE FindEvent(p)
    <3>1. PICK memo : memo = [n.memo EXCEPT !.seen_event = db.events[proc[p].memo.event]]
      OBVIOUS
    <3>2. Note(p, [n EXCEPT !.memo = memo])
      BY <1>2, <2>4, <3>1 DEF FindEvent
    <3>3. QED
      BY <2>2, <3>2
  <2>5. CASE FindMarket(p)
    <3>1. PICK memo : memo = [n.memo EXCEPT !.seen_market = db.markets[proc[p].memo.ticker]]
      OBVIOUS
    <3>2. Note(p, [n EXCEPT !.memo = memo])
      BY <1>2, <2>5, <3>1 DEF FindMarket
    <3>3. QED
      BY <2>2, <3>2
  <2>6. CASE FindItem(p)
    <3>1. PICK memo : memo = [n.memo EXCEPT !.seen_item = db.tracked[proc[p].memo.ticker]]
      OBVIOUS
    <3>2. Note(p, [n EXCEPT !.memo = memo])
      BY <1>2, <2>6, <3>1 DEF FindItem
    <3>3. QED
      BY <2>2, <3>2
  <2>7. QED
    BY <1>12, <2>3, <2>4, <2>5, <2>6
<1>13. CASE ExportTable(p)
  <2>1. PICK table : proc' = [proc EXCEPT ![p] = IF c.rest = {table} THEN n ELSE [c EXCEPT !.rest = @ \ {table}]]
    BY <1>2, <1>13 DEF ExportTable
  <2>2. [c EXCEPT !.rest = @ \ {table}].cmd = c.cmd
    BY <1>1 DEF Commands
  <2>3. QED
    BY <1>1, <1>3, <2>1, <2>2 DEF Named
<1>14. CASE Query(p) \/ LookUp(p) \/ ItemDone(p)
  <2>1. CASE Query(p)
    <3>1. PICK t, urls : Note(p, [c EXCEPT !.phases = <<"results", "items">>, !.rest = urls,
                                           !.memo = [items |-> @.items \ {t}, item |-> t]])
      BY <2>1 DEF Query
    <3>2. PICK m : m = [c EXCEPT !.phases = <<"results", "items">>, !.rest = urls,
                                 !.memo = [items |-> @.items \ {t}, item |-> t]]
      OBVIOUS
    <3>3. m.cmd = c.cmd
      BY <1>1, <3>2 DEF Commands
    <3>4. QED
      BY <3>1, <3>2, <3>3, NamesKept
  <2>2. CASE LookUp(p)
    <3>1. PICK u, text : Note(p, IF db.articles[u] # Null
                THEN [proc[p] EXCEPT !.rest = @ \ {u}]
                ELSE [proc[p] EXCEPT !.rest = @ \ {u}, !.phases = <<"store">> \o @,
                                     !.page = [of |-> u, full |-> text, status |-> "open"]])
      BY <2>2 DEF LookUp
    <3>2. PICK m : m = IF db.articles[u] # Null
                THEN [c EXCEPT !.rest = @ \ {u}]
                ELSE [c EXCEPT !.rest = @ \ {u}, !.phases = <<"store">> \o @,
                                     !.page = [of |-> u, full |-> text, status |-> "open"]]
      OBVIOUS
    <3>3. m.cmd = c.cmd
      BY <1>1, <3>2 DEF Commands
    <3>4. QED
      BY <3>1, <3>2, <3>3, NamesKept
  <2>3. CASE ItemDone(p)
    <3>1. PICK e : e = Ended(c, "ok")
      OBVIOUS
    <3>2. e.cmd = c.cmd
      BY <3>1 DEF Ended, Idle
    <3>3. Note(p, e) \/ Note(p, n)
      BY <1>2, <2>3, <3>1 DEF ItemDone
    <3>4. QED
      BY <1>3, <3>2, <3>3, NamesKept
  <2>4. QED
    BY <1>14, <2>1, <2>2, <2>3
<1>15. CASE Store(p) \/ Link(p)
  <2>1. PICK a : a = [c EXCEPT !.phases = Tail(@), !.page = Null]
    OBVIOUS
  <2>2. PICK b : b = [c EXCEPT !.phases = <<"link">> \o Tail(@)]
    OBVIOUS
  <2>3. a.cmd = c.cmd /\ b.cmd = c.cmd
    BY <1>1, <2>1, <2>2 DEF Commands
  <2>4. CASE Store(p)
    <3>1. Note(p, a) \/ \E d : Write(p, d, b)
      BY <2>1, <2>2, <2>4 DEF Store
    <3>2. QED
      BY <2>3, <3>1, NamesKept
  <2>5. CASE Link(p)
    <3>1. \E d : WriteAndCommit(p, d, a)
      BY <2>1, <2>5 DEF Link
    <3>2. QED
      BY <2>3, <3>1, NamesKept
  <2>6. QED
    BY <1>15, <2>4, <2>5
<1>16. QED
  BY <1>4, <1>5, <1>6, <1>7, <1>8, <1>9, <1>10, <1>11, <1>12, <1>13, <1>14, <1>15 DEF Acts, Reads, Commits

-----------------------------------------------------------------------------
(* Unless something was committed since, the files an export has written   *)
(* agree with the tables; and every exported price has its market's row.   *)
Agree(c) ==
    Exporting(c) /\ ~c.overlap =>
        /\ "events" \notin c.rest => files.events = {e \in Events : db.events[e] # Null}
        /\ "markets" \notin c.rest => files.markets = {m \in Markets : db.markets[m] # Null}
        /\ "settlements" \notin c.rest => files.settled = db.settled

FilesAgree ==
    /\ files \in Files
    /\ PricesKnown(db, files)
    /\ \A p \in Procs : Agree(proc[p])

(* What one table's export does to the files.                              *)
LEMMA TableExported ==
    ASSUME Inv, files \in Files, PricesKnown(db, files), NEW table \in ExportTables, NEW csv,
           NEW f, f = Exported(db, files, table, csv)
    PROVE  /\ f \in Files /\ PricesKnown(db, f)
           /\ f.events = IF table = "events" THEN {e \in Events : db.events[e] # Null} ELSE files.events
           /\ f.markets = IF table = "markets" THEN {m \in Markets : db.markets[m] # Null} ELSE files.markets
           /\ f.settled = IF table = "settlements" THEN db.settled ELSE files.settled
<1>1. db.prices \subseteq Markets \X Times /\ db.settled \subseteq Markets /\ ForeignKeysHold(db)
  BY Columns DEF Inv, Whole
<1>2. CASE table = "events"
  BY <1>2 DEF Exported, Files, PricesKnown
<1>3. CASE table = "markets"
  BY <1>3 DEF Exported, Files, PricesKnown
<1>4. CASE table = "settlements"
  BY <1>1, <1>4 DEF Exported, Files, PricesKnown
<1>5. CASE table = "prices"
  <2>1. PICK rows : rows = db.prices \union IF csv THEN {} ELSE LeftOver(db, files.prices)
    OBVIOUS
  <2>2. f = [files EXCEPT !.prices = rows]
    BY <1>5, <2>1 DEF Exported
  <2>3. rows \subseteq db.prices \union files.prices
    BY <2>1 DEF LeftOver
  <2>4. \A r \in rows : db.markets[r[1]] # Null
    BY <1>1, <2>3 DEF ForeignKeysHold, PricesKnown
  <2>5. rows \subseteq Markets \X Times
    BY <1>1, <2>3 DEF Files
  <2>6. QED
    BY <1>5, <2>2, <2>4, <2>5 DEF Files, PricesKnown
<1>6. QED
  BY <1>2, <1>3, <1>4, <1>5 DEF ExportTables

LEMMA OnlyExportsWriteFiles ==
    ASSUME [Next]_pipeline, files' # files
    PROVE  \E p \in Procs : ExportTable(p)
<1>1. PICK p \in Procs : Acts(p)
  BY WhoActs DEF pipeline, Settle, Tick
<1>2. ASSUME NEW c, Begin(p, c) \/ Note(p, c) PROVE FALSE
  BY <1>2 DEF Begin, Note
<1>3. ASSUME NEW why, Fail(p, why) PROVE FALSE
  BY <1>3 DEF Fail
<1>4. ASSUME NEW d, NEW c, Write(p, d, c) \/ WriteAndCommit(p, d, c) PROVE FALSE
  BY <1>3, <1>4 DEF Write, WriteAndCommit
<1>5. ~Begins(p)
  BY <1>2 DEF Begins, BeginSyncMarkets, BeginSyncSettlements, BeginSnapshot, BeginFullSync,
              BeginPrune, BeginExport, BeginTrack, BeginUntrack, BeginCollect
<1>6. ~(Fetch(p) \/ CountRows(p) \/ FindEvent(p) \/ FindMarket(p) \/ FindItem(p))
  BY <1>2 DEF Fetch, CountRows, FindEvent, FindMarket, FindItem
<1>7. ~(Query(p) \/ Exhausted(p) \/ LookUp(p) \/ ItemDone(p))
  BY <1>2 DEF Query, Exhausted, LookUp, ItemDone
<1>8. ~(Apply(p) \/ Store(p) \/ Abort(p))
  BY <1>2, <1>3, <1>4 DEF Apply, Store, Abort
<1>9. ~(EndSweep(p) \/ Prune(p) \/ Enrol(p) \/ Retire(p) \/ Link(p))
  BY <1>2, <1>3, <1>4 DEF EndSweep, Prune, Enrol, Retire, Link
<1>10. ~MergeRows(p)
  BY <1>2, <1>3, <1>4 DEF MergeRows
<1>11. QED
  BY <1>1, <1>5, <1>6, <1>7, <1>8, <1>9, <1>10 DEF Acts, Reads, Commits

(* An export's own step.                                                   *)
LEMMA TableWritten ==
    ASSUME Inv, NEW p \in Procs, ExportTable(p)
    PROVE  \E table \in ExportTables \cap proc[p].rest :
              /\ files' = Exported(db, files, table, "csv" \in proc[p].opt)
              /\ db' = db
              /\ \/ proc[p].rest = {table} /\ proc'[p].phases = <<>>
                 \/ /\ proc'[p].rest = proc[p].rest \ {table} /\ proc'[p].end = proc[p].end
                    /\ proc'[p].overlap = proc[p].overlap
<1> DEFINE c == proc[p]
<1>1. c \in Commands /\ proc \in [Procs -> Commands] /\ Exporting(c) /\ Running(p) /\ Phase(p) = "tables"
  BY WhoseIsThis DEF Inv, ExportTable, In, Sweeps, PrunedTables
<1>2. PICK table \in c.rest :
        /\ files' = Exported(db, files, table, "csv" \in c.opt)
        /\ proc' = [proc EXCEPT ![p] = IF c.rest = {table} THEN NextPhase(c)
                                       ELSE [c EXCEPT !.rest = @ \ {table}]]
  BY DEF ExportTable
<1>3. table \in ExportTables
  BY <1>1, <1>2 DEF Exporting
<1>4. db' = db
  BY DEF ExportTable
<1>5. CASE c.rest = {table}
  <2>1. Tail(c.phases) = <<>>
    BY <1>1, One DEF Exporting
  <2>2. PICK n : n = NextPhase(c)
    OBVIOUS
  <2>3. n.phases = <<>> /\ proc'[p] = n
    BY <1>1, <1>2, <1>5, <2>1, <2>2, Finished
  <2>4. QED
    BY <1>2, <1>3, <1>4, <1>5, <2>3
<1>6. CASE c.rest # {table}
  <2>1. PICK n : n = [c EXCEPT !.rest = @ \ {table}]
    OBVIOUS
  <2>2. proc'[p] = n
    BY <1>1, <1>2, <1>6, <2>1
  <2>3. n.rest = c.rest \ {table} /\ n.end = c.end /\ n.overlap = c.overlap
    BY <1>1, <2>1 DEF Commands
  <2>4. QED
    BY <1>2, <1>3, <1>4, <2>2, <2>3
<1>7. QED
  BY <1>5, <1>6

(* Only a command that begins was not running before.                      *)
LEMMA WhoBegins ==
    ASSUME Inv, NEW p \in Procs, Acts(p), ~Running(p)
    PROVE  /\ proc'[p].cmd = "export" => BeginExport(p)
           /\ proc'[p].cmd = "track" => BeginTrack(p)
<1>1. Begins(p)
  BY DEF Acts, Reads, Commits, In, Fetch, Apply, EndSweep, FindEvent, FindMarket, FindItem, MergeRows,
         Enrol, Retire, Query, Exhausted, LookUp, ItemDone, Store, Link, ExportTable, Prune, CountRows, Abort
<1>2. ASSUME NEW cmd, NEW phases, NEW opt, NEW at, NEW memo, Begin(p, Command(cmd, phases, opt, at, memo))
      PROVE  proc'[p].cmd = cmd
  <2>1. PICK c : c = Command(cmd, phases, opt, at, memo)
    OBVIOUS
  <2>2. c.cmd = cmd
    BY <2>1 DEF Command
  <2>3. QED
    BY <1>2, <2>1, <2>2 DEF Begin, Inv
<1>3. BeginSyncMarkets(p) => proc'[p].cmd = "sync-markets"
  BY <1>2 DEF BeginSyncMarkets
<1>4. BeginSyncSettlements(p) => proc'[p].cmd = "sync-settlements"
  BY <1>2 DEF BeginSyncSettlements
<1>5. BeginSnapshot(p) => proc'[p].cmd = "snapshot"
  BY <1>2 DEF BeginSnapshot
<1>6. BeginFullSync(p) => proc'[p].cmd = "full-sync"
  BY <1>2 DEF BeginFullSync
<1>7. BeginPrune(p) => proc'[p].cmd = "prune"
  BY <1>2 DEF BeginPrune
<1>8. BeginTrack(p) => proc'[p].cmd = "track"
  BY <1>2 DEF BeginTrack
<1>9. BeginUntrack(p) => proc'[p].cmd = "untrack"
  BY <1>2 DEF BeginUntrack
<1>10. BeginCollect(p) => proc'[p].cmd = "collect"
  BY <1>2 DEF BeginCollect
<1>11. BeginExport(p) => proc'[p].cmd = "export"
  BY <1>2 DEF BeginExport
<1>12. QED
  BY <1>1, <1>3, <1>4, <1>5, <1>6, <1>7, <1>8, <1>9, <1>10, <1>11 DEF Begins

LEMMA FilesKeepAgreeing ==
    ASSUME Inv, FilesAgree, [Next]_pipeline
    PROVE  FilesAgree'
<1>1. files' \in Files /\ PricesKnown(db, files')
  <2>1. CASE files' = files
    BY <2>1 DEF FilesAgree
  <2>2. CASE files' # files
    <3>1. PICK p \in Procs : ExportTable(p)
      BY <2>2, OnlyExportsWriteFiles
    <3>2. PICK table \in ExportTables : files' = Exported(db, files, table, "csv" \in proc[p].opt)
      BY <3>1, TableWritten
    <3>3. PICK f : f = Exported(db, files, table, "csv" \in proc[p].opt)
      OBVIOUS
    <3>4. PICK csv : csv = ("csv" \in proc[p].opt)
      OBVIOUS
    <3>5. f \in Files /\ PricesKnown(db, f)
      BY <3>3, <3>4, TableExported DEF FilesAgree
    <3>6. QED
      BY <3>2, <3>3, <3>5
  <2>3. QED
    BY <2>1, <2>2
<1>2. PricesKnown(db', files')
  BY <1>1, RowsStay DEF PricesKnown, Files
<1>3. ASSUME NEW p \in Procs, NEW table \in ExportTables, files' = Exported(db, files, table, "csv" \in proc[p].opt)
      PROVE  /\ files'.events = IF table = "events" THEN {e \in Events : db.events[e] # Null} ELSE files.events
             /\ files'.markets = IF table = "markets" THEN {m \in Markets : db.markets[m] # Null} ELSE files.markets
             /\ files'.settled = IF table = "settlements" THEN db.settled ELSE files.settled
  <2>1. PICK f : f = Exported(db, files, table, "csv" \in proc[p].opt)
    OBVIOUS
  <2>2. PICK csv : csv = ("csv" \in proc[p].opt)
    OBVIOUS
  <2>3. /\ f.events = IF table = "events" THEN {e \in Events : db.events[e] # Null} ELSE files.events
        /\ f.markets = IF table = "markets" THEN {m \in Markets : db.markets[m] # Null} ELSE files.markets
        /\ f.settled = IF table = "settlements" THEN db.settled ELSE files.settled
    BY <2>1, <2>2, TableExported DEF FilesAgree
  <2>4. QED
    BY <1>3, <2>1, <2>3
<1>4. ASSUME NEW p \in Procs, Exporting(proc'[p]), ~proc'[p].overlap
      PROVE  /\ "events" \notin proc'[p].rest => files'.events = {e \in Events : db'.events[e] # Null}
             /\ "markets" \notin proc'[p].rest => files'.markets = {m \in Markets : db'.markets[m] # Null}
             /\ "settlements" \notin proc'[p].rest => files'.settled = db'.settled
  <2>1. Agree(proc[p])
    BY DEF FilesAgree
  <2>2. CASE ~\E q \in Procs : Acts(q)
    <3>1. proc' = proc /\ db' = db /\ files' = files
      BY <2>2, WhoActs DEF Settle, Tick, pipeline
    <3>2. QED
      BY <1>4, <2>1, <3>1 DEF Agree
  <2>3. ASSUME NEW q \in Procs, Acts(q), q # p
        PROVE  /\ "events" \notin proc'[p].rest => files'.events = {e \in Events : db'.events[e] # Null}
               /\ "markets" \notin proc'[p].rest => files'.markets = {m \in Markets : db'.markets[m] # Null}
               /\ "settlements" \notin proc'[p].rest => files'.settled = db'.settled
    <3>1. /\ proc'[p].cmd = proc[p].cmd /\ proc'[p].phases = proc[p].phases /\ proc'[p].rest = proc[p].rest
          /\ Running(p) /\ ~proc'[p].overlap => db' = db /\ ~proc[p].overlap
      BY <2>3, EveryoneElseStandsBy DEF StandBy
    <3>2. Running(p)
      BY <1>4, <3>1, One DEF Exporting, Running
    <3>3. db' = db /\ Exporting(proc[p]) /\ ~proc[p].overlap
      BY <1>4, <3>1, <3>2 DEF Exporting
    <3>4. CASE files' = files
      BY <2>1, <3>1, <3>3, <3>4 DEF Agree
    <3>5. CASE files' # files
      <4>1. PICK r \in Procs : ExportTable(r)
        BY <3>5, OnlyExportsWriteFiles
      <4>2. PICK table \in ExportTables : files' = Exported(db, files, table, "csv" \in proc[r].opt)
        BY <4>1, TableWritten
      <4>3. QED
        BY <1>3, <2>1, <3>1, <3>3, <4>2 DEF Agree
    <3>6. QED
      BY <3>4, <3>5
  <2>4. CASE Acts(p)
    <3>1. CASE Running(p)
      <4>1. proc[p].cmd = "export"
        BY <1>4, <2>4, <3>1, CommandKept DEF Named, Exporting
      <4>2. Exporting(proc[p]) /\ Phase(p) = "tables"
        BY <3>1, <4>1, WhoseIsThis DEF Sweeping, Pruning, Tracking, Untracking, Collecting
      <4>3. ~Abort(p)
        BY <1>4, AbortEnds, One DEF Abort, Exporting
      <4>4. ExportTable(p)
        BY <2>4, <3>1, <4>2, <4>3, OwnSteps
      <4>5. proc'[p].phases # <<>>
        BY <1>4, One DEF Exporting
      <4>6. PICK table \in ExportTables \cap proc[p].rest :
              /\ files' = Exported(db, files, table, "csv" \in proc[p].opt)
              /\ db' = db
              /\ proc'[p].rest = proc[p].rest \ {table}
              /\ proc'[p].overlap = proc[p].overlap
        BY <4>4, <4>5, TableWritten
      <4>7. QED
        BY <1>3, <1>4, <2>1, <4>2, <4>6 DEF Agree
    <3>2. CASE ~Running(p)
      <4>1. BeginExport(p)
        BY <1>4, <2>4, <3>2, WhoBegins DEF Exporting
      <4>2. PICK opt : Begin(p, Command("export", <<"tables">>, opt, now, Null))
        BY <4>1 DEF BeginExport
      <4>3. PICK c : c = Command("export", <<"tables">>, opt, now, Null)
        OBVIOUS
      <4>4. c.rest = Todo("tables", opt)
        BY <4>3, One DEF Command
      <4>5. proc'[p].rest = ExportTables
        BY <4>2, <4>3, <4>4 DEF Inv, Begin, Todo, ExportTables
      <4>6. QED
        BY <4>5 DEF ExportTables
    <3>3. QED
      BY <3>1, <3>2
  <2>5. QED
    BY <2>2, <2>3, <2>4
<1>5. QED
  BY <1>1, <1>2, <1>4 DEF FilesAgree, Agree

LEMMA ExportIsConsistent == ASSUME Inv, FilesAgree, [Next]_pipeline PROVE ExportStep
<1>1. ASSUME NEW p \in Procs, In(p, "tables"), proc'[p].end = "ok", ~proc[p].overlap
      PROVE  /\ files'.settled \subseteq files'.markets
             /\ {EventOf[m] : m \in files'.markets} \subseteq files'.events
             /\ {r[1] : r \in files'.prices} \subseteq files'.markets
  <2>1. Running(p) /\ Phase(p) = "tables" /\ Exporting(proc[p]) /\ proc[p].end = "running"
    BY <1>1, AtWorkNow, WhoseIsThis DEF In, Sweeps, PrunedTables
  <2>2. ExportTable(p)
    BY <1>1, <2>1, ItActed, OwnSteps, AbortEnds DEF Abort
  <2>3. PICK table \in ExportTables \cap proc[p].rest :
          /\ files' = Exported(db, files, table, "csv" \in proc[p].opt)
          /\ db' = db /\ proc[p].rest = {table}
    BY <1>1, <2>1, <2>2, TableWritten
  <2>4. PICK csv : csv = ("csv" \in proc[p].opt)
    OBVIOUS
  <2>5. PICK f : f = Exported(db, files, table, csv)
    OBVIOUS
  <2>6. /\ f \in Files /\ PricesKnown(db, f)
        /\ f.events = IF table = "events" THEN {e \in Events : db.events[e] # Null} ELSE files.events
        /\ f.markets = IF table = "markets" THEN {m \in Markets : db.markets[m] # Null} ELSE files.markets
        /\ f.settled = IF table = "settlements" THEN db.settled ELSE files.settled
    BY <2>5, TableExported DEF FilesAgree
  <2>7. Agree(proc[p])
    BY DEF FilesAgree
  <2>8. /\ f.events = {e \in Events : db.events[e] # Null}
        /\ f.markets = {m \in Markets : db.markets[m] # Null}
        /\ f.settled = db.settled
    BY <1>1, <2>1, <2>3, <2>6, <2>7 DEF Agree
  <2>9. db.settled \subseteq Markets /\ ForeignKeysHold(db)
    BY Columns DEF Inv, Whole
  <2>10. f.prices \subseteq Markets \X Times
    BY <2>6 DEF Files
  <2>11. /\ f.settled \subseteq f.markets
         /\ {EventOf[m] : m \in f.markets} \subseteq f.events
         /\ {r[1] : r \in f.prices} \subseteq f.markets
    BY <2>6, <2>8, <2>9, <2>10, RowsAreThere DEF ForeignKeysHold, PricesKnown
  <2>12. QED
    BY <2>3, <2>4, <2>5, <2>11
<1>2. QED
  BY <1>1 DEF ExportStep

LEMMA StartFilesAgree == ASSUME PipelineInit PROVE FilesAgree
<1>1. PICK s \in Starts : db = s.db /\ files = s.files
  BY DEF PipelineInit
<1>2. files \in Files /\ PricesKnown(db, files)
  BY <1>1, PipelineAssumption
<1>3. \A p \in Procs : ~Exporting(proc[p])
  <2>1. <<>> # <<"tables">>
    BY One
  <2>2. QED
    BY <2>1, IdleIsCommand DEF PipelineInit, Exporting
<1>4. QED
  BY <1>2, <1>3 DEF FilesAgree, Agree

(* The files of an export nobody committed beside agree with one another:  *)
(* each row has the rows it refers to, in files written one by one and on  *)
(* top of earlier ones.                                                    *)
THEOREM ExportsAreConsistent == Spec => ExportsAgree
<1>1. PipelineInit => FilesAgree
  BY StartFilesAgree
<1>2. Inv /\ FilesAgree /\ [Next]_pipeline => FilesAgree' /\ ExportStep
  BY FilesKeepAgreeing, ExportIsConsistent
<1>3. QED
  BY <1>1, <1>2, StaysSound, PTL DEF Spec, ExportsAgree

-----------------------------------------------------------------------------
(* What the file says of the exchange.                                     *)
Final(d) == \A m \in Markets : Settled(d, m) => listing[m] = "settled"

SweepCommands == {"sync-markets", "sync-settlements", "snapshot", "full-sync"}

(* What c was told of a market and has yet to write.                       *)
Reported(c, m, status) ==
    /\ c.phases # <<>>
    /\ \/ c.cmd \in SweepCommands /\ c.page # Null /\ m = c.page.of /\ status = c.page.status
       \/ /\ c.cmd = "track" /\ Head(c.phases) \in {"find_event", "find_market", "merge"}
          /\ m = c.memo.ticker /\ status = c.memo.market.status

Truthful(l, d, c) ==
    /\ \A m \in Markets, status \in {"open", "settled"} : Reported(c, m, status) =>
          /\ status = "settled" => l[m] = "settled"
          /\ status = "open" /\ ~c.overlap => ~Settled(d, m)
    /\ c.cmd = "track" /\ c.phases # <<>> => c.memo.given.real
    /\ c.cmd \in SweepCommands \ {"sync-settlements"} => c.phases \in Seq({"events", "markets", "snapshot"})

Keeping(c, d, w) ==
    /\ \A v \in Events : d.events[v] # Null =>
          /\ d.events[v].real => w.events[v].real
          /\ d.events[v].cat => w.events[v].cat
    /\ Head(c.phases) \in {"events", "snapshot"} =>
          \A m \in Markets : d.markets[m] # Null => w.markets[m] = d.markets[m]
    /\ ~c.overlap => \A m \in Markets : Settled(d, m) => Settled(w, m)

Faithful ==
    /\ Final(db) /\ Final(work)
    /\ \A p \in Procs : Truthful(listing, db, proc[p])
    /\ holder # Null /\ Sweeping(proc[holder]) => Keeping(proc[holder], db, work)

-----------------------------------------------------------------------------
(* What each sweep leaves of the rows there are.                           *)
EventsKeep(d, e) ==
    \A v \in Events : d.events[v] # Null =>
          /\ d.events[v].real => e.events[v].real
          /\ d.events[v].cat => e.events[v].cat

LEMMA EventIgnoredKeeps ==
    ASSUME NEW d \in Database, NEW v \in Events, NEW e, e = IgnoreEvent(d, v)
    PROVE  EventsKeep(d, e) /\ e.markets = d.markets
<1>1. CASE d.events[v] # Null
  BY <1>1 DEF IgnoreEvent, EventsKeep
<1>2. CASE d.events[v] = Null
  <2>1. PICK row : row = [real |-> FALSE, cat |-> FALSE]
    OBVIOUS
  <2>2. e = [d EXCEPT !.events[v] = row]
    BY <1>2, <2>1 DEF IgnoreEvent
  <2>3. e.events = [d.events EXCEPT ![v] = row] /\ e.markets = d.markets
    BY <2>2 DEF Database
  <2>4. \A w \in Events : w # v => e.events[w] = d.events[w]
    BY <2>3, Columns
  <2>5. QED
    BY <1>2, <2>3, <2>4 DEF EventsKeep
<1>3. QED
  BY <1>1, <1>2

LEMMA EventUpsertedKeeps ==
    ASSUME NEW d \in Database, NEW v \in Events, NEW cat \in BOOLEAN, NEW e, e = UpsertEvent(d, v, cat)
    PROVE  EventsKeep(d, e) /\ e.markets = d.markets
<1>1. PICK b : b = (cat \/ (d.events[v] # Null /\ d.events[v].cat))
  OBVIOUS
<1>2. PICK row : row = [real |-> TRUE, cat |-> b]
  OBVIOUS
<1>3. e = [d EXCEPT !.events[v] = row]
  BY <1>1, <1>2 DEF UpsertEvent
<1>4. e.events = [d.events EXCEPT ![v] = row] /\ e.markets = d.markets
  BY <1>3 DEF Database
<1>5. \A w \in Events : e.events[w] = IF w = v THEN row ELSE d.events[w]
  BY <1>4, Columns
<1>6. row.real /\ (d.events[v] # Null /\ d.events[v].cat => row.cat)
  BY <1>1, <1>2
<1>7. QED
  BY <1>4, <1>5, <1>6 DEF EventsKeep

LEMMA MarketUpsertedParts ==
    ASSUME NEW d \in Database, NEW m \in Markets, NEW status, NEW e, e = UpsertMarket(d, m, status)
    PROVE  /\ e.events = d.events
           /\ e.markets[m].status = status
           /\ \A w \in Markets : w # m => e.markets[w] = d.markets[w]
<1>1. PICK row : row = [status |-> status, cat |-> FALSE]
  OBVIOUS
<1>2. e = [d EXCEPT !.markets[m] = row]
  BY <1>1 DEF UpsertMarket
<1>3. e.markets = [d.markets EXCEPT ![m] = row] /\ e.events = d.events
  BY <1>2 DEF Database
<1>4. \A w \in Markets : e.markets[w] = IF w = m THEN row ELSE d.markets[w]
  BY <1>3, Columns
<1>5. row.status = status
  BY <1>1
<1>6. QED
  BY <1>3, <1>4, <1>5

LEMMA AppliedParts ==
    ASSUME NEW d \in Database, ForeignKeysHold(d), NEW phase \in Sweeps,
           NEW page \in Page, page.of \in Objects(phase), NEW at,
           NEW e, e = Applied(phase, d, page, at)
    PROVE  /\ EventsKeep(d, e)
           /\ \A m \in Markets : e.markets[m] = d.markets[m]
                 \/ /\ m = page.of /\ phase # "events" /\ e.markets[m].status = page.status
                    /\ phase = "snapshot" => d.markets[m] = Null
<1>0. page.full \in BOOLEAN /\ page.status \in {"open", "settled"}
  BY DEF Page
<1>1. CASE phase = "events"
  <2>1. e = UpsertEvent(d, page.of, page.full) /\ page.of \in Events
    BY <1>1 DEF Applied, SyncedEvent, Objects
  <2>2. QED
    BY <1>0, <2>1, EventUpsertedKeeps
<1>2. CASE phase # "events"
  <2>1. PICK m \in Markets : m = page.of
    BY <1>2 DEF Objects
  <2>2. PICK i : i = IgnoreEvent(d, EventOf[m])
    OBVIOUS
  <2>3. i \in Database /\ ForeignKeysHold(i) /\ i.events[EventOf[m]] # Null
    BY <2>2, EventIgnored, RowsAreThere DEF Extends
  <2>4. EventsKeep(d, i) /\ i.markets = d.markets
    BY <2>2, EventIgnoredKeeps, RowsAreThere
  <2>5. PICK u : u = UpsertMarket(i, m, page.status)
    OBVIOUS
  <2>6. /\ u.events = i.events
        /\ u.markets[m].status = page.status
        /\ \A w \in Markets : w # m => u.markets[w] = i.markets[w]
    BY <2>3, <2>5, MarketUpsertedParts
  <2>7. u \in Database
    BY <1>0, <2>3, <2>5, MarketUpserted DEF Extends
  <2>8. EventsKeep(d, u)
    BY <2>4, <2>6 DEF EventsKeep
  <2>9. CASE phase = "markets"
    <3>1. e = u
      BY <2>1, <2>2, <2>5, <2>9 DEF Applied, SyncedMarket
    <3>2. QED
      BY <2>1, <2>4, <2>6, <2>8, <2>9, <3>1
  <2>10. CASE phase = "settlements"
    <3>1. e = IF page.full THEN UpsertSettlement(u, m) ELSE d
      BY <2>1, <2>2, <2>5, <2>10 DEF Applied, SettledMarket
    <3>2. CASE page.full
      <4>1. e.events = u.events /\ e.markets = u.markets
        BY <2>7, <3>1, <3>2 DEF UpsertSettlement, Database
      <4>2. QED
        BY <2>1, <2>4, <2>6, <2>8, <2>10, <4>1 DEF EventsKeep
    <3>3. CASE ~page.full
      BY <3>1, <3>3 DEF EventsKeep
    <3>4. QED
      BY <1>0, <3>2, <3>3
  <2>11. CASE phase = "snapshot"
    <3>1. PICK g : g = IgnoreMarket(i, m, page.status)
      OBVIOUS
    <3>2. /\ g \in Database /\ g.events = i.events
          /\ \A w \in Markets : w # m => g.markets[w] = i.markets[w]
          /\ g.markets[m] = i.markets[m] \/ (i.markets[m] = Null /\ g.markets[m].status = page.status)
      <4>1. CASE i.markets[m] # Null
        BY <2>3, <3>1, <4>1 DEF IgnoreMarket
      <4>2. CASE i.markets[m] = Null
        <5>1. g = u
          BY <2>5, <3>1, <4>2 DEF IgnoreMarket, UpsertMarket
        <5>2. QED
          BY <2>6, <2>7, <4>2, <5>1
      <4>3. QED
        BY <4>1, <4>2
    <3>3. e = IF page.full THEN AddPrice(g, m, at) ELSE g
      BY <2>1, <2>2, <2>11, <3>1 DEF Applied, SnappedMarket
    <3>4. e.events = g.events /\ e.markets = g.markets
      BY <3>2, <3>3 DEF AddPrice, Database
    <3>5. QED
      BY <2>1, <2>4, <2>11, <3>2, <3>4 DEF EventsKeep
  <2>12. QED
    BY <1>2, <2>9, <2>10, <2>11 DEF Sweeps
<1>3. QED
  BY <1>1, <1>2

(* The closing statement of a market sync.                                 *)
LEMMA CategoriesCopiedParts ==
    ASSUME NEW d \in Database, ForeignKeysHold(d), NEW e, e = Denormalize(d)
    PROVE  /\ e.events = d.events
           /\ \A m \in Markets : /\ e.markets[m] = Null <=> d.markets[m] = Null
                                 /\ e.markets[m] # Null =>
                                       /\ e.markets[m].status = d.markets[m].status
                                       /\ d.events[EventOf[m]].cat => e.markets[m].cat
                                       /\ d.markets[m].cat => e.markets[m].cat
<1>1. PICK f : f = [m \in Markets |->
        IF d.markets[m] = Null \/ d.events[EventOf[m]] = Null THEN d.markets[m]
        ELSE [d.markets[m] EXCEPT !.cat = @ \/ d.events[EventOf[m]].cat]]
  OBVIOUS
<1>2. e.events = d.events /\ e.markets = f
  BY <1>1 DEF Denormalize, Database
<1>3. ASSUME NEW m \in Markets
      PROVE  /\ f[m] = Null <=> d.markets[m] = Null
             /\ f[m] # Null => /\ f[m].status = d.markets[m].status
                               /\ d.events[EventOf[m]].cat => f[m].cat
                               /\ d.markets[m].cat => f[m].cat
  <2>1. d.markets[m] \in MarketRow \union {Null} /\ d.events[EventOf[m]] \in EventRow \union {Null}
    BY Columns, RowsAreThere
  <2>2. CASE d.markets[m] = Null
    BY <1>1, <2>2
  <2>3. CASE d.markets[m] # Null
    <3>1. d.events[EventOf[m]] # Null
      BY <2>3 DEF ForeignKeysHold
    <3>2. PICK b : b = (d.markets[m].cat \/ d.events[EventOf[m]].cat)
      OBVIOUS
    <3>3. f[m] = [d.markets[m] EXCEPT !.cat = b]
      BY <1>1, <2>3, <3>1, <3>2
    <3>4. d.markets[m].cat \in BOOLEAN /\ d.events[EventOf[m]].cat \in BOOLEAN /\ d.markets[m] \in MarketRow
      BY <2>1, <2>3, <3>1 DEF MarketRow, EventRow
    <3>5. f[m] \in MarketRow /\ f[m].status = d.markets[m].status /\ f[m].cat = b
      BY <3>2, <3>3, <3>4 DEF MarketRow
    <3>6. QED
      BY <2>3, <3>2, <3>5, RowsAreThere
  <2>4. QED
    BY <2>2, <2>3
<1>4. QED
  BY <1>2, <1>3

-----------------------------------------------------------------------------
(* What a step does to the lock.                                           *)
Locked(p) ==
    \/ UNCHANGED <<db, work, holder>>
    \/ holder' = Null
    \/ Apply(p) /\ db' = db /\ LockFree(p) /\ holder' = p
       /\ work' = Applied(Phase(p), work, proc[p].page, proc[p].at)
    \/ Store(p) /\ db' = db /\ LockFree(p) /\ holder' = p
       /\ \E t : work' = [work EXCEPT !.articles[proc[p].page.of] = t]

LEMMA LockSteps == ASSUME NEW p \in Procs, Acts(p) PROVE Locked(p) /\ listing' = listing
<1>1. ASSUME NEW c, Begin(p, c) \/ Note(p, c) PROVE Locked(p) /\ listing' = listing
  BY <1>1 DEF Begin, Note, Locked
<1>2. ASSUME NEW why, Fail(p, why) PROVE Locked(p) /\ listing' = listing
  BY <1>2 DEF Fail, Locked
<1>3. ASSUME NEW d, NEW c, WriteAndCommit(p, d, c) PROVE Locked(p) /\ listing' = listing
  BY <1>2, <1>3 DEF WriteAndCommit, Locked
<1>4. CASE Begins(p)
  BY <1>1, <1>4 DEF Begins, BeginSyncMarkets, BeginSyncSettlements, BeginSnapshot, BeginFullSync,
                    BeginPrune, BeginExport, BeginTrack, BeginUntrack, BeginCollect
<1>5. CASE Fetch(p) \/ CountRows(p) \/ FindEvent(p) \/ FindMarket(p) \/ FindItem(p)
  BY <1>1, <1>5 DEF Fetch, CountRows, FindEvent, FindMarket, FindItem
<1>6. CASE Query(p) \/ Exhausted(p) \/ LookUp(p) \/ ItemDone(p)
  BY <1>1, <1>6 DEF Query, Exhausted, LookUp, ItemDone
<1>7. CASE ExportTable(p)
  BY <1>7 DEF ExportTable, Locked
<1>8. CASE Abort(p)
  BY <1>2, <1>8 DEF Abort
<1>9. CASE EndSweep(p) \/ Prune(p) \/ Retire(p) \/ Link(p)
  BY <1>1, <1>3, <1>9 DEF EndSweep, Prune, Retire, Link
<1>10. CASE Enrol(p)
  BY <1>2, <1>3, <1>10 DEF Enrol
<1>11. CASE MergeRows(p)
  BY <1>1, <1>2, <1>3, <1>11 DEF MergeRows
<1>12. CASE Apply(p)
  <2>1. PICK d : d = Applied(Phase(p), work, proc[p].page, proc[p].at)
    OBVIOUS
  <2>2. PICK c : Note(p, c) \/ Write(p, d, c)
    BY <1>12, <2>1 DEF Apply
  <2>3. CASE Write(p, d, c) /\ ForeignKeysHold(d)
    BY <1>12, <2>1, <2>3 DEF Write, Locked
  <2>4. QED
    BY <1>1, <1>2, <2>2, <2>3 DEF Write
<1>13. CASE Store(p)
  <2>1. PICK d : d = [work EXCEPT !.articles[proc[p].page.of] = now]
    OBVIOUS
  <2>2. PICK c : Note(p, c) \/ Write(p, d, c)
    BY <1>13, <2>1 DEF Store
  <2>3. CASE Write(p, d, c) /\ ForeignKeysHold(d)
    BY <1>13, <2>1, <2>3 DEF Write, Locked
  <2>4. QED
    BY <1>1, <1>2, <2>2, <2>3 DEF Write
<1>14. QED
  BY <1>4, <1>5, <1>6, <1>7, <1>8, <1>9, <1>10, <1>11, <1>12, <1>13 DEF Acts, Reads, Commits

(* What the exchange has settled stays settled.                            *)
LEMMA SettledForGood ==
    ASSUME Inv, [Next]_pipeline
    PROVE  \A m \in Markets : listing[m] = "settled" => listing'[m] = "settled"
<1>1. CASE \E m \in Markets : Settle(m)
  BY <1>1 DEF Settle, Inv
<1>2. CASE \E p \in Procs : Acts(p)
  BY <1>2, LockSteps
<1>3. QED
  BY <1>1, <1>2, WhoActs DEF Tick, pipeline

LEMMA KeptSoFar ==
    ASSUME Inv, Faithful, NEW p \in Procs, Sweeping(proc[p]), holder \in {Null, p}
    PROVE  Keeping(proc[p], db, work)
<1>1. CASE holder = p
  BY <1>1, NullIsNoProcess DEF Faithful
<1>2. CASE holder = Null
  <2>1. work = db
    BY <1>2 DEF Inv, LockSound
  <2>2. QED
    BY <2>1 DEF Keeping
<1>3. QED
  BY <1>1, <1>2

-----------------------------------------------------------------------------
(* A sweep's own steps, and those of track.                                *)
SweepPhases == {"events", "markets", "snapshot"}

LEMMA NothingReported ==
    ASSUME NEW l, NEW d, NEW c, c.cmd # "track", c.page = Null \/ c.phases = <<>>,
           c.cmd \in SweepCommands \ {"sync-settlements"} => c.phases \in Seq(SweepPhases)
    PROVE  Truthful(l, d, c)
  BY DEF Truthful, Reported, SweepPhases

LEMMA EndedParts ==
    ASSUME NEW c, NEW how, NEW e, e = Ended(c, how)
    PROVE  e.cmd = c.cmd /\ e.phases = <<>> /\ e.page = Null
  BY DEF Ended, Idle

LEMMA NextParts ==
    ASSUME NEW c \in Commands, NEW n, n = NextPhase(c)
    PROVE  n.page = Null /\ n.phases = Tail(c.phases)
<1>1. CASE Tail(c.phases) = <<>>
  <2>1. n = Ended(c, "ok")
    BY <1>1 DEF NextPhase
  <2>2. QED
    BY <1>1, <2>1, EndedParts
<1>2. CASE Tail(c.phases) # <<>>
  <2>1. PICK at : n = [c EXCEPT !.phases = Tail(c.phases), !.rest = Todo(Head(Tail(c.phases)), c.opt),
                                !.page = Null, !.at = at]
    BY <1>2 DEF NextPhase
  <2>2. QED
    BY <2>1 DEF Commands
<1>3. QED
  BY <1>1, <1>2

SweepAdvances(p) ==
    /\ proc'[p].phases \in {proc[p].phases, Tail(proc[p].phases), <<>>}
    /\ \/ proc'[p].page = Null
       \/ /\ db' = db /\ proc'[p].page.of \in Objects(Phase(p)) /\ proc'[p].overlap = proc[p].overlap
          /\ proc'[p].page.status = IF proc'[p].page.of \in Markets THEN listing[proc'[p].page.of] ELSE "open"

LEMMA SweepsAdvance ==
    ASSUME Inv, NEW p \in Procs, Running(p), Phase(p) \in Sweeps, Fetch(p) \/ Apply(p) \/ EndSweep(p) \/ Abort(p)
    PROVE  SweepAdvances(p)
<1> DEFINE c == proc[p]
<1>1. c \in Commands /\ proc \in [Procs -> Commands] /\ Sweeping(c)
  BY OnlySweepsSweep DEF Inv
<1>2. ASSUME NEW why, Fail(p, why) PROVE SweepAdvances(p)
  <2>1. PICK e : e = Ended(c, why)
    OBVIOUS
  <2>2. proc'[p] = e
    BY <1>1, <1>2, <2>1 DEF Fail
  <2>3. QED
    BY <2>1, <2>2, EndedParts DEF SweepAdvances
<1>3. ASSUME NEW n, n.page = Null, n.phases \in {c.phases, Tail(c.phases)},
             \/ Note(p, n)
             \/ \E d : Write(p, d, n)
             \/ \E d : WriteAndCommit(p, d, n)
      PROVE  SweepAdvances(p)
  <2>1. CASE proc'[p] = n
    BY <1>3, <2>1 DEF SweepAdvances
  <2>2. CASE \E why : Fail(p, why)
    BY <1>2, <2>2
  <2>3. QED
    BY <1>1, <1>3, <2>1, <2>2 DEF Note, Write, WriteAndCommit
<1>4. CASE Fetch(p)
  <2> DEFINE x == CHOOSE y \in Ahead(p) : TRUE
             status == IF x \in Markets THEN listing[x] ELSE "open"
  <2>1. x \in Objects(Phase(p))
    BY <1>1, <1>4 DEF Fetch, Ahead, Sweeping, Phase
  <2>2. PICK full \in BOOLEAN :
          Note(p, [c EXCEPT !.rest = @ \ {x}, !.page = [of |-> x, full |-> full, status |-> status]])
    BY <1>4 DEF Fetch
  <2>3. PICK page : page = [of |-> x, full |-> full, status |-> status]
    OBVIOUS
  <2> HIDE DEF x
  <2>4. page.of = x /\ page.status = IF x \in Markets THEN listing[x] ELSE "open"
    BY <2>3
  <2>5. PICK n : n = [c EXCEPT !.rest = @ \ {x}, !.page = page]
    OBVIOUS
  <2>6. n.phases = c.phases /\ n.page = page /\ n.overlap = c.overlap
    BY <1>1, <2>5 DEF Commands
  <2>7. proc'[p] = n /\ db' = db
    BY <1>1, <2>2, <2>3, <2>5 DEF Note
  <2>8. QED
    BY <2>1, <2>4, <2>6, <2>7 DEF SweepAdvances
<1>5. CASE Apply(p)
  <2>1. PICK n : n = [c EXCEPT !.page = Null]
    OBVIOUS
  <2>2. n.page = Null /\ n.phases = c.phases
    BY <1>1, <2>1 DEF Commands
  <2>3. Note(p, n) \/ \E d : Write(p, d, n)
    BY <1>5, <2>1 DEF Apply
  <2>4. QED
    BY <1>3, <2>2, <2>3
<1>6. CASE EndSweep(p)
  <2>1. PICK n : n = NextPhase(c)
    OBVIOUS
  <2>2. n.page = Null /\ n.phases = Tail(c.phases)
    BY <1>1, <2>1, NextParts
  <2>3. Note(p, n) \/ \E d : WriteAndCommit(p, d, n)
    BY <1>6, <2>1 DEF EndSweep
  <2>4. QED
    BY <1>3, <2>2, <2>3
<1>7. CASE Abort(p)
  BY <1>2, <1>7 DEF Abort
<1>8. QED
  BY <1>4, <1>5, <1>6, <1>7

TrackAdvances(p) ==
    \/ proc'[p].phases = <<>>
    \/ /\ proc'[p].memo.ticker = proc[p].memo.ticker
       /\ proc'[p].memo.given = proc[p].memo.given
       /\ proc'[p].memo.market = proc[p].memo.market
       /\ \/ Head(proc'[p].phases) \in {"find_item", "enrol"}
          \/ Phase(p) \in {"find_event", "find_market"} /\ db' = db /\ proc'[p].overlap = proc[p].overlap

LEMMA WhoMayTrack ==
    ASSUME Inv, NEW p \in Procs, Acts(p), Running(p), proc[p].cmd = "track"
    PROVE  /\ Tracking(db, proc[p]) /\ Phase(p) \in {"find_event", "find_market", "merge", "find_item", "enrol"}
           /\ FindEvent(p) \/ FindMarket(p) \/ MergeRows(p) \/ FindItem(p) \/ Enrol(p) \/ Abort(p)
<1>1. Tracking(db, proc[p]) /\ Phase(p) \in {"find_event", "find_market", "merge", "find_item", "enrol"}
  BY WhoseIsThis DEF Sweeping, Pruning, Exporting, Untracking, Collecting
<1>2. ~Begins(p)
  BY BeginningsArePrivate
<1>3. Phase(p) \notin Sweeps /\ Phase(p) \notin {"tables", "retire", "items", "results", "store", "link"}
  BY <1>1 DEF Sweeps
<1>4. /\ Fetch(p) \/ Apply(p) \/ EndSweep(p) => Phase(p) \in Sweeps
      /\ Retire(p) => Phase(p) = "retire"
      /\ Query(p) \/ Exhausted(p) => Phase(p) = "items"
      /\ LookUp(p) \/ ItemDone(p) => Phase(p) = "results"
      /\ Store(p) => Phase(p) = "store"
      /\ Link(p) => Phase(p) = "link"
      /\ ExportTable(p) => Phase(p) = "tables"
      /\ Prune(p) \/ CountRows(p) => proc[p].cmd = "prune"
  BY DEF In, Fetch, Apply, EndSweep, Retire, Query, Exhausted, LookUp, ItemDone, Store, Link, ExportTable,
         Prune, CountRows
<1>5. QED
  BY <1>1, <1>2, <1>3, <1>4 DEF Acts, Reads, Commits

LEMMA TracksAdvance ==
    ASSUME Inv, NEW p \in Procs, Acts(p), Running(p), proc[p].cmd = "track"
    PROVE  TrackAdvances(p)
<1> DEFINE c == proc[p]
           k == c.memo
<1>1. c \in Commands /\ proc \in [Procs -> Commands] /\ Tracking(db, c) /\ k \in TrackMemo /\ c.phases # <<>>
  BY WhoMayTrack DEF Inv, Tracking, Running
<1>2. PICK m : m = NextPhase(c)
  OBVIOUS
<1>3. Phase(p) # "enrol" =>
        /\ m \in Commands /\ m.memo = k /\ m.overlap = c.overlap
        /\ Phase(p) = "merge" => Head(m.phases) = "find_item"
        /\ Phase(p) = "find_item" => Head(m.phases) = "enrol"
  BY <1>1, <1>2, TrackingAdvances
<1>4. ASSUME NEW why, Fail(p, why) PROVE TrackAdvances(p)
  BY <1>4, AbortEnds DEF TrackAdvances
<1>5. ASSUME NEW memo \in TrackMemo, memo.ticker = k.ticker, memo.given = k.given, memo.market = k.market,
             Phase(p) \in {"find_event", "find_market", "find_item"}, Note(p, [m EXCEPT !.memo = memo])
      PROVE  TrackAdvances(p)
  <2>1. PICK n : n = [m EXCEPT !.memo = memo]
    OBVIOUS
  <2>2. n.memo = memo /\ n.phases = m.phases /\ n.overlap = m.overlap
    BY <1>3, <1>5, <2>1, TrackingRemembers
  <2>3. proc'[p] = n /\ db' = db
    BY <1>1, <1>5, <2>1 DEF Note
  <2>4. QED
    BY <1>3, <1>5, <2>2, <2>3 DEF TrackAdvances
<1>6. CASE FindEvent(p)
  <2>1. PICK seen : seen = db.events[k.event]
    OBVIOUS
  <2>2. PICK memo : memo = [k EXCEPT !.seen_event = seen]
    OBVIOUS
  <2>3. Phase(p) = "find_event"
    BY <1>6 DEF FindEvent, In
  <2>4. seen \in EventRow \union {Null}
    BY <1>1, <2>1, Columns DEF TrackMemo, Inv, Whole
  <2>5. memo \in TrackMemo /\ memo.ticker = k.ticker /\ memo.given = k.given /\ memo.market = k.market
    BY <1>1, <2>2, <2>4 DEF TrackMemo
  <2>6. Note(p, [m EXCEPT !.memo.seen_event = seen])
    BY <1>2, <1>6, <2>1 DEF FindEvent
  <2>7. Note(p, [m EXCEPT !.memo = memo])
    BY <1>3, <2>2, <2>3, <2>6
  <2>8. QED
    BY <1>5, <2>3, <2>5, <2>7
<1>7. CASE FindMarket(p)
  <2>1. PICK seen : seen = db.markets[k.ticker]
    OBVIOUS
  <2>2. PICK memo : memo = [k EXCEPT !.seen_market = seen]
    OBVIOUS
  <2>3. Phase(p) = "find_market"
    BY <1>7 DEF FindMarket, In
  <2>4. seen \in MarketRow \union {Null}
    <3>1. k.ticker \in Markets
      BY <1>1, <2>3, TrackParts DEF Tracking, Phase
    <3>2. QED
      BY <2>1, <3>1, Columns DEF Inv, Whole
  <2>5. memo \in TrackMemo /\ memo.ticker = k.ticker /\ memo.given = k.given /\ memo.market = k.market
    BY <1>1, <2>2, <2>4 DEF TrackMemo
  <2>6. Note(p, [m EXCEPT !.memo.seen_market = seen])
    BY <1>2, <1>7, <2>1 DEF FindMarket
  <2>7. Note(p, [m EXCEPT !.memo = memo])
    BY <1>3, <2>2, <2>3, <2>6
  <2>8. QED
    BY <1>5, <2>3, <2>5, <2>7
<1>8. CASE FindItem(p)
  <2>1. PICK seen : seen = db.tracked[k.ticker]
    OBVIOUS
  <2>2. PICK memo : memo = [k EXCEPT !.seen_item = seen]
    OBVIOUS
  <2>3. Phase(p) = "find_item"
    BY <1>8 DEF FindItem, In
  <2>4. seen \in Enrolment
    BY <1>1, <2>1, Columns DEF TrackMemo, Inv, Whole
  <2>5. memo \in TrackMemo /\ memo.ticker = k.ticker /\ memo.given = k.given /\ memo.market = k.market
    BY <1>1, <2>2, <2>4 DEF TrackMemo
  <2>6. Note(p, [m EXCEPT !.memo.seen_item = seen])
    BY <1>2, <1>8, <2>1 DEF FindItem
  <2>7. Note(p, [m EXCEPT !.memo = memo])
    BY <1>3, <2>2, <2>3, <2>6
  <2>8. QED
    BY <1>5, <2>3, <2>5, <2>7
<1>9. CASE MergeRows(p)
  <2>1. Phase(p) = "merge"
    BY <1>9 DEF MergeRows, In
  <2>2. (\E why : Fail(p, why)) \/ proc'[p] = m
    BY <1>1, <1>2, <1>9 DEF MergeRows, Note, WriteAndCommit
  <2>3. QED
    BY <1>3, <1>4, <2>1, <2>2 DEF TrackAdvances
<1>10. CASE Enrol(p)
  <2>1. Phase(p) = "enrol" /\ Phase(p) = Head(c.phases)
    BY <1>10 DEF Enrol, In, Phase
  <2>2. Tail(c.phases) = <<>>
    BY <1>1, <2>1, TrackParts DEF Tracking
  <2>3. m.phases = <<>>
    BY <1>1, <1>2, <2>2, Finished
  <2>4. (\E why : Fail(p, why)) \/ proc'[p] = m
    BY <1>1, <1>2, <1>10 DEF Enrol, WriteAndCommit
  <2>5. QED
    BY <1>4, <2>3, <2>4 DEF TrackAdvances
<1>11. CASE Abort(p)
  BY <1>4, <1>11 DEF Abort
<1>12. QED
  BY <1>6, <1>7, <1>8, <1>9, <1>10, <1>11, WhoMayTrack

LEMMA TruthfulFromTheStart ==
    ASSUME Inv, Final(db), NEW p \in Procs, Begins(p)
    PROVE  Truthful(listing, db, proc'[p])
<1>1. ASSUME NEW cmd, NEW phases, NEW opt, NEW at, NEW memo, Begin(p, Command(cmd, phases, opt, at, memo)),
             cmd # "track", cmd \in SweepCommands \ {"sync-settlements"} => phases \in Seq(SweepPhases)
      PROVE  Truthful(listing, db, proc'[p])
  <2>1. PICK c : c = Command(cmd, phases, opt, at, memo)
    OBVIOUS
  <2>2. c.cmd = cmd /\ c.phases = phases /\ c.page = Null
    BY <2>1 DEF Command
  <2>3. proc'[p] = c
    BY <1>1, <2>1 DEF Begin, Inv
  <2>4. QED
    BY <1>1, <2>2, <2>3, NothingReported
<1>2. CASE BeginSyncMarkets(p)
  <2>1. <<"events", "markets">> \in Seq(SweepPhases)
    BY DEF SweepPhases
  <2>2. QED
    BY <1>1, <1>2, <2>1 DEF BeginSyncMarkets
<1>3. CASE BeginSnapshot(p)
  <2>1. <<"snapshot">> \in Seq(SweepPhases)
    BY DEF SweepPhases
  <2>2. QED
    BY <1>1, <1>3, <2>1 DEF BeginSnapshot
<1>4. CASE BeginFullSync(p)
  <2>1. <<"events", "markets", "snapshot">> \in Seq(SweepPhases)
    BY DEF SweepPhases
  <2>2. QED
    BY <1>1, <1>4, <2>1 DEF BeginFullSync
<1>5. CASE BeginSyncSettlements(p)
  BY <1>1, <1>5 DEF BeginSyncSettlements
<1>6. CASE BeginPrune(p)
  BY <1>1, <1>6 DEF BeginPrune, SweepCommands
<1>7. CASE BeginExport(p)
  BY <1>1, <1>7 DEF BeginExport, SweepCommands
<1>8. CASE BeginUntrack(p)
  BY <1>1, <1>8 DEF BeginUntrack, SweepCommands
<1>9. CASE BeginCollect(p)
  BY <1>1, <1>9 DEF BeginCollect, SweepCommands
<1>10. CASE BeginTrack(p)
  <2> DEFINE St(t) == IF t \in Markets THEN listing[t] ELSE "open"
  <2> DEFINE Starting(t, cat, steps, event) ==
               Begin(p, Command("track", steps, {}, now,
                       [ticker |-> t, event |-> event, given |-> [real |-> TRUE, cat |-> cat],
                        market |-> [status |-> St(t), cat |-> FALSE],
                        seen_event |-> Null, seen_market |-> Null, seen_item |-> "no"]))
  <2>0. PICK t \in Watched, cat \in BOOLEAN : \E steps, event : Starting(t, cat, steps, event)
    BY <1>10 DEF BeginTrack
  <2>1. PICK steps, event : Starting(t, cat, steps, event)
    BY <2>0
  <2>2. PICK given : given = [real |-> TRUE, cat |-> cat]
    OBVIOUS
  <2>3. PICK row : row = [status |-> St(t), cat |-> FALSE]
    OBVIOUS
  <2>4. PICK memo : memo = [ticker |-> t, event |-> event, given |-> given, market |-> row,
                            seen_event |-> Null, seen_market |-> Null, seen_item |-> "no"]
    OBVIOUS
  <2>5. given.real /\ row.status = St(t) /\ memo.ticker = t /\ memo.given = given /\ memo.market = row
    BY <2>2, <2>3, <2>4
  <2>6. PICK c : c = Command("track", steps, {}, now, memo)
    OBVIOUS
  <2>7. proc'[p] = c
    BY <2>1, <2>2, <2>3, <2>4, <2>6 DEF Begin, Inv
  <2>8. c.cmd = "track" /\ c.memo = memo
    BY <2>6 DEF Command
  <2>9. \A m \in Markets, status \in {"open", "settled"} : Reported(c, m, status) => listing[m] = status
    BY <2>5, <2>8 DEF Reported, SweepCommands
  <2>10. QED
    BY <2>5, <2>7, <2>8, <2>9 DEF Truthful, SweepCommands, Final
<1>11. QED
  BY <1>2, <1>3, <1>4, <1>5, <1>6, <1>7, <1>8, <1>9, <1>10 DEF Begins

(* A sweep goes on with the truth.                                         *)
LEMMA SweepsStayTruthful ==
    ASSUME Inv, Final(db), NEW p \in Procs, Truthful(listing, db, proc[p]), Acts(p), Running(p),
           proc[p].cmd \in SweepCommands
    PROVE  Truthful(listing, db', proc'[p])
<1> DEFINE c == proc[p]
<1>1. PICK n : n = proc'[p]
  OBVIOUS
<1>2. Sweeping(c) /\ Phase(p) \in Sweeps
  BY WhoseIsThis DEF SweepCommands, Pruning, Exporting, Tracking, Untracking, Collecting
<1>3. SweepAdvances(p)
  BY <1>2, OwnSteps, SweepsAdvance
<1>4. n.cmd = c.cmd /\ c.cmd # "track"
  BY <1>1, CommandKept DEF Named, SweepCommands
<1>5. c.cmd # "sync-settlements" => n.phases \in Seq(SweepPhases)
  <2>1. c.cmd # "sync-settlements" => c.phases \in Seq(SweepPhases)
    BY DEF Truthful, SweepPhases
  <2>2. c.phases # <<>>
    BY DEF Running
  <2>3. <<>> \in Seq(SweepPhases)
    OBVIOUS
  <2>4. c.phases \in Seq(SweepPhases) => Tail(c.phases) \in Seq(SweepPhases)
    BY <2>2, HeadAndTail
  <2>5. n.phases \in {c.phases, Tail(c.phases), <<>>}
    BY <1>1, <1>3 DEF SweepAdvances
  <2>6. QED
    BY <2>1, <2>3, <2>4, <2>5
<1>6. CASE n.page = Null
  BY <1>1, <1>4, <1>5, <1>6, NothingReported
<1>7. CASE n.page # Null
  <2>1. db' = db /\ n.page.of \in Objects(Phase(p))
        /\ n.page.status = IF n.page.of \in Markets THEN listing[n.page.of] ELSE "open"
    BY <1>1, <1>3, <1>7 DEF SweepAdvances
  <2>2. \A m \in Markets, status \in {"open", "settled"} : Reported(n, m, status) => listing[m] = status
    BY <1>4, <2>1 DEF Reported
  <2>3. QED
    BY <1>1, <1>4, <1>5, <2>1, <2>2 DEF Truthful, Final, SweepPhases
<1>8. QED
  BY <1>6, <1>7

LEMMA TracksStayTruthful ==
    ASSUME Inv, NEW p \in Procs, Truthful(listing, db, proc[p]), Acts(p), Running(p), proc[p].cmd = "track"
    PROVE  Truthful(listing, db', proc'[p])
<1> DEFINE c == proc[p]
<1>1. PICK n : n = proc'[p]
  OBVIOUS
<1>2. n.cmd = "track" /\ "track" \notin SweepCommands /\ c.phases # <<>>
  BY <1>1, CommandKept DEF Named, SweepCommands, Running
<1>3. TrackAdvances(p)
  BY TracksAdvance
<1>4. CASE n.phases = <<>>
  BY <1>2, <1>1, <1>4 DEF Truthful, Reported
<1>5. CASE n.phases # <<>>
  <2>1. n.memo.ticker = c.memo.ticker /\ n.memo.given = c.memo.given /\ n.memo.market = c.memo.market
    BY <1>1, <1>3, <1>5 DEF TrackAdvances
  <2>2. c.memo.given.real
    BY <1>2 DEF Truthful
  <2>3. CASE Head(n.phases) \in {"find_item", "enrol"}
    <3>1. \A m \in Markets, status \in {"open", "settled"} : ~Reported(n, m, status)
      BY <1>2, <2>3 DEF Reported
    <3>2. QED
      BY <1>1, <1>2, <2>1, <2>2, <3>1 DEF Truthful
  <2>4. CASE Phase(p) \in {"find_event", "find_market"} /\ db' = db /\ n.overlap = c.overlap
    <3>1. \A m \in Markets, status \in {"open", "settled"} : Reported(n, m, status) => Reported(c, m, status)
      BY <1>2, <2>1, <2>4 DEF Reported, Phase
    <3>2. QED
      BY <1>1, <1>2, <2>1, <2>2, <2>4, <3>1 DEF Truthful
  <2>5. QED
    BY <1>1, <1>3, <1>5, <2>3, <2>4 DEF TrackAdvances
<1>6. QED
  BY <1>4, <1>5

LEMMA EveryoneStaysTruthful ==
    ASSUME Inv, Faithful, [Next]_pipeline, NEW p \in Procs
    PROVE  Truthful(listing', db', proc'[p])
<1>1. Truthful(listing, db, proc[p]) /\ Final(db)
  BY DEF Faithful
<1>2. CASE ~\E q \in Procs : Acts(q)
  <2>1. proc' = proc /\ db' = db
    BY <1>2, WhoActs DEF Settle, Tick, pipeline
  <2>2. QED
    BY <1>1, <2>1, SettledForGood DEF Truthful
<1>3. ASSUME NEW q \in Procs, Acts(q), q # p PROVE Truthful(listing', db', proc'[p])
  <2>1. PICK n : n = proc'[p]
    OBVIOUS
  <2>2. PICK c : c = proc[p]
    OBVIOUS
  <2>3. /\ n.cmd = c.cmd /\ n.phases = c.phases /\ n.page = c.page /\ n.memo = c.memo
        /\ c.phases # <<>> /\ ~n.overlap => db' = db /\ ~c.overlap
    BY <1>3, <2>1, <2>2, EveryoneElseStandsBy DEF StandBy, Running
  <2>4. listing' = listing
    BY <1>3, LockSteps
  <2>5. \A m \in Markets, status \in {"open", "settled"} : Reported(n, m, status) =>
            Reported(c, m, status) /\ c.phases # <<>>
    BY <2>3 DEF Reported
  <2>6. Truthful(listing, db', n)
    BY <1>1, <2>2, <2>3, <2>5 DEF Truthful
  <2>7. QED
    BY <2>1, <2>4, <2>6
<1>4. CASE Acts(p)
  <2>1. listing' = listing
    BY <1>4, LockSteps
  <2>2. CASE ~Running(p)
    <3>1. Begins(p)
      BY <1>4, <2>2 DEF Acts, Reads, Commits, In, Fetch, Apply, EndSweep, FindEvent, FindMarket, FindItem,
             MergeRows, Enrol, Retire, Query, Exhausted, LookUp, ItemDone, Store, Link, ExportTable, Prune,
             CountRows, Abort
    <3>2. db' = db
      BY <3>1, BeginningsArePrivate DEF Privately
    <3>3. QED
      BY <1>1, <2>1, <3>1, <3>2, TruthfulFromTheStart
  <2>3. CASE Running(p) /\ proc[p].cmd \in SweepCommands
    BY <1>1, <1>4, <2>1, <2>3, SweepsStayTruthful
  <2>4. CASE Running(p) /\ proc[p].cmd = "track"
    BY <1>1, <1>4, <2>1, <2>4, TracksStayTruthful
  <2>5. CASE Running(p) /\ proc[p].cmd \notin SweepCommands \union {"track"}
    <3>1. PICK n : n = proc'[p]
      OBVIOUS
    <3>2. n.cmd \notin SweepCommands \union {"track"}
      BY <1>4, <2>5, <3>1, CommandKept DEF Named
    <3>3. Truthful(listing', db', n)
      BY <3>2 DEF Truthful, Reported
    <3>4. QED
      BY <3>1, <3>3
  <2>6. QED
    BY <2>2, <2>3, <2>4, <2>5
<1>5. QED
  BY <1>2, <1>3, <1>4

-----------------------------------------------------------------------------
(* What track merges into the rows it found.                               *)
MergedRight(p) ==
    LET k == proc[p].memo IN
    /\ k.given.real => \A v \in Events : db.events[v] # Null =>
                           (db.events[v].real => db'.events[v].real)
    /\ \A m \in Markets :
          \/ db'.markets[m] = db.markets[m]
          \/ /\ m = k.ticker
             /\ \/ db'.markets[m].status = k.market.status
                \/ /\ db.markets[m] # Null /\ proc[p].overlap
                   /\ db'.markets[m].status = db.markets[m].status

LEMMA RealStaysReal ==
    ASSUME NEW seen \in EventRow \union {Null}, NEW row \in EventRow, NEW given \in EventRow, seen # Null,
           row.real, given.real, NEW e, e = MergeRow(seen, row, given)
    PROVE  e.real
<1>1. DOMAIN given = {"real", "cat"}
  BY DEF EventRow
<1>2. e = [f \in {"real", "cat"} |-> IF given[f] = seen[f] THEN row[f] ELSE given[f]]
  BY <1>1 DEF MergeRow
<1>3. e["real"] = IF given["real"] = seen["real"] THEN row["real"] ELSE given["real"]
  BY <1>2
<1>4. QED
  BY <1>3

LEMMA StatusMerged ==
    ASSUME NEW seen \in MarketRow \union {Null}, NEW row \in MarketRow \union {Null}, NEW given \in MarketRow,
           seen # Null => row # Null, NEW m, m = MergeRow(seen, row, given)
    PROVE  \/ m.status = given.status
           \/ seen # Null /\ given.status = seen.status /\ m.status = row.status
<1>1. CASE seen = Null
  BY <1>1 DEF MergeRow
<1>2. CASE seen # Null
  <2>1. DOMAIN given = {"status", "cat"}
    BY DEF MarketRow
  <2>2. m = [f \in {"status", "cat"} |-> IF given[f] = seen[f] THEN row[f] ELSE given[f]]
    BY <1>2, <2>1 DEF MergeRow
  <2>3. m["status"] = IF given["status"] = seen["status"] THEN row["status"] ELSE given["status"]
    BY <2>2
  <2>4. QED
    BY <1>2, <2>3
<1>3. QED
  BY <1>1, <1>2

LEMMA MergesRight ==
    ASSUME Inv, NEW p \in Procs, MergeRows(p)
    PROVE  MergedRight(p)
<1>1. CASE db' = db
  BY <1>1 DEF MergedRight
<1>2. CASE db' # db
  <2>1. PICK k : k = proc[p].memo
    OBVIOUS
  <2>2. Merges(k, db, db') /\ Tracking(db, proc[p]) /\ Phase(p) = "merge"
    BY <1>2, <2>1, MergeCommits
  <2>3. /\ k \in TrackMemo
        /\ k.seen_event # Null => db.events[k.event] # Null
        /\ k.seen_market # Null /\ k.ticker \in Markets => db.markets[k.ticker] # Null
        /\ k.ticker \in Markets /\ ~proc[p].overlap => k.seen_market = db.markets[k.ticker]
    BY <2>1, <2>2 DEF Tracking, Phase
  <2>4. /\ k.event \in Events /\ k.given \in EventRow /\ k.market \in MarketRow
        /\ k.seen_event \in EventRow \union {Null} /\ k.seen_market \in MarketRow \union {Null}
    BY <2>3 DEF TrackMemo
  <2>5. db \in Database
    BY DEF Inv, Whole
  <2>6. PICK row : row = db.events[k.event]
    OBVIOUS
  <2>7. PICK er : er = MergeRow(k.seen_event, row, k.given)
    OBVIOUS
  <2>8. row \in EventRow \union {Null} /\ (k.seen_event # Null => row # Null) /\ (k.seen_event = Null => row = Null)
    BY <2>2, <2>3, <2>4, <2>5, <2>6, Columns DEF Merges, MergeConflicts
  <2>9. k.given.real /\ row # Null /\ row.real => er.real
    <3>1. PICK seen : seen = k.seen_event
      OBVIOUS
    <3>2. PICK given : given = k.given
      OBVIOUS
    <3>3. seen \in EventRow \union {Null} /\ given \in EventRow /\ er = MergeRow(seen, row, given)
          /\ (seen # Null => row # Null) /\ (seen = Null => row = Null)
      BY <2>4, <2>7, <2>8, <3>1, <3>2
    <3>4. QED
      BY <2>8, <3>2, <3>3, RealStaysReal
  <2>10. \A v \in Events : db'.events[v] = IF v = k.event THEN er ELSE db.events[v]
    BY <2>2, <2>5, <2>6, <2>7, Columns DEF Merges
  <2>11. k.given.real => \A v \in Events : db.events[v] # Null => (db.events[v].real => db'.events[v].real)
    BY <2>6, <2>9, <2>10
  <2>12. CASE k.ticker \notin Markets
    BY <2>1, <2>2, <2>11, <2>12 DEF Merges, MergedRight
  <2>13. CASE k.ticker \in Markets
    <3>1. PICK old : old = db.markets[k.ticker]
      OBVIOUS
    <3>2. PICK mr : mr = MergeRow(k.seen_market, old, k.market)
      OBVIOUS
    <3>3. old \in MarketRow \union {Null} /\ (k.seen_market # Null => old # Null)
      BY <2>3, <2>5, <2>13, <3>1, Columns
    <3>4. \/ mr.status = k.market.status
          \/ k.seen_market # Null /\ k.market.status = k.seen_market.status /\ mr.status = old.status
      <4>1. PICK seen : seen = k.seen_market
        OBVIOUS
      <4>2. PICK given : given = k.market
        OBVIOUS
      <4>3. seen \in MarketRow \union {Null} /\ given \in MarketRow /\ mr = MergeRow(seen, old, given)
            /\ (seen # Null => old # Null)
        BY <2>4, <3>2, <3>3, <4>1, <4>2
      <4>4. QED
        BY <3>3, <4>1, <4>2, <4>3, StatusMerged
    <3>5. \A m \in Markets : db'.markets[m] = IF m = k.ticker THEN mr ELSE db.markets[m]
      BY <2>2, <2>5, <2>13, <3>1, <3>2, Columns DEF Merges
    <3>6. mr.status = k.market.status \/ (old # Null /\ proc[p].overlap /\ mr.status = old.status)
      <4>1. proc[p].overlap \in BOOLEAN
        BY DEF Inv, Commands
      <4>2. QED
        BY <2>3, <2>13, <3>1, <3>3, <3>4, <4>1
    <3>7. QED
      BY <2>1, <2>11, <2>13, <3>1, <3>5, <3>6 DEF MergedRight
  <2>14. QED
    BY <2>12, <2>13
<1>3. QED
  BY <1>1, <1>2

-----------------------------------------------------------------------------
(* What a sweep's page does to what it has made of the file.               *)
LEMMA PageApplied ==
    ASSUME Inv, NEW p \in Procs, Apply(p), LockFree(p), work' = Applied(Phase(p), work, proc[p].page, proc[p].at)
    PROVE  /\ EventsKeep(work, work')
           /\ \A m \in Markets : work'.markets[m] = work.markets[m]
                 \/ /\ Reported(proc[p], m, proc[p].page.status)
                    /\ proc[p].page.status \in {"open", "settled"}
                    /\ Phase(p) # "events" /\ work'.markets[m].status = proc[p].page.status
                    /\ Phase(p) = "snapshot" => work.markets[m] = Null
<1>1. Running(p) /\ Phase(p) \in Sweeps /\ proc[p].page # Null
  BY DEF Apply
<1>2. Sweeping(proc[p])
  BY <1>1, OnlySweepsSweep
<1>3. work \in Database /\ ForeignKeysHold(work)
  BY <1>2, SweptSoFar DEF LockFree, Extends
<1>4. PICK page : page = proc[p].page
  OBVIOUS
<1>5. page \in Page /\ page.of \in Objects(Phase(p))
  BY <1>1, <1>2, <1>4 DEF Inv, Commands, Sweeping, Phase
<1>6. PICK e : e = Applied(Phase(p), work, page, proc[p].at)
  OBVIOUS
<1>7. PICK phase : phase = Phase(p)
  OBVIOUS
<1>8. PICK at : at = proc[p].at
  OBVIOUS
<1>9. e = Applied(phase, work, page, at) /\ phase \in Sweeps /\ page.of \in Objects(phase)
  BY <1>1, <1>5, <1>6, <1>7, <1>8
<1>10. /\ EventsKeep(work, e)
       /\ \A m \in Markets : e.markets[m] = work.markets[m]
             \/ /\ m = page.of /\ phase # "events" /\ e.markets[m].status = page.status
                /\ phase = "snapshot" => work.markets[m] = Null
  BY <1>3, <1>5, <1>9, AppliedParts
<1>11. \A m \in Markets : m = page.of => Reported(proc[p], m, page.status)
  BY <1>1, <1>2, <1>4 DEF Reported, Sweeping, SweepCommands, Running
<1>12. page.status \in {"open", "settled"}
  BY <1>5 DEF Page
<1>13. work' = e
  BY <1>4, <1>6
<1>14. QED
  BY <1>4, <1>7, <1>10, <1>11, <1>12, <1>13

LEMMA StaysFinal ==
    ASSUME Inv, Faithful, [Next]_pipeline, NEW m \in Markets, Settled(db', m) \/ Settled(work', m)
    PROVE  listing'[m] = "settled"
<1> SUFFICES listing[m] = "settled"
  BY SettledForGood
<1>1. (Settled(db, m) => listing[m] = "settled") /\ (Settled(work, m) => listing[m] = "settled")
  BY DEF Faithful, Final
<1>2. ASSUME Settled(db', m) PROVE listing[m] = "settled"
  <2>1. CASE db' = db
    BY <1>1, <1>2, <2>1
  <2>2. CASE db' # db
    <3>1. PICK p \in Procs : Acts(p)
      BY <2>2, WhoActs DEF pipeline, Settle, Tick
    <3>2. Commits(p)
      BY <2>2, <3>1, OnlyCommitsChangeTheFile
    <3>3. CASE EndSweep(p)
      <4>1. Extends(db, work) /\ (db' = Denormalize(work) \/ db' = work)
        BY <2>2, <3>3, SweepCommits
      <4>2. PICK e : e = Denormalize(work)
        OBVIOUS
      <4>3. e.markets[m] # Null => work.markets[m] # Null /\ e.markets[m].status = work.markets[m].status
        BY <4>1, <4>2, CategoriesCopiedParts DEF Extends
      <4>4. QED
        BY <1>1, <1>2, <4>1, <4>2, <4>3 DEF Settled
    <3>4. CASE Enrol(p) \/ Retire(p) \/ Link(p)
      BY <1>1, <1>2, <3>4, NewsCommits DEF Settled
    <3>5. CASE Prune(p)
      <4>1. PICK found, at : db' = Pruned(db, found, at)
        BY <2>2, <3>5, PruneCommits
      <4>2. PICK e : e = Pruned(db, found, at)
        OBVIOUS
      <4>3. db'.markets = db.markets
        BY <4>1, <4>2, PrunedParts DEF Inv, Whole
      <4>4. QED
        BY <1>1, <1>2, <4>3 DEF Settled
    <3>6. CASE MergeRows(p)
      <4>1. CASE db'.markets[m] = db.markets[m]
        BY <1>1, <1>2, <4>1 DEF Settled
      <4>2. CASE db'.markets[m] # db.markets[m]
        <5>1. Running(p) /\ Phase(p) = "merge" /\ proc[p].cmd = "track"
          BY <3>6, MergeCommits DEF Tracking
        <5>2. PICK k : k = proc[p].memo
          OBVIOUS
        <5>3. m = k.ticker /\ (db'.markets[m].status = k.market.status
                  \/ (db.markets[m] # Null /\ db'.markets[m].status = db.markets[m].status))
          BY <3>6, <4>2, <5>2, MergesRight DEF MergedRight
        <5>4. k.market.status = "settled" => listing[m] = "settled"
          <6>1. Reported(proc[p], m, k.market.status)
            BY <5>1, <5>2, <5>3 DEF Reported, Running, Phase
          <6>2. QED
            BY <6>1 DEF Faithful, Truthful
        <5>5. QED
          BY <1>1, <1>2, <5>3, <5>4 DEF Settled
      <4>3. QED
        BY <4>1, <4>2
    <3>7. QED
      BY <3>2, <3>3, <3>4, <3>5, <3>6 DEF Commits
  <2>3. QED
    BY <2>1, <2>2
<1>3. ASSUME Settled(work', m) PROVE listing[m] = "settled"
  <2>1. Inv'
    BY StepKeeps
  <2>2. CASE work' = work \/ work' = db'
    BY <1>1, <1>2, <1>3, <2>2
  <2>3. CASE work' # work /\ work' # db'
    <3>1. PICK p \in Procs : Acts(p)
      BY <2>3, WhoActs DEF pipeline, Settle, Tick
    <3>2. holder' # Null
      BY <2>1, <2>3 DEF Inv, LockSound
    <3>3. CASE Store(p) /\ \E t : work' = [work EXCEPT !.articles[proc[p].page.of] = t]
      <4>1. work \in Database
        BY WorkFits
      <4>2. work'.markets = work.markets
        BY <3>3, <4>1 DEF Database
      <4>3. QED
        BY <1>1, <1>3, <4>2 DEF Settled
    <3>4. CASE Apply(p) /\ LockFree(p) /\ work' = Applied(Phase(p), work, proc[p].page, proc[p].at)
      <4>1. CASE work'.markets[m] = work.markets[m]
        BY <1>1, <1>3, <4>1 DEF Settled
      <4>2. CASE work'.markets[m] # work.markets[m]
        <5>1. Reported(proc[p], m, proc[p].page.status) /\ work'.markets[m].status = proc[p].page.status
          BY <3>4, <4>2, PageApplied
        <5>2. QED
          BY <1>3, <5>1 DEF Faithful, Truthful, Settled
      <4>3. QED
        BY <4>1, <4>2
    <3>5. QED
      BY <2>3, <3>1, <3>2, <3>3, <3>4, LockSteps DEF Locked
  <2>4. QED
    BY <2>2, <2>3
<1>4. QED
  BY <1>2, <1>3

(* The holder of the lock, still sweeping after its own step.              *)
LEMMA HolderSweepsOn ==
    ASSUME Inv, NEW p \in Procs, Acts(p), holder' = p, Sweeping(proc'[p]), holder \in {Null, p}, Running(p)
    PROVE  /\ Sweeping(proc[p]) /\ Phase(p) \in Sweeps
           /\ Fetch(p) \/ Apply(p)
           /\ proc'[p].phases = proc[p].phases /\ proc'[p].overlap = proc[p].overlap
<1> DEFINE c == proc[p]
<1>1. c.cmd \in SweepCommands
  BY CommandKept DEF Named, Sweeping, SweepCommands
<1>2. Sweeping(c) /\ Phase(p) \in Sweeps
  BY <1>1, WhoseIsThis DEF SweepCommands, Pruning, Exporting, Tracking, Untracking, Collecting
<1>3. c \in Commands /\ proc \in [Procs -> Commands] /\ p # Null
  BY NullIsNoProcess DEF Inv
<1>4. ASSUME NEW why, Fail(p, why) PROVE FALSE
  BY <1>3, <1>4 DEF Fail
<1>5. ~Abort(p)
  BY <1>4 DEF Abort
<1>6. ~EndSweep(p)
  BY <1>3, SweepCommits
<1>7. CASE Fetch(p)
  <2>1. PICK rest, page : Note(p, [c EXCEPT !.rest = rest, !.page = page])
    BY <1>7 DEF Fetch
  <2>2. PICK n : n = [c EXCEPT !.rest = rest, !.page = page]
    OBVIOUS
  <2>3. n.phases = c.phases /\ n.overlap = c.overlap
    BY <1>3, <2>2 DEF Commands
  <2>4. proc'[p] = n
    BY <1>3, <2>1, <2>2 DEF Note
  <2>5. QED
    BY <1>2, <1>7, <2>3, <2>4
<1>8. CASE Apply(p)
  <2>1. PICK n : n = [c EXCEPT !.page = Null]
    OBVIOUS
  <2>2. n.phases = c.phases /\ n.overlap = c.overlap
    BY <1>3, <2>1 DEF Commands
  <2>3. Note(p, n) \/ \E d : Write(p, d, n)
    BY <1>8, <2>1 DEF Apply
  <2>4. proc'[p] = n
    BY <1>3, <1>4, <2>3 DEF Note, Write
  <2>5. QED
    BY <1>2, <1>8, <2>2, <2>4
<1>9. QED
  BY <1>2, <1>5, <1>6, <1>7, <1>8, OwnSteps

LEMMA OtherHoldersSweepOn ==
    ASSUME Inv, NEW p \in Procs, Acts(p), NEW h \in Procs, h # p, Running(h), Sweeping(proc'[h])
    PROVE  /\ Sweeping(proc[h]) /\ proc'[h].phases = proc[h].phases
           /\ ~proc'[h].overlap => ~proc[h].overlap
<1>1. /\ proc'[h].cmd = proc[h].cmd /\ proc'[h].phases = proc[h].phases
      /\ proc'[h].rest = proc[h].rest /\ proc'[h].page = proc[h].page
      /\ ~proc'[h].overlap => ~proc[h].overlap
  BY EveryoneElseStandsBy DEF StandBy
<1>2. QED
  BY <1>1 DEF Sweeping

LEMMA StaysKeeping ==
    ASSUME Inv, Faithful, [Next]_pipeline, NEW h \in Procs, holder' = h, Sweeping(proc'[h])
    PROVE  Keeping(proc'[h], db', work')
<1>1. h # Null
  BY NullIsNoProcess
<1>2. CASE ~\E p \in Procs : Acts(p)
  <2>1. proc' = proc /\ db' = db /\ work' = work /\ holder' = holder
    BY <1>2, WhoActs DEF Settle, Tick, pipeline
  <2>2. QED
    BY <1>1, <2>1 DEF Faithful
<1>3. CASE \E p \in Procs : Acts(p)
  <2>1. PICK p \in Procs : Acts(p)
    BY <1>3
  <2>2. Locked(p)
    BY <2>1, LockSteps
  <2>3. CASE UNCHANGED <<db, work, holder>>
    <3>1. Running(h) /\ (Sweeping(proc[h]) => Keeping(proc[h], db, work))
      BY <1>1, <2>3 DEF Faithful, Inv, LockSound
    <3>2. Sweeping(proc[h]) /\ proc'[h].phases = proc[h].phases /\ (~proc'[h].overlap => ~proc[h].overlap)
      <4>1. CASE h = p
        BY <2>1, <2>3, <3>1, <4>1, HolderSweepsOn
      <4>2. CASE h # p
        BY <2>1, <3>1, <4>2, OtherHoldersSweepOn
      <4>3. QED
        BY <4>1, <4>2
    <3>3. QED
      BY <2>3, <3>1, <3>2 DEF Keeping
  <2>4. CASE Apply(p) /\ db' = db /\ LockFree(p) /\ holder' = p
             /\ work' = Applied(Phase(p), work, proc[p].page, proc[p].at)
    <3>1. h = p /\ holder \in {Null, p} /\ Running(p)
      BY <2>4 DEF LockFree, Apply
    <3>2. Sweeping(proc[p]) /\ proc'[p].phases = proc[p].phases /\ proc'[p].overlap = proc[p].overlap
      BY <2>1, <3>1, HolderSweepsOn
    <3>3. Keeping(proc[p], db, work)
      BY <3>1, <3>2, KeptSoFar
    <3>4. Extends(db, work)
      BY <3>1, <3>2, SweptSoFar
    <3>5. PICK e : e = work'
      OBVIOUS
    <3>6. PICK w : w = work
      OBVIOUS
    <3>7. PICK c : c = proc[p]
      OBVIOUS
    <3>8. /\ EventsKeep(w, e)
          /\ \A m \in Markets : e.markets[m] = w.markets[m]
                \/ /\ Reported(c, m, c.page.status)
                   /\ c.page.status \in {"open", "settled"}
                   /\ Head(c.phases) # "events" /\ e.markets[m].status = c.page.status
                   /\ Head(c.phases) = "snapshot" => w.markets[m] = Null
      BY <2>4, <3>5, <3>6, <3>7, PageApplied DEF Phase
    <3>9. \A v \in Events : db.events[v] # Null => w.events[v] # Null
      BY <3>4, <3>6 DEF Extends, Grows
    <3>10. \A m \in Markets : db.markets[m] # Null => w.markets[m] # Null /\ e.markets[m] # Null
      <4>1. Grows(db, w)
        BY <3>4, <3>6 DEF Extends
      <4>2. Grows(db', e)
        <5>1. Inv'
          BY StepKeeps
        <5>2. Sweeping(proc'[p]) /\ holder' = p
          BY <2>4, <3>1
        <5>3. Extends(db', work')
          BY <1>1, <3>1, <5>1, <5>2 DEF Inv, LockSound, WorkOf, Collecting, Sweeping
        <5>4. QED
          BY <3>5, <5>3 DEF Extends
      <4>3. QED
        BY <2>4, <4>1, <4>2 DEF Grows
    <3>11. Keeping(c, db, w) /\ Truthful(listing, db, c)
      BY <3>3, <3>6, <3>7 DEF Faithful
    <3>12. Keeping(c, db, e)
      <4>1. \A v \in Events : db.events[v] # Null =>
              /\ db.events[v].real => e.events[v].real
              /\ db.events[v].cat => e.events[v].cat
        BY <3>8, <3>9, <3>11 DEF Keeping, EventsKeep
      <4>2. Head(c.phases) \in {"events", "snapshot"} =>
              \A m \in Markets : db.markets[m] # Null => e.markets[m] = db.markets[m]
        BY <3>8, <3>10, <3>11 DEF Keeping
      <4>3. ASSUME ~c.overlap, NEW m \in Markets, Settled(db, m) PROVE Settled(e, m)
        <5>1. Settled(w, m) /\ e.markets[m] # Null
          BY <3>10, <3>11, <4>3 DEF Keeping, Settled
        <5>2. Reported(c, m, c.page.status) /\ c.page.status \in {"open", "settled"} => c.page.status # "open"
          BY <3>11, <4>3 DEF Truthful
        <5>3. QED
          BY <3>8, <5>1, <5>2 DEF Settled
      <4>4. QED
        BY <4>1, <4>2, <4>3 DEF Keeping
    <3>13. Keeping(proc'[p], db, e)
      BY <3>2, <3>7, <3>12 DEF Keeping
    <3>14. QED
      BY <2>4, <3>1, <3>5, <3>13
  <2>5. CASE Store(p) /\ holder' = p
    <3>1. h = p /\ Running(p) /\ Phase(p) = "store"
      BY <2>5 DEF Store, In
    <3>2. proc[p].cmd = "collect"
      BY <3>1, WhoseIsThis DEF Sweeps, PrunedTables, Collecting
    <3>3. proc'[p].cmd = "collect"
      BY <2>1, <3>1, <3>2, CommandKept DEF Named
    <3>4. QED
      BY <3>1, <3>3 DEF Sweeping
  <2>6. QED
    BY <1>1, <2>2, <2>3, <2>4, <2>5 DEF Locked
<1>4. QED
  BY <1>2, <1>3

LEMMA StaysFaithful == ASSUME Inv, Faithful, [Next]_pipeline PROVE Faithful'
<1>1. \A m \in Markets : Settled(db', m) \/ Settled(work', m) => listing'[m] = "settled"
  BY StaysFinal
<1>2. \A p \in Procs : Truthful(listing', db', proc'[p])
  BY EveryoneStaysTruthful
<1>3. \A h \in Procs : holder' = h /\ Sweeping(proc'[h]) => Keeping(proc'[h], db', work')
  BY StaysKeeping
<1>4. holder' \in Procs \union {Null}
  BY StepKeeps DEF Inv, LockSound
<1>5. QED
  BY <1>1, <1>2, <1>3, <1>4 DEF Faithful, Final

LEMMA FaithfulAtTheStart == ASSUME PipelineInit PROVE Faithful
<1>1. PICK s \in Starts : db = s.db /\ listing = StartListing /\ work = db /\ holder = Null
  BY DEF PipelineInit
<1>2. \A m \in Markets : Settled(s.db, m) => StartListing[m] = "settled"
  BY PipelineAssumption
<1>3. Final(db) /\ Final(work)
  BY <1>1, <1>2 DEF Final
<1>4. ASSUME NEW p \in Procs PROVE Truthful(listing, db, proc[p])
  <2>1. PICK c : c = Idle
    OBVIOUS
  <2>2. c.cmd = "none" /\ c.phases = <<>>
    BY <2>1 DEF Idle
  <2>3. proc[p] = c
    BY <2>1 DEF PipelineInit
  <2>4. Truthful(listing, db, c)
    BY <2>2, NothingReported DEF SweepCommands
  <2>5. QED
    BY <2>3, <2>4
<1>5. QED
  BY <1>1, <1>3, <1>4 DEF Faithful

-----------------------------------------------------------------------------
(* A command that goes on to its next phase is not what it was.            *)
LEMMA GoesOn ==
    ASSUME NEW c \in Commands, c.phases # <<>>, NEW n, n = NextPhase(c)
    PROVE  n.phases # c.phases /\ n # c
<1>1. n.phases = Tail(c.phases)
  BY NextParts
<1>2. c.phases \in Seq(PhaseNames)
  BY DEF Commands
<1>3. Len(Tail(c.phases)) # Len(c.phases)
  BY <1>2
<1>4. QED
  BY <1>1, <1>3

(* The sweeps that end.                                                    *)
SweepForgetsNothing(p) ==
    /\ proc'[p] # proc[p]
    /\ \A v \in Events : db.events[v] # Null =>
          /\ db.events[v].real => db'.events[v].real
          /\ db.events[v].cat => db'.events[v].cat
    /\ \A m \in Markets : db.markets[m] # Null =>
          /\ db.markets[m].cat /\ ~db'.markets[m].cat =>
                proc[p].cmd = "sync-settlements" \/ ~db'.events[EventOf[m]].cat
          /\ Settled(db, m) /\ ~proc[p].overlap => Settled(db', m)
    /\ Phase(p) = "markets" => \A m \in Markets :
          db'.markets[m] # Null /\ db'.events[EventOf[m]].cat => db'.markets[m].cat

LEMMA SweepsForgetNothing ==
    ASSUME Inv, Faithful, NEW p \in Procs, EndSweep(p)
    PROVE  SweepForgetsNothing(p)
<1> DEFINE c == proc[p]
<1>1. c \in Commands /\ c.phases # <<>> /\ proc \in [Procs -> Commands]
  BY DEF Inv, EndSweep, Running
<1>2. PICK n : n = NextPhase(c)
  OBVIOUS
<1>3. n # c
  BY <1>1, <1>2, GoesOn
<1>4. Phase(p) \in Sweeps /\ Sweeping(c)
  BY SweepCommits
<1>5. PICK d : d = db'
  OBVIOUS
<1>6. proc'[p] # c
  <2>1. proc' = [proc EXCEPT ![p] = n] \/ WriteAndCommit(p, d, n)
    BY <1>2, <1>5, SweepCommits
  <2>2. ASSUME NEW why, Fail(p, why) PROVE proc'[p] # c
    BY <1>1, <2>2, AbortEnds
  <2>3. QED
    BY <1>1, <1>3, <2>1, <2>2 DEF WriteAndCommit
<1>7. CASE db' = db /\ Phase(p) # "markets"
  BY <1>6, <1>7 DEF SweepForgetsNothing
<1>8. CASE LockFree(p) /\ Extends(db, work) /\ db' = IF Phase(p) = "markets" THEN Denormalize(work) ELSE work
  <2>1. Keeping(c, db, work)
    BY <1>4, <1>8, KeptSoFar DEF LockFree
  <2>2. work \in Database /\ ForeignKeysHold(work) /\ \A m \in Markets : db.markets[m] # Null => work.markets[m] # Null
    BY <1>8 DEF Extends, Grows
  <2>3. CASE Phase(p) = "markets"
    <3>1. PICK e : e = Denormalize(work)
      OBVIOUS
    <3>2. /\ e.events = work.events
          /\ \A m \in Markets : /\ e.markets[m] = Null <=> work.markets[m] = Null
                                /\ e.markets[m] # Null =>
                                      /\ e.markets[m].status = work.markets[m].status
                                      /\ work.events[EventOf[m]].cat => e.markets[m].cat
      BY <2>2, <3>1, CategoriesCopiedParts
    <3>3. db' = e
      BY <1>8, <2>3, <3>1
    <3>4. \A m \in Markets : Settled(db, m) /\ ~c.overlap => Settled(e, m)
      BY <2>1, <3>2 DEF Keeping, Settled
    <3>5. QED
      BY <1>6, <2>1, <2>2, <3>2, <3>3, <3>4 DEF SweepForgetsNothing, Keeping
  <2>4. CASE Phase(p) = "settlements"
    <3>1. c.cmd = "sync-settlements"
      <4>1. c.cmd \in SweepCommands
        BY <1>4 DEF Sweeping, SweepCommands
      <4>2. c.cmd # "sync-settlements" => Head(c.phases) \in SweepPhases
        BY <1>1, <4>1, HeadAndTail DEF Faithful, Truthful, SweepPhases
      <4>3. QED
        BY <2>4, <4>2 DEF SweepPhases, Phase
    <3>2. QED
      BY <1>6, <1>8, <2>1, <2>4, <3>1 DEF SweepForgetsNothing, Keeping
  <2>5. CASE Phase(p) \in {"events", "snapshot"}
    <3>1. \A m \in Markets : db.markets[m] # Null => db'.markets[m] = db.markets[m]
      BY <1>8, <2>1, <2>5 DEF Keeping, Phase
    <3>2. QED
      BY <1>6, <1>8, <2>1, <2>5, <3>1 DEF SweepForgetsNothing, Keeping
  <2>6. QED
    BY <1>4, <2>3, <2>4, <2>5 DEF Sweeps
<1>9. QED
  BY <1>7, <1>8, SweepCommits

LEMMA WhoCommitted ==
    ASSUME [Next]_pipeline, db' # db
    PROVE  \E p \in Procs : Acts(p) /\ Commits(p)
<1>1. PICK p \in Procs : Acts(p)
  BY WhoActs DEF pipeline, Settle, Tick
<1>2. QED
  BY <1>1, OnlyCommitsChangeTheFile

(* A merge that commits.                                                   *)
MergeForgetsNothing(p) ==
    /\ Loses(p, {"track"})
    /\ \A v \in Events : db.events[v] # Null => (db.events[v].real => db'.events[v].real)
    /\ \A m \in Markets : Settled(db, m) /\ db'.markets[m] # Null /\ db'.markets[m].status = "open" => proc[p].overlap

LEMMA MergesForgetNothing ==
    ASSUME Inv, Faithful, NEW p \in Procs, MergeRows(p), db' # db
    PROVE  MergeForgetsNothing(p)
<1>1. proc[p] \in Commands /\ proc[p].phases # <<>> /\ proc[p].cmd = "track" /\ Phase(p) = "merge"
  BY MergeCommits DEF Inv, Running, Tracking
<1>2. PICK n : n = NextPhase(proc[p])
  OBVIOUS
<1>3. proc'[p] = n
  BY <1>2, MergeCommits
<1>4. Loses(p, {"track"})
  BY <1>1, <1>2, <1>3, GoesOn DEF Loses
<1>5. Truthful(listing, db, proc[p])
  BY DEF Faithful
<1>6. \A v \in Events : db.events[v] # Null => (db.events[v].real => db'.events[v].real)
  BY <1>1, <1>5, MergesRight DEF MergedRight, Truthful
<1>7. ASSUME NEW m \in Markets, Settled(db, m), db'.markets[m].status = "open", ~proc[p].overlap PROVE FALSE
  <2>1. db'.markets[m] # db.markets[m]
    BY <1>7 DEF Settled
  <2>2. PICK k : k = proc[p].memo
    OBVIOUS
  <2>3. m = k.ticker /\ k.market.status = "open"
    BY <1>7, <2>1, <2>2, MergesRight DEF MergedRight
  <2>4. Reported(proc[p], m, "open")
    BY <1>1, <2>2, <2>3 DEF Reported, Phase
  <2>5. QED
    BY <1>5, <1>7, <2>4 DEF Truthful
<1>8. QED
  BY <1>4, <1>6, <1>7 DEF MergeForgetsNothing

(* A market sync that leaves its last phase has committed it.              *)
LEMMA MarketSyncEnds ==
    ASSUME Inv, [Next]_pipeline, NEW p \in Procs, In(p, "markets"), proc'[p].phases # proc[p].phases,
           proc'[p].end # "aborted"
    PROVE  EndSweep(p)
<1> DEFINE c == proc[p]
<1>1. Running(p) /\ Phase(p) = "markets" /\ Phase(p) \in Sweeps
  BY DEF In, Sweeps
<1>2. Acts(p)
  BY <1>1, ItActed
<1>3. c \in Commands /\ proc \in [Procs -> Commands] /\ Sweeping(c)
  BY <1>1, OnlySweepsSweep DEF Inv
<1>4. ~Abort(p)
  BY AbortEnds DEF Abort
<1>5. ~Fetch(p)
  <2> SUFFICES ASSUME Fetch(p) PROVE FALSE
    OBVIOUS
  <2>1. PICK rest, page : Note(p, [c EXCEPT !.rest = rest, !.page = page])
    BY DEF Fetch
  <2>2. PICK n : n = [c EXCEPT !.rest = rest, !.page = page]
    OBVIOUS
  <2>3. n.phases = c.phases
    BY <1>3, <2>2 DEF Commands
  <2>4. QED
    BY <1>3, <2>1, <2>2, <2>3 DEF Note
<1>6. ~Apply(p)
  <2> SUFFICES ASSUME Apply(p) PROVE FALSE
    OBVIOUS
  <2>1. PICK n : n = [c EXCEPT !.page = Null]
    OBVIOUS
  <2>2. n.phases = c.phases
    BY <1>3, <2>1 DEF Commands
  <2>3. Note(p, n) \/ \E d : Write(p, d, n)
    BY <2>1 DEF Apply
  <2>4. ~Fail(p, "integrity")
    <3>1. proc'[p].cmd = c.cmd
      BY <1>1, <1>2, CommandKept DEF Named
    <3>2. proc'[p].end # "integrity"
      BY <1>3, <3>1, StepKeeps DEF Inv, Good, Sweeping
    <3>3. QED
      BY <3>2, AbortEnds
  <2>5. QED
    BY <1>3, <2>2, <2>3, <2>4 DEF Note, Write
<1>7. QED
  BY <1>1, <1>2, <1>4, <1>5, <1>6, OwnSteps

LEMMA NothingIsForgotten == ASSUME Inv, Faithful, [Next]_pipeline PROVE CatalogueStep
<1>1. /\ \A v \in Events : db.events[v] # Null => db'.events[v] # Null
      /\ \A m \in Markets : db.markets[m] # Null => db'.markets[m] # Null
      /\ db.settled \subseteq db'.settled
  BY RowsStay
<1>2. ASSUME NEW p \in Procs, In(p, "markets"), Running(p), proc'[p].phases # proc[p].phases, proc'[p].end # "aborted"
      PROVE  \A m \in Markets : db'.markets[m] # Null /\ db'.events[EventOf[m]].cat => db'.markets[m].cat
  BY <1>2, MarketSyncEnds, SweepsForgetNothing DEF SweepForgetsNothing, In
<1>3. /\ \A v \in Events : db.events[v] # Null =>
            /\ db.events[v].real => db'.events[v].real
            /\ db.events[v].cat /\ ~db'.events[v].cat => \E p \in Procs : Loses(p, {"track"})
      /\ \A m \in Markets : db.markets[m] # Null =>
            /\ db.markets[m].cat /\ ~db'.markets[m].cat =>
                  \/ \E p \in Procs : Loses(p, {"track", "sync-settlements"})
                  \/ ~db'.events[EventOf[m]].cat
            /\ db.markets[m].status = "settled" /\ db'.markets[m].status = "open" =>
                  \E p \in Procs : proc[p] # proc'[p] /\ proc[p].overlap
  <2>1. CASE db' = db
    BY <2>1
  <2>2. CASE db' # db
    <3>1. PICK p \in Procs : Acts(p) /\ Commits(p)
      BY <2>2, WhoCommitted
    <3>2. CASE EndSweep(p)
      <4>1. SweepForgetsNothing(p)
        BY <3>2, SweepsForgetNothing
      <4>2. proc[p].cmd = "sync-settlements" => Loses(p, {"track", "sync-settlements"})
        BY <4>1 DEF SweepForgetsNothing, Loses
      <4>3. ASSUME NEW m \in Markets, db.markets[m] # Null, db.markets[m].status = "settled",
                   db'.markets[m].status = "open"
            PROVE  proc[p] # proc'[p] /\ proc[p].overlap
        <5>1. Settled(db, m) /\ ~Settled(db', m)
          BY <4>3 DEF Settled
        <5>2. QED
          BY <4>1, <4>3, <5>1 DEF SweepForgetsNothing
      <4>4. QED
        BY <4>1, <4>2, <4>3 DEF SweepForgetsNothing
    <3>3. CASE Enrol(p) \/ Retire(p) \/ Link(p)
      BY <3>3, NewsCommits
    <3>4. CASE Prune(p)
      <4>1. PICK found, at : db' = Pruned(db, found, at)
        BY <2>2, <3>4, PruneCommits
      <4>2. PICK e : e = Pruned(db, found, at)
        OBVIOUS
      <4>3. db'.markets = db.markets /\ db'.events = db.events
        BY <4>1, <4>2, PrunedParts DEF Inv, Whole
      <4>4. QED
        BY <4>3
    <3>5. CASE MergeRows(p)
      <4>1. MergeForgetsNothing(p)
        BY <2>2, <3>5, MergesForgetNothing
      <4>2. Loses(p, {"track"}) /\ Loses(p, {"track", "sync-settlements"}) /\ proc[p] # proc'[p]
        BY <4>1 DEF MergeForgetsNothing, Loses
      <4>3. \A m \in Markets : db.markets[m] # Null /\ db.markets[m].status = "settled"
                                /\ db'.markets[m].status = "open" => proc[p].overlap
        BY <1>1, <4>1 DEF MergeForgetsNothing, Settled
      <4>4. QED
        BY <4>1, <4>2, <4>3 DEF MergeForgetsNothing
    <3>6. QED
      BY <3>1, <3>2, <3>3, <3>4, <3>5 DEF Commits
  <2>3. QED
    BY <2>1, <2>2
<1>4. QED
  BY <1>1, <1>2, <1>3 DEF CatalogueStep

(* No commit forgets what the file knows of the exchange: rows, titles and *)
(* results stay, a category goes only where track or a settlement sync     *)
(* wrote, a settled market is reopened only by a page somebody overtook.   *)
THEOREM CatalogueIsKept == Spec => CatalogueNeverForgets
<1>1. PipelineInit => Faithful
  BY FaithfulAtTheStart
<1>2. Inv /\ Faithful /\ [Next]_pipeline => Faithful' /\ CatalogueStep
  BY StaysFaithful, NothingIsForgotten
<1>3. QED
  BY <1>1, <1>2, StaysSound, PTL DEF Spec, CatalogueNeverForgets
=============================================================================
