---- MODULE Tables ----
(***************************************************************************)
(* The SQLite tables of the data pipeline and of the news desk, and the    *)
(* statements the repositories run on them, as functions from a database   *)
(* to a database.  A row is kept down to the columns the commands treat    *)
(* differently: of an event, whether its title is the real one or the      *)
(* placeholder, and whether its category is known; of a market, its status *)
(* and whether its category has been copied from the event.                *)
(***************************************************************************)
EXTENDS Integers, FiniteSets

CONSTANTS
    Markets,    \* market tickers
    Events,     \* event tickers
    EventOf,    \* the event of each market
    Urls,       \* article URLs
    MaxTime,    \* bound on the clock: days
    Null        \* no row, no value

Times == 0..MaxTime

Tickers == Markets \union Events

EventRow  == [real : BOOLEAN, cat : BOOLEAN]
MarketRow == [status : {"open", "settled"}, cat : BOOLEAN]

ASSUME TablesAssumption ==
    /\ EventOf \in [Markets -> Events]
    /\ Markets \cap Events = {}
    /\ MaxTime \in Nat
    /\ Null \notin EventRow \union MarketRow \union Times

Database ==
    [events   : [Events -> EventRow \union {Null}],
     markets  : [Markets -> MarketRow \union {Null}],
     prices   : SUBSET (Markets \X Times),
     settled  : SUBSET Markets,
     tracked  : [Tickers -> {"no", "active", "inactive"}],
     articles : [Urls -> Times \union {Null}],
     links    : SUBSET (Urls \X Tickers),
     scores   : SUBSET Urls]

EmptyDatabase ==
    [events   |-> [e \in Events |-> Null],
     markets  |-> [m \in Markets |-> Null],
     prices   |-> {},
     settled  |-> {},
     tracked  |-> [t \in Tickers |-> "no"],
     articles |-> [u \in Urls |-> Null],
     links    |-> {},
     scores   |-> {}]

(* PRAGMA foreign_keys=ON: every reference has its row.  A settlement has  *)
(* no foreign key to its event, only to its market.                        *)
ForeignKeysHold(d) ==
    /\ \A m \in Markets : d.markets[m] # Null => d.events[EventOf[m]] # Null
    /\ \A r \in d.prices : d.markets[r[1]] # Null
    /\ \A m \in d.settled : d.markets[m] # Null
    /\ \A l \in d.links :
          /\ d.articles[l[1]] # Null
          /\ l[2] \in Markets => d.markets[l[2]] # Null
          /\ l[2] \in Events => d.events[l[2]] # Null
    /\ \A u \in d.scores : d.articles[u] # Null

(* Every stored article is linked to a market or event somebody tracked,   *)
(* and what somebody tracked has its row.                                  *)
ArticlesLinked(d) ==
    \A u \in Urls : d.articles[u] # Null =>
        \E t \in Tickers : <<u, t>> \in d.links /\ d.tracked[t] # "no"

Known(d, t) ==
    /\ t \in Markets => d.markets[t] # Null
    /\ t \in Events => d.events[t] # Null

TrackedKnown(d) == \A t \in Tickers : d.tracked[t] # "no" => Known(d, t)

Whole(d) == d \in Database /\ ForeignKeysHold(d) /\ ArticlesLinked(d) /\ TrackedKnown(d)

Settled(d, m) == d.markets[m] # Null /\ d.markets[m].status = "settled"

----
(* The repositories. *)

(* EventRepository.insert_ignore, as every caller uses it: a placeholder. *)
IgnoreEvent(d, e) ==
    IF d.events[e] # Null THEN d
    ELSE [d EXCEPT !.events[e] = [real |-> FALSE, cat |-> FALSE]]

(* Mutant: without the COALESCE. *)
UpsertEventPlain(d, e, cat) ==
    [d EXCEPT !.events[e] = [real |-> TRUE, cat |-> cat]]

(* EventRepository.upsert: the title is overwritten, the category kept if  *)
(* the response has none.                                                  *)
UpsertEvent(d, e, cat) ==
    [d EXCEPT !.events[e] =
        [real |-> TRUE, cat |-> cat \/ (d.events[e] # Null /\ d.events[e].cat)]]

(* MarketRepository.insert_ignore and upsert.  The converter gives every   *)
(* market the category NULL.                                               *)
IgnoreMarket(d, m, status) ==
    IF d.markets[m] # Null THEN d
    ELSE [d EXCEPT !.markets[m] = [status |-> status, cat |-> FALSE]]

UpsertMarket(d, m, status) ==
    [d EXCEPT !.markets[m] = [status |-> status, cat |-> FALSE]]

(* The UPDATE that ends sync_markets. *)
Denormalize(d) ==
    [d EXCEPT !.markets = [m \in Markets |->
        IF d.markets[m] = Null \/ d.events[EventOf[m]] = Null THEN d.markets[m]
        ELSE [d.markets[m] EXCEPT !.cat = @ \/ d.events[EventOf[m]].cat]]]

AddPrice(d, m, t) == [d EXCEPT !.prices = @ \union {<<m, t>>}]

UpsertSettlement(d, m) == [d EXCEPT !.settled = @ \union {m}]

----
(* Session.merge at flush: the row the SELECT found, or Null, decides      *)
(* between INSERT and UPDATE, and an UPDATE writes only the columns that   *)
(* differ from what was found.                                             *)
MergeRow(seen, row, given) ==
    IF seen = Null THEN given
    ELSE [f \in DOMAIN given |-> IF given[f] = seen[f] THEN row[f] ELSE given[f]]

(* The INSERT of a row somebody else inserted since the SELECT. *)
MergeConflicts(seen, row) == seen = Null /\ row # Null

----
(* Retention. *)

OldPrices(d, cutoff) == {r \in d.prices : r[2] < cutoff}

OldArticles(d, cutoff) ==
    {u \in Urls : d.articles[u] # Null /\ d.articles[u] < cutoff}

OldLinks(d, cutoff, T) ==
    {l \in d.links : l[1] \in OldArticles(d, cutoff) /\ l[2] \in T}

OldScores(d, cutoff) == d.scores \cap OldArticles(d, cutoff)
====
