---- MODULE DataPipeline ----
(***************************************************************************)
(* The data commands of the command line as processes on one SQLite file:  *)
(* sync-markets, sync-settlements, snapshot, the full sync, prune and      *)
(* export, each its own operating-system process.                          *)
(*                                                                         *)
(* SQLite runs in WAL mode under the driver's legacy transactions: a       *)
(* SELECT before the first write sees the last commit and holds nothing;   *)
(* the first INSERT, UPDATE or DELETE takes the one write lock, which is   *)
(* kept, across every further page fetched from the exchange, until the    *)
(* transaction commits or its process fails.                               *)
(***************************************************************************)
EXTENDS Tables, Sequences

CONSTANTS
    Procs,        \* the processes
    Multivariate, \* events that only GET /events/multivariate lists
    Sparse,       \* objects the exchange may list without their optional fields
    StartListing, \* the exchange's view of the markets at the start
    Starts,       \* what is there at the start: databases commands left, with earlier exports
    Watched,      \* the tickers the news commands name
    SyncOptions,  \* the options sync-markets is given, sets of flags
    MaxCommands   \* bound on the commands started

(* The exported files; which markets they have prices of.                  *)
Files ==
    [events : SUBSET Events, markets : SUBSET Markets,
     settled : SUBSET Markets, prices : SUBSET (Markets \X Times)]

PricesKnown(d, f) == \A r \in f.prices : d.markets[r[1]] # Null

ASSUME PipelineAssumption ==
    /\ Multivariate \subseteq Events
    /\ Sparse \subseteq Tickers
    /\ StartListing \in [Markets -> {"open", "settled"}]
    /\ \A s \in Starts : Whole(s.db) /\ s.files \in Files /\ PricesKnown(s.db, s.files)
    /\ \A s \in Starts, m \in Markets : Settled(s.db, m) => StartListing[m] = "settled"
    /\ Watched \subseteq Tickers
    /\ SyncOptions \subseteq SUBSET {"mve_events", "open_only", "exclude_mve", "max_pages"}
    /\ MaxCommands \in Nat
    /\ Null \notin Procs

VARIABLES
    listing,  \* the exchange's view of each market
    now,      \* clock, in days
    db,       \* the committed database
    work,     \* what the holder of the write lock sees; db if nobody holds it
    holder,   \* the process holding the write lock, or Null
    proc,     \* the command each process runs, or ran last
    files,    \* the exported files
    started   \* commands started so far

pipeline == <<listing, now, db, work, holder, proc, files, started>>

----
(* A command is a list of phases; `rest` is what the phase has still to    *)
(* see, `page` what it has fetched and not yet applied.                    *)

Sweeps == {"events", "markets", "settlements", "snapshot"}

Idle == [cmd |-> "none", phases |-> <<>>, rest |-> {}, page |-> Null,
         opt |-> {}, at |-> 0, memo |-> Null, overlap |-> FALSE, end |-> "ok"]

Running(p) == proc[p].phases # <<>>
Phase(p) == Head(proc[p].phases)
In(p, phase) == Running(p) /\ Phase(p) = phase

(* What a phase sets out to see: the listing is paged through, so each     *)
(* object comes at most once.                                              *)
Todo(phase, opt) ==
    CASE phase = "events" ->
            IF "mve_events" \in opt THEN Events ELSE Events \ Multivariate
      [] phase \in {"markets", "settlements", "snapshot"} -> Markets
      [] phase = "tables" -> {"events", "markets", "settlements", "prices"}
      [] OTHER -> {}

Command(cmd, phases, opt, at, memo) ==
    [cmd |-> cmd, phases |-> phases, rest |-> Todo(Head(phases), opt),
     page |-> Null, opt |-> opt, at |-> at, memo |-> memo,
     overlap |-> FALSE, end |-> "running"]

Begin(p, command) ==
    /\ ~Running(p)
    /\ started < MaxCommands
    /\ started' = started + 1
    /\ proc' = [proc EXCEPT ![p] = command]
    /\ UNCHANGED <<listing, now, db, work, holder, files>>

(* The command is over; what it worked on is gone with its process. *)
Ended(c, how) ==
    [Idle EXCEPT !.cmd = c.cmd, !.overlap = c.overlap /\ how = "integrity", !.end = how]

(* The next phase of the same command starts at the present time. *)
NextPhase(c) ==
    LET phases == Tail(c.phases) IN
    IF phases = <<>> THEN Ended(c, "ok")
    ELSE [c EXCEPT !.phases = phases, !.rest = Todo(Head(phases), c.opt),
                   !.page = Null, !.at = IF Head(phases) \in Sweeps THEN now ELSE @]

(* The command gives up: whatever it had not committed is rolled back. *)
Fail(p, why) ==
    /\ proc' = [proc EXCEPT ![p] = Ended(@, why)]
    /\ holder' = IF holder = p THEN Null ELSE holder
    /\ work' = IF holder = p THEN db ELSE work
    /\ UNCHANGED <<listing, now, db, files, started>>

LockFree(p) == holder \in {Null, p}

(* Statements of p inside a transaction it keeps open; its record becomes  *)
(* c.  A statement SQLite refuses ends the command.                        *)
Write(p, d, c) ==
    /\ LockFree(p)
    /\ IF ForeignKeysHold(d)
       THEN /\ work' = d
            /\ holder' = p
            /\ proc' = [proc EXCEPT ![p] = c]
            /\ UNCHANGED <<listing, now, db, files, started>>
       ELSE Fail(p, "integrity")

(* The same, followed by the commit.  Every other command now running has  *)
(* been overlapped.                                                        *)
WriteAndCommit(p, d, c) ==
    /\ LockFree(p)
    /\ IF ForeignKeysHold(d)
       THEN /\ db' = d
            /\ work' = d
            /\ holder' = Null
            /\ proc' = [q \in Procs |->
                    IF q = p THEN c
                    ELSE [proc[q] EXCEPT !.overlap = @ \/ (Running(q) /\ d # db)]]
            /\ UNCHANGED <<listing, now, files, started>>
       ELSE Fail(p, "integrity")

(* A step of p that touches no database. *)
Note(p, c) ==
    /\ proc' = [proc EXCEPT ![p] = c]
    /\ UNCHANGED <<listing, now, db, work, holder, files, started>>

----
(* The exchange and the clock. *)

Settle(m) ==
    /\ listing[m] = "open"
    /\ listing' = [listing EXCEPT ![m] = "settled"]
    /\ UNCHANGED <<now, db, work, holder, proc, files, started>>

(* Bound: time only passes while there is a command left to start. *)
Tick ==
    /\ now < MaxTime
    /\ started < MaxCommands
    /\ now' = now + 1
    /\ UNCHANGED <<listing, db, work, holder, proc, files, started>>

----
(* Commands that sweep the listings. *)

BeginSyncMarkets(p) ==
    \E opt \in SyncOptions :
        Begin(p, Command("sync-markets", <<"events", "markets">>, opt, now, Null))

BeginSyncSettlements(p) ==
    Begin(p, Command("sync-settlements", <<"settlements">>, {}, now, Null))

BeginSnapshot(p) ==
    Begin(p, Command("snapshot", <<"snapshot">>, {}, now, Null))

BeginFullSync(p) ==
    \E opt \in SyncOptions :
        /\ opt \subseteq {"mve_events", "max_pages"}
        /\ Begin(p, Command("full-sync", <<"events", "markets", "snapshot">>, opt, now, Null))

(* What the request of this phase lists at this moment. *)
Listed(p, x) ==
    CASE Phase(p) = "events" -> TRUE
      [] Phase(p) = "markets" ->
            /\ "open_only" \in proc[p].opt => listing[x] = "open"
            /\ "exclude_mve" \in proc[p].opt => EventOf[x] \notin Multivariate
      [] Phase(p) = "snapshot" -> listing[x] = "open"
      [] Phase(p) = "settlements" -> listing[x] = "settled"

(* One object arrives, in the order the exchange lists them in.  `full`:   *)
(* the optional fields this phase looks at (an event's category, a settled *)
(* market's result, the dollar quotes) are present.                        *)
Ahead(p) == {x \in proc[p].rest : Listed(p, x)}

Fetch(p) ==
    LET x == CHOOSE y \in Ahead(p) : TRUE
    IN  /\ Running(p) /\ Phase(p) \in Sweeps
        /\ proc[p].page = Null
        /\ Ahead(p) # {}
        /\ \E full \in BOOLEAN :
            /\ x \notin Sparse \/ Phase(p) = "markets" => full
            /\ Note(p, [proc[p] EXCEPT !.rest = @ \ {x},
                            !.page = [of |-> x, full |-> full,
                                      status |-> IF x \in Markets THEN listing[x] ELSE "open"]])

SyncedEvent(d, page) == UpsertEvent(d, page.of, page.full)

SyncedMarket(d, page) ==
    UpsertMarket(IgnoreEvent(d, EventOf[page.of]), page.of, page.status)

SettledMarket(d, page) ==
    IF ~page.full THEN d
    ELSE UpsertSettlement(
            UpsertMarket(IgnoreEvent(d, EventOf[page.of]), page.of, page.status), page.of)

(* Mutant: the snapshot trusts the market row to be there. *)
SnappedBare(d, page, at) ==
    IF page.full THEN AddPrice(d, page.of, at) ELSE d

SnappedMarket(d, page, at) ==
    LET known == IgnoreMarket(IgnoreEvent(d, EventOf[page.of]), page.of, page.status)
    IN  IF page.full THEN AddPrice(known, page.of, at) ELSE known

Applied(phase, d, page, at) ==
    CASE phase = "events" -> SyncedEvent(d, page)
      [] phase = "markets" -> SyncedMarket(d, page)
      [] phase = "settlements" -> SettledMarket(d, page)
      [] phase = "snapshot" -> SnappedMarket(d, page, at)

Apply(p) ==
    /\ Running(p) /\ Phase(p) \in Sweeps
    /\ proc[p].page # Null
    /\ LET c == [proc[p] EXCEPT !.page = Null] IN
       IF Phase(p) = "settlements" /\ ~proc[p].page.full
       THEN Note(p, c)
       ELSE Write(p, Applied(Phase(p), work, proc[p].page, proc[p].at), c)

(* End of the listing, or of the pages allowed: the transaction commits.   *)
(* Only sync_markets has a closing statement, which takes the lock even if *)
(* no page did.                                                            *)
EndSweep(p) ==
    /\ Running(p) /\ Phase(p) \in Sweeps
    /\ proc[p].page = Null
    /\ Ahead(p) = {} \/ "max_pages" \in proc[p].opt
    /\ IF Phase(p) = "markets" THEN WriteAndCommit(p, Denormalize(work), NextPhase(proc[p]))
       ELSE IF holder = p THEN WriteAndCommit(p, work, NextPhase(proc[p]))
       ELSE Note(p, NextPhase(proc[p]))

(* A request fails for good, the wait for the write lock times out, or the *)
(* process dies.                                                           *)
Abort(p) ==
    /\ Running(p)
    /\ Fail(p, "aborted")

----
(* prune.  The rows are counted by four SELECTs before anything is locked, *)
(* and each dependent table is only visited if its count was not zero.     *)

Counted == <<"prices", "articles", "market_links", "event_links", "scores">>

BeginPrune(p) ==
    \E opt \in SUBSET {"prices", "news", "apply"}, cutoff \in 1..now :
        /\ opt \intersect {"prices", "news"} # {}
        /\ Begin(p, Command("prune", Append(Counted, "delete"), opt, cutoff, [found |-> {}]))

Matches(d, table, c) ==
    CASE table = "prices" -> "prices" \in c.opt /\ OldPrices(d, c.at) # {}
      [] table = "articles" -> "news" \in c.opt /\ OldArticles(d, c.at) # {}
      [] table = "market_links" -> "news" \in c.opt /\ OldLinks(d, c.at, Markets) # {}
      [] table = "event_links" -> "news" \in c.opt /\ OldLinks(d, c.at, Events) # {}
      [] table = "scores" -> "news" \in c.opt /\ OldScores(d, c.at) # {}

(* compute_prune_counts: memo.found collects the tables whose count is not zero. *)
CountRows(p) ==
    /\ proc[p].cmd = "prune" /\ Running(p) /\ Phase(p) # "delete"
    /\ Note(p, [NextPhase(proc[p]) EXCEPT
                    !.memo.found = IF Matches(db, Phase(p), proc[p])
                                   THEN @ \union {Phase(p)} ELSE @])

(* Mutant: the cutoff is deleted too. *)
PrunedInclusive(d, found, cutoff) ==
    [d EXCEPT !.prices = IF "prices" \in found THEN @ \ OldPrices(d, cutoff + 1) ELSE @]

Pruned(d, found, cutoff) ==
    LET visit == IF "articles" \in found THEN found ELSE found \intersect {"prices"} IN
    [d EXCEPT
        !.prices = IF "prices" \in visit THEN @ \ OldPrices(d, cutoff) ELSE @,
        !.scores = IF "scores" \in visit THEN @ \ OldScores(d, cutoff) ELSE @,
        !.links = @ \ (  (IF "market_links" \in visit THEN OldLinks(d, cutoff, Markets) ELSE {})
                  \union (IF "event_links" \in visit THEN OldLinks(d, cutoff, Events) ELSE {})),
        !.articles = [u \in Urls |->
            IF "articles" \in visit /\ u \in OldArticles(d, cutoff) THEN Null ELSE d.articles[u]]]

Prune(p) ==
    /\ proc[p].cmd = "prune" /\ In(p, "delete")
    /\ IF "apply" \in proc[p].opt /\ proc[p].memo.found \intersect {"prices", "articles"} # {}
       THEN WriteAndCommit(p, Pruned(work, proc[p].memo.found, proc[p].at), NextPhase(proc[p]))
       ELSE Note(p, NextPhase(proc[p]))

----
(* export.  The tables are read one statement at a time, in the order a    *)
(* frozenset happens to have.  A CSV file is written anew; Parquet prices  *)
(* are written one file per month, and a month's file stays when the       *)
(* export has nothing for it.  (`files` is the directory of either.)       *)

BeginExport(p) ==
    \E opt \in {{"csv"}, {"parquet"}} :
        Begin(p, Command("export", <<"tables">>, opt, now, Null))

LeftOver(d, old) == {r \in old : \A s \in d.prices : s[2] # r[2]}

(* Mutant: a file that exists is kept. *)
ExportedOnce(d, f, table, csv) ==
    CASE table = "events" ->
            [f EXCEPT !.events = IF @ = {} THEN {e \in Events : d.events[e] # Null} ELSE @]
      [] table = "markets" ->
            [f EXCEPT !.markets = IF @ = {} THEN {m \in Markets : d.markets[m] # Null} ELSE @]
      [] table = "settlements" -> [f EXCEPT !.settled = d.settled]
      [] table = "prices" -> [f EXCEPT !.prices = d.prices]

Exported(d, f, table, csv) ==
    CASE table = "events" -> [f EXCEPT !.events = {e \in Events : d.events[e] # Null}]
      [] table = "markets" -> [f EXCEPT !.markets = {m \in Markets : d.markets[m] # Null}]
      [] table = "settlements" -> [f EXCEPT !.settled = d.settled]
      [] table = "prices" ->
            [f EXCEPT !.prices = d.prices \union IF csv THEN {} ELSE LeftOver(d, @)]

ExportTable(p) ==
    /\ In(p, "tables")
    /\ \E table \in proc[p].rest :
        /\ files' = Exported(db, files, table, "csv" \in proc[p].opt)
        /\ proc' = [proc EXCEPT ![p] =
                IF proc[p].rest = {table} THEN NextPhase(proc[p])
                ELSE [proc[p] EXCEPT !.rest = @ \ {table}]]
    /\ UNCHANGED <<listing, now, db, work, holder, started>>

NoFiles == [events |-> {}, markets |-> {}, settled |-> {}, prices |-> {}]

----
PipelineInit ==
    /\ listing = StartListing
    /\ now = 0
    /\ \E s \in Starts : db = s.db /\ files = s.files
    /\ work = db
    /\ holder = Null
    /\ proc = [p \in Procs |-> Idle]
    /\ started = 0

PipelineNext ==
    \/ \E m \in Markets : Settle(m)
    \/ Tick
    \/ \E p \in Procs :
        \/ BeginSyncMarkets(p) \/ BeginSyncSettlements(p)
        \/ BeginSnapshot(p) \/ BeginFullSync(p) \/ BeginPrune(p) \/ BeginExport(p)
        \/ Fetch(p) \/ Apply(p) \/ EndSweep(p) \/ Abort(p)
        \/ CountRows(p) \/ Prune(p) \/ ExportTable(p)
====
