---- MODULE NewsDesk ----
(***************************************************************************)
(* The news commands beside the data commands on the same file: track,     *)
(* untrack and collect.  track and untrack read before they lock, and      *)
(* write what they found changed; the collector stores every article in a  *)
(* transaction of its own, which looks the URL up before it locks and      *)
(* takes a unique-key error for a duplicate.                               *)
(***************************************************************************)
EXTENDS DataPipeline

----
(* track: the exchange is asked for the ticker, then event and market rows *)
(* are merged in one transaction and the item enrolled in a second.        *)

(* memo: what was asked for, the rows the exchange answered with, and the  *)
(* rows found in the file.                                                 *)
BeginTrack(p) ==
    \E t \in Watched, cat \in BOOLEAN :
        LET steps == IF t \in Markets
                     THEN <<"find_event", "find_market", "merge", "find_item", "enrol">>
                     ELSE <<"find_event", "merge", "find_item", "enrol">>
            memo == [ticker |-> t,
                     event  |-> IF t \in Markets THEN EventOf[t] ELSE t,
                     given  |-> [real |-> TRUE, cat |-> cat],
                     market |-> [status |-> IF t \in Markets THEN listing[t] ELSE "open",
                                 cat |-> FALSE],
                     seen_event |-> Null, seen_market |-> Null, seen_item |-> "no"]
        IN Begin(p, Command("track", steps, {}, now, memo))

BeginUntrack(p) ==
    \E t \in Watched :
        Begin(p, Command("untrack", <<"find_item", "retire">>, {}, now,
                         [ticker |-> t, seen_item |-> "no"]))

FindEvent(p) ==
    /\ In(p, "find_event")
    /\ Note(p, [NextPhase(proc[p]) EXCEPT !.memo.seen_event = db.events[proc[p].memo.event]])

FindMarket(p) ==
    /\ In(p, "find_market")
    /\ Note(p, [NextPhase(proc[p]) EXCEPT !.memo.seen_market = db.markets[proc[p].memo.ticker]])

FindItem(p) ==
    /\ In(p, "find_item")
    /\ Note(p, [NextPhase(proc[p]) EXCEPT
                    !.memo.seen_item = db.tracked[proc[p].memo.ticker]])

(* _upsert_event_and_market at its flush and commit. *)
MergeRows(p) ==
    LET k == proc[p].memo
        withMarket == k.ticker \in Markets
        event == MergeRow(k.seen_event, work.events[k.event], k.given)
        market == MergeRow(k.seen_market, work.markets[k.ticker], k.market)
        merged == [work EXCEPT !.events[k.event] = event,
                               !.markets = IF withMarket THEN [@ EXCEPT ![k.ticker] = market] ELSE @]
        changed == k.seen_event # k.given \/ (withMarket /\ k.seen_market # k.market)
        conflict == \/ MergeConflicts(k.seen_event, work.events[k.event])
                    \/ withMarket /\ MergeConflicts(k.seen_market, work.markets[k.ticker])
    IN  /\ In(p, "merge")
        /\ CASE ~changed -> Note(p, NextPhase(proc[p]))
             [] changed /\ conflict -> LockFree(p) /\ Fail(p, "integrity")
             [] OTHER -> WriteAndCommit(p, merged, NextPhase(proc[p]))

(* NewsTracker.track: insert, or reactivate what was found. *)
Enrol(p) ==
    LET t == proc[p].memo.ticker IN
    /\ In(p, "enrol")
    /\ IF proc[p].memo.seen_item = "no" /\ work.tracked[t] # "no"
       THEN LockFree(p) /\ Fail(p, "integrity")
       ELSE WriteAndCommit(p, [work EXCEPT !.tracked[t] = "active"], NextPhase(proc[p]))

(* NewsTracker.untrack. *)
Retire(p) ==
    LET t == proc[p].memo.ticker IN
    /\ In(p, "retire")
    /\ IF proc[p].memo.seen_item = "active"
       THEN WriteAndCommit(p, [work EXCEPT !.tracked[t] = "inactive"], NextPhase(proc[p]))
       ELSE Note(p, NextPhase(proc[p]))

----
(* collect, for one ticker or for every active item: the items are read    *)
(* once.  `rest` is what is left of the present response.                  *)

ActiveItems == {t \in Tickers : db.tracked[t] = "active"}

BeginCollect(p) ==
    \E items \in {ActiveItems} \union {{t} : t \in ActiveItems} :
        /\ items # {}
        /\ Begin(p, Command("collect", <<"items">>, {}, now,
                            [items |-> items, item |-> Null]))

(* The next item's query: the response holds some articles, or the request *)
(* failed and there are none; an exhausted budget leaves the items behind. *)
Query(p) ==
    /\ In(p, "items")
    /\ \E t \in proc[p].memo.items, urls \in SUBSET Urls :
        Note(p, [proc[p] EXCEPT !.phases = <<"results", "items">>, !.rest = urls,
                                !.memo = [items |-> @.items \ {t}, item |-> t]])

Exhausted(p) ==
    /\ In(p, "items")
    /\ Note(p, NextPhase(proc[p]))

(* One result: the SELECT by url_hash.  A known article is left as it is. *)
LookUp(p) ==
    /\ In(p, "results")
    /\ \E u \in proc[p].rest, text \in BOOLEAN :
        Note(p, IF db.articles[u] # Null
                THEN [proc[p] EXCEPT !.rest = @ \ {u}]
                ELSE [proc[p] EXCEPT !.rest = @ \ {u}, !.phases = <<"store">> \o @,
                                     !.page = [of |-> u, full |-> text, status |-> "open"]])

(* Mutant: the article is committed before its link. *)
StoreCommitted(p) ==
    LET u == proc[p].page.of IN
    /\ In(p, "store")
    /\ work.articles[u] = Null
    /\ WriteAndCommit(p, [work EXCEPT !.articles[u] = now],
                      [proc[p] EXCEPT !.phases = <<"link">> \o Tail(@)])

(* The article is added and flushed: its collection time is the present,   *)
(* the lock is taken, and a duplicate URL ends the transaction.            *)
Store(p) ==
    LET u == proc[p].page.of
        next == [proc[p] EXCEPT !.phases = Tail(@), !.page = Null]
    IN  /\ In(p, "store")
        /\ LockFree(p)
        /\ IF work.articles[u] # Null
           THEN Note(p, next)
           ELSE Write(p, [work EXCEPT !.articles[u] = now],
                      [proc[p] EXCEPT !.phases = <<"link">> \o Tail(@)])

(* Its link to the item, and its sentiment if there is text; commit. *)
Linked(d, u, item, text) ==
    [d EXCEPT !.links = @ \union {<<u, item>>},
              !.scores = IF text THEN @ \union {u} ELSE @]

Link(p) ==
    /\ In(p, "link")
    /\ WriteAndCommit(p, Linked(work, proc[p].page.of, proc[p].memo.item, proc[p].page.full),
                      [proc[p] EXCEPT !.phases = Tail(@), !.page = Null])

(* The item is done: last_collected_at, which nothing reads, is written    *)
(* under the lock.                                                         *)
ItemDone(p) ==
    /\ In(p, "results")
    /\ proc[p].rest = {}
    /\ LockFree(p)
    /\ Note(p, IF proc[p].memo.items = {} THEN Ended(proc[p], "ok")
               ELSE NextPhase(proc[p]))

----
Next ==
    \/ PipelineNext
    \/ \E p \in Procs :
        \/ BeginTrack(p) \/ FindEvent(p) \/ FindMarket(p) \/ MergeRows(p) \/ FindItem(p) \/ Enrol(p)
        \/ BeginUntrack(p) \/ Retire(p)
        \/ BeginCollect(p) \/ Query(p) \/ Exhausted(p) \/ LookUp(p) \/ Store(p) \/ Link(p)
        \/ ItemDone(p)

Spec == PipelineInit /\ [][Next]_pipeline

----
(* Types. *)
TypeOK ==
    /\ listing \in [Markets -> {"open", "settled"}]
    /\ now \in Times
    /\ db \in Database /\ work \in Database
    /\ holder \in Procs \union {Null}
    /\ started \in 0..MaxCommands
    /\ holder = Null => work = db
    /\ holder # Null => Running(holder)
    /\ \A p \in Procs : proc[p].end = "running" <=> Running(p)

(* No command leaves an orphan: every row a foreign key points to is       *)
(* there, in what is committed as in what is being written, and every      *)
(* stored article is linked to a market or event somebody tracked, so      *)
(* that it can be found again.                                             *)
NewsWhole ==
    /\ TypeOK
    /\ ForeignKeysHold(db) /\ ForeignKeysHold(work)
    /\ ArticlesLinked(db)

(* A command run alone never meets an integrity error.  With others, only  *)
(* track can, whose rows somebody else inserted since it looked, and       *)
(* prune, whose counts missed an article committed since.                  *)
IntegrityErrorsNeedOverlap ==
    \A p \in Procs : proc[p].end = "integrity" =>
        /\ proc[p].overlap
        /\ proc[p].cmd \in {"track", "prune"}

(* Nothing the file knows about the exchange is forgotten by a commit: no  *)
(* event, market or settlement row goes, a real title stays, an event's    *)
(* category is lost only to track, a market's only to track, to the        *)
(* settlement sync or with its event's, a settled market is open again     *)
(* only by the stale page of an overlapped command, and after a market     *)
(* sync every market has its event's category.                             *)
Loses(p, cmds) == proc[p] # proc'[p] /\ proc[p].cmd \in cmds

CatalogueStep ==
    /\ \A e \in Events : db.events[e] # Null =>
        /\ db'.events[e] # Null
        /\ db.events[e].real => db'.events[e].real
        /\ db.events[e].cat /\ ~db'.events[e].cat => \E p \in Procs : Loses(p, {"track"})
    /\ \A m \in Markets : db.markets[m] # Null =>
        /\ db'.markets[m] # Null
        /\ db.markets[m].cat /\ ~db'.markets[m].cat =>
              \/ \E p \in Procs : Loses(p, {"track", "sync-settlements"})
              \/ ~db'.events[EventOf[m]].cat
        /\ db.markets[m].status = "settled" /\ db'.markets[m].status = "open" =>
              \E p \in Procs : proc[p] # proc'[p] /\ proc[p].overlap
    /\ db.settled \subseteq db'.settled
    /\ \A p \in Procs : In(p, "markets") /\ Running(p) /\ proc'[p].phases # proc[p].phases
                        /\ proc'[p].end # "aborted" =>
        \A m \in Markets :
            db'.markets[m] # Null /\ db'.events[EventOf[m]].cat => db'.markets[m].cat

(* No commit of any command forgets what is known of the exchange.         *)
CatalogueNeverForgets == [][CatalogueStep]_pipeline

(* A prune takes only what is older than its cutoff, with everything that  *)
(* hangs from it, and, if nothing was committed while it ran, all of it;   *)
(* no other command deletes a price or an article.                         *)
PruneStep ==
    /\ (\/ ~(db.prices \subseteq db'.prices)
        \/ \E u \in Urls : db.articles[u] # Null /\ db'.articles[u] = Null)
       => \E p \in Procs : Loses(p, {"prune"})
    /\ \A p \in Procs : proc[p].cmd = "prune" /\ In(p, "delete") /\ proc'[p].end = "ok" =>
        LET c == proc[p].at IN
        /\ db.prices \ db'.prices \subseteq OldPrices(db, c)
        /\ \A u \in Urls : db'.articles[u] # db.articles[u] => u \in OldArticles(db, c)
        /\ "apply" \notin proc[p].opt => db' = db
        /\ db'.links = {l \in db.links : db'.articles[l[1]] # Null}
        /\ ~proc[p].overlap /\ "apply" \in proc[p].opt =>
              /\ "prices" \in proc[p].opt => OldPrices(db', c) = {}
              /\ "news" \in proc[p].opt => OldArticles(db', c) = {}

(* Rows are deleted by a prune alone, and by it exactly the old ones.       *)
PruneExact == [][PruneStep]_pipeline

(* An export nothing was committed during is a consistent picture: the     *)
(* rows of each file have theirs in the others.                            *)
ExportStep ==
    \A p \in Procs :
        (In(p, "tables") /\ proc'[p].end = "ok" /\ ~proc[p].overlap) =>
            /\ files'.settled \subseteq files'.markets
            /\ {EventOf[m] : m \in files'.markets} \subseteq files'.events
            /\ {r[1] : r \in files'.prices} \subseteq files'.markets

(* The files of an undisturbed export agree with one another.               *)
ExportsAgree == [][ExportStep]_pipeline
====
