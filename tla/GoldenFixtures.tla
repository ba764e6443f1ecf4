---- MODULE GoldenFixtures ----
(***************************************************************************)
(* The golden fixtures: scripts/record_api_responses.py asks the exchange  *)
(* for one answer of every endpoint and saves it, places, amends and       *)
(* cancels orders on the demo exchange to record those answers too;        *)
(* sanitize_golden_fixtures.py replaces account data in the files; the     *)
(* checks of CI validate the models against them and look at their age.    *)
(*                                                                         *)
(* A recorder is a plan, a sequence of steps, each a request named for the *)
(* file its answer is saved in; earlier answers decide which are wanted.   *)
(***************************************************************************)
EXTENDS Naturals, Sequences, FiniteSetsExt

CONSTANTS
    CommandLines,   \* of the recorder: endpoint, env, writes, creates, go
    Credentials,    \* environments whose credentials are configured
    Tracked,        \* fixture files that are followed
    Combos,         \* market pairs the create fallback tries, at most (9)
    LiveTypes,      \* live-data types tried, at most
    Required, Optional, AliasOf,  \* fields of a model; alias -> the field it stands for
    SentNow, SentLater,           \* fields of an answer, before and after the vendor changed it
    FreshDays, MaxDay, MaxScripts,
    NoFile

LookupFile == "multivariate_event_collection_lookup_tickers"

Recorders == {"public", "phase3", "phase4", "phase5", "authenticated", "order_ops"}

\* A file: the fields sent, whether account data is in it, whether it is whole.
Fixtures == [sent : {SentNow, SentLater, {}}, raw : BOOLEAN, sanitized : BOOLEAN, day : 0..MaxDay,
             whole : BOOLEAN]

ASSUME FixtureAssumption ==
    /\ CommandLines \subseteq [endpoint : Recorders \union {"all"}, env : {"demo", "prod"},
                               writes : BOOLEAN, creates : BOOLEAN, go : BOOLEAN]
    /\ Combos \in Nat \ {0} /\ LiveTypes \in Nat \ {0}
    /\ FreshDays \in Nat /\ MaxDay \in Nat /\ MaxScripts \in Nat
    /\ LookupFile \in Tracked /\ NoFile \notin Fixtures

PublicSteps == <<"tags_by_categories", "markets_list", "market_single", "orderbook", "events_list",
    "events_multivariate_list", "event_single", "trades_list", "candlesticks_batch",
    "candlesticks_batch_365d", "series_candlesticks", "series_candlesticks_365d", "exchange_status">>
SeriesSteps == <<"series_list", "series_single", "series_fee_changes">>
Phase3Steps == <<"events_probe", "event_metadata", "event_candlesticks", "event_candlesticks_365d",
    "filters_by_sport", "structured_targets_list", "structured_target_single">>
ExchangeSteps == <<"exchange_schedule", "exchange_announcements", "user_data_timestamp">>
MilestoneSteps == <<"milestones_list", "milestone_single">>
LiveSteps == <<"live_data_milestone", "live_data_batch">>
IncentiveSteps == <<"incentive_programs">>
GroupSteps == <<"order_group_create", "order_groups_list", "order_group_single", "order_group_reset",
    "order_group_delete">>
CollectionSteps == <<"multivariate_event_collections_list", "multivariate_event_collection_single">>
LookupSteps == <<"lookup_history", "event_markets", "combination", LookupFile>>
ReadSteps == <<"portfolio_balance", "portfolio_positions", "portfolio_orders", "portfolio_fills",
    "portfolio_settlements">>
SingleSteps == <<"create_order", "portfolio_order_single", "order_queue_position", "order_queue_positions",
    "decrease_order", "portfolio_total_resting_order_value", "cancel_order">>
AmendSteps == <<"amend_create", "amend_order", "amend_cancel">>
BatchSteps == <<"batch_create_orders", "batch_cancel_orders">>

\* These steps follow only when that step was answered so.
Given == {
    <<{"market_single", "orderbook"}, "markets_list", {"full"}>>,
    <<{"event_single"}, "events_list", {"full"}>>,
    <<{"trades_list", "candlesticks_batch"}, "event_single", {"full", "partial"}>>,
    <<{"series_candlesticks"}, "event_single", {"full"}>>,
    <<{"candlesticks_batch_365d"}, "candlesticks_batch", {"bare"}>>,
    <<{"series_candlesticks_365d"}, "series_candlesticks", {"bare"}>>,
    <<{"series_list"}, "tags_by_categories", {"full"}>>,
    <<{"series_single"}, "series_list", {"full"}>>,
    <<{"event_metadata", "event_candlesticks", "filters_by_sport", "structured_targets_list"}, "events_probe", {"full"}>>,
    <<{"event_candlesticks_365d"}, "event_candlesticks", {"bare"}>>,
    <<{"structured_target_single"}, "structured_targets_list", {"full"}>>,
    <<{"milestone_single", "live_data_milestone"}, "milestones_list", {"full"}>>,
    <<{"live_data_batch"}, "live_data_milestone", {"full"}>>,
    <<{"order_groups_list", "order_group_single", "order_group_reset", "order_group_delete"}, "order_group_create", {"full"}>>,
    <<{"multivariate_event_collection_single", "lookup_history"}, "multivariate_event_collections_list", {"full"}>>,
    <<{"event_markets"}, "lookup_history", {"bare", "refused"}>>,
    <<{"combination"}, "event_markets", {"full"}>>,
    <<{LookupFile}, "combination", {"full"}>>,
    <<{"create_order", "amend_create", "batch_create_orders"}, "order_markets", {"full"}>>,
    <<{"portfolio_order_single", "order_queue_position", "order_queue_positions", "decrease_order",
       "portfolio_total_resting_order_value", "cancel_order"}, "create_order", {"full"}>>,
    <<{"amend_order", "amend_cancel"}, "amend_create", {"full"}>>,
    <<{"batch_cancel_orders"}, "batch_create_orders", {"full"}>>}
Deciding == {g[2] : g \in Given} \union {"multivariate_event_collection_single"}

\* A step that is passed over takes with it those that follow on it.
Follow(D) == D \union UNION {g[1] : g \in {h \in Given : h[2] \in D}}
NotAfter(s, a) == Follow(Follow(Follow(UNION {g[1] : g \in {h \in Given : h[2] = s /\ a \notin h[3]}})))

\* Requests whose failure is not caught where it happens.
Raising == {"events_probe", "event_markets", "order_markets", "portfolio_order_single",
            "order_queue_position", "portfolio_total_resting_order_value"}
OrderCreates == {"create_order", "amend_create", "batch_create_orders", "order_group_create"}
Undoing == {"cancel_order", "amend_cancel", "batch_cancel_orders", "order_group_delete"}
Writes == OrderCreates \union Undoing \union {"amend_order", "decrease_order", "order_group_reset", "combination", LookupFile}
\* Steps whose failure can leave something at the exchange.
Followed == OrderCreates \union Undoing \union Raising \union {"amend_order", "combination"}
Unsaved == {"events_probe", "lookup_history", "event_markets", "combination", "order_markets", "amend_create", "amend_cancel"}

FileOf(s) == CASE s = "candlesticks_batch_365d" -> "candlesticks_batch"
               [] s = "series_candlesticks_365d" -> "series_candlesticks"
               [] s = "event_candlesticks_365d" -> "event_candlesticks"
               [] OTHER -> s

StepSet(p) == {p[i] : i \in DOMAIN p}
\* Files that hold data of the account.
AccountFiles == StepSet(ReadSteps \o GroupSteps \o SingleSteps \o BatchSteps) \union {"amend_order"}

VARIABLES
    fixtures,   \* the directory: file -> fields sent, account data raw, marked sanitized, day; or NoFile
    answers,    \* the last answer received for each file: fields, day (or NoFile)
    script,     \* the script that runs
    resting,    \* orders and order groups this run left at the exchange
    combinations,  \* market combinations this run created
    faults,     \* steps of this run that failed or were not understood
    world,      \* day, and whether the vendor changed its answers
    verdict,    \* what the last script said
    scripts     \* scripts started

golden == <<fixtures, answers, script, resting, combinations, faults, world, verdict, scripts>>

----
NoScript == [state |-> "none"]

\* The directory starts empty, or as it was committed: recorded in full, then sanitized.
Committed == [sent |-> SentNow, raw |-> FALSE, sanitized |-> TRUE, day |-> 0, whole |-> TRUE]

GoldenInit ==
    /\ fixtures \in {[f \in Tracked |-> d] : d \in {NoFile, Committed}}
    /\ answers = fixtures
    /\ script = NoScript
    /\ resting = {} /\ combinations = 0 /\ faults = {}
    /\ world = [day |-> 0, changed |-> FALSE]
    /\ verdict = [by |-> "none", ok |-> FALSE]
    /\ scripts = 0

DayPasses ==
    /\ script.state = "none" /\ world.day < MaxDay
    /\ \E c \in BOOLEAN : world' = [day |-> world.day + 1, changed |-> world.changed \/ c]
    /\ verdict' = [by |-> "none", ok |-> FALSE]
    /\ UNCHANGED <<fixtures, answers, script, resting, combinations, faults, scripts>>

----
(* The recorder. *)

WantsWrites(c) == c.writes \/ c.endpoint = "order_ops"

RecordersOf(c) == IF c.endpoint = "all"
                  THEN <<"public", "phase3", "phase4", "phase5", "authenticated">>
                  ELSE <<c.endpoint>>

GroupsRecordedAnyway(c) == c.env = "demo" /\ c.env \in Credentials
GroupsRecorded(c) == c.writes /\ c.env = "demo" /\ c.env \in Credentials

\* The lookup is recorded once.
LookupRecorded(c) == c.env \in Credentials /\ fixtures[LookupFile] = NoFile

OrderSteps == <<"order_markets">> \o SingleSteps \o AmendSteps \o BatchSteps

\* Order writes of the authenticated recorders: asked for, and only on demo.
OrdersRecorded(c) == WantsWrites(c) /\ c.env = "demo"

StepsOf(r, c) ==
    CASE r = "public" -> PublicSteps \o SeriesSteps
      [] r = "phase3" -> Phase3Steps
      [] r = "phase4" -> ExchangeSteps \o MilestoneSteps \o LiveSteps \o IncentiveSteps
                         \o (IF GroupsRecorded(c) THEN GroupSteps ELSE <<>>)
      [] r = "phase5" -> CollectionSteps \o (IF LookupRecorded(c) THEN LookupSteps ELSE <<>>)
      [] OTHER -> IF c.env \in Credentials
                  THEN (IF r = "authenticated" THEN ReadSteps ELSE <<>>)
                       \o (IF OrdersRecorded(c) THEN OrderSteps ELSE <<>>)
                  ELSE <<>>

\* main: refused for writes outside demo, and on prod without a yes.
CommandRefused(c) == (WantsWrites(c) /\ c.env # "demo") \/ (c.env = "prod" /\ ~c.go)

StartScript ==
    /\ script.state = "none" /\ scripts < MaxScripts
    /\ scripts' = scripts + 1
    /\ resting' = {} /\ combinations' = 0 /\ faults' = {}
    /\ UNCHANGED <<fixtures, answers, world>>

Record(c) ==
    /\ StartScript
    /\ IF CommandRefused(c)
       THEN script' = NoScript /\ verdict' = [by |-> "refused", ok |-> FALSE]
       ELSE /\ script' = [state |-> "recording", cmd |-> c, queue |-> RecordersOf(c),
                          plan |-> StepsOf(RecordersOf(c)[1], c),
                          todo |-> DOMAIN StepsOf(RecordersOf(c)[1], c), tries |-> 0,
                          contract |-> FALSE, target |-> "amend"]
            /\ verdict' = [by |-> "none", ok |-> FALSE]

NextIndex == Min(script.todo)
NextStep == script.plan[NextIndex]

\* The steps left after an answer.  The lookup takes its market pair from the history;
\* when that has none it is created, if asked and if the collection is known.
Remaining(s, a) ==
    {i \in script.todo \ {NextIndex} :
        IF s = "lookup_history"
        THEN \/ a = "full" /\ script.plan[i] = LookupFile
             \/ a # "full" /\ script.cmd.creates /\ script.contract /\ script.plan[i] \notin NotAfter(s, a)
        ELSE script.plan[i] \notin NotAfter(s, a)}

MayAnswer(s) ==
    CASE s = "combination" -> {"full", "refused", "lost", "cut", "cut_lost"}
      [] s \in Writes \ {"combination"} -> {"full", "bare", "refused", "lost"}
      [] s \in {"portfolio_order_single", "order_queue_position"} -> {"full", "missing", "raised"}
      [] s \in Raising \ {"portfolio_order_single", "order_queue_position"} -> {"full", "bare", "raised"}
      [] s = "event_single" -> {"full", "partial", "bare", "refused"}
      [] s \in Deciding \ (Writes \union Raising \union {"event_single"}) -> {"full", "bare", "refused"}
      [] OTHER -> {"full", "refused"}
Understood == {"full", "partial", "bare"}
Applied(a) == a \in Understood \union {"lost", "cut_lost"}

Saves(s, a) == /\ a \in Understood /\ s \notin Unsaved /\ FileOf(s) \in Tracked
               /\ ~(s = "portfolio_total_resting_order_value" /\ a = "bare")

\* save_golden: written over whatever was there, and marked as not sanitized.
Fixture(s, a) ==
    [sent |-> IF a = "bare" THEN {} ELSE IF world.changed THEN SentLater ELSE SentNow,
     raw |-> FileOf(s) \in AccountFiles, sanitized |-> FALSE, day |-> world.day, whole |-> TRUE]

Saved(s, a) ==
    IF Saves(s, a)
    THEN /\ fixtures' = [fixtures EXCEPT ![FileOf(s)] = Fixture(s, a)]
         /\ answers' = [answers EXCEPT ![FileOf(s)] = Fixture(s, a)]
    ELSE UNCHANGED <<fixtures, answers>>

\* What a request changes at the exchange; an amended order may get another id.
PlacedBy(s) == CASE s = "create_order" -> {"single"}
                 [] s = "amend_create" -> {"amend"}
                 [] s = "batch_create_orders" -> {"batch1", "batch2"}
                 [] s = "order_group_create" -> {"group"}
                 [] OTHER -> {}
RemovedBy(s) == CASE s = "cancel_order" -> {"single"}
                  [] s = "amend_cancel" -> {script.target}
                  [] s = "batch_cancel_orders" -> {"batch1", "batch2"}
                  [] s = "order_group_delete" -> {"group"}
                  [] OTHER -> {}

Happens(s, renamed) ==
    /\ resting' = IF s = "amend_order" /\ renamed
                  THEN (resting \ {"amend"}) \union {"amended"}
                  ELSE (resting \union PlacedBy(s)) \ RemovedBy(s)
    /\ combinations' = IF s = "combination" THEN combinations + 1 ELSE combinations

\* The id cancelled after the amend: the answer's, or the first one.
CancelFirstId(s, a, renamed) == script.target
CancelTarget(s, a, renamed) == IF s = "amend_order" /\ a = "full" /\ renamed THEN "amended" ELSE script.target

\* Live data and market pairs are tried until one is answered.
TriedAgain(s, a) ==
    \/ s = "live_data_milestone" /\ a = "refused" /\ script.tries + 1 < LiveTypes
    \/ s = "combination" /\ a \in {"refused", "lost"} /\ script.tries + 1 < Combos

Died(a) == a \in {"raised", "cut", "cut_lost"}
Caught == Head(script.queue) \in {"authenticated", "order_ops"}

Answered(a, renamed) ==
    LET s == NextStep
    IN  /\ script.state = "recording" /\ script.todo # {}
        /\ a \in MayAnswer(s)
        /\ renamed => s = "amend_order"
        \* an order that is not there cannot be cancelled
        /\ RemovedBy(s) \subseteq resting \/ a = "refused"
        /\ IF Applied(a) THEN Happens(s, renamed) ELSE UNCHANGED <<resting, combinations>>
        /\ Saved(s, a)
        /\ faults' = IF s \in Followed /\ a \notin {"full", "missing"} /\ RemovedBy(s) \subseteq resting
                     THEN faults \union {s} ELSE faults
        /\ script' = CASE Died(a) /\ ~Caught -> NoScript
                       [] Died(a) /\ Caught -> [script EXCEPT !.todo = {}]
                       [] TriedAgain(s, a) -> [script EXCEPT !.tries = @ + 1]
                       [] OTHER -> [script EXCEPT !.todo = Remaining(s, a), !.tries = 0,
                                                  !.target = CancelTarget(s, a, renamed),
                                                  !.contract = @ \/ (s = "multivariate_event_collection_single" /\ a = "full")]
        /\ verdict' = IF Died(a) /\ ~Caught THEN [by |-> "recorder", ok |-> FALSE] ELSE verdict
        /\ UNCHANGED <<world, scripts>>

\* The next recorder; after the last one the summary is written.
NextRecorder ==
    /\ script.state = "recording" /\ script.todo = {}
    /\ IF Len(script.queue) > 1
       THEN /\ script' = [script EXCEPT !.queue = Tail(@),
                                        !.plan = StepsOf(script.queue[2], script.cmd),
                                        !.todo = DOMAIN StepsOf(script.queue[2], script.cmd)]
            /\ UNCHANGED verdict
       ELSE /\ script' = NoScript
            /\ verdict' = [by |-> "recorder", ok |-> TRUE]
    /\ UNCHANGED <<fixtures, answers, resting, combinations, faults, world, scripts>>

\* Ctrl-C, while a request is on its way or while its answer is written.
Interrupt(taken, torn) ==
    LET s == NextStep
    IN  /\ script.state = "recording" /\ script.todo # {}
        /\ torn => taken /\ Saves(s, "full")
        /\ IF taken /\ RemovedBy(s) \subseteq resting THEN Happens(s, FALSE) ELSE UNCHANGED <<resting, combinations>>
        /\ fixtures' = IF torn THEN [fixtures EXCEPT ![FileOf(s)] = [Fixture(s, "bare") EXCEPT !.whole = FALSE]]
                       ELSE fixtures
        /\ faults' = faults \union {"interrupt"}
        /\ script' = NoScript
        /\ verdict' = [by |-> "recorder", ok |-> FALSE]
        /\ UNCHANGED <<answers, world, scripts>>

----
(* The sanitizer. *)

SensitiveOrders == StepSet(ReadSteps) \union StepSet(SingleSteps) \union StepSet(BatchSteps) \union {"amend_order"}
SensitiveFiles == StepSet(ReadSteps) \union StepSet(GroupSteps) \union StepSet(BatchSteps)
    \union {"portfolio_order_single", "portfolio_total_resting_order_value", "order_queue_position",
            "order_queue_positions", "create_order", "cancel_order", "amend_order", "decrease_order"}

BeginSanitize(force) ==
    /\ StartScript
    /\ script' = [state |-> "sanitizing", force |-> force, files |-> SensitiveFiles \intersect Tracked, failed |-> FALSE]
    /\ verdict' = [by |-> "none", ok |-> FALSE]

\* A file that is missing or marked is passed over; one that is not JSON fails and stays.
SanitizeFile(f) ==
    /\ script.state = "sanitizing" /\ f \in script.files
    /\ LET d == fixtures[f]
           skipped == d = NoFile \/ (d.whole /\ d.sanitized /\ ~script.force)
           failed == d # NoFile /\ ~d.whole
       IN  /\ fixtures' = IF skipped \/ failed THEN fixtures
                          ELSE [fixtures EXCEPT ![f] = [d EXCEPT !.raw = FALSE, !.sanitized = TRUE]]
           /\ script' = [script EXCEPT !.files = @ \ {f}, !.failed = @ \/ failed]
    /\ UNCHANGED <<answers, resting, combinations, faults, world, verdict, scripts>>

\* Ctrl-C, perhaps while the file is written.
InterruptSanitize(f, torn) ==
    /\ script.state = "sanitizing" /\ f \in script.files
    /\ torn => fixtures[f] # NoFile
    /\ fixtures' = IF torn THEN [fixtures EXCEPT ![f] = [@ EXCEPT !.sent = {}, !.whole = FALSE]] ELSE fixtures
    /\ script' = NoScript
    /\ UNCHANGED <<answers, resting, combinations, faults, world, verdict, scripts>>

EndSanitize ==
    /\ script.state = "sanitizing" /\ script.files = {}
    /\ script' = NoScript
    /\ verdict' = [by |-> "sanitizer", ok |-> ~script.failed]
    /\ UNCHANGED <<fixtures, answers, resting, combinations, faults, world, scripts>>

----
(* The checks of CI. *)

Unmapped == {"exchange_status", "user_data_timestamp", "series_fee_changes", "structured_targets_list",
    "structured_target_single", "milestones_list", "milestone_single", "live_data_milestone",
    "live_data_batch", "incentive_programs"}

Aliases == DOMAIN AliasOf
\* analyze_response: a field no model reads, a required one that is missing, or pydantic's own verdict.
Unexpected(sent) == sent \ (Required \union Optional \union Aliases)
MissingRequired(sent) == {r \in Required : r \notin sent /\ ~\E k \in Aliases : AliasOf[k] = r /\ k \in sent}
\* pydantic reads a field under its aliases when it has one
Accepted(sent) == \A r \in Required :
    IF \E k \in Aliases : AliasOf[k] = r THEN \E k \in Aliases : AliasOf[k] = r /\ k \in sent ELSE r \in sent
FieldsMatch(sent) == Unexpected(sent) = {} /\ MissingRequired(sent) = {} /\ Accepted(sent)

\* A fixture that is missing, not JSON or without data is skipped.
Validated(f) == /\ f \notin Unmapped /\ fixtures[f] # NoFile
                /\ fixtures[f].whole /\ fixtures[f].sent # {}

Aged(f) == fixtures[f] # NoFile /\ fixtures[f].whole /\ world.day - fixtures[f].day > FreshDays

Check ==
    /\ StartScript
    /\ \/ verdict' = [by |-> "validator", ok |-> \A f \in Tracked : Validated(f) => FieldsMatch(fixtures[f].sent)]
       \/ verdict' = [by |-> "freshness", ok |-> ~\E f \in Tracked : Aged(f)]
    /\ UNCHANGED script

----
GoldenNext ==
    \/ DayPasses
    \/ \E c \in CommandLines : Record(c)
    \/ \E s \in {"full", "partial", "bare", "refused", "lost", "missing", "raised", "cut", "cut_lost"}, b \in BOOLEAN : Answered(s, b)
    \/ NextRecorder
    \/ \E taken, torn \in BOOLEAN : Interrupt(taken, torn)
    \/ \E force \in BOOLEAN : BeginSanitize(force)
    \/ \E f \in Tracked : SanitizeFile(f) \/ \E torn \in BOOLEAN : InterruptSanitize(f, torn)
    \/ EndSanitize
    \/ Check

GoldenSpec == GoldenInit /\ [][GoldenNext]_golden

----
(* An order or order group the run leaves at the exchange is the work of a *)
(* failure on its own way: its creation was not understood, its removal    *)
(* failed, or one of the reads in between ended the recorder.  A failed    *)
(* decrease, amend or reset, or an order not found, leaves nothing.        *)
WayOf(o) ==
    CASE o = "single" -> {"create_order", "portfolio_order_single", "order_queue_position",
                          "portfolio_total_resting_order_value", "cancel_order"}
      [] o = "amend" -> {"amend_create", "amend_cancel"}
      [] o = "amended" -> {"amend_order", "amend_cancel"}
      [] o \in {"batch1", "batch2"} -> {"batch_create_orders", "batch_cancel_orders"}
      [] OTHER -> {"order_group_create", "order_group_delete"}

(* Whatever a recording left resting at the exchange, some request on the  *)
(* way of that order failed, or the recording was interrupted.             *)
LeftoversExplained ==
    script.state # "recording" => \A o \in resting : (WayOf(o) \union {"interrupt"}) \intersect faults # {}

(* Orders and groups are created only on the demo exchange and by a run    *)
(* that asked for writes; a market is created only by a run that asked     *)
(* for it, while the lookup it serves was never recorded, and a second     *)
(* one only when the answer to the first was lost.                         *)
WritesAsked ==
    [][ /\ resting' \ resting # {} => script.cmd.env = "demo" /\ WantsWrites(script.cmd)
        /\ combinations' > combinations => /\ script.cmd.creates /\ fixtures[LookupFile] = NoFile
                                           /\ combinations > 0 => "combination" \in faults ]_golden

(* An answer the disk holds whole, as it was last received.                *)
ReliedOn(f) == f \in Tracked /\ answers[f] # NoFile /\ fixtures[f].whole

(* What the scripts say can be relied on: after a clean sanitizing pass    *)
(* no file holds account data; after a green validation no answer that     *)
(* was last received has a field the models do not read or lacks one they  *)
(* need; after a green freshness check none is old.  Files cut short by    *)
(* an interrupt are the exception: both checks pass over them.             *)
VerdictsRight ==
    verdict.ok =>
    /\ verdict.by = "sanitizer" => \A f \in Tracked : fixtures[f] # NoFile => ~(fixtures[f].whole /\ fixtures[f].raw)
    /\ verdict.by = "validator" => \A f \in Tracked \ Unmapped : ReliedOn(f) /\ answers[f].sent # {} =>
          answers[f].sent \subseteq Required \union Optional \union Aliases /\ Accepted(answers[f].sent)
    /\ verdict.by = "freshness" => \A f \in Tracked : ReliedOn(f) => world.day - answers[f].day <= FreshDays
====
