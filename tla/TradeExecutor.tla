---------------------------- MODULE TradeExecutor ----------------------------
(***************************************************************************)
(* The trade safety harness (execution/_executor.py, _checks.py,           *)
(* _orchestration.py, audit.py): concurrent create_order calls, in one or  *)
(* more processes that share the audit log, each running the live checks   *)
(* in order with a suspension at every provider, then handing the order to *)
(* the client and appending one audit event; and the cancel and amend      *)
(* wrappers.                                                               *)
(*                                                                         *)
(* The client (OrderClient models its retry loop) is seen here through     *)
(* what it can do to one order: a request is on the wire, the exchange     *)
(* accepts it at most once, and the call returns or raises, also while the *)
(* request is still on the wire.                                           *)
(***************************************************************************)
EXTENDS Integers, FiniteSets, Functions

CONSTANTS
    Attempts,           \* the create_order calls of a run
    Requests,           \* what they ask for: [side, action, count, price]
    Amendments,         \* what amend_order asks for: [count, price]
    LiveAttempts,       \* those made on a TradeExecutor(live=True)
    Production,         \* environment == Environment.PRODUCTION
    AllowProduction,    \* allow_production
    RequireConfirmation,
    HasConfirm,         \* confirm is not None
    Providers,          \* the providers that are configured
    MinGrade,           \* min_liquidity_grade, 0 (ILLIQUID) to 3 (LIQUID)
    MaxOrderRisk,       \* max_order_risk_usd, in cents
    MaxOrdersPerDay,    \* max_orders_per_day
    MaxNotional,        \* max_notional_usd, in cents
    MaxPosition,        \* max_position_contracts
    MaxDeviation,       \* max_price_deviation_cents
    Positions,          \* what the position provider may answer
    Books,              \* what the orderbook provider may answer: [mid, depth]
    NoMid,              \* orderbook.midpoint is None
    MaxConcurrent,      \* bound: create_order calls running at a time
    MaxDay,             \* bound: last day of the run
    MaxToggles,         \* bound: how often the kill switch is flipped
    MaxMods,            \* bound: cancel and amend requests
    MaxAuditFailures,   \* bound: audit writes that fail
    MaxCrashes,         \* bound: calls whose process dies
    NoOrder, NoMod      \* "nothing there" values

-----------------------------------------------------------------------------
AllProviders == {"budget", "position", "orderbook", "market"}

(* The check stages, in the order run_live_checks awaits them.             *)
Stages == {"sync", "loss", "spend", "position", "book", "grade", "confirm"}

FailureCodes ==
    {"price_out_of_bounds", "count_not_positive", "max_order_risk_exceeded",
     "kill_switch_enabled", "production_trading_disabled", "max_orders_per_day_exceeded",
     "max_daily_loss_exceeded", "max_notional_exceeded", "max_position_contracts_exceeded",
     "fat_finger_deviation_exceeded", "slippage_limit_exceeded", "orderbook_provider_failed",
     "liquidity_grade_too_low", "liquidity_check_failed",
     "missing_confirmation_callback", "confirmation_declined"}

Outcomes == {"none", "simulated", "refused", "escaped", "ok", "error", "crashed"}

Calls == [pc : Stages \cup {"idle", "sent", "done"}, req : Requests, now : Nat, checkDay : Nat,
          failures : SUBSET FailureCodes, outcome : Outcomes]

Events == [attempt : Attempts, mode : {"live", "dry_run"}, day : Nat, passed : BOOLEAN,
           order : BOOLEAN]

Orders == [side : {"yes", "no"}, count : Int, price : Int, day : Nat, late : BOOLEAN,
           amended : BOOLEAN, cancelled : BOOLEAN]

Mods == [kind : {"cancel", "amend"}, count : Nat, price : Nat]

ASSUME ExecutorAssumption ==
    /\ Requests # {}
    /\ Requests \subseteq [side : {"yes", "no"}, action : {"buy", "sell"}, count : Int, price : Int]
    /\ Amendments \subseteq [count : Nat \ {0}, price : 1..99]
    /\ LiveAttempts \subseteq Attempts
    /\ Production \in BOOLEAN /\ AllowProduction \in BOOLEAN
    /\ RequireConfirmation \in BOOLEAN /\ HasConfirm \in BOOLEAN
    /\ Providers \subseteq AllProviders
    /\ MinGrade \in 0..3
    /\ MaxOrderRisk \in Int /\ MaxOrdersPerDay \in Int /\ MaxNotional \in Int
    /\ MaxPosition \in Int /\ MaxDeviation \in Int
    /\ MaxConcurrent \in Nat \ {0}
    /\ MaxDay \in Nat /\ MaxToggles \in Nat /\ MaxMods \in Nat
    /\ MaxAuditFailures \in Nat /\ MaxCrashes \in Nat
    /\ NoOrder \notin Orders
    /\ NoMod \notin Mods

VARIABLES
    killSwitch,     \* KALSHI_TRADE_KILL_SWITCH == "1"
    day,            \* the calendar day the clock shows
    call,           \* call[a]: the coroutine of create_order call a
    auditLog,       \* the events in the JSONL file
    wire,           \* wire[a]: the order request of a may still reach the exchange
    orders,         \* orders[a]: the order of a on the exchange's books
    mods,           \* mods[a]: a cancel or amend request on the wire for that order
    sinceKill,      \* history: orders handed over since the kill switch went on
    toggles, modCount, auditFailures, crashes   \* counters of the bounded events

vars == <<killSwitch, day, call, auditLog, wire, orders, mods, sinceKill,
          toggles, modCount, auditFailures, crashes>>

-----------------------------------------------------------------------------
(* estimate_order_risk_usd, in cents: the worse of the two sides.          *)
Risk(r) == r.count * (IF r.price >= 100 - r.price THEN r.price ELSE 100 - r.price)

(* run_common_checks: the failure codes of a request.                      *)
CommonFailures(r) ==
    {f \in {"price_out_of_bounds", "count_not_positive", "max_order_risk_exceeded"} :
        \/ f = "price_out_of_bounds"     /\ r.price \notin 1..99
        \/ f = "count_not_positive"      /\ r.count <= 0
        \/ f = "max_order_risk_exceeded" /\ Risk(r) > MaxOrderRisk}

(* check_production_gating                                                 *)
ProductionBlocked == Production /\ ~AllowProduction

(* _count_live_orders_today: every live event of the day, whatever came of *)
(* the attempt.                                                            *)
LiveOrdersOn(d) == Cardinality({e \in auditLog : e.mode = "live" /\ e.day = d})

(* Mutants: a synchronous check is left out, or counts one order too many.  *)
SyncFailuresWithoutKillSwitch ==
    {f \in {"production_trading_disabled", "max_orders_per_day_exceeded"} :
        \/ f = "production_trading_disabled" /\ ProductionBlocked
        \/ f = "max_orders_per_day_exceeded" /\ MaxOrdersPerDay > 0
                                             /\ LiveOrdersOn(day) >= MaxOrdersPerDay}

SyncFailuresOneMore ==
    {f \in {"kill_switch_enabled", "production_trading_disabled", "max_orders_per_day_exceeded"} :
        \/ f = "kill_switch_enabled"         /\ killSwitch
        \/ f = "production_trading_disabled" /\ ProductionBlocked
        \/ f = "max_orders_per_day_exceeded" /\ MaxOrdersPerDay > 0
                                             /\ LiveOrdersOn(day) > MaxOrdersPerDay}

(* The synchronous checks of run_live_checks.                              *)
SyncFailures ==
    {f \in {"kill_switch_enabled", "production_trading_disabled", "max_orders_per_day_exceeded"} :
        \/ f = "kill_switch_enabled"         /\ killSwitch
        \/ f = "production_trading_disabled" /\ ProductionBlocked
        \/ f = "max_orders_per_day_exceeded" /\ MaxOrdersPerDay > 0
                                             /\ LiveOrdersOn(day) >= MaxOrdersPerDay}

(* What DailyBudgetTracker.get_daily_spend_usd is to return: the risk of   *)
(* the live orders the exchange took today.                                *)
Placed == {a \in Attempts : orders[a] # NoOrder}
DailySpend(d) ==
    SumFunctionOnSet([a \in Attempts |-> Risk(call[a].req)], {a \in Placed : orders[a].day = d})

Running == {a \in Attempts : call[a].pc \in Stages \cup {"sent"}}
Ended   == {a \in Attempts : call[a].pc = "done"}

Idle == [pc |-> "idle", req |-> CHOOSE r \in Requests : TRUE, now |-> 0, checkDay |-> 0,
         failures |-> {}, outcome |-> "none"]

Init ==
    /\ killSwitch = FALSE
    /\ day = 0
    /\ call = [a \in Attempts |-> Idle]
    /\ auditLog = {}
    /\ wire = [a \in Attempts |-> FALSE]
    /\ orders = [a \in Attempts |-> NoOrder]
    /\ mods = [a \in Attempts |-> NoMod]
    /\ sinceKill = 0
    /\ toggles = 0
    /\ modCount = 0
    /\ auditFailures = 0
    /\ crashes = 0

-----------------------------------------------------------------------------
(* The finally block of create_order: one event stamped with the time the  *)
(* call started; a failing write is logged and swallowed.                  *)
Event(a, fails, orderId) ==
    [attempt |-> a, mode |-> IF a \in LiveAttempts THEN "live" ELSE "dry_run", day |-> call[a].now,
     passed |-> fails = {}, order |-> orderId]

WriteAudit(e) ==
    \/ auditLog' = auditLog \cup {e} /\ UNCHANGED auditFailures
    \/ /\ auditFailures < MaxAuditFailures
       /\ auditFailures' = auditFailures + 1
       /\ UNCHANGED auditLog

Environment == <<killSwitch, day, toggles, crashes, mods, modCount>>

(* Mutant: a dry run takes the live path.                                   *)
BeginAlwaysLive(a, r) ==
    /\ call[a].pc = "idle"
    /\ Cardinality(Running) < MaxConcurrent
    /\ call' = [call EXCEPT ![a] = [Idle EXCEPT !.req = r, !.now = day, !.pc = "sync",
                                                !.failures = CommonFailures(r)]]
    /\ UNCHANGED <<Environment, auditLog, auditFailures, wire, orders, sinceKill>>

(* A call starts: it reads the clock once and runs the common checks.  In  *)
(* dry-run mode everything up to the answer happens without a suspension:  *)
(* the client simulates the order.                                         *)
Begin(a, r) ==
    /\ call[a].pc = "idle"
    /\ Cardinality(Running) < MaxConcurrent
    /\ LET fails == CommonFailures(r)
           started == [Idle EXCEPT !.req = r, !.now = day, !.failures = fails]
       IN  IF a \in LiveAttempts
           THEN /\ call' = [call EXCEPT ![a] = [started EXCEPT !.pc = "sync"]]
                /\ UNCHANGED <<auditLog, auditFailures>>
           ELSE /\ call' = [call EXCEPT ![a] =
                       [started EXCEPT !.pc = "done",
                                       !.outcome = IF fails = {} THEN "simulated" ELSE "refused"]]
                /\ WriteAudit([attempt |-> a, mode |-> "dry_run", day |-> day,
                               passed |-> fails = {}, order |-> fails = {}])
    /\ UNCHANGED <<Environment, wire, orders, sinceKill>>

(* The call moves from stage s to stage t, collecting failure codes.       *)
Advance(a, s, t, fails) ==
    /\ call[a].pc = s
    /\ call' = [call EXCEPT ![a] = [@ EXCEPT !.pc = t,
                                             !.failures = call[a].failures \cup fails]]
    /\ UNCHANGED <<Environment, auditLog, auditFailures, wire, orders, sinceKill>>

(* Kill switch, production gating and the daily limit; the limit reads the *)
(* clock again.                                                            *)
SyncChecks(a) ==
    /\ call[a].pc = "sync"
    /\ call' = [call EXCEPT ![a] = [@ EXCEPT !.pc = "loss", !.checkDay = day,
                                             !.failures = call[a].failures \cup SyncFailures]]
    /\ UNCHANGED <<Environment, auditLog, auditFailures, wire, orders, sinceKill>>

(* check_budget_limits awaits the loss first ...                           *)
CheckLoss(a) ==
    IF "budget" \in Providers
    THEN \E fails \in {{}, {"max_daily_loss_exceeded"}} : Advance(a, "loss", "spend", fails)
    ELSE Advance(a, "loss", "position", {})

(* ... and then the spend.                                                 *)
CheckSpend(a) ==
    Advance(a, "spend", "position",
            IF DailySpend(day) + Risk(call[a].req) > MaxNotional
            THEN {"max_notional_exceeded"} ELSE {})

CheckPosition(a) ==
    IF "position" \in Providers
    THEN \E p \in Positions :
            LET r   == call[a].req
                new == IF r.action = "buy" THEN p + r.count ELSE p - r.count
            IN  Advance(a, "position", "book",
                        IF new > MaxPosition \/ -new > MaxPosition
                        THEN {"max_position_contracts_exceeded"} ELSE {})
    ELSE Advance(a, "position", "book", {})

(* check_orderbook_safety.  "depth" is the number of contracts the book    *)
(* can fill within the slippage limit; slippage is enforced for buys only, *)
(* and for a count that is not positive it raises ValueError (see Escape). *)
BookFailures(r, b) ==
    {f \in {"fat_finger_deviation_exceeded", "slippage_limit_exceeded"} :
        \/ /\ f = "fat_finger_deviation_exceeded"
           /\ b.mid # NoMid
           /\ r.price - b.mid > MaxDeviation \/ b.mid - r.price > MaxDeviation
        \/ /\ f = "slippage_limit_exceeded"
           /\ r.action = "buy" /\ r.count > b.depth}

CheckBook(a) ==
    IF "orderbook" \in Providers
    THEN \/ /\ ~(call[a].req.action = "buy" /\ call[a].req.count <= 0)
            /\ \E b \in Books : Advance(a, "book", "grade", BookFailures(call[a].req, b))
         \/ Advance(a, "book", "confirm", {"orderbook_provider_failed"})
    ELSE Advance(a, "book", "confirm", {})

(* check_liquidity_grade, only when a book was fetched.                    *)
CheckGrade(a) ==
    IF "market" \in Providers
    THEN \/ \E grade \in 0..3 :
               Advance(a, "grade", "confirm",
                       IF grade < MinGrade THEN {"liquidity_grade_too_low"} ELSE {})
         \/ Advance(a, "grade", "confirm", {"liquidity_check_failed"})
    ELSE Advance(a, "grade", "confirm", {})

(* check_confirmation and what follows it without a suspension: either the *)
(* call fails with TradeSafetyError and is audited, or the order goes to   *)
(* the client.                                                             *)
ConfirmAnswers ==
    IF ~RequireConfirmation THEN {{}}
    ELSE IF HasConfirm THEN {{}, {"confirmation_declined"}}
    ELSE {{"missing_confirmation_callback"}}

Refuse(a) ==
    /\ call[a].pc = "confirm"
    /\ \E answer \in ConfirmAnswers :
          LET fails == call[a].failures \cup answer
          IN  /\ fails # {}
              /\ call' = [call EXCEPT ![a] = [@ EXCEPT !.pc = "done", !.failures = fails,
                                                       !.outcome = "refused"]]
              /\ WriteAudit(Event(a, fails, FALSE))
    /\ UNCHANGED <<Environment, wire, orders, sinceKill>>

(* Mutant: the failures are logged and not raised.                          *)
SubmitAnyway(a) ==
    /\ call[a].pc = "confirm"
    /\ {} \in ConfirmAnswers
    /\ call' = [call EXCEPT ![a] = [@ EXCEPT !.pc = "sent"]]
    /\ wire' = [wire EXCEPT ![a] = TRUE]
    /\ sinceKill' = IF killSwitch THEN sinceKill + 1 ELSE sinceKill
    /\ UNCHANGED <<Environment, auditLog, auditFailures, orders>>

Submit(a) ==
    /\ call[a].pc = "confirm"
    /\ call[a].failures = {}
    /\ {} \in ConfirmAnswers
    /\ call' = [call EXCEPT ![a] = [@ EXCEPT !.pc = "sent"]]
    /\ wire' = [wire EXCEPT ![a] = TRUE]
    /\ sinceKill' = IF killSwitch THEN sinceKill + 1 ELSE sinceKill
    /\ UNCHANGED <<Environment, auditLog, auditFailures, orders>>

(* The call is over: it returned, raised, or its process died.             *)
End(a, outcome) == [call EXCEPT ![a] = [@ EXCEPT !.pc = "done", !.outcome = outcome]]

(* run_live_checks is called before the try: whatever it raises leaves     *)
(* create_order without an audit event.  It can raise while a provider or  *)
(* the confirm callback is asked, or when the task is cancelled there; a   *)
(* live buy of no contracts always does once the book is fetched.          *)
MayEscape(a) ==
    \/ call[a].pc \in {"loss", "spend"} /\ "budget" \in Providers
    \/ call[a].pc = "position" /\ "position" \in Providers
    \/ call[a].pc = "book" /\ "orderbook" \in Providers
    \/ call[a].pc = "grade" /\ "market" \in Providers
    \/ call[a].pc = "confirm" /\ RequireConfirmation /\ HasConfirm

Escape(a) ==
    /\ MayEscape(a)
    /\ call' = End(a, "escaped")
    /\ UNCHANGED <<Environment, auditLog, auditFailures, wire, orders, sinceKill>>

-----------------------------------------------------------------------------
(* The exchange takes the order: at most once, the request is keyed by its *)
(* client_order_id.  The executor passes yes_price_cents as "price".       *)
Accept(a) ==
    /\ wire[a]
    /\ orders[a] = NoOrder
    /\ orders' = [orders EXCEPT ![a] =
           [side |-> call[a].req.side, count |-> call[a].req.count, price |-> call[a].req.price,
            day |-> day, late |-> call[a].pc = "done", amended |-> FALSE, cancelled |-> FALSE]]
    /\ wire' = [wire EXCEPT ![a] = FALSE]
    /\ UNCHANGED <<Environment, call, auditLog, auditFailures, sinceKill>>

(* Mutant: any response counts as an order.                                 *)
RespondUnplaced(a) ==
    /\ call[a].pc = "sent"
    /\ call' = End(a, "ok")
    /\ WriteAudit(Event(a, {}, TRUE))
    /\ UNCHANGED <<Environment, wire, orders, sinceKill>>

(* The client's answer: the order, after the exchange took it ...          *)
Respond(a) ==
    /\ call[a].pc = "sent"
    /\ orders[a] # NoOrder
    /\ call' = End(a, "ok")
    /\ WriteAudit(Event(a, {}, TRUE))
    /\ UNCHANGED <<Environment, wire, orders, sinceKill>>

(* Mutants: a failed call is not audited, or audited with an order id.      *)
FailUnaudited(a) ==
    /\ call[a].pc = "sent"
    /\ call' = End(a, "error")
    /\ \E still \in {FALSE, wire[a]} : wire' = [wire EXCEPT ![a] = still]
    /\ UNCHANGED <<Environment, orders, sinceKill, auditLog, auditFailures>>

FailAuditedAsPlaced(a) ==
    /\ call[a].pc = "sent"
    /\ call' = End(a, "error")
    /\ \E still \in {FALSE, wire[a]} : wire' = [wire EXCEPT ![a] = still]
    /\ WriteAudit(Event(a, {}, TRUE))
    /\ UNCHANGED <<Environment, orders, sinceKill>>

(* Mutant: a client without a timeout.                                      *)
FailAnswered(a) ==
    /\ call[a].pc = "sent"
    /\ ~wire[a]
    /\ call' = End(a, "error")
    /\ WriteAudit(Event(a, {}, FALSE))
    /\ UNCHANGED <<Environment, wire, orders, sinceKill>>

(* ... or an exception: refused by the exchange, retries exhausted, or the *)
(* task cancelled; in the last two the request may still be on the wire.   *)
Fail(a) ==
    /\ call[a].pc = "sent"
    /\ call' = End(a, "error")
    /\ \E still \in {FALSE, wire[a]} : wire' = [wire EXCEPT ![a] = still]
    /\ WriteAudit(Event(a, {}, FALSE))
    /\ UNCHANGED <<Environment, orders, sinceKill>>

(* The process of a running call dies.                                     *)
Crash(a) ==
    /\ crashes < MaxCrashes
    /\ a \in Running
    /\ crashes' = crashes + 1
    /\ call' = End(a, "crashed")
    /\ UNCHANGED <<killSwitch, day, toggles, mods, modCount, auditLog, auditFailures,
                   wire, orders, sinceKill>>

(* cancel_order and amend_order: kill switch and production gating, then   *)
(* the client, unless the call is a dry run.  The live mode is overridden  *)
(* by the caller's dry_run argument, so it does not matter here whether    *)
(* the executor is live.                                                   *)
Modify(a, mod) ==
    /\ orders[a] # NoOrder
    /\ mods[a] = NoMod
    /\ ~killSwitch
    /\ ~ProductionBlocked
    /\ modCount < MaxMods
    /\ modCount' = modCount + 1
    /\ mods' = [mods EXCEPT ![a] = mod]
    /\ UNCHANGED <<killSwitch, day, toggles, crashes, call, auditLog, auditFailures,
                   wire, orders, sinceKill>>

CancelOrder(a) == Modify(a, [kind |-> "cancel", count |-> 0, price |-> 0])

AmendOrder(a) ==
    \E m \in Amendments : Modify(a, [kind |-> "amend", count |-> m.count, price |-> m.price])

(* The exchange applies the request, or it is lost or refused.             *)
ApplyMod(a) ==
    /\ mods[a] # NoMod
    /\ mods' = [mods EXCEPT ![a] = NoMod]
    /\ \/ UNCHANGED orders
       \/ /\ mods[a].kind = "cancel"
          /\ orders' = [orders EXCEPT ![a] = [@ EXCEPT !.cancelled = TRUE]]
       \/ /\ mods[a].kind = "amend"
          /\ ~orders[a].cancelled
          /\ orders' = [orders EXCEPT ![a] = [@ EXCEPT !.amended = TRUE, !.count = mods[a].count,
                                                       !.price = mods[a].price]]
    /\ UNCHANGED <<killSwitch, day, toggles, crashes, modCount, call, auditLog, auditFailures,
                   wire, sinceKill>>

-----------------------------------------------------------------------------
ToggleKillSwitch ==
    /\ toggles < MaxToggles
    /\ toggles' = toggles + 1
    /\ killSwitch' = ~killSwitch
    /\ sinceKill' = 0
    /\ UNCHANGED <<day, call, auditLog, auditFailures, wire, orders, mods, modCount, crashes>>

Midnight ==
    /\ day < MaxDay
    /\ day' = day + 1
    /\ UNCHANGED <<killSwitch, call, auditLog, auditFailures, wire, orders, mods, modCount,
                   sinceKill, toggles, crashes>>

(* One step of the code of a running call.                                 *)
CallStep(a) ==
    \/ SyncChecks(a)
    \/ CheckLoss(a)
    \/ CheckSpend(a)
    \/ CheckPosition(a)
    \/ CheckBook(a)
    \/ CheckGrade(a)
    \/ Refuse(a)
    \/ Submit(a)
    \/ Escape(a)
    \/ Respond(a)
    \/ Fail(a)

Next ==
    \/ ToggleKillSwitch
    \/ Midnight
    \/ \E a \in Attempts :
          \/ \E r \in Requests : Begin(a, r)
          \/ CallStep(a)
          \/ Crash(a)
          \/ Accept(a)
          \/ CancelOrder(a)
          \/ AmendOrder(a)
          \/ ApplyMod(a)

Spec == Init /\ [][Next]_vars

(* Providers, the confirm callback and the client answer or raise (the     *)
(* HTTP client has a timeout, the retry loop is bounded) and the event     *)
(* loop runs what is ready.  The exchange owes nothing.                    *)
FairSpec == Spec /\ \A a \in Attempts : WF_vars(CallStep(a))

-----------------------------------------------------------------------------
TypeOK ==
    /\ killSwitch \in BOOLEAN
    /\ day \in Nat
    /\ call \in [Attempts -> Calls]
    /\ auditLog \subseteq Events
    /\ wire \in [Attempts -> BOOLEAN]
    /\ orders \in [Attempts -> Orders \cup {NoOrder}]
    /\ mods \in [Attempts -> Mods \cup {NoMod}]
    /\ sinceKill \in Nat /\ toggles \in Nat /\ modCount \in Nat
    /\ auditFailures \in Nat /\ crashes \in Nat

(* Whatever reaches the exchange, at whatever time, comes from a call whose *)
(* request passed the common checks and every live check, in an executor    *)
(* that is live, may trade in its environment and can ask for confirmation; *)
(* until it is amended it is what was asked for (create_order).             *)
PlacedOrderWasApproved ==
    \A a \in Attempts : (wire[a] \/ orders[a] # NoOrder) =>
        /\ a \in LiveAttempts /\ ~ProductionBlocked
        /\ RequireConfirmation => HasConfirm
        /\ call[a].failures = {}
        /\ CommonFailures(call[a].req) = {}
        /\ (orders[a] # NoOrder /\ ~orders[a].amended) =>
              /\ orders[a].side = call[a].req.side
              /\ orders[a].count = call[a].req.count
              /\ orders[a].price = call[a].req.price

(* The audit log and the exchange agree, also about orders the exchange     *)
(* takes after the call failed: a live event with failed checks means no    *)
(* order and none to come, an order id means there is an order.             *)
AuditAgreesWithExchange ==
    \A e \in auditLog : e.mode = "live" =>
        /\ ~e.passed => orders[e.attempt] = NoOrder /\ ~wire[e.attempt]
        /\ e.order => orders[e.attempt] # NoOrder

(* No order without a trace: once the call of an order is over, the log     *)
(* holds its event with passed checks, unless the write failed or the       *)
(* process died (the finally block of create_order).                        *)
NoUntracedOrder ==
    auditFailures = 0 =>
        \A a \in Ended : (wire[a] \/ orders[a] # NoOrder) /\ call[a].outcome # "crashed" =>
            \E e \in auditLog : e.attempt = a /\ e.passed /\ e.day = call[a].now

(* How far the daily order limit can be overrun (check_daily_order_limit is *)
(* a check of the log long before the event is written): on any day the     *)
(* orders whose limit check was made that day exceed the limit by no more   *)
(* than the calls that overlapped, plus the orders whose event never got    *)
(* into the log under that day.                                             *)
Untraced(d) ==
    {a \in Placed : /\ call[a].pc = "done" /\ call[a].checkDay = d
                    /\ ~\E e \in auditLog : e.attempt = a /\ e.day = d}

DailyLimitOverrunBounded ==
    MaxOrdersPerDay > 0 =>
        \A d \in 0..day :
            Cardinality({a \in Placed : call[a].checkDay = d})
                <= MaxOrdersPerDay + (MaxConcurrent - 1) + Cardinality(Untraced(d))

(* How far the notional limit can be overrun on a day with a spend          *)
(* (check_budget_limits reads the spend, the order is accepted later): one  *)
(* order's worth of risk for each other call that overlapped and each order *)
(* accepted after its call ended.                                           *)
NotionalOverrunBounded ==
    "budget" \in Providers =>
        \A d \in 0..day : DailySpend(d) > 0 =>
            DailySpend(d) <= MaxNotional
                + MaxOrderRisk * ((MaxConcurrent - 1)
                                  + Cardinality({a \in Placed : orders[a].late}))

(* Both limits of a day are only overrun by what overlaps a check, comes    *)
(* after the end of its call, or has left no trace.                         *)
LimitsHold ==
    /\ TypeOK
    /\ DailyLimitOverrunBounded
    /\ NotionalOverrunBounded

(* The kill switch is read once, before the awaits: after it goes on, only  *)
(* calls already past that check can still hand over an order.              *)
KillSwitchLeakBounded == sinceKill <= MaxConcurrent

(* A call on an executor that is not live, or may not trade in production,  *)
(* or cannot ask for a required confirmation, never has anything on the     *)
(* wire or on the books.                                                    *)
GatedExecutorIsInert ==
    \A a \in Attempts :
        a \notin LiveAttempts \/ ProductionBlocked \/ (RequireConfirmation /\ ~HasConfirm) =>
            ~wire[a] /\ orders[a] = NoOrder /\ mods[a] = NoMod

(* The client as the executor sees it keeps the contract OrderSubmission;   *)
(* a call that is refused, escapes or dies in the checks hands over nothing. *)
SubmissionStatus(a) ==
    IF call[a].pc = "sent" THEN "open"
    ELSE IF call[a].outcome = "ok" THEN "ok"
    ELSE IF call[a].outcome = "error" \/ wire[a] \/ orders[a] # NoOrder THEN "failed"
    ELSE "idle"

Submission == INSTANCE OrderSubmission WITH
    Submissions <- Attempts,
    status <- [a \in Attempts |-> SubmissionStatus(a)],
    placed <- [a \in Attempts |-> IF orders[a] = NoOrder THEN 0 ELSE 1]

(* Each order handed over is placed at most once and answered only then,    *)
(* through overlapping calls, late acceptance, crashes and amendments.      *)
ImplementsSubmission == Submission!Spec

(* Every create_order call returns or raises.                               *)
EveryCallEnds == \A a \in Attempts : call[a].pc # "idle" ~> call[a].pc = "done"

-----------------------------------------------------------------------------
(* "Always writes an audit event (success or failure)" (_executor.py:160).  *)
EveryAttemptAudited ==
    \A a \in Ended : auditFailures = 0 /\ call[a].outcome # "crashed" =>
        \E e \in auditLog : e.attempt = a

=============================================================================
