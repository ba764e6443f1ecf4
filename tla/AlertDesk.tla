---- MODULE AlertDesk ----
(***************************************************************************)
(* The alert commands: alerts.json with add and remove, the monitor in the *)
(* foreground or as a daemon, its notifiers, and the daemon's log, whose   *)
(* lock keeps a second daemon and trim-log away.                           *)
(*                                                                         *)
(* A monitor reads the conditions once.  A pass fetches the open markets,  *)
(* then takes the conditions one after the other; a condition that fires   *)
(* is told to every notifier and dropped from the monitor's memory.        *)
(***************************************************************************)
EXTENDS JsonFile, FiniteSetsExt

CONSTANTS
    Users,          \* processes of the commands
    Monitors,       \* processes of monitors
    Conditions,     \* conditions that may exist: id -> kind, ticker, threshold, expiry
    StartAlerts,    \* ids of those in alerts.json at the start
    Markets,        \* tickers
    Quotes,         \* what a fetch may say of a market: mid (or Null), spread, volume, shift
    TypedIds,       \* ids a user may type: the conditions each is a prefix of
    KeepLines,      \* lines trim-log keeps
    TrimAbove,      \* lines above which trim-log trims
    MaxPasses,      \* bound on a monitor's passes
    MaxTasks       \* bound on the commands started

Kinds == {"price_above", "price_below", "price_crosses", "spread_above", "volume_above",
          "edge_detected", "sentiment_shift"}

ASSUME AlertAssumption ==
    /\ \A c \in DOMAIN Conditions :
          /\ Conditions[c].kind \in Kinds
          /\ Conditions[c].ticker \in Markets
          /\ Conditions[c].level \in Int
          /\ Conditions[c].expires \in BOOLEAN
    /\ StartAlerts \in Seq(DOMAIN Conditions) /\ IsInjective(StartAlerts)
    /\ Users \intersect Monitors = {}
    /\ \A q \in Quotes : q.mid \in Int \union {Null}
    /\ KeepLines \in Nat /\ TrimAbove \in Nat /\ KeepLines <= TrimAbove
    /\ MaxPasses \in Nat /\ MaxTasks \in Nat

VARIABLES
    alerts,    \* alerts.json
    expired,   \* conditions whose expires_at has passed
    task,      \* the command of each user process
    monitor,   \* the monitors
    loglock,   \* processes holding the descriptor that locked the log
    log,       \* lines in the log
    asked      \* commands started so far

alertDesk == <<alerts, expired, task, monitor, loglock, log, asked>>

Entries == {[id |-> c] : c \in DOMAIN Conditions}

----
(* Commands on alerts.json. *)

NoTask == [cmd |-> "none", stage |-> "off", typed |-> {}, copy |-> <<>>, keep |-> 0,
           slot |-> Null, overlap |-> FALSE, end |-> "ok"]

Busy(u) == task[u].stage # "off"
InStage(u, stage) == task[u].stage = stage

Done(how) == [NoTask EXCEPT !.end = how]

Ask(u, t) ==
    /\ ~Busy(u)
    /\ asked < MaxTasks
    /\ asked' = asked + 1
    /\ task' = [task EXCEPT ![u] = [t EXCEPT !.end = "running"]]
    /\ UNCHANGED <<alerts, expired, monitor, loglock, log>>

Turn(u, t) ==
    /\ task' = [task EXCEPT ![u] = t]
    /\ UNCHANGED <<alerts, expired, monitor, loglock, log, asked>>

(* alerts add: a condition nobody has had yet.  Its expiry is never set.   *)
BeginAdd(u) ==
    \E c \in DOMAIN Conditions :
        /\ ~Conditions[c].expires
        /\ [id |-> c] \notin ToSet(alerts.items)
        /\ \A v \in Users : /\ Busy(v) => task[v].typed # {c}
                           /\ [id |-> c] \notin ToSet(task[v].copy)
        /\ Ask(u, [NoTask EXCEPT !.cmd = "add", !.stage = "load", !.typed = {c}])

BeginRemove(u) ==
    \E typed \in TypedIds :
        Ask(u, [NoTask EXCEPT !.cmd = "remove", !.stage = "load", !.typed = typed])

(* Mutant: remove takes the first match. *)
FoundAny(items, t) == t.cmd = "remove" => Matching(items, t.typed) # {}

(* remove insists on a single match. *)
Found(items, t) == t.cmd = "remove" => OnlyMatch(items, t.typed)

LoadAlerts(u) ==
    /\ InStage(u, "load")
    /\ Turn(u, IF ~alerts.whole THEN Done("unreadable")
               ELSE IF ~Found(alerts.items, task[u]) THEN Done("not found")
               ELSE [task[u] EXCEPT !.stage = "temp", !.copy = alerts.items])

(* What add and remove make of the conditions they loaded. *)
Revised(items, t) ==
    IF t.cmd = "add" THEN Append(items, [id |-> CHOOSE c \in t.typed : TRUE])
    ELSE RemoveAt(items, FirstMatch(items, t.typed))

WriteAlerts(u) ==
    /\ InStage(u, "temp")
    /\ Turn(u, [task[u] EXCEPT !.stage = "replace"])

ReplaceAlerts(u) ==
    /\ InStage(u, "replace")
    /\ alerts' = [whole |-> TRUE, items |-> Revised(task[u].copy, task[u])]
    /\ task' = [v \in Users |->
            IF v = u THEN Done("ok")
            ELSE [task[v] EXCEPT !.overlap = @ \/ task[v].stage \in {"temp", "replace"}]]
    /\ UNCHANGED <<expired, monitor, loglock, log, asked>>

----
(* Monitors. *)

NoMonitor == [stage |-> "off", daemon |-> FALSE, once |-> FALSE, pending |-> <<>>, todo |-> <<>>,
              quotes |-> [k \in Markets |-> Null], mids |-> [k \in Markets |-> Null],
              last |-> [k \in Markets |-> Null], seen |-> [k \in Markets |-> <<>>],
              passes |-> 0, told |-> <<>>]

Live(m) == monitor[m].stage \notin {"off", "over"}
Daemons == {m \in Monitors : Live(m) /\ monitor[m].daemon}
Passes == MapThenSumSet(LAMBDA m : monitor[m].passes, Monitors)

Become(m, new) ==
    /\ monitor' = [monitor EXCEPT ![m] = new]
    /\ UNCHANGED <<alerts, expired, task, loglock, log, asked>>

(* A monitor that ends lets go of the log, and forgets. *)
Ended(m) == [NoMonitor EXCEPT !.stage = "over", !.passes = monitor[m].passes]

Gone(m) ==
    /\ monitor' = [monitor EXCEPT ![m] = Ended(m)]
    /\ loglock' = loglock \ {m}
    /\ UNCHANGED <<alerts, expired, task, log, asked>>

(* alerts monitor, in the foreground: the command becomes the monitor.     *)
BeginForeground(u) ==
    \E m \in Monitors, once \in BOOLEAN :
        /\ ~Busy(u) /\ asked < MaxTasks
        /\ monitor[m].stage = "off"
        /\ \A v \in Users : task[v].slot # m
        /\ asked' = asked + 1
        /\ monitor' = [monitor EXCEPT ![m] = [NoMonitor EXCEPT !.stage = "start", !.once = once]]
        /\ UNCHANGED <<alerts, expired, task, loglock, log>>

(* alerts monitor --daemon: alerts.json is looked at, the log is opened    *)
(* and locked, the daemon is started with the log as its output, and the   *)
(* command's own descriptor is closed; the daemon's keeps the lock.        *)
BeginDaemon(u) ==
    \E m \in Monitors :
        /\ monitor[m].stage = "off"
        /\ \A v \in Users : task[v].slot # m
        /\ Ask(u, [NoTask EXCEPT !.cmd = "daemon", !.stage = "look", !.slot = m])

LookForAlerts(u) ==
    /\ InStage(u, "look")
    /\ Turn(u, IF ~alerts.whole THEN Done("unreadable")
               ELSE IF alerts.items = <<>> THEN Done("ok")
               ELSE [task[u] EXCEPT !.stage = "lock"])

(* open and flock(LOCK_EX | LOCK_NB), for a daemon as for trim-log.        *)
TakeLogLock(u) ==
    /\ InStage(u, "lock")
    /\ loglock = {}
    /\ loglock' = {u}
    /\ task' = [task EXCEPT ![u].stage = IF task[u].cmd = "daemon" THEN "spawn" ELSE "read"]
    /\ UNCHANGED <<alerts, expired, monitor, log, asked>>

LogLocked(u) ==
    /\ InStage(u, "lock")
    /\ loglock # {}
    /\ Turn(u, Done("locked"))

(* Mutant: the daemon opens the log for itself. *)
SpawnUnlocked(u) ==
    /\ InStage(u, "spawn")
    /\ \E once \in BOOLEAN :
        monitor' = [monitor EXCEPT ![task[u].slot] =
            [NoMonitor EXCEPT !.stage = "start", !.daemon = TRUE, !.once = once]]
    /\ task' = [task EXCEPT ![u].stage = "close"]
    /\ UNCHANGED <<alerts, expired, loglock, log, asked>>

Spawn(u) ==
    /\ InStage(u, "spawn")
    /\ \E once \in BOOLEAN :
        monitor' = [monitor EXCEPT ![task[u].slot] =
            [NoMonitor EXCEPT !.stage = "start", !.daemon = TRUE, !.once = once]]
    /\ loglock' = loglock \union {task[u].slot}
    /\ task' = [task EXCEPT ![u].stage = "close"]
    /\ UNCHANGED <<alerts, expired, log, asked>>

CloseLog(u) ==
    /\ InStage(u, "close")
    /\ loglock' = loglock \ {u}
    /\ task' = [task EXCEPT ![u] = Done("ok")]
    /\ UNCHANGED <<alerts, expired, monitor, log, asked>>

(* The monitor's own reading of alerts.json. *)
LoadConditions(m) ==
    /\ monitor[m].stage = "start"
    /\ IF alerts.whole /\ alerts.items # <<>>
       THEN Become(m, [monitor[m] EXCEPT !.stage = "idle",
                           !.pending = [i \in DOMAIN alerts.items |-> alerts.items[i].id]])
       ELSE Gone(m)

(* A pass: what the exchange lists of each market, if it lists it.  A      *)
(* market without a midpoint is passed over.                               *)
Quoted(quotes, k) == quotes[k] # Null /\ quotes[k].mid # Null

FetchMarkets(m) ==
    /\ monitor[m].stage = "idle"
    /\ Passes < MaxPasses
    /\ \E quotes \in [Markets -> Quotes \union {Null}] :
        Become(m, [monitor[m] EXCEPT !.stage = "check", !.todo = monitor[m].pending,
                       !.quotes = quotes, !.mids = NoMonitor.mids, !.passes = @ + 1,
                       !.seen = [k \in Markets |-> IF Quoted(quotes, k) THEN Append(@[k], quotes[k]) ELSE @[k]]])

Distance(a, b) == IF a > b THEN a - b ELSE b - a

(* AlertMonitor._check_condition. *)
Fires(c, quote, before) ==
    LET level == Conditions[c].level IN
    CASE Conditions[c].kind = "price_above" -> quote.mid > level
      [] Conditions[c].kind = "price_below" -> quote.mid < level
      [] Conditions[c].kind = "price_crosses" ->
            /\ before # Null
            /\ \/ /\ before < level
                  /\ level <= quote.mid
               \/ /\ before > level
                  /\ level >= quote.mid
      [] Conditions[c].kind = "spread_above" -> quote.spread > level
      [] Conditions[c].kind = "volume_above" -> quote.volume > level
      [] Conditions[c].kind = "edge_detected" ->
            before # Null /\ level > 0 /\ Distance(quote.mid, before) >= level
      [] Conditions[c].kind = "sentiment_shift" ->
            quote.shift # Null /\ level > 0 /\ Distance(quote.shift, 0) >= level

(* The next condition of the pass. *)
NextCondition(m, c) == monitor[m].stage = "check" /\ monitor[m].todo # <<>> /\ c = Head(monitor[m].todo)
Ticker(c) == Conditions[c].ticker
Reached(m, c) == Quoted(monitor[m].quotes, Ticker(c))
Shows(m, c) == Fires(c, monitor[m].quotes[Ticker(c)], monitor[m].last[Ticker(c)])
Without(pending, c) == RemoveFirst(pending, c)
Noted(m, c) == [monitor[m].mids EXCEPT ![Ticker(c)] = monitor[m].quotes[Ticker(c)].mid]

SkipCondition(m) ==
    \E c \in DOMAIN Conditions :
        /\ NextCondition(m, c)
        /\ IF c \in expired
           THEN Become(m, [monitor[m] EXCEPT !.todo = Tail(@), !.pending = Without(@, c)])
           ELSE IF ~Reached(m, c) THEN Become(m, [monitor[m] EXCEPT !.todo = Tail(@)])
           ELSE /\ ~Shows(m, c)
                /\ Become(m, [monitor[m] EXCEPT !.todo = Tail(@), !.mids = Noted(m, c)])

(* Every notifier is told; of their failures only the webhook's is caught. *)
Notify(m) ==
    \E c \in DOMAIN Conditions :
        /\ NextCondition(m, c) /\ c \notin expired /\ Reached(m, c) /\ Shows(m, c)
        /\ Become(m, [monitor[m] EXCEPT !.todo = Tail(@), !.pending = Without(@, c),
                           !.mids = Noted(m, c), !.told = Append(@, c)])

(* Mutant: a market missing from this pass is forgotten. *)
LastOfThisPass(last, mids) == mids

(* self._last_mid_probs.update. *)
LastKnown(last, mids) == [k \in Markets |-> IF mids[k] # Null THEN mids[k] ELSE last[k]]

EndPass(m) ==
    LET idle == [monitor[m] EXCEPT !.stage = "idle", !.last = LastKnown(@, monitor[m].mids),
                     !.quotes = NoMonitor.quotes, !.mids = NoMonitor.mids]
    IN  /\ monitor[m].stage = "check" /\ monitor[m].todo = <<>>
        /\ monitor' = [monitor EXCEPT ![m] = IF monitor[m].once THEN Ended(m) ELSE idle]
        /\ log' = IF monitor[m].daemon THEN log + 1 ELSE log
        /\ loglock' = IF monitor[m].once THEN loglock \ {m} ELSE loglock
        /\ UNCHANGED <<alerts, expired, task, asked>>

(* Ctrl-C, a signal; or a listing or a notifier that raises, which nothing *)
(* catches.                                                                *)
Kill(m) == Live(m) /\ Gone(m)

(* Only a file written by hand has conditions that expire. *)
Expire(c) ==
    /\ Conditions[c].expires /\ c \notin expired
    /\ expired' = expired \union {c}
    /\ UNCHANGED <<alerts, task, monitor, loglock, log, asked>>

----
(* alerts trim-log --apply: the size is looked at before the lock is       *)
(* taken; the tail is read, the file cut to nothing, the tail written.     *)

BeginTrim(u) ==
    /\ log > TrimAbove
    /\ Ask(u, [NoTask EXCEPT !.cmd = "trim", !.stage = "lock"])

TrimRead(u) ==
    /\ InStage(u, "read")
    /\ Turn(u, [task[u] EXCEPT !.stage = "cut", !.keep = Min({log, KeepLines})])

TrimCut(u) ==
    /\ InStage(u, "cut")
    /\ log' = 0
    /\ task' = [task EXCEPT ![u].stage = "write"]
    /\ UNCHANGED <<alerts, expired, monitor, loglock, asked>>

TrimWrite(u) ==
    /\ InStage(u, "write")
    /\ log' = task[u].keep
    /\ loglock' = loglock \ {u}
    /\ task' = [task EXCEPT ![u] = Done("ok")]
    /\ UNCHANGED <<alerts, expired, monitor, asked>>

(* The command is killed, or the disk is full. *)
AbortTask(u) ==
    /\ Busy(u)
    /\ task' = [task EXCEPT ![u] = Done("aborted")]
    /\ loglock' = loglock \ {u}
    /\ UNCHANGED <<alerts, expired, monitor, log, asked>>

----
AlertInit ==
    /\ alerts = [whole |-> TRUE, items |-> [i \in DOMAIN StartAlerts |-> [id |-> StartAlerts[i]]]]
    /\ expired = {}
    /\ task = [u \in Users |-> NoTask]
    /\ monitor = [m \in Monitors |-> NoMonitor]
    /\ loglock = {}
    /\ log \in {0, TrimAbove + 1}
    /\ asked = 0

AlertNext ==
    \/ \E u \in Users :
        \/ BeginAdd(u) \/ BeginRemove(u) \/ LoadAlerts(u) \/ WriteAlerts(u) \/ ReplaceAlerts(u)
        \/ BeginForeground(u) \/ BeginDaemon(u) \/ LookForAlerts(u)
        \/ TakeLogLock(u) \/ LogLocked(u) \/ Spawn(u) \/ CloseLog(u)
        \/ BeginTrim(u) \/ TrimRead(u) \/ TrimCut(u) \/ TrimWrite(u)
        \/ AbortTask(u)
    \/ \E m \in Monitors :
        \/ LoadConditions(m) \/ FetchMarkets(m)
        \/ SkipCondition(m) \/ Notify(m) \/ EndPass(m) \/ Kill(m)
    \/ \E c \in DOMAIN Conditions : Expire(c)

AlertSpec == AlertInit /\ [][AlertNext]_alertDesk

----
(* What a condition is about, said of the whole of what a monitor saw of   *)
(* its market rather than pass by pass.                                    *)
Happened(c, seen) ==
    LET level == Conditions[c].level
        mids == {seen[i].mid : i \in DOMAIN seen}
    IN CASE Conditions[c].kind = "price_above" -> \E x \in mids : x > level
         [] Conditions[c].kind = "price_below" -> \E x \in mids : x < level
         [] Conditions[c].kind = "price_crosses" ->
               \E i, j \in DOMAIN seen : i < j /\
                   \/ (seen[i].mid < level /\ seen[j].mid >= level)
                   \/ (seen[i].mid > level /\ seen[j].mid <= level)
         [] Conditions[c].kind = "spread_above" -> \E i \in DOMAIN seen : seen[i].spread > level
         [] Conditions[c].kind = "volume_above" -> \E i \in DOMAIN seen : seen[i].volume > level
         [] Conditions[c].kind = "edge_detected" ->
               level > 0 /\ \E i \in DOMAIN seen : i > 1 /\ Distance(seen[i].mid, seen[i-1].mid) >= level
         [] Conditions[c].kind = "sentiment_shift" ->
               level > 0 /\ \E i \in DOMAIN seen : seen[i].shift # Null /\ Distance(seen[i].shift, 0) >= level

(* Between two passes a monitor has told exactly the conditions that came  *)
(* true of what it saw, each once: none is missed because the market was   *)
(* away for a pass or other conditions fired and were dropped, unless the  *)
(* condition expired.                                                      *)
MonitorTellsAll ==
    \A m \in Monitors :
        LET told == ToSet(monitor[m].told) IN
        /\ Len(monitor[m].told) = Cardinality(told)
        /\ \A c \in told : Happened(c, monitor[m].seen[Ticker(c)])
        /\ monitor[m].stage = "idle" =>
              \A c \in ToSet(monitor[m].pending) : c \notin expired => ~Happened(c, monitor[m].seen[Ticker(c)])

(* What the files hold, and who can hold the log. *)
AlertTypeOK ==
    /\ alerts.whole \in BOOLEAN /\ \A i \in DOMAIN alerts.items : alerts.items[i] \in Entries
    /\ expired \subseteq DOMAIN Conditions
    /\ loglock \subseteq Users \union Monitors
    /\ log \in Nat /\ asked \in 0..MaxTasks

(* At most one daemon lives, however its start interleaves with other      *)
(* starts, with its parent's exit and with trim-log; and none lives while  *)
(* trim-log is between reading the tail and writing it back, so that no    *)
(* line a daemon wrote is lost with it.                                    *)
OneDaemon ==
    /\ AlertTypeOK
    /\ Cardinality(Daemons) <= 1
    /\ \A u \in Users : task[u].stage \in {"cut", "write"} =>
          /\ Daemons = {}
          /\ task[u].stage = "write" => log = 0

(* alerts.json is always whole; it changes only when add or remove has     *)
(* been completed, and then by just what that command says, unless another *)
(* one replaced the file between this one's load and its rename.  A        *)
(* condition that fires, or expires, stays in the file.                    *)
AlertsStep ==
    /\ alerts'.whole
    /\ alerts'.items # alerts.items =>
        \E u \in Users :
            /\ InStage(u, "replace") /\ task'[u].end = "ok"
            /\ ~task[u].overlap =>
                  \/ /\ task[u].cmd = "add"
                     /\ \E c \in task[u].typed : alerts'.items = Append(alerts.items, [id |-> c])
                  \/ /\ task[u].cmd = "remove"
                     /\ \E i \in DOMAIN alerts.items :
                           /\ Matching(alerts.items, task[u].typed) = {i}
                           /\ alerts'.items = RemoveAt(alerts.items, i)

(* No step loses an alert, or half of the file.                            *)
AlertsKept == [][AlertsStep]_alertDesk
====
