---- MODULE ResearchDesk ----
(***************************************************************************)
(* The research commands of the command line, each its own process: what   *)
(* they ask of Exa under a budget, the cache of answers on disk and the    *)
(* file of theses.                                                         *)
(*                                                                         *)
(* A command is a plan, the calls it has still to make.  A call looks in   *)
(* the cache if its command has one, checks the budget, asks, *)
(* stores the answer and records its cost.  Nothing is locked: two         *)
(* processes share cache entries and theses.json at every step.            *)
(***************************************************************************)
EXTENDS JsonFile

CONSTANTS
    Procs,        \* processes
    Modes,        \* ExaMode, "fast" among them
    Limits,       \* budgets a command may be given
    Estimate,     \* Estimate[mode][op]: what a call is expected to cost
    Charges,      \* what an answered call may cost; 0 if the answer does not say
    Ttl,          \* age, in days, at which an entry has not yet expired
    MaxTime,      \* bound on the clock, in days
    StartTheses,  \* the theses at the start
    Typed,     \* ids a user may type: the theses each is a prefix of
    MaxCommands  \* bound on the commands started

ASSUME DeskAssumption ==
    /\ "fast" \in Modes
    /\ Limits \subseteq Nat \ {0}
    /\ Estimate \in [Modes -> [{"search", "answer"} -> Nat]]
    /\ Charges \subseteq Nat /\ Charges # {}
    /\ \A prefix \in Typed : prefix \subseteq Nat
    /\ Ttl \in Nat /\ MaxTime \in Nat /\ MaxCommands \in Nat

VARIABLES
    now,      \* clock, in days
    cache,    \* the cache directory
    theses,   \* theses.json
    desk,     \* the command each process runs, or ran last
    launched  \* commands started so far

research == <<now, cache, theses, desk, launched>>

Days == 0..MaxTime
Ids == 1..(Len(StartTheses) + MaxCommands)

Thesis == [id : Ids, edited : BOOLEAN, status : {"active", "resolved"}]

ASSUME StartAssumption == StartTheses \in Seq(Thesis)

(* What an entry is filed under: the request's parameters, the mode among  *)
(* them.  Only the news search has a date in its parameters.               *)
Topics == {"news", "papers", "related", "summary", "topic"}
Keys == {k \in [what : Topics, mode : Modes, day : Days] : k.what # "news" => k.day = 0}

(* An answer on disk is written in two parts; `shared`: another process    *)
(* had the file open when it was last opened for writing.                  *)
Answer == [key : Keys, at : Days, by : Procs]
Entry == [head : Answer \union {Null}, tail : Answer \union {Null}, shared : BOOLEAN]

----
Call(op, what, cached) == [op |-> op, what |-> what, cached |-> cached]

Off == [cmd |-> "none", mode |-> "fast", day |-> 0, limit |-> 1, plan |-> <<>>, stage |-> "off",
        spent |-> 0, charge |-> 0, fd |-> "none", since |-> 0, made |-> 0,
        hit |-> Null, target |-> {}, copy |-> <<>>, left |-> {}, overlap |-> FALSE, end |-> "ok"]

Working(p) == desk[p].stage # "off"
At(p, stage) == desk[p].stage = stage

(* Mutant: modes share their entries. *)
KeyOfAnyMode(c) ==
    [what |-> Head(c.plan).what, mode |-> "fast",
     day |-> IF Head(c.plan).what = "news" THEN c.day ELSE 0]

(* ExaCache._make_key over normalize_cache_params. *)
KeyOf(c) ==
    [what |-> Head(c.plan).what, mode |-> c.mode,
     day |-> IF Head(c.plan).what = "news" THEN c.day ELSE 0]

Over(c, how) ==
    [Off EXCEPT !.mode = c.mode, !.limit = c.limit, !.spent = c.spent, !.end = how]

(* The calls that are left; then only create has more to do. *)
Proceed(c, plan) ==
    IF plan # <<>>
    THEN [c EXCEPT !.plan = plan, !.since = 0, !.hit = Null, !.stage = IF Head(plan).cached THEN "read" ELSE "ask"]
    ELSE IF c.cmd = "create" THEN [c EXCEPT !.plan = <<>>, !.stage = "load"] ELSE Over(c, "ok")

Launch(p, c) ==
    /\ ~Working(p)
    /\ launched < MaxCommands
    /\ launched' = launched + 1
    /\ desk' = [desk EXCEPT ![p] = c]
    /\ UNCHANGED <<now, cache, theses>>

Step(p, c) ==
    /\ desk' = [desk EXCEPT ![p] = c]
    /\ UNCHANGED <<now, cache, theses, launched>>

Begun(cmd, mode, limit) ==
    [Off EXCEPT !.cmd = cmd, !.mode = mode, !.day = now, !.limit = limit, !.end = "running"]

Tick ==
    /\ now < MaxTime
    /\ launched < MaxCommands
    /\ now' = now + 1
    /\ UNCHANGED <<cache, theses, desk, launched>>

----
(* The commands that ask Exa. *)

(* research context: three searches, through the cache. *)
BeginContext(p) ==
    \E mode \in Modes, limit \in Limits :
        Launch(p, Proceed(Begun("context", mode, limit),
            <<Call("search", "news", TRUE), Call("search", "papers", TRUE),
              Call("search", "related", TRUE)>>))

(* research topic: an answer, unless it is declined or the mode is fast,   *)
(* and a search, through the cache.                                        *)
BeginTopic(p) ==
    \E mode \in Modes, limit \in Limits, summary \in BOOLEAN :
        Launch(p, Proceed(Begun("topic", mode, limit),
            (IF summary /\ mode # "fast" THEN <<Call("answer", "summary", TRUE)>> ELSE <<>>)
            \o <<Call("search", "topic", TRUE)>>))

(* research thesis create: two searches and a summary if asked to research, *)
(* then the new thesis is saved.                                           *)
BeginCreate(p) ==
    \E mode \in Modes, limit \in Limits, researched \in BOOLEAN :
        /\ ~researched => mode = "fast"
        /\ Launch(p, Proceed([Begun("create", mode, limit) EXCEPT !.made = Len(StartTheses) + launched + 1],
            IF ~researched THEN <<>>
            ELSE <<Call("search", "topic", FALSE), Call("search", "related", FALSE)>>
                 \o (IF mode = "fast" THEN <<>> ELSE <<Call("answer", "summary", FALSE)>>)))

(* research thesis suggest, research similar: one call. *)
BeginSuggest(p) ==
    \E cmd \in {"suggest", "similar"}, mode \in Modes, limit \in Limits :
        Launch(p, Proceed(Begun(cmd, mode, limit), <<Call("search", "topic", FALSE)>>))

(* research thesis check-invalidation: the thesis is looked up, then two or *)
(* three searches are made.                                                *)
BeginInvalidation(p) ==
    \E mode \in Modes, limit \in Limits, prefix \in Typed :
        Launch(p, [Begun("invalidation", mode, limit) EXCEPT !.stage = "find", !.target = prefix])

FindThesis(p) ==
    /\ At(p, "find")
    /\ IF ~theses.whole THEN Step(p, Over(desk[p], "unreadable"))
       ELSE IF Matching(theses.items, desk[p].target) = {} THEN Step(p, Over(desk[p], "not found"))
       ELSE \E n \in {2, 3} :
               Step(p, Proceed(desk[p], [i \in 1..n |-> Call("search", "news", FALSE)]))

----
(* ExaCache.get: read the entry; one that is expired or does not parse is  *)
(* then unlinked, whatever the path names by that time.                    *)

Fresh(e) == e.tail.at + Ttl >= now

(* Of two answers mixed in one file nobody knows whether the mixture parses. *)
Parses(e) ==
    IF Null \in {e.head, e.tail} THEN {FALSE}
    ELSE IF e.head = e.tail THEN {TRUE} ELSE BOOLEAN

ReadEntry(p) ==
    LET c == desk[p]
        e == cache[KeyOf(c)]
        hit == [asked |-> [KeyOf(c) EXCEPT !.mode = c.mode], entry |-> e, used |-> now]
    IN  /\ At(p, "read")
        /\ IF e = Null THEN Step(p, [c EXCEPT !.stage = "ask"])
           ELSE \E parsed \in Parses(e) :
               IF parsed /\ Fresh(e)
               THEN Step(p, [Proceed(c, Tail(c.plan)) EXCEPT !.hit = hit])
               ELSE Step(p, [c EXCEPT !.stage = "evict"])

(* The path is unlinked: who has the file open for writing keeps a file    *)
(* nobody will read.                                                       *)
Unlinked(key, d) ==
    [q \in Procs |-> IF d[q].fd = "attached" /\ KeyOf(d[q]) = key
                     THEN [d[q] EXCEPT !.fd = "detached"] ELSE d[q]]

EvictEntry(p) ==
    LET key == KeyOf(desk[p]) IN
    /\ At(p, "evict")
    /\ cache' = [cache EXCEPT ![key] = Null]
    /\ desk' = Unlinked(key, [desk EXCEPT ![p].stage = "ask"])
    /\ UNCHANGED <<now, theses, launched>>

----
(* Mutant: the estimate is left out. *)
AffordableAlready(c) == c.spent <= c.limit

(* ExaBudget.can_spend. *)
Affordable(c) == c.spent + Estimate[c.mode][Head(c.plan).op] <= c.limit

(* What is left to do when a call does not fit the budget: context and     *)
(* check-invalidation stop, create goes on to its summary, topic to its    *)
(* next call.                                                              *)
AfterShort(c) ==
    CASE c.cmd \in {"context", "invalidation"} -> <<>>
      [] c.cmd = "create" ->
            IF Len(c.plan) > 1 /\ Last(c.plan).op = "answer" THEN <<Last(c.plan)>> ELSE <<>>
      [] OTHER -> Tail(c.plan)

Short(p) ==
    /\ At(p, "ask")
    /\ ~Affordable(desk[p])
    /\ Step(p, Proceed(desk[p], AfterShort(desk[p])))

Asking(p) == At(p, "ask") /\ Affordable(desk[p])

(* A call that fails is logged and skipped, but find-similar's ends the    *)
(* command.                                                                *)
Failed(c) ==
    IF c.cmd = "similar" THEN Over(c, "failed") ELSE Proceed(c, Tail(c.plan))

(* _request: another status than 200, an answer that is not what it should *)
(* be, or max_retries times a 429, a 5xx, a timeout or a network error;    *)
(* the tries before the last leave no trace.                               *)
Refused(p) ==
    /\ Asking(p)
    /\ Step(p, Failed(desk[p]))

(* ExaBudget.record_spend of what the answer says it cost. *)
Recorded(c, charge) == Proceed([c EXCEPT !.spent = @ + charge, !.charge = 0], Tail(c.plan))

Answered(p) ==
    LET c == desk[p] IN
    /\ Asking(p)
    /\ \E charge \in Charges :
        Step(p, IF Head(c.plan).cached THEN [c EXCEPT !.stage = "open", !.charge = charge]
                ELSE Recorded(c, charge))

----
(* ExaCache.set: open for writing, which truncates; the first part of the   *)
(* answer, then the rest; only then is the cost recorded.                  *)
TheAnswer(p, at) == [key |-> [KeyOf(desk[p]) EXCEPT !.mode = desk[p].mode], at |-> at, by |-> p]

OpenEntry(p) ==
    LET key == KeyOf(desk[p])
        others == {q \in Procs \ {p} : desk[q].fd = "attached" /\ KeyOf(desk[q]) = key}
    IN  /\ At(p, "open")
        /\ cache' = [cache EXCEPT ![key] =
                [head |-> TheAnswer(p, now), tail |-> Null, shared |-> others # {}]]
        /\ desk' = [desk EXCEPT ![p].stage = "close", ![p].fd = "attached", ![p].since = now]
        /\ UNCHANGED <<now, theses, launched>>

CloseEntry(p) ==
    LET c == desk[p] IN
    /\ At(p, "close")
    /\ cache' = IF c.fd = "attached" THEN [cache EXCEPT ![KeyOf(c)].tail = TheAnswer(p, c.since)] ELSE cache
    /\ desk' = [desk EXCEPT ![p] = Recorded([c EXCEPT !.fd = "none"], c.charge)]
    /\ UNCHANGED <<now, theses, launched>>

(* research cache clear, of everything or of what is expired or broken.    *)
(* Each file is judged, then unlinked.                                     *)
BeginClear(p) ==
    \E cmd \in {"clear", "clear-expired"} :
        LET files == {k \in Keys : cache[k] # Null} IN
        /\ files # {}
        /\ Launch(p, [Begun(cmd, "fast", 1) EXCEPT !.stage = "judge", !.left = files])

(* Files in the order of the directory. *)
Judge(p) ==
    LET c == desk[p]
        key == CHOOSE k \in c.left : TRUE
        e == cache[key]
        rest == c.left \ {key}
        after == IF rest = {} THEN Over(c, "ok") ELSE [c EXCEPT !.left = rest]
    IN  /\ At(p, "judge")
        /\ \E keep \in IF c.cmd = "clear-expired" /\ e # Null
                        THEN {b /\ Fresh(e) : b \in Parses(e)} ELSE {FALSE} :
            Step(p, IF keep THEN after ELSE [c EXCEPT !.stage = "unlink"])

Unlink(p) ==
    LET c == desk[p]
        key == CHOOSE k \in c.left : TRUE
        rest == c.left \ {key}
        after == IF rest = {} THEN Over(c, "ok") ELSE [c EXCEPT !.stage = "judge", !.left = rest]
    IN  /\ At(p, "unlink")
        /\ cache' = [cache EXCEPT ![key] = Null]
        /\ desk' = Unlinked(key, [desk EXCEPT ![p] = after])
        /\ UNCHANGED <<now, theses, launched>>

----
(* theses.json. *)

(* research thesis edit, resolve. *)
BeginChange(p) ==
    \E cmd \in {"edit", "resolve"}, prefix \in Typed :
        Launch(p, [Begun(cmd, "fast", 1) EXCEPT !.stage = "load", !.target = prefix])

(* What the command makes of the entries it loaded. *)
Changed(items, c) ==
    IF c.cmd = "create" THEN Append(items, [id |-> c.made, edited |-> FALSE, status |-> "active"])
    ELSE IF Matching(items, c.target) = {} THEN items
    ELSE LET i == FirstMatch(items, c.target) IN
         IF c.cmd = "edit" THEN [items EXCEPT ![i].edited = TRUE]
         ELSE [items EXCEPT ![i].status = "resolved"]

LoadTheses(p) ==
    LET c == desk[p] IN
    /\ At(p, "load")
    /\ Step(p, IF ~theses.whole THEN Over(c, "unreadable")
               ELSE IF c.cmd # "create" /\ Matching(theses.items, c.target) = {}
               THEN Over(c, "not found")
               ELSE [c EXCEPT !.stage = "temp", !.copy = theses.items])

(* Mutant: the file itself is opened for writing. *)
WriteInPlace(p) ==
    /\ At(p, "temp")
    /\ theses' = [theses EXCEPT !.whole = FALSE]
    /\ desk' = [desk EXCEPT ![p].stage = "replace"]
    /\ UNCHANGED <<now, cache, launched>>

(* atomic_write_json: a temporary file, synced, then renamed. *)
WriteTemp(p) ==
    /\ At(p, "temp")
    /\ Step(p, [desk[p] EXCEPT !.stage = "replace"])

Replace(p) ==
    /\ At(p, "replace")
    /\ theses' = [whole |-> TRUE, items |-> Changed(desk[p].copy, desk[p])]
    /\ desk' = [q \in Procs |->
            IF q = p THEN Over(desk[p], "ok")
            ELSE [desk[q] EXCEPT !.overlap = @ \/ desk[q].stage \in {"temp", "replace"}]]
    /\ UNCHANGED <<now, cache, launched>>

(* The process is killed, the prompt is declined, the disk is full. *)
Abort(p) ==
    /\ Working(p)
    /\ Step(p, Over(desk[p], "aborted"))

----
ResearchInit ==
    /\ now = 0
    /\ cache = [k \in Keys |-> Null]
    /\ theses = [whole |-> TRUE, items |-> StartTheses]
    /\ desk = [p \in Procs |-> Off]
    /\ launched = 0

ResearchNext ==
    \/ Tick
    \/ \E p \in Procs :
        \/ BeginContext(p) \/ BeginTopic(p) \/ BeginCreate(p) \/ BeginSuggest(p)
        \/ BeginInvalidation(p) \/ FindThesis(p)
        \/ ReadEntry(p) \/ EvictEntry(p) \/ Short(p)
        \/ Refused(p) \/ Answered(p)
        \/ OpenEntry(p) \/ CloseEntry(p)
        \/ BeginClear(p) \/ Judge(p) \/ Unlink(p)
        \/ BeginChange(p) \/ LoadTheses(p) \/ WriteTemp(p) \/ Replace(p)
        \/ Abort(p)

ResearchSpec == ResearchInit /\ [][ResearchNext]_research

----
(* No command spends more than its budget by more than the last call's     *)
(* cost exceeded its estimate: whatever fails, whatever is retried and     *)
(* whatever came from the cache, a call that does not fit is not made.     *)
SpendBounded ==
    \A p \in Procs :
        \/ desk[p].spent <= desk[p].limit
        \/ \E charge \in Charges, op \in {"search", "answer"} :
               desk[p].spent <= desk[p].limit + charge - Estimate[desk[p].mode][op]

(* What the files hold. *)
ResearchTypeOK ==
    /\ now \in Days
    /\ \A k \in Keys : cache[k] \in Entry \union {Null}
    /\ theses.whole \in BOOLEAN /\ \A i \in DOMAIN theses.items : theses.items[i] \in Thesis
    /\ launched \in 0..MaxCommands

(* An entry with both its parts is one answer to the question it is filed  *)
(* under, in the same mode and for the same day, unless two processes had  *)
(* it open at once; and no answer is used after it expired, even if the    *)
(* entry is evicted and written anew meanwhile.                            *)
CacheSound ==
    /\ ResearchTypeOK
    /\ \A k \in Keys : cache[k] # Null /\ cache[k].tail # Null =>
          /\ cache[k].head.key = k /\ cache[k].tail.key = k
          /\ cache[k].head # cache[k].tail => cache[k].shared
    /\ \A p \in Procs : desk[p].hit # Null =>
          LET h == desk[p].hit IN
          /\ h.entry.head.key = h.asked
          /\ h.entry.tail.at + Ttl >= h.used

(* theses.json is always whole; it changes only when a command has been    *)
(* completed, and then by just what that command does to what is there,    *)
(* unless another command replaced the file between this one's load and    *)
(* its rename, which the minutes create spends on research are not part of. *)
ThesesStep ==
    /\ theses'.whole
    /\ theses'.items # theses.items =>
        \E p \in Procs :
            /\ At(p, "replace") /\ desk'[p].end = "ok"
            /\ ~desk[p].overlap => theses'.items = Changed(theses.items, desk[p])

(* No step loses a thesis, or half of the file.                            *)
ThesesKept == [][ThesesStep]_research
====
