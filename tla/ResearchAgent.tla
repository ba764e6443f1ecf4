---------------------------- MODULE ResearchAgent ----------------------------
(***************************************************************************)
(* The research agent (agent/research_agent/, agent/state.py,              *)
(* exa/_research.py, exa/_http.py): runs of kalshi agent research, in       *)
(* processes that may overlap or die, each executing a plan of paid steps   *)
(* under a budget.  The last step of a deep plan creates a research task    *)
(* that Exa works on after the call returned; its id is kept in a file per  *)
(* market, from which a later run picks it up instead of paying again.      *)
(***************************************************************************)
EXTENDS Integers, Sequences, FiniteSets

CONSTANTS
    Runs,           \* executions of execute_plan, each in a process of its own
    Tickers,
    Topics,         \* the instructions a title gives rise to
    Prefix,         \* Prefix[i]: the first 50 characters of instructions i
    Plan,           \* the endpoints of the plan's steps, in order
    Estimate,       \* Estimate[e]: estimated_cost_usd of a step, in cents
    Costs,          \* Costs[e]: what such a step may cost in the end
    MaxOvershoot,   \* by how much a cost may exceed its estimate
    Budget,         \* limit_usd, in cents
    MaxRetries,     \* max_retries of ExaConfig
    MaxPolls,       \* bound: polls that fit into timeout_seconds
    MaxMishaps,     \* bound: what goes wrong in a market's runs
    NoFile, Torn, NoTask

Endpoints == {"search", "answer", "research"}
Terminal  == {"completed", "failed"}     \* canceled is handled as failed is
AtWork    == {"next", "send", "sent", "save", "write", "lookup", "list", "poll", "final"}

ASSUME AgentAssumption ==
    /\ IsFiniteSet(Runs) /\ Tickers # {} /\ Topics # {}
    /\ Plan \in Seq(Endpoints)
    /\ \A i, j \in 1..Len(Plan) : Plan[i] = "research" /\ Plan[j] = "research" => i = j
    /\ Estimate \in [Endpoints -> Nat]
    /\ Costs \in [Endpoints -> SUBSET Nat]
    /\ Prefix \in [Topics -> STRING]
    /\ MaxOvershoot \in Nat
    /\ \A e \in Endpoints : \A c \in Costs[e] : c <= Estimate[e] + MaxOvershoot
    /\ Budget \in Nat \ {0}
    /\ MaxRetries \in Nat \ {0} /\ MaxPolls \in Nat /\ MaxMishaps \in Nat
    /\ NoFile # Torn
    /\ NoFile \notin [id : Nat, topic : Topics] /\ Torn \notin [id : Nat, topic : Topics]
    /\ NoTask \notin Nat

(* A run, and a task at Exa with the runs that reported it.                 *)
RunRecord ==
    [pc : AtWork \cup {"idle", "done"}, ticker : Tickers, topic : Topics,
     step : 1..(Len(Plan) + 1), spent : Nat, attempt : 0..MaxRetries, polls : 0..MaxPolls,
     id : Nat \cup {NoTask}]

TaskRecord ==
    [ticker : Tickers, topic : Topics, status : Terminal \cup {"running"}, cost : Nat,
     reported : SUBSET Runs, dropped : BOOLEAN]

VARIABLES
    run,        \* run[r]: the coroutine of execute_plan
    file,       \* file[t]: data/agent_state/<t>_research.json
    tasks,      \* Exa: the research tasks, by id
    wire,       \* create requests that may still reach Exa: <<run, step, attempt>>
    mishaps     \* history, mishaps[t]: what went wrong outside the program

vars == <<run, file, tasks, wire, mishaps>>

-----------------------------------------------------------------------------
Init ==
    /\ run = [r \in Runs |-> [pc |-> "idle", ticker |-> CHOOSE t \in Tickers : TRUE,
                              topic |-> CHOOSE i \in Topics : TRUE, step |-> 1, spent |-> 0,
                              attempt |-> 0, polls |-> 0, id |-> NoTask]]
    /\ file = [t \in Tickers |-> NoFile]
    /\ tasks = <<>>
    /\ wire = {}
    /\ mishaps = [t \in Tickers |-> 0]

Endpoint(r) == Plan[run[r].step]
Go(r, pc) == run' = [run EXCEPT ![r].pc = pc]
Mishap(t) == mishaps[t] < MaxMishaps /\ mishaps' = [mishaps EXCEPT ![t] = @ + 1]
Over(k) == tasks[k].status \in Terminal

(* A step is done, failed or skipped: what it cost is recorded, and the     *)
(* loop goes on.                                                           *)
StepOver(r, cost) ==
    run' = [run EXCEPT ![r] =
               [pc |-> "next", ticker |-> run[r].ticker, topic |-> run[r].topic,
                step |-> run[r].step + 1, spent |-> run[r].spent + cost,
                attempt |-> 0, polls |-> 0, id |-> NoTask]]

StepFailed(r) == StepOver(r, 0)

(* A run begins, beside one for the same market or not.                    *)
Begin(r, t, i) ==
    /\ run[r].pc = "idle"
    /\ run' = [run EXCEPT ![r].pc = "next", ![r].ticker = t, ![r].topic = i]
    /\ IF \E o \in Runs : run[o].pc \in AtWork /\ run[o].ticker = t
       THEN Mishap(t) ELSE UNCHANGED mishaps
    /\ UNCHANGED <<file, tasks, wire>>

-----------------------------------------------------------------------------
(* The loop of execute_plan.                                               *)

(* Mutant: as long as anything is left of the budget, the step is taken.    *)
FitsWhatIsLeft(r) == run[r].spent < Budget

(* can_spend                                                               *)
Fits(r) == run[r].spent + Estimate[Endpoint(r)] <= Budget

AtStep(r) == run[r].pc = "next" /\ run[r].step <= Len(Plan)

Skip(r) ==
    /\ AtStep(r) /\ ~Fits(r)
    /\ StepFailed(r)
    /\ UNCHANGED <<file, tasks, wire, mishaps>>

(* A search or an answer, with the retries of its request.                 *)
Ask(r) ==
    /\ AtStep(r) /\ Fits(r)
    /\ Endpoint(r) \in {"search", "answer"}
    /\ StepFailed(r) \/ \E cost \in Costs[Endpoint(r)] : StepOver(r, cost)
    /\ UNCHANGED <<file, tasks, wire, mishaps>>

Summarize(r) ==
    /\ run[r].pc = "next" /\ run[r].step > Len(Plan)
    /\ Go(r, "done")
    /\ UNCHANGED <<file, tasks, wire, mishaps>>

AtResearch(r) == AtStep(r) /\ Fits(r) /\ Endpoint(r) = "research"

Saved(r)   == file[run[r].ticker]
Exists(r)  == Saved(r) \notin {NoFile, Torn}
LookUp(r)  == run' = [run EXCEPT ![r].pc = "lookup", ![r].id = Saved(r).id]
BuyAnew(r) == run' = [run EXCEPT ![r].pc = "send", ![r].attempt = 1, ![r].id = NoTask]

(* Mutant: the saved instructions are not compared.                        *)
LoadAny(r) ==
    /\ AtResearch(r)
    /\ \/ Exists(r) /\ LookUp(r)
       \/ ~Exists(r) /\ BuyAnew(r)
    /\ UNCHANGED <<file, tasks, wire, mishaps>>

(* recover_or_create_research_task up to its first await: a file that is    *)
(* missing, unreadable or about other instructions is ignored.             *)
Load(r) ==
    /\ AtResearch(r)
    /\ \/ Exists(r) /\ Saved(r).topic = run[r].topic /\ LookUp(r) /\ UNCHANGED mishaps
       \/ Exists(r) /\ BuyAnew(r) /\ Mishap(run[r].ticker)
       \/ ~Exists(r) /\ BuyAnew(r) /\ UNCHANGED mishaps
    /\ UNCHANGED <<file, tasks, wire>>

-----------------------------------------------------------------------------
(* create_research_task: the attempts of ExaHTTPBase._request.  The request *)
(* carries no key by which Exa could tell a second copy from a new task.    *)
Send(r) ==
    /\ run[r].pc = "send"
    /\ wire' = wire \cup {<<r, run[r].step, run[r].attempt>>}
    /\ Go(r, "sent")
    /\ UNCHANGED <<file, tasks, mishaps>>

Awaited(c) ==
    run[c[1]].pc = "sent" /\ run[c[1]].step = c[2] /\ run[c[1]].attempt = c[3]

NewTask(r) == [ticker |-> run[r].ticker, topic |-> run[r].topic, status |-> "running",
               cost |-> 0, reported |-> {}, dropped |-> FALSE]

Created(r) ==
    /\ run[r].pc = "sent"
    /\ tasks' = Append(tasks, NewTask(r))
    /\ wire' = wire \ {<<r, run[r].step, run[r].attempt>>}
    /\ run' = [run EXCEPT ![r].pc = "save", ![r].id = Len(tasks) + 1]
    /\ UNCHANGED <<file, mishaps>>

Again(r) ==
    /\ run[r].attempt < MaxRetries
    /\ run' = [run EXCEPT ![r].pc = "send", ![r].attempt = @ + 1]

(* A time-out, a lost connection, a 5xx or an answer that is no JSON: the   *)
(* request may have been, or may still be, carried out.                    *)
Unanswered(r) ==
    /\ run[r].pc = "sent"
    /\ Again(r) \/ StepFailed(r)
    /\ Mishap(run[r].ticker)
    /\ UNCHANGED <<file, tasks, wire>>

(* 429 is retried, any other 4xx is final.                                 *)
Refused(r) ==
    /\ run[r].pc = "sent"
    /\ Again(r) \/ StepFailed(r)
    /\ wire' = wire \ {<<r, run[r].step, run[r].attempt>>}
    /\ UNCHANGED <<file, tasks, mishaps>>

(* A copy nobody waits for is carried out after all, or never.             *)
Serve(c) ==
    /\ c \in wire /\ ~Awaited(c)
    /\ wire' = wire \ {c}
    /\ tasks' \in {tasks, Append(tasks, NewTask(c[1]))}
    /\ UNCHANGED <<run, file, mishaps>>

-----------------------------------------------------------------------------
(* save_research_task: write_text empties the file before it writes it, and *)
(* an OSError is swallowed.                                                 *)
Tracked(r) == Go(r, IF Over(run[r].id) THEN "final" ELSE "poll")

OpenFile(r) ==
    /\ run[r].pc = "save"
    /\ \/ /\ file' = [file EXCEPT ![run[r].ticker] = Torn]
          /\ Go(r, "write")
          /\ UNCHANGED mishaps
       \/ /\ Tracked(r)
          /\ Mishap(run[r].ticker)
          /\ UNCHANGED file
    /\ UNCHANGED <<tasks, wire>>

WriteFile(r) ==
    /\ run[r].pc = "write"
    /\ Tracked(r)
    /\ \/ /\ file' = [file EXCEPT ![run[r].ticker] = [id |-> run[r].id, topic |-> run[r].topic]]
          /\ UNCHANGED mishaps
       \/ Mishap(run[r].ticker) /\ UNCHANGED file
    /\ UNCHANGED <<tasks, wire>>

-----------------------------------------------------------------------------
(* _try_recover_by_id                                                      *)
Lookup(r) ==
    /\ run[r].pc = "lookup"
    /\ \/ Tracked(r) /\ UNCHANGED mishaps
       \/ Go(r, "list") /\ Mishap(run[r].ticker)
    /\ UNCHANGED <<file, tasks, wire>>

(* _try_recover_by_list: the first task in Exa's list whose instructions    *)
(* begin like these, of whatever market and in whatever state; none if it   *)
(* is too far down the list or a request fails.                            *)
List(r) ==
    /\ run[r].pc = "list"
    /\ \/ BuyAnew(r)
       \/ \E k \in DOMAIN tasks :
              /\ Prefix[tasks[k].topic] = Prefix[run[r].topic]
              /\ run' = [run EXCEPT ![r].pc = "save", ![r].id = k]
    /\ UNCHANGED <<file, tasks, wire, mishaps>>

(* Mutant: a run that gives up waiting forgets the task.                    *)
GiveUpClearing(r) ==
    /\ StepFailed(r)
    /\ file' = [file EXCEPT ![run[r].ticker] = NoFile]

(* The time is over, or a poll failed: the file is kept.                   *)
GiveUp(r) == StepFailed(r) /\ UNCHANGED file

(* wait_for_research                                                       *)
Poll(r) ==
    /\ run[r].pc = "poll"
    /\ \/ Over(run[r].id) /\ Go(r, "final") /\ UNCHANGED file
       \/ ~Over(run[r].id) /\ run[r].polls < MaxPolls
              /\ run' = [run EXCEPT ![r].polls = @ + 1] /\ UNCHANGED file
       \/ GiveUp(r)
    /\ UNCHANGED <<tasks, wire, mishaps>>

(* finalize_research_task: a task that failed is dropped, one that is       *)
(* completed is reported at its cost; either way the market's file is       *)
(* removed, whichever task it names.                                       *)
Finalize(r) ==
    LET k == run[r].id
        t == run[r].ticker
    IN  /\ run[r].pc = "final"
        /\ \/ file' = [file EXCEPT ![t] = NoFile] /\ UNCHANGED mishaps
           \/ file[t] # NoFile /\ Mishap(t) /\ UNCHANGED file
        /\ IF tasks[k].status = "completed"
           THEN /\ tasks' = [tasks EXCEPT ![k].reported = @ \cup {r}]
                /\ StepOver(r, tasks[k].cost)
           ELSE /\ tasks' = [tasks EXCEPT ![k].dropped = TRUE]
                /\ StepFailed(r)
        /\ UNCHANGED wire

-----------------------------------------------------------------------------
(* Exa ends a task.                                                        *)
EndTask(k) ==
    /\ tasks[k].status = "running"
    /\ \/ \E cost \in Costs["research"] :
              tasks' = [tasks EXCEPT ![k].status = "completed", ![k].cost = cost]
       \/ tasks' = [tasks EXCEPT ![k].status = "failed"]
    /\ UNCHANGED <<run, file, wire, mishaps>>

(* The process is killed, or an exception that is no ExaError ends the run. *)
Die(r) ==
    /\ run[r].pc \in AtWork
    /\ Go(r, "done")
    /\ Mishap(run[r].ticker)
    /\ UNCHANGED <<file, tasks, wire>>

RunStep(r) ==
    \/ Skip(r) \/ Ask(r) \/ Summarize(r) \/ Load(r)
    \/ Send(r) \/ Created(r) \/ Unanswered(r) \/ Refused(r)
    \/ OpenFile(r) \/ WriteFile(r)
    \/ Lookup(r) \/ List(r) \/ Poll(r) \/ Finalize(r)

Next ==
    \/ \E r \in Runs : RunStep(r) \/ Die(r)
    \/ \E r \in Runs, t \in Tickers, i \in Topics : Begin(r, t, i)
    \/ \E c \in wire : Serve(c)
    \/ \E k \in DOMAIN tasks : EndTask(k)

Spec == Init /\ [][Next]_vars

-----------------------------------------------------------------------------
(* What the variables hold.                                                *)
TypeOK ==
    /\ run \in [Runs -> RunRecord]
    /\ \A r \in Runs : run[r].id # NoTask => run[r].id \in DOMAIN tasks
    /\ file \in [Tickers -> {NoFile, Torn} \cup [id : Nat, topic : Topics]]
    /\ \A t \in Tickers : file[t] \notin {NoFile, Torn} => file[t].id \in DOMAIN tasks
    /\ tasks \in Seq(TaskRecord)
    /\ wire \subseteq Runs \X (1..Len(Plan)) \X (1..MaxRetries)
    /\ mishaps \in [Tickers -> 0..MaxMishaps]

(* SPEC-033: whatever order the steps succeed and fail in, and whosever     *)
(* task a run reports, the spend it records exceeds the budget at most by   *)
(* what one step's cost exceeds its estimate.                              *)
SpendBounded == \A r \in Runs : run[r].spent <= Budget + MaxOvershoot

(* Runs, files and tasks are well-formed and no run overspends.             *)
BudgetKept ==
    /\ TypeOK
    /\ SpendBounded

(* DEBT-022: a second task of a market is paid for, while one is still      *)
(* waiting to be collected, only when something outside the program went    *)
(* wrong: an answer or a write that was lost, a process that died, a        *)
(* lookup that failed, two runs at a time or a changed title.  A task that  *)
(* takes too long, polls that fail and tasks that fail cost nothing twice.  *)
Uncollected(t) ==
    {k \in DOMAIN tasks : tasks[k].ticker = t /\ tasks[k].reported = {} /\ ~tasks[k].dropped}

NothingBoughtTwice == \A t \in Tickers : Cardinality(Uncollected(t)) <= 1 + mishaps[t]

(* A run reports a task of its own market and its own instructions, and one *)
(* that no other run reports, unless something went wrong in one of them.   *)
ReportsAreOwn ==
    \A k \in DOMAIN tasks : \A r \in tasks[k].reported :
        \/ mishaps[run[r].ticker] > 0
        \/ /\ tasks[k].ticker = run[r].ticker /\ tasks[k].topic = run[r].topic
           /\ \A o \in tasks[k].reported \ {r} : mishaps[run[o].ticker] > 0
=============================================================================
