---------------------------- MODULE DataScheduler ----------------------------
(***************************************************************************)
(* The scheduler of the data layer (data/scheduler.py): asyncio tasks that  *)
(* call a function on a fixed grid of times (schedule_interval) or once     *)
(* after a delay (schedule_once), start() and stop().                       *)
(*                                                                          *)
(* Time is kept relative, so that it needs no bound: due[j] is next_run     *)
(* minus the clock, phase[j] the clock minus the first slot of j, modulo    *)
(* the interval.                                                            *)
(***************************************************************************)
EXTENDS Integers, FiniteSets

CONSTANTS
    Jobs,       \* calls of schedule_interval and schedule_once
    Repeating,  \* those of schedule_interval
    Immediate,  \* those with run_immediately
    Period,     \* Period[j]: interval_seconds, or delay_seconds
    MaxRun,     \* bound: ticks a function takes
    Lateness    \* bound: ticks the event loop wakes a sleeper late

ASSUME SchedulerAssumption ==
    /\ Repeating \subseteq Jobs
    /\ Immediate \subseteq Repeating
    /\ Period \in [Jobs -> Nat]
    /\ \A j \in Repeating : Period[j] > 0
    /\ MaxRun \in Nat
    /\ Lateness \in Nat

VARIABLES
    running,      \* self.running
    tasks,        \* self.tasks
    pc,           \* pc[j]: "unscheduled", "waiting", "func", "cancelled", "done"
    initialized,  \* initialized of the runner of j
    due,          \* next_run - monotonic()
    phase,        \* history: (monotonic() - first slot) % interval
    busy,         \* ticks the function of j has taken
    gathered,     \* the tasks stop() waits for
    stopper,      \* stop(): "idle" or "gathering"
    stopped,      \* history: stop() was called
    strays        \* history: tasks that stop() cleared without cancelling them

vars == <<running, tasks, pc, initialized, due, phase, busy, gathered, stopper, stopped, strays>>

Grid == <<initialized, due, phase>>
Stopping == <<gathered, stopper, stopped, strays>>

Init ==
    /\ running = FALSE
    /\ tasks = {}
    /\ pc = [j \in Jobs |-> "unscheduled"]
    /\ initialized = [j \in Jobs |-> FALSE]
    /\ due = [j \in Jobs |-> 0]
    /\ phase = [j \in Jobs |-> 0]
    /\ busy = [j \in Jobs |-> 0]
    /\ gathered = {}
    /\ stopper = "idle"
    /\ stopped = FALSE
    /\ strays = {}

-----------------------------------------------------------------------------
Schedule(j) ==
    /\ pc[j] = "unscheduled"
    /\ pc' = [pc EXCEPT ![j] = "waiting"]
    /\ tasks' = tasks \cup {j}
    /\ due' = [due EXCEPT ![j] = IF j \in Repeating THEN 0 ELSE Period[j]]
    /\ UNCHANGED <<running, initialized, phase, busy, Stopping>>

Start ==
    /\ ~running
    /\ running' = TRUE
    /\ UNCHANGED <<tasks, pc, Grid, busy, Stopping>>

(* A runner that finds the scheduler not running polls.                    *)
Poll(j) ==
    /\ pc[j] = "waiting"
    /\ j \in Repeating
    /\ ~running
    /\ initialized[j] => due[j] <= 0
    /\ initialized' = [initialized EXCEPT ![j] = FALSE]
    /\ UNCHANGED <<running, tasks, pc, due, phase, busy, Stopping>>

Call(j) ==
    /\ pc' = [pc EXCEPT ![j] = "func"]
    /\ busy' = [busy EXCEPT ![j] = 0]

(* The first turn with the scheduler running fixes the grid.               *)
Initialize(j) ==
    /\ pc[j] = "waiting"
    /\ j \in Repeating
    /\ running
    /\ ~initialized[j]
    /\ initialized' = [initialized EXCEPT ![j] = TRUE]
    /\ phase' = [phase EXCEPT ![j] = 0]
    /\ IF j \in Immediate
       THEN due' = [due EXCEPT ![j] = 0] /\ Call(j)
       ELSE due' = [due EXCEPT ![j] = Period[j]] /\ UNCHANGED <<pc, busy>>
    /\ UNCHANGED <<running, tasks, Stopping>>

Begin(j) ==
    /\ pc[j] = "waiting"
    /\ j \in Repeating
    /\ running
    /\ initialized[j]
    /\ due[j] <= 0
    /\ Call(j)
    /\ UNCHANGED <<running, tasks, Grid, Stopping>>

(* Mutant of NextDue: slots a long run missed are made up for.              *)
NextDueBehind(j) == due[j] + Period[j]

(* next_run += interval, once and then until it lies ahead.                *)
NextDue(j) ==
    CHOOSE d \in 1..Period[j] : (d - due[j]) % Period[j] = 0

(* Mutant of Finish: a function that ends, by an exception say, ends its    *)
(* runner.                                                                  *)
FinishForGood(j) ==
    /\ pc[j] = "func"
    /\ pc' = [pc EXCEPT ![j] = "done"]
    /\ UNCHANGED <<running, tasks, Grid, busy, Stopping>>

(* The function returned or raised.                                        *)
Finish(j) ==
    /\ pc[j] = "func"
    /\ IF j \in Repeating
       THEN /\ pc' = [pc EXCEPT ![j] = "waiting"]
            /\ due' = [due EXCEPT ![j] = NextDue(j)]
       ELSE /\ pc' = [pc EXCEPT ![j] = "done"]
            /\ UNCHANGED due
    /\ UNCHANGED <<running, tasks, initialized, phase, busy, Stopping>>

(* schedule_once: after the delay, the function if the scheduler runs.      *)
RunOnce(j) ==
    /\ pc[j] = "waiting"
    /\ j \notin Repeating
    /\ due[j] <= 0
    /\ IF running
       THEN Call(j)
       ELSE /\ pc' = [pc EXCEPT ![j] = "done"]
            /\ UNCHANGED busy
    /\ UNCHANGED <<running, tasks, Grid, Stopping>>

-----------------------------------------------------------------------------
(* A cancelled sleeper is over at its next turn; a cancelled function may   *)
(* still await something on its way out.                                    *)
Cancel(j) ==
    CASE pc[j] = "waiting" -> "done"
      [] pc[j] = "func" -> "cancelled"
      [] OTHER -> pc[j]

Stop ==
    /\ stopper = "idle"
    /\ stopper' = "gathering"
    /\ running' = FALSE
    /\ gathered' = tasks
    /\ pc' = [j \in Jobs |-> IF j \in tasks THEN Cancel(j) ELSE pc[j]]
    /\ stopped' = TRUE
    /\ UNCHANGED <<tasks, Grid, busy, strays>>

CleanedUp(j) ==
    /\ pc[j] = "cancelled"
    /\ pc' = [pc EXCEPT ![j] = "done"]
    /\ UNCHANGED <<running, tasks, Grid, busy, Stopping>>

StopReturns ==
    /\ stopper = "gathering"
    /\ \A j \in gathered : pc[j] = "done"
    /\ stopper' = "idle"
    /\ tasks' = {}
    /\ strays' = strays \cup (tasks \ gathered)
    /\ gathered' = {}
    /\ UNCHANGED <<running, pc, Grid, busy, stopped>>

-----------------------------------------------------------------------------
Counting(j) == pc[j] \in {"waiting", "func"} /\ (initialized[j] \/ j \notin Repeating)

(* Bounds on the environment: functions end, sleepers are woken in time.    *)
Tick ==
    /\ \A j \in Jobs :
          /\ pc[j] \in {"func", "cancelled"} => busy[j] < MaxRun
          /\ (pc[j] = "waiting" /\ Counting(j)) => due[j] > -Lateness
    /\ \E j \in Jobs : Counting(j)
    /\ due' = [j \in Jobs |-> IF Counting(j) THEN due[j] - 1 ELSE due[j]]
    /\ phase' = [j \in Jobs |-> IF Counting(j) /\ j \in Repeating
                                THEN (phase[j] + 1) % Period[j] ELSE phase[j]]
    /\ busy' = [j \in Jobs |-> IF pc[j] \in {"func", "cancelled"}
                               THEN busy[j] + 1 ELSE busy[j]]
    /\ UNCHANGED <<running, tasks, pc, initialized, Stopping>>

JobStep(j) ==
    \/ Poll(j)
    \/ Initialize(j)
    \/ Begin(j)
    \/ Finish(j)
    \/ RunOnce(j)
    \/ CleanedUp(j)

Next ==
    \/ \E j \in Jobs : Schedule(j) \/ JobStep(j)
    \/ Start
    \/ Stop
    \/ StopReturns
    \/ Tick

Spec == Init /\ [][Next]_vars

(* The event loop gives every ready task its turn, functions return, time   *)
(* passes; nobody has to call schedule, start or stop.                      *)
FairSpec ==
    /\ Spec
    /\ WF_vars(Tick)
    /\ WF_vars(StopReturns)
    /\ \A j \in Jobs : WF_vars(Initialize(j) \/ Begin(j) \/ Finish(j) \/ RunOnce(j) \/ CleanedUp(j))

-----------------------------------------------------------------------------
TypeOK ==
    /\ running \in BOOLEAN
    /\ tasks \subseteq Jobs
    /\ pc \in [Jobs -> {"unscheduled", "waiting", "func", "cancelled", "done"}]
    /\ initialized \in [Jobs -> BOOLEAN]
    /\ \A j \in Jobs :
          /\ due[j] \in (-(Lateness + MaxRun))..Period[j]
          /\ phase[j] \in 0..Period[j]
          /\ busy[j] \in 0..MaxRun
    /\ gathered \subseteq tasks
    /\ stopper \in {"idle", "gathering"}
    /\ stopped \in BOOLEAN
    /\ strays \subseteq Jobs

(* "Corrects for execution time drift" (schedule_interval): however long    *)
(* functions take and however late sleepers wake, the runner waits for the  *)
(* next slot of the grid it was started on.                                 *)
OnGrid ==
    \A j \in Repeating :
        (initialized[j] /\ pc[j] = "waiting") =>
            /\ (phase[j] + due[j]) % Period[j] = 0
            /\ due[j] <= Period[j]

(* A call is never later than the wake-up that makes it: slots missed by a  *)
(* long run are skipped, not made up for.                                   *)
Punctual ==
    [][\A j \in Repeating : (pc[j] = "waiting" /\ pc'[j] = "func") => due'[j] >= -Lateness]_vars

(* When stop() has returned and nobody started again, no function runs, not *)
(* even one on its way out of a cancellation, strays apart.                 *)
NothingRunsAfterStop ==
    (~running /\ stopper = "idle") => \A j \in Jobs \ strays : pc[j] \notin {"func", "cancelled"}

(* The timetable is kept while the scheduler runs, and stop() ends it.      *)
TimetableKept ==
    /\ [](TypeOK /\ OnGrid /\ NothingRunsAfterStop)
    /\ Punctual

(* A runner on its grid calls its function again, whatever the function     *)
(* did, until the scheduler is stopped.                                     *)
KeepsCalling ==
    \A j \in Repeating :
        (pc[j] # "unscheduled" /\ running /\ ~stopped) ~> (pc[j] = "func" \/ stopped)

=============================================================================
