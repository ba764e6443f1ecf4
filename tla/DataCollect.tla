----------------------------- MODULE DataCollect -----------------------------
(***************************************************************************)
(* kalshi data collect (cli/data/collect.py): the scheduler, the two jobs   *)
(* it calls, the lock their database writes share, the full sync before the *)
(* scheduler is started and the closing of the database on Ctrl+C.          *)
(***************************************************************************)
EXTENDS Integers, SequencesExt

CONSTANTS Jobs, Period, MaxRun, Lateness

ASSUME CollectAssumption ==
    /\ IsFiniteSet(Jobs)
    /\ Period \in [Jobs -> Nat \ {0}]
    /\ MaxRun \in Nat
    /\ Lateness \in Nat

VARIABLES
    running, tasks, pc, initialized, due, phase, busy, gathered, stopper, stopped, strays,
    stage,      \* where _collect is: "opened", "syncing", "synced", "collecting",
                \* "stopping", "closed"
    queue,      \* write_lock: its holder followed by the tasks that wait for it
    writing     \* the jobs that are inside `async with write_lock`

(* Both jobs are scheduled with schedule_interval(run_immediately=False).   *)
Scheduler == INSTANCE DataScheduler WITH Repeating <- Jobs, Immediate <- {}

lockVars == <<stage, queue, writing>>
schedulerVars ==
    <<running, tasks, pc, initialized, due, phase, busy, gathered, stopper, stopped, strays>>
vars == <<schedulerVars, lockVars>>

Init ==
    /\ Scheduler!Init
    /\ stage = "opened"
    /\ queue = <<>>
    /\ writing = {}

-----------------------------------------------------------------------------
ScheduleJob(j) ==
    /\ stage = "opened"
    /\ Scheduler!Schedule(j)
    /\ UNCHANGED lockVars

(* full_sync writes without the lock.                                      *)
SyncBegins ==
    /\ stage = "opened"
    /\ tasks = Jobs
    /\ stage' = "syncing"
    /\ UNCHANGED <<schedulerVars, queue, writing>>

SyncEnds ==
    /\ stage = "syncing"
    /\ stage' = "synced"
    /\ UNCHANGED <<schedulerVars, queue, writing>>

(* full_sync raises, or is interrupted: the scheduler is never started.     *)
SyncFails ==
    /\ stage = "syncing"
    /\ stage' = "closed"
    /\ UNCHANGED <<schedulerVars, queue, writing>>

(* Mutant of StartScheduler (BUG-053): the scheduler is entered before the  *)
(* full sync is over.                                                       *)
StartAheadOfSync ==
    /\ stage \in {"syncing", "synced"}
    /\ stage' = IF stage = "synced" THEN "collecting" ELSE stage
    /\ Scheduler!Start
    /\ UNCHANGED <<queue, writing>>

StartScheduler ==
    /\ stage = "synced"
    /\ stage' = "collecting"
    /\ Scheduler!Start
    /\ UNCHANGED <<queue, writing>>

-----------------------------------------------------------------------------
Poll(j) ==
    /\ Scheduler!Poll(j)
    /\ UNCHANGED lockVars

Initialize(j) ==
    /\ Scheduler!Initialize(j)
    /\ UNCHANGED lockVars

(* The job is called and asks for the lock.                                *)
Begin(j) ==
    /\ Scheduler!Begin(j)
    /\ queue' = Append(queue, j)
    /\ UNCHANGED <<stage, writing>>

(* asyncio.Lock is handed to the first that waits.                         *)
TakeLock(j) ==
    /\ pc[j] = "func"
    /\ queue # <<>> /\ Head(queue) = j
    /\ j \notin writing
    /\ writing' = writing \cup {j}
    /\ UNCHANGED <<schedulerVars, stage, queue>>

(* Mutant of Leave: the lock is not released.                              *)
LeaveLocked(j) ==
    /\ writing' = writing \ {j}
    /\ UNCHANGED <<stage, queue>>

(* Leaving the lock, as its holder or as a cancelled waiter.                *)
Leave(j) ==
    /\ queue' = RemoveAt(queue, CHOOSE i \in DOMAIN queue : queue[i] = j)
    /\ writing' = writing \ {j}
    /\ UNCHANGED stage

Finish(j) ==
    /\ j \in writing
    /\ Scheduler!Finish(j)
    /\ Leave(j)

CleanedUp(j) ==
    /\ Scheduler!CleanedUp(j)
    /\ Leave(j)

-----------------------------------------------------------------------------
Interrupt ==
    /\ stage = "collecting"
    /\ stage' = "stopping"
    /\ Scheduler!Stop
    /\ UNCHANGED <<queue, writing>>

(* __aexit__ of the scheduler returns, then the fetcher and the database    *)
(* are closed.                                                              *)
CloseDatabase ==
    /\ stage = "stopping"
    /\ stage' = "closed"
    /\ Scheduler!StopReturns
    /\ UNCHANGED <<queue, writing>>

Tick ==
    /\ Scheduler!Tick
    /\ UNCHANGED lockVars

JobStep(j) == Initialize(j) \/ Begin(j) \/ TakeLock(j) \/ Finish(j) \/ CleanedUp(j)

Next ==
    \/ \E j \in Jobs : ScheduleJob(j) \/ Poll(j) \/ JobStep(j)
    \/ SyncBegins
    \/ SyncEnds
    \/ SyncFails
    \/ StartScheduler
    \/ Interrupt
    \/ CloseDatabase
    \/ Tick

Spec == Init /\ [][Next]_vars

(* Syncs and writes end, time passes, the event loop runs what is ready;    *)
(* nobody has to press Ctrl+C.                                              *)
FairSpec ==
    /\ Spec
    /\ WF_vars(Tick)
    /\ WF_vars(CloseDatabase)
    /\ \A j \in Jobs : WF_vars(JobStep(j))

-----------------------------------------------------------------------------
TypeOK ==
    /\ Scheduler!TypeOK
    /\ stage \in {"opened", "syncing", "synced", "collecting", "stopping", "closed"}
    /\ queue \in SeqOf(Jobs, Cardinality(Jobs))
    /\ writing \subseteq Jobs

(* BUG-053: what writes the database writes it alone, the full sync         *)
(* included, although that takes no lock.                                   *)
OneWriter ==
    Cardinality(writing) + (IF stage = "syncing" THEN 1 ELSE 0) <= 1

(* The database is closed only when no job is inside a write, not even one  *)
(* that was cancelled there.                                                *)
ClosedOnlyWhenQuiet ==
    stage = "closed" => writing = {} /\ queue = <<>>

(* The database has one writer while it is open, and none once it closes.   *)
WritesAlone ==
    /\ TypeOK
    /\ OneWriter
    /\ ClosedOnlyWhenQuiet

(* Every call of a job gets the lock in the end, or is cancelled.           *)
EveryCallWrites ==
    \A j \in Jobs : (pc[j] = "func" /\ j \notin writing) ~> (j \in writing \/ stopped)

=============================================================================
