-------------------------- MODULE MarketDataProofs --------------------------
(***************************************************************************)
(* For any number of jobs: kalshi data collect runs the scheduler it uses   *)
(* as its module specifies it, and what writes the database writes it       *)
(* alone and before the database is closed.  For any orderbook: market      *)
(* liquidity shows the largest order that stays within the slippage.        *)
(***************************************************************************)
EXTENDS DataCollect, MarketScan, SequenceTheorems, FiniteSetTheorems, WellFoundedInduction, TLAPS

Timetable == INSTANCE DataSchedulerProofs WITH Repeating <- Jobs, Immediate <- {}

Calling(j) == pc[j] \in {"func", "cancelled"}

(* What the scheduler and its tasks are doing at each stage of _collect.    *)
Stages ==
    /\ stage \in {"opened", "syncing", "synced", "collecting", "stopping", "closed"}
    /\ stage \in {"opened", "syncing", "synced", "closed"} => ~running /\ \A j \in Jobs : ~Calling(j)
    /\ stage \in {"opened", "syncing", "synced", "collecting"} => stopper = "idle"
    /\ stage \in {"syncing", "synced", "collecting", "stopping"} => tasks = Jobs
    /\ stage = "stopping" => ~running /\ stopper = "gathering" /\ gathered = Jobs

(* The calls that are under way are the ones in the queue of the lock, each *)
(* once, and only the first of them writes.                                 *)
Queued ==
    /\ queue \in Seq(Jobs)
    /\ \A a, b \in 1..Len(queue) : queue[a] = queue[b] => a = b
    /\ \A j \in Jobs : Calling(j) <=> \E a \in 1..Len(queue) : queue[a] = j
    /\ writing \subseteq Jobs
    /\ \A j \in writing : Len(queue) > 0 /\ queue[1] = j

(* The inductive invariant.                                                 *)
IInv == Timetable!IInv /\ Stages /\ Queued

-----------------------------------------------------------------------------
LEMMA Assumed == Timetable!SchedulerAssumption
  BY CollectAssumption DEF Timetable!SchedulerAssumption

(* What the program does is a step of its scheduler, or none.               *)
LEMMA StepOfScheduler == ASSUME [Next]_vars PROVE [Timetable!Next]_(Timetable!vars)
<1>1. ASSUME NEW j \in Jobs, ScheduleJob(j) \/ Poll(j) \/ JobStep(j)
      PROVE  [Timetable!Next]_(Timetable!vars)
  <2>1. CASE ScheduleJob(j)
    <3>1. Timetable!Schedule(j)
      BY <2>1 DEF ScheduleJob, Scheduler!Schedule, Timetable!Schedule, Scheduler!Stopping,
                  Timetable!Stopping
    <3>2. QED
      BY <3>1 DEF Timetable!Next
  <2>2. CASE Poll(j)
    <3>1. Timetable!Poll(j)
      BY <2>2 DEF Poll, Scheduler!Poll, Timetable!Poll, Scheduler!Stopping, Timetable!Stopping
    <3>2. QED
      BY <3>1 DEF Timetable!Next, Timetable!JobStep
  <2>3. CASE Initialize(j)
    <3>1. Timetable!Initialize(j)
      BY <2>3 DEF Initialize, Scheduler!Initialize, Timetable!Initialize, Scheduler!Stopping,
                  Timetable!Stopping, Scheduler!Call, Timetable!Call
    <3>2. QED
      BY <3>1 DEF Timetable!Next, Timetable!JobStep
  <2>4. CASE Begin(j)
    <3>1. Timetable!Begin(j)
      BY <2>4 DEF Begin, Scheduler!Begin, Timetable!Begin, Scheduler!Stopping,
                  Timetable!Stopping, Scheduler!Call, Timetable!Call, Scheduler!Grid, Timetable!Grid
    <3>2. QED
      BY <3>1 DEF Timetable!Next, Timetable!JobStep
  <2>5. CASE TakeLock(j)
    BY <2>5 DEF TakeLock, schedulerVars, Timetable!vars
  <2>6. CASE Finish(j)
    <3>1. Timetable!Finish(j)
      BY <2>6 DEF Finish, Scheduler!Finish, Timetable!Finish, Scheduler!Stopping,
                  Timetable!Stopping, Scheduler!NextDue, Timetable!NextDue
    <3>2. QED
      BY <3>1 DEF Timetable!Next, Timetable!JobStep
  <2>7. CASE CleanedUp(j)
    <3>1. Timetable!CleanedUp(j)
      BY <2>7 DEF CleanedUp, Scheduler!CleanedUp, Timetable!CleanedUp, Scheduler!Stopping,
                  Timetable!Stopping, Scheduler!Grid, Timetable!Grid
    <3>2. QED
      BY <3>1 DEF Timetable!Next, Timetable!JobStep
  <2>8. QED
    BY <1>1, <2>1, <2>2, <2>3, <2>4, <2>5, <2>6, <2>7 DEF JobStep
<1>2. CASE SyncBegins \/ SyncEnds \/ SyncFails \/ UNCHANGED vars
  BY <1>2 DEF SyncBegins, SyncEnds, SyncFails, vars, schedulerVars, Timetable!vars
<1>3. CASE StartScheduler
  <2>1. Timetable!Start
    BY <1>3 DEF StartScheduler, Scheduler!Start, Timetable!Start, Scheduler!Stopping,
                Timetable!Stopping, Scheduler!Grid, Timetable!Grid
  <2>2. QED
    BY <2>1 DEF Timetable!Next
<1>4. CASE Interrupt
  <2>1. Timetable!Stop
    BY <1>4 DEF Interrupt, Scheduler!Stop, Timetable!Stop, Scheduler!Cancel, Timetable!Cancel,
                Scheduler!Grid, Timetable!Grid
  <2>2. QED
    BY <2>1 DEF Timetable!Next
<1>5. CASE CloseDatabase
  <2>1. Timetable!StopReturns
    BY <1>5 DEF CloseDatabase, Scheduler!StopReturns, Timetable!StopReturns,
                Scheduler!Grid, Timetable!Grid
  <2>2. QED
    BY <2>1 DEF Timetable!Next
<1>6. CASE Tick
  <2>1. Timetable!Tick
    BY <1>6 DEF Tick, Scheduler!Tick, Timetable!Tick, Scheduler!Stopping, Timetable!Stopping,
                Scheduler!Counting, Timetable!Counting
  <2>2. QED
    BY <2>1 DEF Timetable!Next
<1>7. QED
  BY <1>1, <1>2, <1>3, <1>4, <1>5, <1>6 DEF Next

LEMMA InitOfScheduler == ASSUME Init PROVE Timetable!Init
  BY DEF Init, Scheduler!Init, Timetable!Init

LEMMA SchedulerStays == ASSUME IInv, [Next]_vars PROVE Timetable!IInv'
  BY StepOfScheduler, Assumed, Timetable!NextIInv DEF IInv

LEMMA SchedulerTypes ==
    ASSUME IInv
    PROVE  /\ pc \in [Jobs -> {"unscheduled", "waiting", "func", "cancelled", "done"}]
           /\ tasks \subseteq Jobs /\ gathered \subseteq tasks
  BY DEF IInv, Timetable!IInv, Timetable!Types

-----------------------------------------------------------------------------
(* Leaving the lock: the queue closes ranks.                                *)
LEMMA Leaves ==
    ASSUME Queued, NEW j \in Jobs, Leave(j), NEW i \in 1..Len(queue), queue[i] = j
    PROVE  /\ queue' \in Seq(Jobs) /\ Len(queue') = Len(queue) - 1
           /\ \A a \in 1..Len(queue') : queue'[a] = queue[IF a < i THEN a ELSE a + 1]
<1>1. queue \in Seq(Jobs) /\ Len(queue) \in Nat /\ DOMAIN queue = 1..Len(queue)
  BY LenProperties DEF Queued
<1>2. (CHOOSE k \in DOMAIN queue : queue[k] = j) = i
  BY <1>1 DEF Queued
<1>3. queue' = SubSeq(queue, 1, i - 1) \o SubSeq(queue, i + 1, Len(queue))
  BY <1>2 DEF Leave, RemoveAt
<1> DEFINE l == SubSeq(queue, 1, i - 1)
           r == SubSeq(queue, i + 1, Len(queue))
<1>4. /\ l \in Seq(Jobs) /\ Len(l) = i - 1
      /\ \A a \in 1..(i - 1) : l[a] = queue[a]
  <2>1. \A a \in 1..(i - 1) : queue[a] \in Jobs
    BY <1>1, ElementOfSeq
  <2>2. 1 \in Int /\ i - 1 \in Int /\ i >= 1
    OBVIOUS
  <2>3. /\ l \in Seq(Jobs) /\ Len(l) = IF 1 <= i - 1 THEN (i - 1) - 1 + 1 ELSE 0
        /\ \A a \in 1..((i - 1) - 1 + 1) : l[a] = queue[1 + a - 1]
    BY ONLY <2>1, <2>2, SubSeqProperties
  <2>4. QED
    BY <2>2, <2>3
<1>5. /\ r \in Seq(Jobs) /\ Len(r) = Len(queue) - i
      /\ \A a \in 1..(Len(queue) - i) : r[a] = queue[a + i]
  <2>1. \A a \in (i + 1)..Len(queue) : queue[a] \in Jobs
    <3>1. ASSUME NEW a \in (i + 1)..Len(queue) PROVE a \in 1..Len(queue)
      BY <1>1
    <3>2. QED
      BY <1>1, <3>1, ElementOfSeq
  <2>2. i + 1 \in Int /\ Len(queue) \in Int /\ i \in Int /\ i <= Len(queue)
    BY <1>1
  <2>3. /\ r \in Seq(Jobs) /\ Len(r) = IF i + 1 <= Len(queue) THEN Len(queue) - (i + 1) + 1 ELSE 0
        /\ \A a \in 1..(Len(queue) - (i + 1) + 1) : r[a] = queue[(i + 1) + a - 1]
    BY ONLY <2>1, <2>2, SubSeqProperties
  <2>4. QED
    BY <2>2, <2>3
<1>6. /\ l \o r \in Seq(Jobs) /\ Len(l \o r) = Len(l) + Len(r)
      /\ \A a \in 1..(Len(l) + Len(r)) : (l \o r)[a] = IF a <= Len(l) THEN l[a] ELSE r[a - Len(l)]
  BY ONLY <1>4, <1>5, ConcatProperties
<1>7. queue' = l \o r
  BY <1>3
<1> HIDE DEF l, r
<1>8. Len(queue') = Len(queue) - 1
  <2>1. Len(queue') = (i - 1) + (Len(queue) - i)
    BY <1>4, <1>5, <1>6, <1>7
  <2>2. i \in Int /\ Len(queue) \in Int
    BY <1>1
  <2>3. QED
    BY ONLY <2>1, <2>2
<1>9. ASSUME NEW a \in 1..Len(queue') PROVE queue'[a] = queue[IF a < i THEN a ELSE a + 1]
  BY <1>1, <1>4, <1>5, <1>6, <1>7, <1>8
<1>10. QED
  BY <1>6, <1>7, <1>8, <1>9

(* A job whose call ends leaves the others in their order.                  *)
LEMMA LeavesInOrder ==
    ASSUME Queued, NEW j \in Jobs, Leave(j), Calling(j), ~Calling(j)',
           \A k \in Jobs \ {j} : Calling(k)' <=> Calling(k)
    PROVE  Queued'
<1>1. queue \in Seq(Jobs) /\ Len(queue) \in Nat
  BY LenProperties DEF Queued
<1>2. PICK i \in 1..Len(queue) : queue[i] = j
  BY DEF Queued
<1>3. /\ queue' \in Seq(Jobs) /\ Len(queue') = Len(queue) - 1
      /\ \A a \in 1..Len(queue') : queue'[a] = queue[IF a < i THEN a ELSE a + 1]
  BY <1>2, Leaves
<1>4. ASSUME NEW a \in 1..Len(queue'), NEW b \in 1..Len(queue'), queue'[a] = queue'[b] PROVE a = b
  <2> DEFINE old(c) == IF c < i THEN c ELSE c + 1
  <2>1. old(a) \in 1..Len(queue) /\ old(b) \in 1..Len(queue)
    BY <1>1, <1>3
  <2>2. queue[old(a)] = queue[old(b)]
    BY <1>3, <1>4
  <2>3. old(a) = old(b)
    BY <2>1, <2>2 DEF Queued
  <2>4. QED
    BY <1>1, <1>3, <2>3
<1>5. ASSUME NEW k \in Jobs PROVE Calling(k)' <=> \E a \in 1..Len(queue') : queue'[a] = k
  <2>1. CASE k = j
    <3>1. ASSUME NEW a \in 1..Len(queue'), queue'[a] = j PROVE FALSE
      <4> DEFINE old == IF a < i THEN a ELSE a + 1
      <4>1. old \in 1..Len(queue) /\ old # i
        BY <1>1, <1>3
      <4>2. queue[old] = queue[i]
        BY <1>2, <1>3, <3>1
      <4>3. QED
        BY <1>2, <4>1, <4>2 DEF Queued
    <3>2. QED
      BY <2>1, <3>1
  <2>2. CASE k # j /\ Calling(k)
    <3>1. PICK c \in 1..Len(queue) : queue[c] = k
      BY <2>2 DEF Queued
    <3>2. c # i
      BY <1>2, <2>2, <3>1
    <3>3. \E a \in 1..Len(queue') : queue'[a] = k
      <4>1. CASE c < i
        BY <1>1, <1>3, <3>1, <4>1
      <4>2. CASE c > i
        <5>1. c - 1 \in 1..Len(queue') /\ ~(c - 1 < i) /\ (c - 1) + 1 = c
          BY <1>1, <1>3, <4>2
        <5>2. queue'[c - 1] = k
          BY <1>3, <3>1, <5>1
        <5>3. QED
          BY <5>1, <5>2
      <4>3. QED
        BY <3>2, <4>1, <4>2
    <3>4. QED
      BY <2>2, <3>3
  <2>3. CASE k # j /\ ~Calling(k)
    <3>1. ASSUME NEW a \in 1..Len(queue'), queue'[a] = k PROVE FALSE
      <4> DEFINE old == IF a < i THEN a ELSE a + 1
      <4>1. old \in 1..Len(queue)
        BY <1>1, <1>3
      <4>2. queue[old] = k
        BY <1>3, <3>1
      <4>3. QED
        BY <2>3, <4>1, <4>2 DEF Queued
    <3>2. QED
      BY <2>3, <3>1
  <2>4. QED
    BY <2>1, <2>2, <2>3
<1>6. ASSUME NEW w \in writing' PROVE Len(queue') > 0 /\ queue'[1] = w
  <2>1. w \in writing /\ w # j /\ w \in Jobs
    BY DEF Leave, Queued
  <2>2. Len(queue) > 0 /\ queue[1] = w
    BY <2>1 DEF Queued
  <2>3. i # 1
    BY <1>2, <2>1, <2>2
  <2>4. QED
    BY <1>1, <1>3, <2>2, <2>3
<1>7. writing' \subseteq Jobs
  BY DEF Leave, Queued
<1>8. QED
  BY <1>3, <1>4, <1>5, <1>6, <1>7 DEF Queued

(* A step that neither calls a job nor ends a call.                         *)
LEMMA QueueStays ==
    ASSUME Queued, queue' = queue, writing' = writing, \A k \in Jobs : Calling(k)' <=> Calling(k)
    PROVE  Queued'
  BY DEF Queued

-----------------------------------------------------------------------------
LEMMA InitIInv == ASSUME Init PROVE IInv
<1>1. Timetable!IInv
  BY InitOfScheduler, Assumed, Timetable!InitIInv
<1>2. Stages
  BY DEF Init, Scheduler!Init, Stages, Calling
<1>3. Queued
  BY EmptySeq DEF Init, Scheduler!Init, Queued, Calling
<1>4. QED
  BY <1>1, <1>2, <1>3 DEF IInv

LEMMA BeginStep == ASSUME IInv, NEW j \in Jobs, Begin(j) PROVE Stages' /\ Queued'
<1>1. /\ pc[j] = "waiting" /\ running /\ pc'[j] = "func" /\ \A k \in Jobs \ {j} : pc'[k] = pc[k]
      /\ queue' = Append(queue, j) /\ stage' = stage /\ writing' = writing
      /\ UNCHANGED <<running, tasks, gathered, stopper>>
  BY SchedulerTypes DEF Begin, Scheduler!Begin, Scheduler!Call, Scheduler!Stopping
<1>2. Stages'
  BY <1>1 DEF IInv, Stages, Calling
<1>3. queue \in Seq(Jobs) /\ Len(queue) \in Nat
  BY LenProperties DEF IInv, Queued
<1>4. /\ queue' \in Seq(Jobs) /\ Len(queue') = Len(queue) + 1
      /\ \A a \in 1..Len(queue) : queue'[a] = queue[a]
      /\ queue'[Len(queue) + 1] = j
  BY <1>1, <1>3, AppendProperties
<1>5. \A a \in 1..Len(queue) : queue[a] # j
  BY <1>1 DEF IInv, Queued, Calling
<1>6. \A a, b \in 1..Len(queue') : queue'[a] = queue'[b] => a = b
  <2>1. ASSUME NEW a \in 1..Len(queue'), NEW b \in 1..Len(queue'), queue'[a] = queue'[b] PROVE a = b
    <3>1. CASE a \in 1..Len(queue) /\ b \in 1..Len(queue)
      BY <1>4, <2>1, <3>1, SMTT(40) DEF IInv, Queued
    <3>2. CASE a = Len(queue) + 1 \/ b = Len(queue) + 1
      BY <1>3, <1>4, <1>5, <2>1, <3>2
    <3>3. QED
      BY <1>3, <1>4, <3>1, <3>2
  <2>2. QED
    BY <2>1
<1>7. ASSUME NEW k \in Jobs PROVE Calling(k)' <=> \E a \in 1..Len(queue') : queue'[a] = k
  <2>1. CASE k = j
    <3>1. Len(queue) + 1 \in 1..Len(queue')
      BY <1>3, <1>4
    <3>2. QED
      BY <1>1, <1>4, <2>1, <3>1 DEF Calling
  <2>2. CASE k # j
    <3>1. Calling(k)' <=> Calling(k)
      BY <1>1, <2>2 DEF Calling
    <3>2. Calling(k) <=> \E a \in 1..Len(queue) : queue[a] = k
      BY DEF IInv, Queued
    <3>3. (\E a \in 1..Len(queue) : queue[a] = k) <=> \E a \in 1..Len(queue') : queue'[a] = k
      BY <1>3, <1>4, <2>2
    <3>4. QED
      BY <3>1, <3>2, <3>3
  <2>3. QED
    BY <2>1, <2>2
<1>8. writing' \subseteq Jobs /\ \A w \in writing' : Len(queue') > 0 /\ queue'[1] = w
  BY <1>1, <1>3, <1>4 DEF IInv, Queued
<1>9. QED
  BY <1>2, <1>4, <1>6, <1>7, <1>8 DEF Queued

LEMMA TakeLockStep == ASSUME IInv, NEW j \in Jobs, TakeLock(j) PROVE Stages' /\ Queued'
<1>1. Stages'
  BY DEF TakeLock, schedulerVars, IInv, Stages, Calling
<1>2. Len(queue) > 0 /\ queue[1] = j
  BY EmptySeq DEF TakeLock, IInv, Queued
<1>3. Queued'
  BY <1>2 DEF TakeLock, schedulerVars, IInv, Queued, Calling
<1>4. QED
  BY <1>1, <1>3

LEMMA EndStep == ASSUME IInv, NEW j \in Jobs, Finish(j) \/ CleanedUp(j) PROVE Stages' /\ Queued'
<1>1. /\ Calling(j) /\ ~Calling(j)' /\ \A k \in Jobs \ {j} : Calling(k)' <=> Calling(k)
      /\ Leave(j) /\ stage' = stage /\ UNCHANGED <<running, tasks, gathered, stopper>>
  BY SchedulerTypes
     DEF Finish, CleanedUp, Scheduler!Finish, Scheduler!CleanedUp, Scheduler!Stopping, Calling, Leave
<1>2. Stages'
  BY <1>1 DEF IInv, Stages
<1>3. Queued'
  BY <1>1, LeavesInOrder DEF IInv
<1>4. QED
  BY <1>2, <1>3

LEMMA JobsStep ==
    ASSUME IInv, NEW j \in Jobs, ScheduleJob(j) \/ Poll(j) \/ Initialize(j)
    PROVE  Stages' /\ Queued'
<1>1. \A k \in Jobs : Calling(k)' <=> Calling(k)
  BY SchedulerTypes DEF ScheduleJob, Poll, Initialize, Scheduler!Schedule, Scheduler!Poll,
                        Scheduler!Initialize, Calling
<1>2. /\ UNCHANGED <<stage, queue, writing, running, stopper, gathered>>
      /\ tasks' = tasks \/ (stage = "opened" /\ tasks' = tasks \cup {j})
  BY DEF ScheduleJob, Poll, Initialize, Scheduler!Schedule, Scheduler!Poll, Scheduler!Initialize,
         Scheduler!Stopping, lockVars
<1>3. Stages'
  BY <1>1, <1>2 DEF IInv, Stages
<1>4. Queued'
  BY <1>1, <1>2, QueueStays DEF IInv
<1>5. QED
  BY <1>3, <1>4

LEMMA StageStep ==
    ASSUME IInv, SyncBegins \/ SyncEnds \/ SyncFails \/ StartScheduler \/ Tick \/ UNCHANGED vars
    PROVE  Stages' /\ Queued'
<1>1. pc' = pc /\ queue' = queue /\ writing' = writing
  BY DEF SyncBegins, SyncEnds, SyncFails, StartScheduler, Tick, vars, schedulerVars, lockVars,
         Scheduler!Start, Scheduler!Tick
<1>2. Queued'
  BY <1>1, QueueStays DEF IInv, Calling
<1>3. Stages'
  <2>1. CASE SyncBegins \/ SyncEnds \/ SyncFails \/ UNCHANGED vars
    BY <2>1 DEF SyncBegins, SyncEnds, SyncFails, vars, schedulerVars, lockVars, IInv, Stages, Calling
  <2>2. CASE StartScheduler
    BY <2>2 DEF StartScheduler, Scheduler!Start, Scheduler!Stopping, IInv, Stages, Calling
  <2>3. CASE Tick
    BY <2>3 DEF Tick, lockVars, Scheduler!Tick, Scheduler!Stopping, IInv, Stages, Calling
  <2>4. QED
    BY <2>1, <2>2, <2>3
<1>4. QED
  BY <1>2, <1>3

LEMMA InterruptStep == ASSUME IInv, Interrupt PROVE Stages' /\ Queued'
<1>1. \A k \in Jobs : Calling(k)' <=> Calling(k)
  BY SchedulerTypes DEF Interrupt, Scheduler!Stop, Scheduler!Cancel, Calling
<1>2. /\ stage = "collecting" /\ stage' = "stopping" /\ stopper' = "gathering" /\ running' = FALSE
      /\ gathered' = tasks /\ tasks' = tasks /\ queue' = queue /\ writing' = writing
  BY DEF Interrupt, Scheduler!Stop
<1>3. Stages'
  BY <1>2 DEF IInv, Stages
<1>4. QED
  BY <1>1, <1>2, <1>3, QueueStays DEF IInv

LEMMA CloseDatabaseStep == ASSUME IInv, CloseDatabase PROVE Stages' /\ Queued'
<1>1. /\ stage = "stopping" /\ stage' = "closed" /\ \A j \in gathered : pc[j] = "done"
      /\ UNCHANGED <<pc, running, queue, writing>>
  BY DEF CloseDatabase, Scheduler!StopReturns
<1>2. Stages'
  BY <1>1 DEF IInv, Stages, Calling
<1>3. QED
  BY <1>1, <1>2, QueueStays DEF IInv, Calling

LEMMA NextIInv == ASSUME IInv, [Next]_vars PROVE IInv'
<1>1. Stages' /\ Queued'
  BY JobsStep, BeginStep, TakeLockStep, EndStep, StageStep, InterruptStep, CloseDatabaseStep
     DEF Next, JobStep
<1>2. QED
  BY <1>1, SchedulerStays DEF IInv

-----------------------------------------------------------------------------
(* A lock that every job waits for at most once has no more waiters than    *)
(* there are jobs.                                                          *)
LEMMA QueueIsShort == ASSUME Queued PROVE queue \in SeqOf(Jobs, Cardinality(Jobs))
<1>1. Len(queue) \in Nat /\ queue \in [1..Len(queue) -> Jobs]
  BY LenProperties DEF Queued
<1>2. queue \in Injection(1..Len(queue), Jobs)
  BY <1>1 DEF Queued, Injection, IsInjective
<1>3. Cardinality(1..Len(queue)) <= Cardinality(Jobs)
  BY <1>2, CollectAssumption, FS_Injection
<1>4. Cardinality(1..Len(queue)) = Len(queue)
  BY <1>1, FS_Interval, SMTT(40)
<1>5. Cardinality(Jobs) \in Nat
  BY CollectAssumption, FS_CardinalityType
<1>6. Len(queue) \in 0..Cardinality(Jobs)
  BY <1>1, <1>3, <1>4, <1>5
<1>7. QED
  BY <1>1, <1>6 DEF SeqOf

LEMMA IInvSays == ASSUME IInv PROVE WritesAlone
<1>1. TypeOK
  <2>1. Timetable!TypeOK
    BY Assumed, Timetable!IInvSays DEF IInv
  <2>2. Scheduler!TypeOK
    BY <2>1 DEF Scheduler!TypeOK, Timetable!TypeOK
  <2>3. QED
    BY <2>2, QueueIsShort DEF IInv, Stages, Queued, TypeOK
<1>2. ASSUME stage \in {"opened", "syncing", "synced", "closed"} PROVE writing = {} /\ queue = <<>>
  <2>1. queue \in Seq(Jobs)
    BY DEF IInv, Queued
  <2>2. ASSUME queue # <<>> PROVE FALSE
    <3>1. Len(queue) \in Nat \ {0}
      BY <2>1, <2>2, EmptySeq
    <3>2. 1 \in 1..Len(queue)
      BY <3>1
    <3>3. queue[1] \in Jobs
      BY <2>1, <3>2, ElementOfSeq
    <3>4. Calling(queue[1])
      BY <3>2, <3>3 DEF IInv, Queued
    <3>5. QED
      BY <1>2, <3>3, <3>4 DEF IInv, Stages
  <2>3. writing = {}
    BY <2>2, EmptySeq DEF IInv, Queued
  <2>4. QED
    BY <2>2, <2>3
<1>3. OneWriter
  <2>1. CASE writing = {}
    BY <2>1, FS_EmptySet DEF OneWriter
  <2>2. CASE writing # {}
    <3>1. writing = {queue[1]}
      BY <2>2 DEF IInv, Queued
    <3>2. Cardinality(writing) = 1
      BY <3>1, FS_Singleton
    <3>3. QED
      BY <1>2, <2>2, <3>2 DEF OneWriter
  <2>3. QED
    BY <2>1, <2>2
<1>4. ClosedOnlyWhenQuiet
  BY <1>2 DEF ClosedOnlyWhenQuiet
<1>5. QED
  BY <1>1, <1>3, <1>4 DEF WritesAlone

(* BUG-053: what writes the database writes it alone, the full sync that    *)
(* takes no lock included, and the database is closed only when no job is   *)
(* inside a write; for any number of jobs.                                  *)
THEOREM DatabaseIsWrittenAlone == Spec => []WritesAlone
<1>1. Init => IInv
  BY InitIInv
<1>2. IInv /\ [Next]_vars => IInv'
  BY NextIInv
<1>3. IInv => WritesAlone
  BY IInvSays
<1>4. QED
  BY <1>1, <1>2, <1>3, PTL DEF Spec

(* kalshi data collect implements the scheduler it uses: whatever _collect  *)
(* and the lock do in between, its steps are steps of the scheduler's       *)
(* module or leave it alone, so its jobs keep the timetable.                *)
THEOREM CollectorKeepsTimetable == Spec => Timetable!Spec /\ Timetable!TimetableKept
<1>1. Init => Timetable!Init
  BY InitOfScheduler
<1>2. [Next]_vars => [Timetable!Next]_(Timetable!vars)
  BY StepOfScheduler
<1>3. Spec => Timetable!Spec
  BY <1>1, <1>2, PTL DEF Spec, Timetable!Spec
<1>4. Timetable!Spec => Timetable!TimetableKept
  BY Assumed, Timetable!TimetableIsKept
<1>5. QED
  BY <1>3, <1>4

-----------------------------------------------------------------------------
(* The library's induction theorems take an operator; these take a set.     *)
LEMMA LeastNatural == ASSUME NEW S \in SUBSET Nat, S # {} PROVE \E n \in S : \A m \in S : n <= m
<1> DEFINE R == OpToRel(<, Nat)
<1>1. IsWellFoundedOn(R, Nat)
  BY NatLessThanWellFounded
<1>2. \A x, y \in Nat : x < y => <<x, y>> \in R
  BY DEF OpToRel
<1> HIDE DEF R
<1>3. PICK x \in S : \A y \in S : ~(<<y, x>> \in R)
  BY <1>1, WFMin
<1>4. \A m \in S : ~(m < x)
  BY <1>2, <1>3
<1>5. \A m \in S : x <= m
  BY <1>4
<1>6. QED
  BY <1>5

LEMMA NaturalInduction == ASSUME NEW S \in SUBSET Nat, 0 \in S, \A n \in S : n + 1 \in S PROVE S = Nat
<1> SUFFICES ASSUME Nat \ S # {} PROVE FALSE
  OBVIOUS
<1>1. PICK n \in Nat \ S : \A m \in Nat \ S : n <= m
  BY LeastNatural
<1>2. n # 0 /\ n - 1 \in Nat /\ n - 1 < n
  OBVIOUS
<1>3. n - 1 \in S
  BY <1>1, <1>2
<1>4. (n - 1) + 1 = n
  OBVIOUS
<1>5. QED
  BY <1>3, <1>4, <1>1

LEMMA SetInduction ==
    ASSUME NEW S, IsFiniteSet(S), NEW Good \in SUBSET SUBSET S, {} \in Good,
           \A t \in Good : \A x \in S \ t : t \cup {x} \in Good
    PROVE  S \in Good
<1> DEFINE N == {n \in Nat : \A s \in SUBSET S : Cardinality(s) = n => s \in Good}
<1>1. 0 \in N
  <2> SUFFICES ASSUME NEW s \in SUBSET S, Cardinality(s) = 0 PROVE s \in Good
    OBVIOUS
  <2>1. IsFiniteSet(s)
    BY FS_Subset
  <2> QED
    BY <2>1, FS_EmptySet
<1>2. ASSUME NEW n \in N PROVE n + 1 \in N
  <2> SUFFICES ASSUME NEW s \in SUBSET S, Cardinality(s) = n + 1 PROVE s \in Good
    OBVIOUS
  <2>1. IsFiniteSet(s)
    BY FS_Subset
  <2>2. s # {}
    BY <2>1, FS_EmptySet
  <2>3. PICK x \in s : TRUE
    BY <2>2
  <2>4. Cardinality(s \ {x}) = n
    <3>1. Cardinality(s \ {x}) = Cardinality(s) - 1
      BY <2>1, FS_RemoveElement
    <3> QED
      BY <3>1
  <2>5. s \ {x} \in SUBSET S /\ x \in S \ (s \ {x}) /\ (s \ {x}) \cup {x} = s
    OBVIOUS
  <2>6. s \ {x} \in Good
    BY <2>4, <2>5
  <2> QED
    BY <2>5, <2>6
<1>n. N \in SUBSET Nat
  OBVIOUS
<1> HIDE DEF N
<1>3. N = Nat
  BY <1>1, <1>2, <1>n, NaturalInduction
<1>4. Cardinality(S) \in Nat
  BY FS_CardinalityType
<1> QED
  BY <1>3, <1>4 DEF N

Solves(g, S, base, F, c) ==
  g = [s \in SUBSET S |-> IF s = {} THEN base ELSE F[<<c[s], g[s \ {c[s]}]>>]]

LEMMA FoldExists ==
    ASSUME NEW S, IsFiniteSet(S), NEW T, NEW base \in T, NEW F \in [S \X T -> T],
           NEW c, \A s \in SUBSET S : s # {} => c[s] \in s
    PROVE  \E g \in [SUBSET S -> T] : Solves(g, S, base, F, c)
<1> DEFINE Sub(n) == {s \in SUBSET S : Cardinality(s) <= n}
           Eq(g, n) == g = [s \in Sub(n) |-> IF s = {} THEN base ELSE F[<<c[s], g[s \ {c[s]}]>>]]
           N == {n \in Nat : \E g \in [Sub(n) -> T] : Eq(g, n)}
<1>0. \A s \in SUBSET S : IsFiniteSet(s) /\ Cardinality(s) \in Nat
  BY FS_Subset, FS_CardinalityType
<1>1. 0 \in N
  <2>1. \A s \in Sub(0) : s = {}
    <3> SUFFICES ASSUME NEW s \in SUBSET S, Cardinality(s) <= 0 PROVE s = {}
      OBVIOUS
    <3> QED
      BY <1>0, FS_EmptySet
  <2> DEFINE g == [s \in Sub(0) |-> base]
  <2>2. g \in [Sub(0) -> T] /\ Eq(g, 0)
    BY <2>1
  <2> QED
    BY <2>2
<1>2. ASSUME NEW n \in N PROVE n + 1 \in N
  <2>1. PICK g \in [Sub(n) -> T] : Eq(g, n)
    OBVIOUS
  <2> DEFINE h == [s \in Sub(n + 1) |-> IF s = {} THEN base ELSE F[<<c[s], g[s \ {c[s]}]>>]]
  <2>2. \A s \in Sub(n + 1) : s # {} => c[s] \in s /\ c[s] \in S /\ s \ {c[s]} \in Sub(n)
    <3> SUFFICES ASSUME NEW s \in SUBSET S, Cardinality(s) <= n + 1, s # {}
                 PROVE  c[s] \in s /\ s \ {c[s]} \in SUBSET S /\ Cardinality(s \ {c[s]}) <= n
      OBVIOUS
    <3>1. c[s] \in s
      OBVIOUS
    <3>2. Cardinality(s \ {c[s]}) = Cardinality(s) - 1
      BY <3>1, <1>0, FS_RemoveElement
    <3> QED
      BY <3>1, <3>2, <1>0
  <2>3. \A s \in Sub(n) : s \in Sub(n + 1)
    BY <1>0
  <2>4. h \in [Sub(n + 1) -> T]
    BY <2>2
  <2>5. \A s \in Sub(n) : h[s] = g[s]
    BY <2>1, <2>3
  <2>6. Eq(h, n + 1)
    <3> SUFFICES ASSUME NEW s \in Sub(n + 1), s # {}
                 PROVE  h[s] = F[<<c[s], h[s \ {c[s]}]>>]
      BY <2>4
    <3> HIDE DEF Sub
    <3> QED
      BY <2>2, <2>5
  <2>7. n + 1 \in Nat
    OBVIOUS
  <2> HIDE DEF h, Sub, Eq
  <2>8. \E x \in [Sub(n + 1) -> T] : Eq(x, n + 1)
    BY <2>4, <2>6
  <2> QED
    BY <2>7, <2>8
<1>n. N \in SUBSET Nat
  OBVIOUS
<1> HIDE DEF N
<1>3. N = Nat
  BY <1>1, <1>2, <1>n, NaturalInduction
<1>4. PICK g \in [Sub(Cardinality(S)) -> T] : Eq(g, Cardinality(S))
  BY <1>0, <1>3 DEF N
<1>5. Sub(Cardinality(S)) = SUBSET S
  BY <1>0, FS_Subset
<1> HIDE DEF Sub
<1> QED
  BY <1>4, <1>5, ZenonT(60) DEF Solves

LEMMA SequenceInduction ==
    ASSUME NEW S, NEW Good \in SUBSET Seq(S), <<>> \in Good,
           \A s \in Good : \A e \in S : Append(s, e) \in Good
    PROVE  \A s \in Seq(S) : s \in Good
<1> DEFINE N == {n \in Nat : \A s \in Seq(S) : Len(s) = n => s \in Good}
<1>1. 0 \in N
  <2> SUFFICES ASSUME NEW s \in Seq(S), Len(s) = 0 PROVE s \in Good
    OBVIOUS
  <2>1. s = <<>>
    BY EmptySeq
  <2> QED
    BY <2>1
<1>2. ASSUME NEW n \in N PROVE n + 1 \in N
  <2> SUFFICES ASSUME NEW s \in Seq(S), Len(s) = n + 1 PROVE s \in Good
    OBVIOUS
  <2>1. n \in Nat
    OBVIOUS
  <2> DEFINE front == [i \in 1..n |-> s[i]]
  <2>2. s[n + 1] \in S /\ front \in Seq(S) /\ Len(front) = n /\ Append(front, s[n + 1]) = s
    BY <2>1
  <2>3. front \in Good
    BY <2>2
  <2> QED
    BY <2>2, <2>3
<1>3. N \in SUBSET Nat
  OBVIOUS
<1> HIDE DEF N
<1>4. N = Nat
  BY <1>1, <1>2, <1>3, NaturalInduction
<1>5. \A s \in Seq(S) : Len(s) \in Nat
  OBVIOUS
<1> QED
  BY <1>4, <1>5 DEF N

-----------------------------------------------------------------------------
(* Sums over a set: SumFunctionOnSet is defined, adds up, and is monotonic. *)
SumStep(fun, s, g) ==
    IF s = {} THEN 0 ELSE fun[CHOOSE x \in s : TRUE] + g[s \ {CHOOSE x \in s : TRUE}]

SumIter(fun, S) == CHOOSE g : g = [s \in SUBSET S |-> SumStep(fun, s, g)]

LEMMA SumUnfolds ==
    ASSUME NEW fun, NEW S
    PROVE  SumFunctionOnSet(fun, S) = SumIter(fun, S)[S]
  BY DEF SumFunctionOnSet, FoldFunctionOnSet, MapThenFoldSet, SumIter, SumStep

LEMMA SumIterDefined ==
    ASSUME NEW S, IsFiniteSet(S), NEW fun, \A x \in S : fun[x] \in Int
    PROVE  SumIter(fun, S) = [s \in SUBSET S |-> SumStep(fun, s, SumIter(fun, S))]
<1> DEFINE c == [s \in SUBSET S |-> CHOOSE x \in s : TRUE]
           F == [p \in S \X Int |-> fun[p[1]] + p[2]]
<1>1. \A s \in SUBSET S : s # {} => c[s] \in s
  OBVIOUS
<1>2. F \in [S \X Int -> Int] /\ \A x \in S, n \in Int : F[<<x, n>>] = fun[x] + n
  OBVIOUS
<1>3. \A s \in SUBSET S : c[s] = CHOOSE x \in s : TRUE
  OBVIOUS
<1>i. 0 \in Int
  OBVIOUS
<1> HIDE DEF c, F
<1>4. PICK g \in [SUBSET S -> Int] : Solves(g, S, 0, F, c)
  BY <1>1, <1>2, <1>i, FoldExists
<1>5. g = [s \in SUBSET S |-> SumStep(fun, s, g)]
  <2> SUFFICES ASSUME NEW s \in SUBSET S PROVE g[s] = SumStep(fun, s, g)
    OBVIOUS
  <2>1. CASE s = {}
    BY <1>4, <2>1 DEF Solves, SumStep
  <2>2. CASE s # {}
    <3>1. c[s] \in S /\ s \ {c[s]} \in SUBSET S
      BY <1>1, <2>2
    <3>2. g[s] = F[<<c[s], g[s \ {c[s]}]>>]
      BY <1>4, <2>2 DEF Solves
    <3>3. g[s] = fun[c[s]] + g[s \ {c[s]}]
      BY <3>1, <3>2, <1>2
    <3> QED
      BY <3>3, <2>2, <1>3 DEF SumStep
  <2> QED
    BY <2>1, <2>2
<1> QED
  BY <1>5 DEF SumIter

(* Whoever satisfies the defining equation on the subsets of a set agrees   *)
(* with the sum on each of them.                                            *)
LEMMA SumOfSubset ==
    ASSUME NEW S, IsFiniteSet(S), NEW fun, \A x \in S : fun[x] \in Int,
           NEW s \in SUBSET S
    PROVE  SumIter(fun, S)[s] = SumFunctionOnSet(fun, s)
<1>0. \A t \in SUBSET S : IsFiniteSet(t) /\ Cardinality(t) \in Nat
  BY FS_Subset, FS_CardinalityType
<1>1. /\ \A u \in SUBSET s : SumIter(fun, s)[u] = SumStep(fun, u, SumIter(fun, s))
      /\ \A u \in SUBSET S : SumIter(fun, S)[u] = SumStep(fun, u, SumIter(fun, S))
  <2>1. \A t \in SUBSET S : SumIter(fun, t) = [u \in SUBSET t |-> SumStep(fun, u, SumIter(fun, t))]
    BY <1>0, SumIterDefined
  <2>2. SumIter(fun, s) = [u \in SUBSET s |-> SumStep(fun, u, SumIter(fun, s))]
    BY <2>1
  <2>3. SumIter(fun, S) = [u \in SUBSET S |-> SumStep(fun, u, SumIter(fun, S))]
    BY <2>1
  <2> QED
    BY <2>2, <2>3
<1> DEFINE N == {n \in Nat : \A u \in SUBSET s : Cardinality(u) = n => SumIter(fun, s)[u] = SumIter(fun, S)[u]}
<1>2. 0 \in N
  <2> SUFFICES ASSUME NEW u \in SUBSET s, Cardinality(u) = 0
               PROVE  SumIter(fun, s)[u] = SumIter(fun, S)[u]
    OBVIOUS
  <2>1. u = {}
    BY <1>0, FS_EmptySet
  <2> QED
    BY <1>1, <2>1 DEF SumStep
<1>3. ASSUME NEW n \in N PROVE n + 1 \in N
  <2> SUFFICES ASSUME NEW u \in SUBSET s, Cardinality(u) = n + 1
               PROVE  SumIter(fun, s)[u] = SumIter(fun, S)[u]
    OBVIOUS
  <2>1. u # {}
    <3> SUFFICES ASSUME u = {} PROVE FALSE
      OBVIOUS
    <3>1. n \in Nat /\ Cardinality({}) = 0
      BY FS_EmptySet
    <3> QED
      BY <3>1
  <2>2. PICK x \in u : x = CHOOSE y \in u : TRUE
    BY <2>1
  <2>3. Cardinality(u \ {x}) = Cardinality(u) - 1
    BY <1>0, FS_RemoveElement
  <2>4. u \ {x} \in SUBSET s /\ Cardinality(u \ {x}) = n
    BY <2>3
  <2>5. SumIter(fun, s)[u \ {x}] = SumIter(fun, S)[u \ {x}]
    BY <2>4
  <2>6. SumIter(fun, s)[u] = fun[x] + SumIter(fun, s)[u \ {x}]
    BY <1>1, <2>1, <2>2 DEF SumStep
  <2>7. SumIter(fun, S)[u] = fun[x] + SumIter(fun, S)[u \ {x}]
    BY <1>1, <2>1, <2>2, ZenonT(60) DEF SumStep
  <2> QED
    BY <2>5, <2>6, <2>7
<1>4. N \in SUBSET Nat
  OBVIOUS
<1> HIDE DEF N
<1>5. N = Nat
  BY <1>2, <1>3, <1>4, NaturalInduction
<1>6. SumIter(fun, s)[s] = SumIter(fun, S)[s]
  BY <1>0, <1>5 DEF N
<1> QED
  BY <1>6, SumUnfolds

LEMMA SumEmpty == ASSUME NEW fun PROVE SumFunctionOnSet(fun, {}) = 0
<1>1. SumIter(fun, {}) = [s \in SUBSET {} |-> SumStep(fun, s, SumIter(fun, {}))]
  BY SumIterDefined, FS_EmptySet
<1> QED
  BY <1>1, SumUnfolds DEF SumStep

(* The sum without the element the definition chooses.                      *)
LEMMA SumChosen ==
    ASSUME NEW S, IsFiniteSet(S), S # {}, NEW fun, \A x \in S : fun[x] \in Int
    PROVE  \E x \in S : SumFunctionOnSet(fun, S) = fun[x] + SumFunctionOnSet(fun, S \ {x})
<1>1. PICK x \in S : x = CHOOSE y \in S : TRUE
  OBVIOUS
<1>2. SumIter(fun, S) = [s \in SUBSET S |-> SumStep(fun, s, SumIter(fun, S))]
  BY SumIterDefined
<1>3. SumIter(fun, S)[S] = fun[x] + SumIter(fun, S)[S \ {x}]
  BY <1>1, <1>2 DEF SumStep
<1>4. SumIter(fun, S)[S \ {x}] = SumFunctionOnSet(fun, S \ {x})
  BY SumOfSubset
<1> QED
  BY <1>3, <1>4, SumUnfolds

LEMMA SumInt ==
    ASSUME NEW S, IsFiniteSet(S), NEW fun, \A x \in S : fun[x] \in Int
    PROVE  SumFunctionOnSet(fun, S) \in Int
<1> DEFINE N == {n \in Nat : \A u \in SUBSET S : Cardinality(u) = n => SumFunctionOnSet(fun, u) \in Int}
<1>0. \A t \in SUBSET S : IsFiniteSet(t) /\ Cardinality(t) \in Nat
  BY FS_Subset, FS_CardinalityType
<1>1. 0 \in N
  <2> SUFFICES ASSUME NEW u \in SUBSET S, Cardinality(u) = 0 PROVE SumFunctionOnSet(fun, u) \in Int
    OBVIOUS
  <2>1. u = {}
    BY <1>0, FS_EmptySet
  <2> QED
    BY <2>1, SumEmpty
<1>2. ASSUME NEW n \in N PROVE n + 1 \in N
  <2> SUFFICES ASSUME NEW u \in SUBSET S, Cardinality(u) = n + 1 PROVE SumFunctionOnSet(fun, u) \in Int
    OBVIOUS
  <2>1. u # {}
    <3> SUFFICES ASSUME u = {} PROVE FALSE
      OBVIOUS
    <3>1. n \in Nat /\ Cardinality({}) = 0
      BY FS_EmptySet
    <3> QED
      BY <3>1
  <2>2. PICK x \in u : SumFunctionOnSet(fun, u) = fun[x] + SumFunctionOnSet(fun, u \ {x})
    BY <1>0, <2>1, SumChosen
  <2>3. Cardinality(u \ {x}) = Cardinality(u) - 1
    BY <1>0, FS_RemoveElement
  <2>4. u \ {x} \in SUBSET S /\ Cardinality(u \ {x}) = n
    BY <2>3
  <2>5. SumFunctionOnSet(fun, u \ {x}) \in Int
    BY <2>4
  <2> QED
    BY <2>2, <2>5
<1>4. N \in SUBSET Nat
  OBVIOUS
<1> HIDE DEF N
<1>5. N = Nat
  BY <1>1, <1>2, <1>4, NaturalInduction
<1> QED
  BY <1>0, <1>5 DEF N

(* ... and without any other one.                                           *)
LEMMA SumWithout ==
    ASSUME NEW S, IsFiniteSet(S), NEW fun, \A x \in S : fun[x] \in Int, NEW z \in S
    PROVE  SumFunctionOnSet(fun, S) = fun[z] + SumFunctionOnSet(fun, S \ {z})
<1> DEFINE Sum(u) == SumFunctionOnSet(fun, u)
           N == {n \in Nat : \A u \in SUBSET S : Cardinality(u) = n =>
                                \A y \in u : Sum(u) = fun[y] + Sum(u \ {y})}
<1>0. \A t \in SUBSET S : IsFiniteSet(t) /\ Cardinality(t) \in Nat
  BY FS_Subset, FS_CardinalityType
<1>n. \A t \in SUBSET S : Sum(t) \in Int
  BY <1>0, SumInt
<1>1. 0 \in N
  BY <1>0, FS_EmptySet
<1>2. ASSUME NEW n \in N PROVE n + 1 \in N
  <2> SUFFICES ASSUME NEW u \in SUBSET S, Cardinality(u) = n + 1, NEW y \in u
               PROVE  Sum(u) = fun[y] + Sum(u \ {y})
    OBVIOUS
  <2>2. PICK x \in u : Sum(u) = fun[x] + Sum(u \ {x})
    BY <1>0, SumChosen
  <2>3. CASE x = y
    BY <2>2, <2>3
  <2>4. CASE x # y
    <3>1. Cardinality(u \ {x}) = Cardinality(u) - 1 /\ Cardinality(u \ {y}) = Cardinality(u) - 1
      BY <1>0, FS_RemoveElement
    <3>2. Cardinality(u \ {x}) = n /\ Cardinality(u \ {y}) = n
      BY <3>1
    <3>3. Sum(u \ {x}) = fun[y] + Sum((u \ {x}) \ {y})
      BY <3>2, <2>4
    <3>4. Sum(u \ {y}) = fun[x] + Sum((u \ {y}) \ {x})
      BY <3>2, <2>4
    <3>5. (u \ {x}) \ {y} = (u \ {y}) \ {x}
      OBVIOUS
    <3>6. Sum((u \ {x}) \ {y}) \in Int /\ fun[x] \in Int /\ fun[y] \in Int
      BY <1>n
    <3> DEFINE r == Sum((u \ {x}) \ {y})
    <3>7. Sum(u) = fun[x] + (fun[y] + r) /\ Sum(u \ {y}) = fun[x] + r /\ r \in Int
      BY <2>2, <3>3, <3>4, <3>5, <3>6
    <3>8. fun[x] \in Int /\ fun[y] \in Int
      BY <3>6
    <3> HIDE DEF r, Sum
    <3> QED
      BY <3>7, <3>8
  <2> QED
    BY <2>3, <2>4
<1>4. N \in SUBSET Nat
  OBVIOUS
<1> HIDE DEF N
<1>5. N = Nat
  BY <1>1, <1>2, <1>4, NaturalInduction
<1> QED
  BY <1>0, <1>5 DEF N

LEMMA SumAdd ==
    ASSUME NEW S, IsFiniteSet(S), NEW f, NEW x, x \notin S, \A y \in S \cup {x} : f[y] \in Int
    PROVE  SumFunctionOnSet(f, S \cup {x}) = f[x] + SumFunctionOnSet(f, S)
<1>1. IsFiniteSet(S \cup {x}) /\ (S \cup {x}) \ {x} = S /\ x \in S \cup {x}
  BY FS_AddElement
<1> QED
  BY <1>1, SumWithout

LEMMA SumUnion ==
    ASSUME NEW S, IsFiniteSet(S), NEW R, IsFiniteSet(R), S \cap R = {},
           NEW f, \A x \in S \cup R : f[x] \in Int
    PROVE  SumFunctionOnSet(f, S \cup R) = SumFunctionOnSet(f, S) + SumFunctionOnSet(f, R)
<1> DEFINE Sum(u) == SumFunctionOnSet(f, u)
           Good == {u \in SUBSET R : Sum(S \cup u) = Sum(S) + Sum(u)}
<1>0. \A u \in SUBSET R : IsFiniteSet(u) /\ IsFiniteSet(S \cup u)
  BY FS_Subset, FS_Union
<1>1. {} \in Good
  <2>1. Sum(S) \in Int /\ Sum({}) = 0 /\ S \cup {} = S
    BY SumInt, SumEmpty
  <2> QED
    BY <2>1
<1>2. ASSUME NEW u \in Good, NEW x \in R \ u
      PROVE  u \cup {x} \in Good
  <2>1. Sum(u \cup {x}) = f[x] + Sum(u)
    BY <1>0, SumAdd
  <2>2. Sum((S \cup u) \cup {x}) = f[x] + Sum(S \cup u)
    BY <1>0, SumAdd
  <2>3. Sum(S) \in Int /\ Sum(u) \in Int /\ f[x] \in Int
    BY <1>0, SumInt
  <2>4. (S \cup u) \cup {x} = S \cup (u \cup {x})
    OBVIOUS
  <2>5. Sum(S \cup u) = Sum(S) + Sum(u) /\ u \cup {x} \in SUBSET R
    OBVIOUS
  <2>6. Sum(S \cup (u \cup {x})) = Sum(S) + Sum(u \cup {x})
    <3> DEFINE A == Sum(S)  B == Sum(u)  C == Sum(S \cup u)
    <3>1. Sum(S \cup (u \cup {x})) = f[x] + C /\ Sum(u \cup {x}) = f[x] + B /\ C = A + B
      BY <2>1, <2>2, <2>4, <2>5
    <3>2. A \in Int /\ B \in Int /\ f[x] \in Int
      BY <2>3
    <3> HIDE DEF A, B, C, Sum
    <3>3. f[x] + (A + B) = A + (f[x] + B)
      BY <3>2
    <3>4. Sum(S \cup (u \cup {x})) = A + Sum(u \cup {x})
      BY <3>1, <3>3
    <3> QED
      BY <3>4 DEF A
  <2> QED
    BY <2>5, <2>6
<1>3. Good \in SUBSET SUBSET R
  OBVIOUS
<1> HIDE DEF Good
<1>4. R \in Good
  BY <1>1, <1>2, <1>3, SetInduction
<1> QED
  BY <1>4 DEF Good

LEMMA SumNat ==
    ASSUME NEW S, IsFiniteSet(S), NEW f, \A x \in S : f[x] \in Nat
    PROVE  SumFunctionOnSet(f, S) \in Nat
<1> DEFINE Good == {u \in SUBSET S : SumFunctionOnSet(f, u) \in Nat}
<1>1. {} \in Good
  BY SumEmpty
<1>2. ASSUME NEW u \in Good, NEW x \in S \ u
      PROVE  u \cup {x} \in Good
  <2>1. SumFunctionOnSet(f, u \cup {x}) = f[x] + SumFunctionOnSet(f, u)
    <3>1. IsFiniteSet(u) /\ \A y \in u \cup {x} : f[y] \in Int
      BY FS_Subset
    <3> QED
      BY <3>1, SumAdd
  <2> QED
    BY <2>1
<1>3. Good \in SUBSET SUBSET S
  OBVIOUS
<1> HIDE DEF Good
<1>4. S \in Good
  BY <1>1, <1>2, <1>3, SetInduction
<1> QED
  BY <1>4 DEF Good

-----------------------------------------------------------------------------
(* Folding a sequence from the left, with the operator as a function: the   *)
(* value after each element.                                                *)
Reducers(S, T) == [T \X S -> T]

History(h, op, base, seq, T) ==
    /\ h \in [0..Len(seq) -> T] /\ h[0] = base
    /\ \A i \in 1..Len(seq) : h[i] = op[<<h[i - 1], seq[i]>>]

LEMMA HistoryExists ==
    ASSUME NEW S, NEW T, NEW op \in Reducers(S, T), NEW base \in T
    PROVE  \A seq \in Seq(S) : \E h : History(h, op, base, seq, T)
<1> DEFINE Good == {s \in Seq(S) : \E h : History(h, op, base, s, T)}
<1>1. <<>> \in Good
  <2>1. History([i \in 0..0 |-> base], op, base, <<>>, T)
    BY DEF History
  <2>2. QED
    BY <2>1
<1>2. ASSUME NEW s \in Good, NEW e \in S
      PROVE  Append(s, e) \in Good
  <2>1. PICK h : History(h, op, base, s, T)
    OBVIOUS
  <2>2. s \in Seq(S) /\ Len(s) \in Nat
    OBVIOUS
  <2> DEFINE n == Len(s)
             g == [i \in 0..(n + 1) |-> IF i = n + 1 THEN op[<<h[n], e>>] ELSE h[i]]
  <2>3. Append(s, e) \in Seq(S) /\ Len(Append(s, e)) = n + 1
        /\ \A i \in 1..n : Append(s, e)[i] = s[i]
        /\ Append(s, e)[n + 1] = e
    BY <2>2
  <2>4. h[n] \in T
    BY <2>1, <2>2 DEF History
  <2>5. g \in [0..(n + 1) -> T]
    BY <2>1, <2>2, <2>4 DEF History, Reducers
  <2>6. g[0] = base
    BY <2>1, <2>2 DEF History
  <2>7. ASSUME NEW i \in 1..(n + 1)
        PROVE  g[i] = op[<<g[i - 1], Append(s, e)[i]>>]
    <3>1. CASE i = n + 1
      <4>1. i - 1 = n /\ n \in 0..(n + 1) /\ n # n + 1 /\ n + 1 \in 0..(n + 1)
        BY <2>2, <3>1
      <4>2. g[n + 1] = op[<<h[n], e>>] /\ g[n] = h[n]
        BY <4>1
      <4>3. g[i] = op[<<h[n], e>>] /\ g[i - 1] = h[n] /\ Append(s, e)[i] = e
        <5>1. Append(s, e)[n + 1] = e
          BY <2>3
        <5> HIDE DEF g, n, Good
        <5>2. QED
          BY <3>1, <4>1, <4>2, <5>1, Zenon
      <4> HIDE DEF g, n, Good
      <4>4. QED
        BY <4>3, Zenon
    <3>2. CASE i # n + 1
      <4>1. i \in 1..n /\ i - 1 \in 0..n /\ i - 1 # n + 1
        BY <2>2, <3>2
      <4>2. g[i] = h[i] /\ g[i - 1] = h[i - 1]
        BY <2>2, <4>1
      <4>3. h[i] = op[<<h[i - 1], s[i]>>]
        BY <2>1, <4>1 DEF History
      <4>4. QED
        BY <2>3, <4>1, <4>2, <4>3
    <3>3. QED
      BY <3>1, <3>2
  <2> HIDE DEF g
  <2>8. History(g, op, base, Append(s, e), T)
    BY <2>3, <2>5, <2>6, <2>7 DEF History
  <2>9. QED
    BY <2>3, <2>8
<1>3. Good \in SUBSET Seq(S)
  OBVIOUS
<1> HIDE DEF Good
<1>4. \A seq \in Seq(S) : seq \in Good
  BY <1>1, <1>2, <1>3, SequenceInduction
<1>5. QED
  BY <1>4 DEF Good

Alike(f, s, g, u, T) == \A i \in 1..Len(s), v \in T : f[<<v, s[i]>>] = g[<<v, u[i]>>]

(* i comes before j.                                                        *)
Before(key, i, j) == key[i] < key[j] \/ (key[i] = key[j] /\ i < j)

LEMMA BeforeTotal ==
    ASSUME NEW key, NEW i \in Int, NEW j \in Int, key[i] \in Int, key[j] \in Int, i # j
    PROVE  /\ Before(key, i, j) \/ Before(key, j, i)
           /\ ~(Before(key, i, j) /\ Before(key, j, i))
  BY DEF Before

LEMMA BeforeTransitive ==
    ASSUME NEW key, NEW i \in Int, NEW j \in Int, NEW k \in Int,
           key[i] \in Int, key[j] \in Int, key[k] \in Int,
           Before(key, i, j), Before(key, j, k)
    PROVE  Before(key, i, k)
  BY DEF Before

(* Some index comes after all others.                                       *)
LEMMA LastExists ==
    ASSUME NEW S \in SUBSET Int, IsFiniteSet(S), NEW key, \A i \in S : key[i] \in Int, S # {}
    PROVE  \E x \in S : \A y \in S \ {x} : Before(key, y, x)
<1> DEFINE Good == {t \in SUBSET S : t # {} => \E x \in t : \A y \in t \ {x} : Before(key, y, x)}
<1>1. {} \in Good
  OBVIOUS
<1>2. ASSUME NEW t \in Good, NEW z \in S \ t
      PROVE  t \cup {z} \in Good
  <2>1. CASE t = {}
    <3>1. \A y \in (t \cup {z}) \ {z} : Before(key, y, z)
      BY <2>1
    <3>2. QED
      BY <3>1
  <2>2. CASE t # {}
    <3>1. PICK x \in t : \A y \in t \ {x} : Before(key, y, x)
      BY <2>2
    <3>2. x \in Int /\ z \in Int /\ x # z /\ key[x] \in Int /\ key[z] \in Int
      OBVIOUS
    <3>3. CASE Before(key, x, z)
      <4>1. ASSUME NEW y \in (t \cup {z}) \ {z} PROVE Before(key, y, z)
        <5>1. CASE y = x
          BY <3>3, <5>1
        <5>2. CASE y # x
          <6>1. Before(key, y, x) /\ y \in Int /\ key[y] \in Int
            BY <3>1, <5>2
          <6>2. QED
            BY <3>2, <3>3, <6>1, BeforeTransitive
        <5>3. QED
          BY <5>1, <5>2
      <4>2. QED
        BY <4>1
    <3>4. CASE Before(key, z, x)
      <4>1. \A y \in (t \cup {z}) \ {x} : Before(key, y, x)
        BY <3>1, <3>4
      <4>2. x \in t \cup {z} /\ t \cup {z} \in SUBSET S
        OBVIOUS
      <4>3. QED
        BY <4>1, <4>2
    <3>5. QED
      BY <3>2, <3>3, <3>4, BeforeTotal
  <2>3. QED
    BY <2>1, <2>2
<1>3. Good \in SUBSET SUBSET S
  OBVIOUS
<1> HIDE DEF Good
<1>4. S \in Good
  BY <1>1, <1>2, <1>3, SetInduction
<1>5. QED
  BY <1>4 DEF Good

(* Every finite set of indices can be put in order.                         *)
LEMMA OrderExists ==
    ASSUME NEW S \in SUBSET Int, IsFiniteSet(S), NEW key, \A i \in S : key[i] \in Int
    PROVE  \E order \in [1..Cardinality(S) -> S] : Ordered(order, key)
<1> DEFINE N == {n \in Nat : \A t \in SUBSET S : Cardinality(t) = n =>
                                \E order \in [1..n -> t] : Ordered(order, key)}
<1>0. \A t \in SUBSET S : IsFiniteSet(t) /\ Cardinality(t) \in Nat
  BY FS_Subset, FS_CardinalityType
<1>1. 0 \in N
  <2> SUFFICES ASSUME NEW t \in SUBSET S, Cardinality(t) = 0
               PROVE  \E order \in [1..0 -> t] : Ordered(order, key)
    OBVIOUS
  <2> DEFINE order == [p \in 1..0 |-> CHOOSE i \in t : TRUE]
  <2>1. DOMAIN order = {} /\ order \in [1..0 -> t]
    OBVIOUS
  <2> HIDE DEF order
  <2>2. Ordered(order, key)
    BY <2>1 DEF Ordered
  <2>3. QED
    BY <2>1, <2>2
<1>2. ASSUME NEW n \in N PROVE n + 1 \in N
  <2>0. n \in Nat
    OBVIOUS
  <2> SUFFICES ASSUME NEW t \in SUBSET S, Cardinality(t) = n + 1
               PROVE  \E order \in [1..(n + 1) -> t] : Ordered(order, key)
    OBVIOUS
  <2>1. t # {}
    <3>1. Cardinality({}) = 0
      BY FS_EmptySet
    <3>2. QED
      BY <2>0, <3>1
  <2>2. PICK x \in t : \A y \in t \ {x} : Before(key, y, x)
    BY <1>0, <2>1, LastExists
  <2>3. Cardinality(t \ {x}) = Cardinality(t) - 1
    BY <1>0, FS_RemoveElement
  <2>4. t \ {x} \in SUBSET S /\ Cardinality(t \ {x}) = n
    BY <2>0, <2>3
  <2>5. PICK o \in [1..n -> t \ {x}] : Ordered(o, key)
    BY <2>4
  <2> DEFINE order == [p \in 1..(n + 1) |-> IF p = n + 1 THEN x ELSE o[p]]
  <2>6. /\ order \in [1..(n + 1) -> t]
        /\ \A p \in 1..n : order[p] = o[p]
        /\ order[n + 1] = x
    BY <2>0
  <2> HIDE DEF order
  <2>7. ASSUME NEW p \in 1..(n + 1), NEW q \in 1..(n + 1), p < q
        PROVE  Before(key, order[p], order[q])
    <3>1. p \in 1..n
      BY <2>0, <2>7
    <3>2. CASE q = n + 1
      <4>1. order[q] = x /\ order[p] = o[p] /\ o[p] \in t \ {x}
        BY <2>6, <3>1, <3>2
      <4>2. QED
        BY <2>2, <4>1
    <3>3. CASE q # n + 1
      <4>1. q \in 1..n
        BY <2>0, <3>3
      <4>2. order[p] = o[p] /\ order[q] = o[q]
        BY <2>6, <3>1, <4>1
      <4>3. Before(key, o[p], o[q])
        BY <2>5, <2>7, <3>1, <4>1 DEF Ordered, Before
      <4>4. QED
        BY <4>2, <4>3
    <3>4. QED
      BY <3>2, <3>3
  <2>8. Ordered(order, key)
    <3>1. DOMAIN order = 1..(n + 1)
      BY <2>6
    <3>2. QED
      BY <2>7, <3>1 DEF Ordered, Before
  <2>9. QED
    BY <2>6, <2>8
<1>3. N \in SUBSET Nat
  OBVIOUS
<1> HIDE DEF N
<1>4. N = Nat
  BY <1>1, <1>2, <1>3, NaturalInduction
<1>5. QED
  BY <1>0, <1>4 DEF N

(* An order lists every index once.                                         *)
LEMMA OrderFacts ==
    ASSUME NEW S \in SUBSET Int, IsFiniteSet(S), NEW key, \A i \in S : key[i] \in Int
    PROVE  /\ Order(S, key) \in [1..Cardinality(S) -> S]
           /\ \A p, q \in 1..Cardinality(S) :
                 q < p <=> Before(key, Order(S, key)[q], Order(S, key)[p])
           /\ \A p, q \in 1..Cardinality(S) : Order(S, key)[p] = Order(S, key)[q] => p = q
           /\ \A i \in S : \E p \in 1..Cardinality(S) : Order(S, key)[p] = i
<1> DEFINE n == Cardinality(S)
           o == Order(S, key)
<1>0. n \in Nat
  BY FS_CardinalityType
<1>1. o \in [1..n -> S] /\ Ordered(o, key)
  BY OrderExists DEF Order
<1> HIDE DEF o
<1>2. \A p, q \in 1..n : q < p => Before(key, o[q], o[p])
  BY <1>1 DEF Ordered, Before
<1>3. \A p \in 1..n : o[p] \in Int /\ key[o[p]] \in Int
  BY <1>1
<1>4. \A i \in Int : key[i] \in Int => ~Before(key, i, i)
  BY DEF Before
<1>5. \A p, q \in 1..n : o[p] = o[q] => p = q
  <2> SUFFICES ASSUME NEW p \in 1..n, NEW q \in 1..n, o[p] = o[q], p # q
               PROVE  FALSE
    OBVIOUS
  <2>1. p < q \/ q < p
    BY <1>0
  <2>2. QED
    BY <1>2, <1>3, <1>4, <2>1
<1>6. \A p, q \in 1..n : Before(key, o[q], o[p]) => q < p
  <2> SUFFICES ASSUME NEW p \in 1..n, NEW q \in 1..n, Before(key, o[q], o[p]), ~(q < p)
               PROVE  FALSE
    OBVIOUS
  <2>1. p = q \/ p < q
    BY <1>0
  <2>2. CASE p = q
    BY <1>3, <1>4, <2>2
  <2>3. CASE p < q
    <3>1. Before(key, o[p], o[q]) /\ o[p] # o[q]
      BY <1>0, <1>2, <1>5, <2>3
    <3>2. QED
      BY <1>3, <3>1, BeforeTotal
  <2>4. QED
    BY <2>1, <2>2, <2>3
<1>7. \A i \in S : \E p \in 1..n : o[p] = i
  <2>1. o \in Injection(1..n, S)
    BY <1>1, <1>5 DEF Injection, IsInjective
  <2>2. Cardinality(1..n) = n
    BY <1>0, FS_Interval
  <2>3. o \in Surjection(1..n, S)
    BY <2>1, <2>2, FS_Injection
  <2>4. QED
    BY <2>3 DEF Surjection
<1>8. QED
  BY <1>1, <1>2, <1>5, <1>6, <1>7 DEF o

Levels == [price : Int, qty : Nat]

(* The asks a buyer meets, cheapest first, and where each was listed.       *)
Asks(bids) == Cheapest(Inverted(bids))

AskPrices(bids) == [i \in DOMAIN Inverted(bids) |-> Inverted(bids)[i].price]

AskOrder(bids) == Order(DOMAIN bids, AskPrices(bids))

CheaperThan(bids, i) ==
    {j \in DOMAIN bids :
        \/ bids[j].price > bids[i].price
        \/ bids[j].price = bids[i].price /\ j < i}

LEMMA InvertedFacts ==
    ASSUME NEW bids \in Seq(Levels)
    PROVE  /\ DOMAIN bids = 1..Len(bids) /\ Len(bids) \in Nat
           /\ DOMAIN Inverted(bids) = 1..Len(bids)
           /\ DOMAIN AskPrices(bids) = 1..Len(bids)
           /\ \A i \in 1..Len(bids) :
                 /\ bids[i].price \in Int /\ bids[i].qty \in Nat
                 /\ Inverted(bids)[i] = Level(100 - bids[i].price, bids[i].qty)
                 /\ AskPrices(bids)[i] = 100 - bids[i].price
<1>1. DOMAIN bids = 1..Len(bids) /\ Len(bids) \in Nat
  OBVIOUS
<1>2. \A i \in 1..Len(bids) : bids[i] \in Levels
  OBVIOUS
<1>3. \A i \in 1..Len(bids) : bids[i].price \in Int /\ bids[i].qty \in Nat
  BY <1>2 DEF Levels
<1>4. DOMAIN Inverted(bids) = 1..Len(bids)
      /\ \A i \in 1..Len(bids) : Inverted(bids)[i] = Level(100 - bids[i].price, bids[i].qty)
  BY <1>1 DEF Inverted
<1>5. \A i \in 1..Len(bids) : Inverted(bids)[i].price = 100 - bids[i].price
  BY <1>4 DEF Level
<1>6. DOMAIN AskPrices(bids) = 1..Len(bids)
      /\ \A i \in 1..Len(bids) : AskPrices(bids)[i] = 100 - bids[i].price
  BY <1>4, <1>5 DEF AskPrices
<1>7. QED
  BY <1>1, <1>3, <1>4, <1>6

LEMMA AskOrderFacts ==
    ASSUME NEW bids \in Seq(Levels)
    PROVE  LET o == AskOrder(bids)
               n == Len(bids)
           IN  /\ o \in [1..n -> 1..n]
               /\ \A p, q \in 1..n : q < p <=> o[q] \in CheaperThan(bids, o[p])
               /\ \A p, q \in 1..n : o[p] = o[q] => p = q
               /\ \A i \in 1..n : \E p \in 1..n : o[p] = i
<1> DEFINE o == AskOrder(bids)
           n == Len(bids)
           key == AskPrices(bids)
<1>1. DOMAIN bids = 1..n /\ n \in Nat /\ \A i \in 1..n : bids[i].price \in Int /\ key[i] = 100 - bids[i].price
  BY InvertedFacts
<1>2. 1..n \in SUBSET Int /\ IsFiniteSet(1..n) /\ Cardinality(1..n) = n
  BY <1>1, FS_Interval
<1>3. \A i \in 1..n : key[i] \in Int
  BY <1>1
<1>4. o = Order(1..n, key)
  BY <1>1 DEF AskOrder
<1> DEFINE S == 1..n
<1> HIDE DEF o, key, S
<1>5. /\ o \in [1..n -> 1..n]
      /\ \A p, q \in 1..n : q < p <=> Before(key, o[q], o[p])
      /\ \A p, q \in 1..n : o[p] = o[q] => p = q
      /\ \A i \in 1..n : \E p \in 1..n : o[p] = i
  <2>1. S \in SUBSET Int /\ IsFiniteSet(S) /\ Cardinality(S) = n /\ \A i \in S : key[i] \in Int
    BY <1>2, <1>3 DEF S
  <2>2. /\ Order(S, key) \in [1..Cardinality(S) -> S]
        /\ \A p, q \in 1..Cardinality(S) :
              q < p <=> Before(key, Order(S, key)[q], Order(S, key)[p])
        /\ \A p, q \in 1..Cardinality(S) : Order(S, key)[p] = Order(S, key)[q] => p = q
        /\ \A i \in S : \E p \in 1..Cardinality(S) : Order(S, key)[p] = i
    BY <2>1, OrderFacts
  <2>3. o = Order(S, key)
    BY <1>4 DEF S
  <2>4. /\ o \in [1..n -> S]
        /\ \A p, q \in 1..n : q < p <=> Before(key, o[q], o[p])
        /\ \A p, q \in 1..n : o[p] = o[q] => p = q
        /\ \A i \in S : \E p \in 1..n : o[p] = i
    BY <2>1, <2>2, <2>3
  <2>5. QED
    BY <2>4 DEF S
<1>6. \A i, j \in 1..n : Before(key, j, i) <=> j \in CheaperThan(bids, i)
  BY <1>1 DEF Before, CheaperThan
<1>7. \A p \in 1..n : o[p] \in 1..n
  BY <1>5
<1>8. \A p, q \in 1..n : q < p <=> o[q] \in CheaperThan(bids, o[p])
  BY <1>5, <1>6, <1>7
<1>9. QED
  BY <1>5, <1>8 DEF o

LEMMA AsksFacts ==
    ASSUME NEW bids \in Seq(Levels)
    PROVE  LET o == AskOrder(bids)
               n == Len(bids)
           IN  /\ Asks(bids) \in Seq(Levels) /\ Len(Asks(bids)) = n
               /\ \A p \in 1..n : Asks(bids)[p] = Level(100 - bids[o[p]].price, bids[o[p]].qty)
               /\ \A p, q \in 1..n : q < p => Asks(bids)[q].price <= Asks(bids)[p].price
<1> DEFINE o == AskOrder(bids)
           n == Len(bids)
<1>1. /\ DOMAIN bids = 1..n /\ n \in Nat
      /\ DOMAIN Inverted(bids) = 1..n
      /\ \A i \in 1..n : /\ bids[i].price \in Int /\ bids[i].qty \in Nat
                         /\ Inverted(bids)[i] = Level(100 - bids[i].price, bids[i].qty)
  BY InvertedFacts
<1>2. o \in [1..n -> 1..n] /\ \A p, q \in 1..n : q < p => o[q] \in CheaperThan(bids, o[p])
  BY AskOrderFacts
<1>3. Asks(bids) = Picked(Inverted(bids), o)
  BY <1>1 DEF Asks, Cheapest, Sorted, AskOrder, AskPrices
<1> HIDE DEF o
<1>4. Asks(bids) = [p \in 1..n |-> Level(100 - bids[o[p]].price, bids[o[p]].qty)]
  BY <1>1, <1>2, <1>3 DEF Picked
<1>5. \A p \in 1..n : Level(100 - bids[o[p]].price, bids[o[p]].qty) \in Levels
  <2> SUFFICES ASSUME NEW p \in 1..n
               PROVE  Level(100 - bids[o[p]].price, bids[o[p]].qty) \in Levels
    OBVIOUS
  <2>1. o[p] \in 1..n
    BY <1>2
  <2>2. 100 - bids[o[p]].price \in Int /\ bids[o[p]].qty \in Nat
    BY <1>1, <2>1
  <2>3. QED
    BY <2>2 DEF Level, Levels
<1>6. Asks(bids) \in Seq(Levels) /\ Len(Asks(bids)) = n
  BY <1>1, <1>4, <1>5
<1>7. \A p \in 1..n : Asks(bids)[p].price = 100 - bids[o[p]].price
  BY <1>4 DEF Level
<1>8. \A p, q \in 1..n : q < p => Asks(bids)[q].price <= Asks(bids)[p].price
  <2> SUFFICES ASSUME NEW p \in 1..n, NEW q \in 1..n, q < p
               PROVE  Asks(bids)[q].price <= Asks(bids)[p].price
    OBVIOUS
  <2>1. o[p] \in 1..n /\ o[q] \in 1..n /\ o[q] \in CheaperThan(bids, o[p])
    BY <1>2
  <2>2. bids[o[q]].price >= bids[o[p]].price
    <3>1. bids[o[q]].price \in Int /\ bids[o[p]].price \in Int
      BY <1>1, <2>1
    <3>2. bids[o[q]].price > bids[o[p]].price \/ bids[o[q]].price = bids[o[p]].price
      BY <2>1 DEF CheaperThan
    <3>3. QED
      BY <3>1, <3>2
  <2>3. 100 - bids[o[q]].price <= 100 - bids[o[p]].price
    <3>1. bids[o[q]].price \in Int /\ bids[o[p]].price \in Int
      BY <1>1, <2>1
    <3>2. QED
      BY <2>2, <3>1
  <2>4. QED
    BY <1>7, <2>3
<1>9. QED
  BY <1>4, <1>6, <1>8 DEF o

(* The contracts on the first levels.                                       *)
Quantities(bids) == [i \in DOMAIN bids |-> bids[i].qty]

Quantity(bids, S) == SumFunctionOnSet(Quantities(bids), S)

FirstLevels(bids, k) == {AskOrder(bids)[p] : p \in 1..k}

LEMMA FirstLevelsFacts ==
    ASSUME NEW bids \in Seq(Levels)
    PROVE  LET o == AskOrder(bids)
               n == Len(bids)
           IN  /\ FirstLevels(bids, 0) = {}
               /\ \A k \in 1..n :
                     /\ FirstLevels(bids, k) = FirstLevels(bids, k - 1) \cup {o[k]}
                     /\ o[k] \notin FirstLevels(bids, k - 1)
                     /\ FirstLevels(bids, k - 1) = CheaperThan(bids, o[k])
               /\ \A k \in 0..n : FirstLevels(bids, k) \in SUBSET (1..n) /\ IsFiniteSet(FirstLevels(bids, k))
               /\ FirstLevels(bids, n) = 1..n
<1> DEFINE o == AskOrder(bids)
           n == Len(bids)
           P(k) == {o[p] : p \in 1..k}
<1>1. DOMAIN bids = 1..n /\ n \in Nat
  BY InvertedFacts
<1>2. /\ o \in [1..n -> 1..n]
      /\ \A p, q \in 1..n : q < p <=> o[q] \in CheaperThan(bids, o[p])
      /\ \A p, q \in 1..n : o[p] = o[q] => p = q
      /\ \A i \in 1..n : \E p \in 1..n : o[p] = i
  BY AskOrderFacts
<1>3. \A i : CheaperThan(bids, i) \in SUBSET (1..n)
  BY <1>1 DEF CheaperThan
<1> HIDE DEF o
<1>4. P(0) = {}
  OBVIOUS
<1>5. ASSUME NEW k \in 1..n
      PROVE  P(k) = P(k - 1) \cup {o[k]} /\ o[k] \notin P(k - 1) /\ P(k - 1) = CheaperThan(bids, o[k])
  <2>1. 1..k = (1..(k - 1)) \cup {k} /\ \A p \in 1..(k - 1) : p \in 1..n /\ p < k
    BY <1>1
  <2>2. P(k) = P(k - 1) \cup {o[k]}
    BY <2>1
  <2>3. o[k] \notin P(k - 1)
    BY <1>2, <2>1
  <2>4. \A i \in P(k - 1) : i \in CheaperThan(bids, o[k])
    BY <1>2, <2>1
  <2>5. ASSUME NEW i \in CheaperThan(bids, o[k]) PROVE i \in P(k - 1)
    <3>1. PICK p \in 1..n : o[p] = i
      BY <1>2, <1>3
    <3>2. p < k
      BY <1>2, <3>1, <2>5
    <3>3. p \in 1..(k - 1)
      BY <1>1, <3>2
    <3>4. QED
      BY <3>1, <3>3
  <2>6. QED
    BY <2>2, <2>3, <2>4, <2>5
<1>6. ASSUME NEW k \in 0..n PROVE P(k) \in SUBSET (1..n) /\ IsFiniteSet(P(k))
  <2>1. \A p \in 1..k : p \in 1..n
    BY <1>1
  <2>2. P(k) \in SUBSET (1..n)
    <3>1. \A p \in 1..k : o[p] \in 1..n
      BY <1>2, <2>1
    <3>2. QED
      BY <3>1
  <2>3. IsFiniteSet(1..n)
    BY <1>1, FS_Interval
  <2> HIDE DEF P
  <2>4. QED
    BY <2>2, <2>3, FS_Subset
<1>7. P(n) = 1..n
  <2>1. \A p \in 1..n : o[p] \in 1..n
    BY <1>2
  <2>2. \A i \in 1..n : i \in P(n)
    <3> SUFFICES ASSUME NEW i \in 1..n PROVE i \in P(n)
      OBVIOUS
    <3>1. PICK p \in 1..n : o[p] = i
      BY <1>2
    <3>2. QED
      BY <3>1
  <2>3. QED
    BY <2>1, <2>2
<1>8. \A k : FirstLevels(bids, k) = P(k)
  BY DEF FirstLevels, o
<1> HIDE DEF P
<1>9. QED
  BY <1>4, <1>5, <1>6, <1>7, <1>8 DEF o

(* The depth of the first k levels.                                         *)
DepthOf(bids, k) == Quantity(bids, FirstLevels(bids, k))

LEMMA DepthFacts ==
    ASSUME NEW bids \in Seq(Levels)
    PROVE  LET n == Len(bids) IN
           /\ DepthOf(bids, 0) = 0
           /\ \A k \in 0..n : DepthOf(bids, k) \in Nat
           /\ \A k \in 1..n : DepthOf(bids, k) = DepthOf(bids, k - 1) + Asks(bids)[k].qty
           /\ DepthOf(bids, n) = Quantity(bids, DOMAIN bids)
<1> DEFINE o == AskOrder(bids)
           n == Len(bids)
           P(k) == FirstLevels(bids, k)
           f == Quantities(bids)
<1>1. DOMAIN bids = 1..n /\ n \in Nat /\ \A i \in 1..n : bids[i].qty \in Nat
  BY InvertedFacts
<1>2. \A i \in 1..n : f[i] = bids[i].qty /\ f[i] \in Nat /\ f[i] \in Int
  BY <1>1 DEF Quantities
<1>3. o \in [1..n -> 1..n]
  BY AskOrderFacts
<1>4. /\ P(0) = {}
      /\ \A k \in 1..n : P(k) = P(k - 1) \cup {o[k]} /\ o[k] \notin P(k - 1)
      /\ \A k \in 0..n : P(k) \in SUBSET (1..n) /\ IsFiniteSet(P(k))
      /\ P(n) = 1..n
  BY FirstLevelsFacts
<1>5. \A k \in 1..n : Asks(bids)[k].qty = f[o[k]]
  <2> SUFFICES ASSUME NEW k \in 1..n PROVE Asks(bids)[k].qty = f[o[k]]
    OBVIOUS
  <2>1. o[k] \in 1..n
    BY <1>3
  <2>2. Asks(bids)[k] = Level(100 - bids[o[k]].price, bids[o[k]].qty)
    BY AsksFacts
  <2>3. QED
    BY <1>2, <2>1, <2>2 DEF Level
<1>6. \A k : DepthOf(bids, k) = SumFunctionOnSet(f, P(k))
  BY DEF DepthOf, Quantity
<1> HIDE DEF P, f, o
<1>7. SumFunctionOnSet(f, P(0)) = 0
  BY <1>4, SumEmpty
<1>8. ASSUME NEW k \in 0..n PROVE SumFunctionOnSet(f, P(k)) \in Nat
  BY <1>2, <1>4, SumNat
<1>9. ASSUME NEW k \in 1..n
      PROVE  SumFunctionOnSet(f, P(k)) = SumFunctionOnSet(f, P(k - 1)) + f[o[k]]
  <2>1. k - 1 \in 0..n /\ o[k] \in 1..n
    BY <1>1, <1>3
  <2>2. IsFiniteSet(P(k - 1)) /\ o[k] \notin P(k - 1) /\ \A y \in P(k - 1) \cup {o[k]} : f[y] \in Int
    BY <1>2, <1>4, <2>1
  <2>3. SumFunctionOnSet(f, P(k - 1) \cup {o[k]}) = f[o[k]] + SumFunctionOnSet(f, P(k - 1))
    BY <2>2, SumAdd
  <2>4. SumFunctionOnSet(f, P(k - 1)) \in Nat /\ f[o[k]] \in Nat
    BY <1>2, <1>8, <2>1
  <2>5. SumFunctionOnSet(f, P(k)) = f[o[k]] + SumFunctionOnSet(f, P(k - 1))
    BY <1>4, <2>3
  <2>6. \A a, b \in Nat : a + b = b + a
    OBVIOUS
  <2>7. QED
    BY <2>4, <2>5, <2>6
<1>10. DepthOf(bids, n) = Quantity(bids, DOMAIN bids)
  BY <1>1, <1>4, <1>6 DEF Quantity, f
<1>11. QED
  BY <1>5, <1>6, <1>7, <1>8, <1>9, <1>10

LEMMA MinOfTwo ==
    ASSUME NEW a \in Int, NEW b \in Int
    PROVE  Min({a, b}) = (IF a <= b THEN a ELSE b)
<1>1. Min({a, b}) \in {a, b} /\ \A y \in {a, b} : Min({a, b}) <= y
  <2>1. \E x \in {a, b} : \A y \in {a, b} : x <= y
    OBVIOUS
  <2>2. QED
    BY <2>1 DEF Min
<1>2. QED
  BY <1>1

LEMMA MaxOfTwo ==
    ASSUME NEW a \in Int, NEW b \in Int
    PROVE  Max({a, b}) = (IF a >= b THEN a ELSE b)
<1>1. Max({a, b}) \in {a, b} /\ \A y \in {a, b} : Max({a, b}) >= y
  <2>1. \E x \in {a, b} : \A y \in {a, b} : x >= y
    OBVIOUS
  <2>2. QED
    BY <2>1 DEF Max
<1>2. QED
  BY <1>1

(* The fill after each level.                                               *)
FillSet == [best : Int, worst : Int, cost : Int, filled : Int, crossed : Int]

Blank(levels) ==
    LET best == IF levels = <<>> THEN 0 ELSE levels[1].price
    IN  [best |-> best, worst |-> best, cost |-> 0, filled |-> 0, crossed |-> 0]

FillStep(after, levels, quantity, k) ==
    IF k = 0 THEN Blank(levels) ELSE Taken(after[k - 1], levels[k], quantity)

Fills(levels, quantity) ==
    CHOOSE after : after = [k \in 0..Len(levels) |-> FillStep(after, levels, quantity, k)]

LEMMA WalkIs ==
    ASSUME NEW book, NEW side, NEW quantity
    PROVE  WalkBook(book, side, "buy", quantity) =
              Fills(Asks(book[Other(side)]), quantity)[Len(Asks(book[Other(side)]))]
  BY DEF WalkBook, Fills, FillStep, Blank, LevelsForExecution, Asks

(* What the next level adds.                                                *)
Take(fill, level, quantity) == IF level.qty <= quantity - fill.filled THEN level.qty ELSE quantity - fill.filled

LEMMA TakenFacts ==
    ASSUME NEW fill \in FillSet, NEW level \in Levels, NEW quantity \in Int
    PROVE  /\ Taken(fill, level, quantity) \in FillSet
           /\ Taken(fill, level, quantity).best = fill.best
           /\ Take(fill, level, quantity) <= 0 => Taken(fill, level, quantity) = fill
           /\ Take(fill, level, quantity) > 0 =>
                 /\ Taken(fill, level, quantity).filled = fill.filled + Take(fill, level, quantity)
                 /\ Taken(fill, level, quantity).cost =
                       fill.cost + Take(fill, level, quantity) * level.price
<1> DEFINE t == Take(fill, level, quantity)
<1>1. level.qty \in Int /\ level.price \in Int /\ fill.filled \in Int /\ fill.cost \in Int /\ fill.crossed \in Int
      /\ quantity - fill.filled \in Int
  BY DEF Levels, FillSet
<1>2. Min({level.qty, quantity - fill.filled}) = t /\ t \in Int
  BY <1>1, MinOfTwo DEF Take
<1>3. Taken(fill, level, quantity) =
        IF t <= 0 THEN fill
        ELSE [fill EXCEPT !.filled = fill.filled + t, !.cost = fill.cost + t * level.price,
                          !.worst = level.price, !.crossed = fill.crossed + 1]
  BY <1>2 DEF Taken
<1> HIDE DEF t
<1>4. fill.filled + t \in Int /\ fill.cost + t * level.price \in Int /\ fill.crossed + 1 \in Int
  <2>1. t * level.price \in Int
    BY <1>1, <1>2
  <2>2. QED
    BY <1>1, <1>2, <2>1
<1>5. CASE t <= 0
  <2>1. Taken(fill, level, quantity) = fill /\ ~(t > 0)
    BY <1>2, <1>3, <1>5
  <2>2. QED
    BY <2>1 DEF t
<1>6. CASE ~(t <= 0)
  <2> DEFINE filled == fill.filled + t
             cost == fill.cost + t * level.price
             crossed == fill.crossed + 1
  <2>1. filled \in Int /\ cost \in Int /\ crossed \in Int
    BY <1>4
  <2>2. Taken(fill, level, quantity) =
          [fill EXCEPT !.filled = filled, !.cost = cost, !.worst = level.price, !.crossed = crossed]
    BY <1>3, <1>6
  <2> HIDE DEF filled, cost, crossed
  <2>3. /\ Taken(fill, level, quantity) \in FillSet
        /\ Taken(fill, level, quantity).best = fill.best
        /\ Taken(fill, level, quantity).filled = filled
        /\ Taken(fill, level, quantity).cost = cost
    BY <1>1, <2>1, <2>2 DEF FillSet
  <2>4. QED
    BY <1>6, <2>3 DEF filled, cost, t
<1>7. QED
  BY <1>5, <1>6

LEMMA FillsDefined ==
    ASSUME NEW levels \in Seq(Levels), NEW quantity \in Int
    PROVE  /\ Fills(levels, quantity)[0] = Blank(levels)
           /\ \A k \in 0..Len(levels) : Fills(levels, quantity)[k] \in FillSet
           /\ \A k \in 1..Len(levels) :
                 Fills(levels, quantity)[k] = Taken(Fills(levels, quantity)[k - 1], levels[k], quantity)
<1> DEFINE n == Len(levels)
           op == [p \in FillSet \X Levels |-> Taken(p[1], p[2], quantity)]
<1>0. n \in Nat /\ DOMAIN levels = 1..n /\ \A k \in 1..n : levels[k] \in Levels
  OBVIOUS
<1>1. op \in Reducers(Levels, FillSet)
  <2>1. \A p \in FillSet \X Levels : Taken(p[1], p[2], quantity) \in FillSet
    BY TakenFacts
  <2>2. QED
    BY <2>1 DEF Reducers
<1>2. Blank(levels) \in FillSet
  <2>1. levels # <<>> => levels[1].price \in Int
    <3> SUFFICES ASSUME levels # <<>> PROVE levels[1].price \in Int
      OBVIOUS
    <3>1. 1 \in 1..n
      BY <1>0
    <3>2. levels[1] \in Levels
      BY <1>0, <3>1
    <3>3. QED
      BY <3>2 DEF Levels
  <2>2. QED
    BY <2>1 DEF Blank, FillSet
<1>3. PICK h : History(h, op, Blank(levels), levels, FillSet)
  BY <1>1, <1>2, HistoryExists
<1>4. /\ h \in [0..n -> FillSet] /\ h[0] = Blank(levels)
      /\ \A k \in 1..n : h[k] = op[<<h[k - 1], levels[k]>>]
  BY <1>3 DEF History
<1>5. \A k \in 1..n : h[k] = Taken(h[k - 1], levels[k], quantity)
  <2> SUFFICES ASSUME NEW k \in 1..n PROVE h[k] = Taken(h[k - 1], levels[k], quantity)
    OBVIOUS
  <2>1. h[k - 1] \in FillSet /\ levels[k] \in Levels
    BY <1>0, <1>4
  <2>2. QED
    BY <1>4, <2>1
<1>6. h = [k \in 0..n |-> FillStep(h, levels, quantity, k)]
  <2> SUFFICES ASSUME NEW k \in 0..n PROVE h[k] = FillStep(h, levels, quantity, k)
    BY <1>4
  <2>1. CASE k = 0
    BY <1>4, <2>1 DEF FillStep
  <2>2. CASE k # 0
    <3>1. k \in 1..n
      BY <1>0, <2>2
    <3>2. QED
      BY <1>5, <2>2, <3>1 DEF FillStep
  <2>3. QED
    BY <2>1, <2>2
<1> DEFINE f == Fills(levels, quantity)
<1>7. f = [k \in 0..n |-> FillStep(f, levels, quantity, k)]
  BY <1>6 DEF Fills
<1> HIDE DEF f, op
<1>8. f[0] = Blank(levels)
  <2>1. 0 \in 0..n
    BY <1>0
  <2>2. QED
    BY <1>7, <2>1 DEF FillStep
<1>9. \A k \in 1..n : f[k] = Taken(f[k - 1], levels[k], quantity)
  <2> SUFFICES ASSUME NEW k \in 1..n PROVE f[k] = Taken(f[k - 1], levels[k], quantity)
    OBVIOUS
  <2>1. k \in 0..n /\ k # 0
    BY <1>0
  <2>2. QED
    BY <1>7, <2>1 DEF FillStep
<1>10. \A k \in 0..n : f[k] \in FillSet
  <2> DEFINE N == {k \in Nat : k <= n => f[k] \in FillSet}
  <2>1. 0 \in N
    BY <1>2, <1>8
  <2>2. ASSUME NEW k \in N PROVE k + 1 \in N
    <3> SUFFICES ASSUME k + 1 <= n PROVE f[k + 1] \in FillSet
      OBVIOUS
    <3>1. k + 1 \in 1..n /\ (k + 1) - 1 = k /\ f[k] \in FillSet
      BY <1>0
    <3>2. f[k + 1] = Taken(f[k], levels[k + 1], quantity) /\ levels[k + 1] \in Levels
      BY <1>0, <1>9, <3>1
    <3>3. QED
      BY <3>1, <3>2, TakenFacts
  <2>3. N \in SUBSET Nat
    OBVIOUS
  <2> HIDE DEF N
  <2>4. N = Nat
    BY <2>1, <2>2, <2>3, NaturalInduction
  <2>5. QED
    BY <2>4 DEF N
<1>11. QED
  BY <1>8, <1>9, <1>10 DEF f

Lesser(a, b) == IF a <= b THEN a ELSE b

(* Contracts of the k-th ask in an order for quantity.                      *)
Units(bids, k, quantity) ==
    IF quantity <= DepthOf(bids, k - 1) THEN 0
    ELSE IF DepthOf(bids, k) <= quantity THEN Asks(bids)[k].qty
    ELSE quantity - DepthOf(bids, k - 1)

FillAt(bids, quantity, k) == Fills(Asks(bids), quantity)[k]

LEMMA LevelFacts ==
    ASSUME NEW bids \in Seq(Levels), NEW k \in 1..Len(bids)
    PROVE  /\ Asks(bids)[k] \in Levels
           /\ Asks(bids)[k].price \in Int /\ Asks(bids)[k].qty \in Nat
           /\ DepthOf(bids, k - 1) \in Nat /\ DepthOf(bids, k) \in Nat
           /\ DepthOf(bids, k) = DepthOf(bids, k - 1) + Asks(bids)[k].qty
<1>1. Len(bids) \in Nat
  BY InvertedFacts
<1>2. Asks(bids) \in Seq(Levels) /\ Len(Asks(bids)) = Len(bids)
  BY AsksFacts
<1>3. Asks(bids)[k] \in Levels
  BY <1>1, <1>2
<1>4. k - 1 \in 0..Len(bids) /\ k \in 0..Len(bids)
  BY <1>1
<1>5. QED
  BY <1>3, <1>4, DepthFacts DEF Levels

LEMMA UnitsFacts ==
    ASSUME NEW bids \in Seq(Levels), NEW k \in 1..Len(bids), NEW quantity \in Nat
    PROVE  /\ Units(bids, k, quantity) \in Nat
           /\ Lesser(quantity, DepthOf(bids, k)) = Lesser(quantity, DepthOf(bids, k - 1)) + Units(bids, k, quantity)
<1> DEFINE a == DepthOf(bids, k - 1)
           b == DepthOf(bids, k)
           q == Asks(bids)[k].qty
<1>1. a \in Nat /\ b \in Nat /\ q \in Nat /\ b = a + q
  BY LevelFacts
<1> HIDE DEF a, b, q
<1> SUFFICES LET u == IF quantity <= a THEN 0 ELSE IF b <= quantity THEN q ELSE quantity - a
             IN  u \in Nat /\ Lesser(quantity, b) = Lesser(quantity, a) + u
  BY DEF Units, a, b, q
<1>2. QED
  BY <1>1 DEF Lesser

LEMMA FillStarts ==
    ASSUME NEW bids \in Seq(Levels), NEW quantity \in Nat
    PROVE  /\ FillAt(bids, quantity, 0) = Blank(Asks(bids))
           /\ \A k \in 0..Len(bids) : FillAt(bids, quantity, k) \in FillSet
           /\ \A k \in 1..Len(bids) :
                 FillAt(bids, quantity, k) = Taken(FillAt(bids, quantity, k - 1), Asks(bids)[k], quantity)
<1>1. Asks(bids) \in Seq(Levels) /\ Len(Asks(bids)) = Len(bids)
  BY AsksFacts
<1>2. QED
  BY <1>1, FillsDefined DEF FillAt

LEMMA FillMoves ==
    ASSUME NEW bids \in Seq(Levels), NEW quantity \in Nat, NEW k \in 1..Len(bids),
           FillAt(bids, quantity, k - 1).filled = Lesser(quantity, DepthOf(bids, k - 1))
    PROVE  /\ FillAt(bids, quantity, k).filled = Lesser(quantity, DepthOf(bids, k))
           /\ FillAt(bids, quantity, k).best = FillAt(bids, quantity, k - 1).best
           /\ FillAt(bids, quantity, k).cost =
                 FillAt(bids, quantity, k - 1).cost + Units(bids, k, quantity) * Asks(bids)[k].price
<1> DEFINE fill == FillAt(bids, quantity, k - 1)
           next == FillAt(bids, quantity, k)
           level == Asks(bids)[k]
           u == Units(bids, k, quantity)
           t == Take(fill, level, quantity)
           a == DepthOf(bids, k - 1)
           b == DepthOf(bids, k)
<1>1. Len(bids) \in Nat
  BY InvertedFacts
<1>2. fill \in FillSet /\ next = Taken(fill, level, quantity)
  BY <1>1, FillStarts
<1>3. level \in Levels /\ level.price \in Int /\ level.qty \in Nat /\ a \in Nat /\ b \in Nat /\ b = a + level.qty
  BY LevelFacts
<1>4. u \in Nat /\ Lesser(quantity, b) = Lesser(quantity, a) + u
  BY UnitsFacts
<1>5. fill.filled \in Int /\ fill.cost \in Int
  BY <1>2 DEF FillSet
<1>6. fill.filled = Lesser(quantity, a)
  OBVIOUS
<1>7. t = u
  <2>1. u = (IF quantity <= a THEN 0 ELSE IF b <= quantity THEN level.qty ELSE quantity - a)
    BY DEF Units
  <2>2. t = (IF level.qty <= quantity - fill.filled THEN level.qty ELSE quantity - fill.filled)
    BY DEF Take
  <2> HIDE DEF t, u, level, fill, a, b
  <2>3. QED
    BY <1>3, <1>5, <1>6, <2>1, <2>2 DEF Lesser
<1>8. /\ next.best = fill.best
      /\ t <= 0 => next = fill
      /\ t > 0 => next.filled = fill.filled + t /\ next.cost = fill.cost + t * level.price
  <2>1. quantity \in Int /\ fill \in FillSet /\ level \in Levels /\ next = Taken(fill, level, quantity)
    BY <1>2, <1>3
  <2> HIDE DEF fill, level, next
  <2>2. /\ Taken(fill, level, quantity).best = fill.best
        /\ t <= 0 => Taken(fill, level, quantity) = fill
        /\ t > 0 => /\ Taken(fill, level, quantity).filled = fill.filled + t
                    /\ Taken(fill, level, quantity).cost = fill.cost + t * level.price
    BY <2>1, TakenFacts
  <2>3. QED
    BY <2>1, <2>2, Zenon
<1> HIDE DEF t, u, level, fill, a, b, next
<1>9. next.filled = fill.filled + u /\ next.cost = fill.cost + u * level.price
  <2>1. CASE t <= 0
    <3>1. u = 0 /\ next = fill
      BY <1>4, <1>7, <1>8, <2>1
    <3>2. u * level.price = 0
      BY <1>3, <3>1
    <3>3. QED
      BY <1>5, <3>1, <3>2
  <2>2. CASE ~(t <= 0)
    BY <1>4, <1>7, <1>8, <2>2
  <2>3. QED
    BY <2>1, <2>2
<1>10. next.filled = Lesser(quantity, b)
  BY <1>4, <1>6, <1>9
<1>11. QED
  BY <1>8, <1>9, <1>10 DEF u, level, fill, b, next

(* As much is filled as the levels hold.                                    *)
LEMMA FillGrows ==
    ASSUME NEW bids \in Seq(Levels), NEW quantity \in Nat
    PROVE  /\ \A k \in 0..Len(bids) : /\ FillAt(bids, quantity, k).filled = Lesser(quantity, DepthOf(bids, k))
                                      /\ FillAt(bids, quantity, k).best = Blank(Asks(bids)).best
           /\ FillAt(bids, quantity, 0).cost = 0
           /\ \A k \in 1..Len(bids) :
                 FillAt(bids, quantity, k).cost =
                    FillAt(bids, quantity, k - 1).cost + Units(bids, k, quantity) * Asks(bids)[k].price
<1> DEFINE n == Len(bids)
           N == {k \in Nat : k <= n => /\ FillAt(bids, quantity, k).filled = Lesser(quantity, DepthOf(bids, k))
                                       /\ FillAt(bids, quantity, k).best = Blank(Asks(bids)).best}
<1>0. n \in Nat
  BY InvertedFacts
<1>1. FillAt(bids, quantity, 0) = Blank(Asks(bids))
  BY FillStarts
<1>2. FillAt(bids, quantity, 0).cost = 0 /\ FillAt(bids, quantity, 0).filled = 0
  BY <1>1 DEF Blank
<1>3. 0 \in N
  <2>1. DepthOf(bids, 0) = 0
    BY DepthFacts
  <2>2. Lesser(quantity, DepthOf(bids, 0)) = 0
    BY <2>1 DEF Lesser
  <2>3. QED
    BY <1>1, <1>2, <2>2
<1>4. ASSUME NEW k \in N PROVE k + 1 \in N
  <2> SUFFICES ASSUME k + 1 <= n
               PROVE  /\ FillAt(bids, quantity, k + 1).filled = Lesser(quantity, DepthOf(bids, k + 1))
                      /\ FillAt(bids, quantity, k + 1).best = Blank(Asks(bids)).best
    OBVIOUS
  <2> DEFINE j == k + 1
  <2>1. j \in 1..n /\ j - 1 = k /\ k <= n
    BY <1>0
  <2>2. FillAt(bids, quantity, j - 1).filled = Lesser(quantity, DepthOf(bids, j - 1))
        /\ FillAt(bids, quantity, j - 1).best = Blank(Asks(bids)).best
    BY <2>1
  <2> HIDE DEF j
  <2>3. /\ FillAt(bids, quantity, j).filled = Lesser(quantity, DepthOf(bids, j))
        /\ FillAt(bids, quantity, j).best = FillAt(bids, quantity, j - 1).best
    BY <2>1, <2>2, FillMoves
  <2>4. QED
    BY <2>2, <2>3 DEF j
<1>5. N \in SUBSET Nat
  OBVIOUS
<1> HIDE DEF N
<1>6. N = Nat
  BY <1>3, <1>4, <1>5, NaturalInduction
<1>7. \A k \in 0..n : /\ FillAt(bids, quantity, k).filled = Lesser(quantity, DepthOf(bids, k))
                      /\ FillAt(bids, quantity, k).best = Blank(Asks(bids)).best
  BY <1>6 DEF N
<1>8. ASSUME NEW k \in 1..n
      PROVE  FillAt(bids, quantity, k).cost =
                FillAt(bids, quantity, k - 1).cost + Units(bids, k, quantity) * Asks(bids)[k].price
  <2>1. k - 1 \in 0..n
    BY <1>0
  <2>2. QED
    BY <1>7, <2>1, FillMoves
<1>9. QED
  BY <1>2, <1>7, <1>8

(* No contract of the first levels costs more than one of a later level.    *)
LEMMA CostBounded ==
    ASSUME NEW bids \in Seq(Levels), NEW quantity \in Nat, NEW j \in 1..Len(bids), NEW k \in 0..j
    PROVE  FillAt(bids, quantity, k).cost <= Asks(bids)[j].price * FillAt(bids, quantity, k).filled
<1> DEFINE n == Len(bids)
           p == Asks(bids)[j].price
           f(i) == FillAt(bids, quantity, i)
           N == {i \in Nat : i <= j => f(i).cost <= p * f(i).filled}
<1>0. n \in Nat /\ j \in Nat /\ j <= n
  BY InvertedFacts
<1>1. p \in Int
  BY LevelFacts
<1>2. 0 \in N
  <2>1. f(0).cost = 0
    BY FillGrows
  <2>2. f(0).filled = 0
    BY FillStarts DEF Blank
  <2>3. p * 0 = 0
    BY <1>1
  <2>4. QED
    BY <2>1, <2>2, <2>3
<1>3. ASSUME NEW i \in N PROVE i + 1 \in N
  <2> SUFFICES ASSUME i + 1 <= j PROVE f(i + 1).cost <= p * f(i + 1).filled
    OBVIOUS
  <2> DEFINE h == i + 1
             u == Units(bids, h, quantity)
             r == Asks(bids)[h].price
  <2>1. h \in 1..n /\ h - 1 = i /\ i \in 0..n /\ h \in 0..n /\ h <= j /\ f(i).cost <= p * f(i).filled
    BY <1>0
  <2>2. f(h).cost = f(h - 1).cost + u * r
    BY <2>1, FillGrows
  <2>3. u \in Nat /\ Lesser(quantity, DepthOf(bids, h)) = Lesser(quantity, DepthOf(bids, h - 1)) + u
    BY <2>1, UnitsFacts
  <2>4. f(h).filled = Lesser(quantity, DepthOf(bids, h)) /\ f(h - 1).filled = Lesser(quantity, DepthOf(bids, h - 1))
    BY <2>1, FillGrows
  <2>5. f(h).filled = f(i).filled + u /\ f(h).cost = f(i).cost + u * r
    BY <2>1, <2>2, <2>3, <2>4
  <2>6. f(i).filled \in Int /\ f(i).cost \in Int
    <3>1. f(i) \in FillSet
      BY <2>1, FillStarts
    <3>2. QED
      BY <3>1 DEF FillSet
  <2>7. r \in Int
    BY <2>1, LevelFacts
  <2>8. r <= p
    <3>1. CASE h = j
      BY <1>1, <3>1
    <3>2. CASE h # j
      <4>1. h < j
        BY <1>0, <2>1, <3>2
      <4>2. QED
        BY <2>1, <4>1, AsksFacts
    <3>3. QED
      BY <3>1, <3>2
  <2> DEFINE cost == f(i).cost
             filled == f(i).filled
  <2>9. cost + u * r <= p * (filled + u)
    <3> HIDE DEF cost, filled, u, r, p, f, h
    <3>1. u * r <= u * p
      BY <1>1, <2>3, <2>7, <2>8
    <3>2. p * (filled + u) = p * filled + u * p
      BY <1>1, <2>3, <2>6 DEF cost, filled
    <3>3. u * r \in Int /\ u * p \in Int /\ p * filled \in Int /\ cost \in Int /\ cost <= p * filled
      BY <1>1, <2>1, <2>3, <2>6, <2>7 DEF cost, filled
    <3>4. QED
      BY <3>1, <3>2, <3>3
  <2>10. QED
    BY <2>5, <2>9
<1>4. N \in SUBSET Nat
  OBVIOUS
<1> HIDE DEF N
<1>5. N = Nat
  BY <1>2, <1>3, <1>4, NaturalInduction
<1>6. QED
  BY <1>0, <1>5 DEF N

(* One contract more costs what the level it comes from asks, and no        *)
(* contract bought before it costs more.                                    *)
OneMore(bids, quantity, k) ==
    LET old == FillAt(bids, quantity, k).cost
        new == FillAt(bids, quantity + 1, k).cost
    IN  IF DepthOf(bids, k) <= quantity THEN new = old
        ELSE \E price \in Int : new = old + price /\ old <= price * quantity

LEMMA OneMoreMoves ==
    ASSUME NEW bids \in Seq(Levels), NEW quantity \in Nat, NEW k \in 1..Len(bids),
           OneMore(bids, quantity, k - 1)
    PROVE  OneMore(bids, quantity, k)
<1> DEFINE a == DepthOf(bids, k - 1)
           b == DepthOf(bids, k)
           q == Asks(bids)[k].qty
           p == Asks(bids)[k].price
           u == Units(bids, k, quantity)
           v == Units(bids, k, quantity + 1)
           old == FillAt(bids, quantity, k - 1).cost
           new == FillAt(bids, quantity + 1, k - 1).cost
<1>0. Len(bids) \in Nat /\ k \in 0..Len(bids) /\ k - 1 \in 0..Len(bids) /\ k - 1 \in 0..k
      /\ quantity + 1 \in Nat
  BY InvertedFacts
<1>1. a \in Nat /\ b \in Nat /\ q \in Nat /\ p \in Int /\ b = a + q
  BY LevelFacts
<1>2. /\ u = (IF quantity <= a THEN 0 ELSE IF b <= quantity THEN q ELSE quantity - a)
      /\ v = (IF quantity + 1 <= a THEN 0 ELSE IF b <= quantity + 1 THEN q ELSE (quantity + 1) - a)
  <2>1. u = (IF quantity <= a THEN 0 ELSE IF b <= quantity THEN q ELSE quantity - a)
    BY DEF Units
  <2>2. v = (IF quantity + 1 <= a THEN 0 ELSE IF b <= quantity + 1 THEN q ELSE (quantity + 1) - a)
    <3> DEFINE m == quantity + 1
    <3> HIDE DEF m
    <3>1. Units(bids, k, m) = (IF m <= a THEN 0 ELSE IF b <= m THEN q ELSE m - a)
      BY DEF Units
    <3>2. QED
      BY <3>1 DEF m
  <2>3. QED
    BY <2>1, <2>2
<1>3. /\ FillAt(bids, quantity, k).cost = old + u * p
      /\ FillAt(bids, quantity + 1, k).cost = new + v * p
  BY <1>0, FillGrows
<1>4. old \in Int /\ new \in Int
  <2>1. FillAt(bids, quantity, k - 1) \in FillSet /\ FillAt(bids, quantity + 1, k - 1) \in FillSet
    BY <1>0, FillStarts
  <2>2. QED
    BY <2>1 DEF FillSet
<1>5. old <= p * FillAt(bids, quantity, k - 1).filled
  BY <1>0, CostBounded
<1>6. FillAt(bids, quantity, k - 1).filled = Lesser(quantity, a)
  BY <1>0, FillGrows
<1>7. old <= p * Lesser(quantity, a)
  BY <1>5, <1>6
<1>8. IF a <= quantity THEN new = old
      ELSE \E price \in Int : new = old + price /\ old <= price * quantity
  BY DEF OneMore
<1>9. SUFFICES IF b <= quantity THEN new + v * p = old + u * p
               ELSE \E price \in Int : /\ new + v * p = (old + u * p) + price
                                       /\ old + u * p <= price * quantity
  BY <1>3 DEF OneMore
<1> HIDE DEF a, b, q, p, u, v, old, new
<1>10. CASE b <= quantity
  <2>1. a <= quantity /\ u = q /\ v = q
    BY <1>1, <1>2, <1>10
  <2>2. QED
    BY <1>8, <1>10, <2>1
<1>11. CASE a <= quantity /\ ~(b <= quantity)
  <2>1. u = quantity - a /\ v = u + 1 /\ u \in Nat
    BY <1>1, <1>2, <1>11
  <2>2. new = old
    BY <1>8, <1>11
  <2>3. v * p = u * p + p /\ u * p \in Int
    BY <1>1, <2>1
  <2>4. old <= p * a
    BY <1>1, <1>7, <1>11 DEF Lesser
  <2>5. p * a + u * p = p * quantity
    <3>1. a + u = quantity
      BY <1>1, <2>1
    <3>2. p * (a + u) = p * a + u * p
      BY <1>1, <2>1
    <3>3. QED
      BY <3>1, <3>2
  <2>6. p * a \in Int /\ p * quantity \in Int
    BY <1>1
  <2>7. old + u * p <= p * quantity /\ new + v * p = (old + u * p) + p
    BY <1>1, <1>4, <2>2, <2>3, <2>4, <2>5, <2>6
  <2>8. QED
    BY <1>1, <1>11, <2>7
<1>12. CASE ~(a <= quantity)
  <2>1. u = 0 /\ v = 0 /\ ~(b <= quantity)
    BY <1>1, <1>2, <1>12
  <2>2. u * p = 0 /\ v * p = 0
    BY <1>1, <2>1
  <2>3. new + v * p = new /\ old + u * p = old
    BY <1>4, <2>2
  <2>4. QED
    BY <1>8, <1>12, <2>1, <2>3
<1>13. QED
  BY <1>1, <1>10, <1>11, <1>12

LEMMA OneMoreCosts ==
    ASSUME NEW bids \in Seq(Levels), NEW quantity \in Nat
    PROVE  OneMore(bids, quantity, Len(bids))
<1> DEFINE n == Len(bids)
           N == {k \in Nat : k <= n => OneMore(bids, quantity, k)}
<1>0. n \in Nat
  BY InvertedFacts
<1>1. 0 \in N
  <2>1. DepthOf(bids, 0) = 0
    BY DepthFacts
  <2>2. FillAt(bids, quantity, 0).cost = 0 /\ FillAt(bids, quantity + 1, 0).cost = 0
    BY FillGrows
  <2>3. DepthOf(bids, 0) <= quantity
    BY <2>1
  <2>4. QED
    BY <2>2, <2>3 DEF OneMore
<1>2. ASSUME NEW k \in N PROVE k + 1 \in N
  <2> SUFFICES ASSUME k + 1 <= n PROVE OneMore(bids, quantity, k + 1)
    OBVIOUS
  <2>1. k + 1 \in 1..n /\ (k + 1) - 1 = k /\ OneMore(bids, quantity, k)
    BY <1>0
  <2>2. OneMore(bids, quantity, (k + 1) - 1)
    BY <2>1
  <2>3. QED
    BY <2>1, <2>2, OneMoreMoves
<1>3. N \in SUBSET Nat
  OBVIOUS
<1> HIDE DEF N
<1>4. N = Nat
  BY <1>1, <1>2, <1>3, NaturalInduction
<1>5. QED
  BY <1>0, <1>4 DEF N

(* What an order costs, level by level as they are listed.                  *)
ListedCosts(bids, quantity) ==
    [i \in DOMAIN bids |->
        (100 - bids[i].price) * Max({0, Min({bids[i].qty, quantity - Quantity(bids, CheaperThan(bids, i))})})]

ListedCost(bids, quantity) == SumFunctionOnSet(ListedCosts(bids, quantity), DOMAIN bids)

LEMMA CostOfLevel ==
    ASSUME NEW bids \in Seq(Levels), NEW quantity \in Nat, NEW k \in 1..Len(bids)
    PROVE  ListedCosts(bids, quantity)[AskOrder(bids)[k]] = Units(bids, k, quantity) * Asks(bids)[k].price
<1> DEFINE i == AskOrder(bids)[k]
           a == DepthOf(bids, k - 1)
           b == DepthOf(bids, k)
           q == bids[i].qty
           u == Units(bids, k, quantity)
           p == 100 - bids[i].price
<1>1. i \in 1..Len(bids) /\ DOMAIN bids = 1..Len(bids) /\ bids[i].price \in Int /\ q \in Nat
  <2>1. i \in 1..Len(bids)
    BY AskOrderFacts
  <2> HIDE DEF i
  <2>2. QED
    BY <2>1, InvertedFacts
<1>2. Asks(bids)[k] = Level(p, q)
  BY AsksFacts
<1>3. Asks(bids)[k].price = p /\ Asks(bids)[k].qty = q
  BY <1>2 DEF Level
<1>4. a \in Nat /\ b \in Nat /\ b = a + q
  BY <1>3, LevelFacts
<1>5. Quantity(bids, CheaperThan(bids, i)) = a
  BY FirstLevelsFacts DEF DepthOf
<1>6. ListedCosts(bids, quantity)[i] = p * Max({0, Min({q, quantity - a})})
  BY <1>1, <1>5 DEF ListedCosts
<1>7. u = (IF quantity <= a THEN 0 ELSE IF b <= quantity THEN q ELSE quantity - a)
  BY <1>3 DEF Units
<1>8. u \in Nat
  BY UnitsFacts
<1>9. p \in Int
  BY <1>1
<1> HIDE DEF i, a, b, q, u, p
<1>10. Min({q, quantity - a}) = (IF q <= quantity - a THEN q ELSE quantity - a)
  BY <1>1, <1>4, MinOfTwo
<1>11. Min({q, quantity - a}) \in Int
  BY <1>1, <1>4, <1>10
<1>12. Max({0, Min({q, quantity - a})}) = (IF 0 >= Min({q, quantity - a}) THEN 0 ELSE Min({q, quantity - a}))
  <2> DEFINE w == Min({q, quantity - a})
  <2>1. w \in Int /\ 0 \in Int
    BY <1>11
  <2> HIDE DEF w
  <2>2. Max({0, w}) = (IF 0 >= w THEN 0 ELSE w)
    BY <2>1, MaxOfTwo
  <2>3. QED
    BY <2>2 DEF w
<1>13. Max({0, Min({q, quantity - a})}) = u
  BY <1>1, <1>4, <1>7, <1>10, <1>12
<1>14. p * u = u * p
  BY <1>8, <1>9
<1>15. QED
  BY <1>3, <1>6, <1>13, <1>14 DEF i, u

LEMMA CostIsListed ==
    ASSUME NEW bids \in Seq(Levels), NEW quantity \in Nat
    PROVE  FillAt(bids, quantity, Len(bids)).cost = ListedCost(bids, quantity)
<1> DEFINE n == Len(bids)
           o == AskOrder(bids)
           c == ListedCosts(bids, quantity)
           P(k) == FirstLevels(bids, k)
           f(k) == FillAt(bids, quantity, k)
           N == {k \in Nat : k <= n => SumFunctionOnSet(c, P(k)) = f(k).cost}
<1>0. n \in Nat /\ DOMAIN bids = 1..n
  BY InvertedFacts
<1>1. o \in [1..n -> 1..n] /\ \A i \in 1..n : \E k \in 1..n : o[k] = i
  BY AskOrderFacts
<1>2. \A k \in 1..n : c[o[k]] = Units(bids, k, quantity) * Asks(bids)[k].price
  BY CostOfLevel
<1>3. \A k \in 1..n : Units(bids, k, quantity) * Asks(bids)[k].price \in Int
  <2> SUFFICES ASSUME NEW k \in 1..n PROVE Units(bids, k, quantity) * Asks(bids)[k].price \in Int
    OBVIOUS
  <2>1. Units(bids, k, quantity) \in Nat /\ Asks(bids)[k].price \in Int
    BY UnitsFacts, LevelFacts
  <2>2. QED
    BY <2>1
<1>4. \A i \in 1..n : c[i] \in Int
  <2> HIDE DEF c, o
  <2> SUFFICES ASSUME NEW i \in 1..n PROVE c[i] \in Int
    OBVIOUS
  <2>1. PICK k \in 1..n : o[k] = i
    BY <1>1
  <2>2. QED
    BY <1>2, <1>3, <2>1
<1>5. /\ P(0) = {} /\ P(n) = 1..n
      /\ \A k \in 1..n : P(k) = P(k - 1) \cup {o[k]} /\ o[k] \notin P(k - 1)
      /\ \A k \in 0..n : P(k) \in SUBSET (1..n) /\ IsFiniteSet(P(k))
  BY FirstLevelsFacts
<1>6. /\ f(0).cost = 0
      /\ \A k \in 1..n : f(k).cost = f(k - 1).cost + Units(bids, k, quantity) * Asks(bids)[k].price
      /\ \A k \in 0..n : f(k).cost \in Int
  <2>1. \A k \in 0..n : f(k) \in FillSet
    BY FillStarts
  <2>2. \A k \in 0..n : f(k).cost \in Int
    BY <2>1 DEF FillSet
  <2> HIDE DEF f
  <2>3. QED
    BY <2>2, FillGrows DEF f
<1> HIDE DEF c, o, P, f
<1>7. 0 \in N
  BY <1>5, <1>6, SumEmpty
<1>8. ASSUME NEW k \in N PROVE k + 1 \in N
  <2> SUFFICES ASSUME k + 1 <= n PROVE SumFunctionOnSet(c, P(k + 1)) = f(k + 1).cost
    OBVIOUS
  <2> DEFINE h == k + 1
  <2>1. h \in 1..n /\ h - 1 = k /\ k \in 0..n /\ SumFunctionOnSet(c, P(k)) = f(k).cost
    BY <1>0
  <2>2. o[h] \in 1..n
    BY <1>1, <2>1
  <2>3. P(h) = P(k) \cup {o[h]} /\ o[h] \notin P(k) /\ P(k) \in SUBSET (1..n) /\ IsFiniteSet(P(k))
    BY <1>5, <2>1
  <2>4. \A y \in P(k) \cup {o[h]} : c[y] \in Int
    BY <1>4, <2>2, <2>3
  <2> HIDE DEF h
  <2>5. SumFunctionOnSet(c, P(k) \cup {o[h]}) = c[o[h]] + SumFunctionOnSet(c, P(k))
    BY <2>3, <2>4, SumAdd
  <2> DEFINE e == Units(bids, h, quantity) * Asks(bids)[h].price
  <2>6. e \in Int /\ c[o[h]] = e /\ f(h).cost = f(k).cost + e /\ f(k).cost \in Int
    BY <1>2, <1>3, <1>6, <2>1
  <2> HIDE DEF e
  <2>7. SumFunctionOnSet(c, P(h)) = e + f(k).cost
    BY <2>1, <2>3, <2>5, <2>6
  <2>8. SumFunctionOnSet(c, P(h)) = f(h).cost
    BY <2>6, <2>7
  <2>9. QED
    BY <2>8 DEF h
<1>9. N \in SUBSET Nat
  OBVIOUS
<1> HIDE DEF N
<1>10. N = Nat
  BY <1>7, <1>8, <1>9, NaturalInduction
<1>11. SumFunctionOnSet(c, P(n)) = f(n).cost
  BY <1>0, <1>10 DEF N
<1>12. ListedCost(bids, quantity) = SumFunctionOnSet(c, 1..n)
  BY <1>0 DEF ListedCost, c
<1>13. QED
  BY <1>5, <1>11, <1>12 DEF f

CheapestAsk(bids) == Min({100 - bids[i].price : i \in DOMAIN bids})

(* An order that stays within the slippage.                                 *)
InBudget(bids, cents, quantity) ==
    ListedCost(bids, quantity) - CheapestAsk(bids) * quantity <= cents * quantity

LEMMA CheapestAskFacts ==
    ASSUME NEW bids \in Seq(Levels), bids # <<>>
    PROVE  CheapestAsk(bids) \in Int /\ CheapestAsk(bids) = Blank(Asks(bids)).best
<1> DEFINE n == Len(bids)
           o == AskOrder(bids)
           S == {100 - bids[i].price : i \in 1..n}
           p == Asks(bids)[1].price
<1>1. n \in Nat /\ DOMAIN bids = 1..n /\ n # 0 /\ \A i \in 1..n : bids[i].price \in Int
  BY InvertedFacts
<1>2. 1 \in 1..n
  BY <1>1
<1>3. o \in [1..n -> 1..n] /\ \A i \in 1..n : \E k \in 1..n : o[k] = i
  BY AskOrderFacts
<1>4. /\ Asks(bids) \in Seq(Levels) /\ Len(Asks(bids)) = n
      /\ \A k \in 1..n : Asks(bids)[k].price = 100 - bids[o[k]].price
      /\ \A j, k \in 1..n : j < k => Asks(bids)[j].price <= Asks(bids)[k].price
  <2>1. /\ Asks(bids) \in Seq(Levels) /\ Len(Asks(bids)) = n
        /\ \A k \in 1..n : Asks(bids)[k] = Level(100 - bids[o[k]].price, bids[o[k]].qty)
        /\ \A j, k \in 1..n : j < k => Asks(bids)[j].price <= Asks(bids)[k].price
    BY AsksFacts
  <2> HIDE DEF o
  <2>2. \A x, y : Level(x, y).price = x
    BY DEF Level
  <2>3. \A k \in 1..n : Asks(bids)[k].price = 100 - bids[o[k]].price
    BY <2>1, <2>2, Zenon
  <2>4. QED
    BY <2>1, <2>3
<1>5. p \in Int
  BY <1>2, LevelFacts
<1>6. p \in S
  <2>1. o[1] \in 1..n
    BY <1>2, <1>3
  <2>2. QED
    BY <1>2, <1>4, <2>1
<1>7. ASSUME NEW i \in 1..n PROVE p <= 100 - bids[i].price
  <2>1. PICK k \in 1..n : o[k] = i
    BY <1>3
  <2>2. Asks(bids)[k].price = 100 - bids[i].price
    BY <1>4, <2>1
  <2>3. p <= Asks(bids)[k].price
    <3>1. CASE k = 1
      BY <1>5, <3>1
    <3>2. CASE k # 1
      <4>1. 1 < k
        BY <1>1, <3>2
      <4>2. QED
        BY <1>2, <1>4, <4>1
    <3>3. QED
      BY <3>1, <3>2
  <2>4. QED
    BY <2>2, <2>3
<1>8. \A x \in S : p <= x /\ x \in Int
  BY <1>1, <1>7
<1>9. CheapestAsk(bids) = Min(S)
  BY <1>1 DEF CheapestAsk
<1> HIDE DEF S, p
<1>10. Min(S) \in S /\ \A x \in S : Min(S) <= x
  BY <1>6, <1>8 DEF Min
<1>11. Min(S) = p
  <2>1. Min(S) \in Int /\ p <= Min(S) /\ Min(S) <= p
    BY <1>6, <1>8, <1>10
  <2>2. QED
    BY <1>5, <2>1
<1>12. Asks(bids) # <<>>
  BY <1>1, <1>4
<1>13. QED
  BY <1>5, <1>9, <1>11, <1>12 DEF Blank, p

LEMMA AvailableIs ==
    ASSUME NEW bids \in Seq(Levels)
    PROVE  /\ Available(bids) = Quantity(bids, DOMAIN bids)
           /\ Available(bids) = DepthOf(bids, Len(bids))
           /\ Available(bids) \in Nat
           /\ Available(bids) > 0 => bids # <<>>
<1>1. Available(bids) = Quantity(bids, DOMAIN bids)
  BY DEF Available, Quantity, Quantities
<1>2. Len(bids) \in Nat /\ Len(bids) \in 0..Len(bids)
  BY InvertedFacts
<1>3. DepthOf(bids, Len(bids)) = Quantity(bids, DOMAIN bids) /\ DepthOf(bids, Len(bids)) \in Nat
  BY <1>2, DepthFacts
<1>4. ASSUME bids = <<>> PROVE Available(bids) = 0
  <2>1. DOMAIN bids = {}
    BY <1>4
  <2>2. QED
    BY <1>1, <2>1, SumEmpty DEF Quantity
<1>5. QED
  BY <1>1, <1>3, <1>4

LEMMA CostIsInteger ==
    ASSUME NEW bids \in Seq(Levels), NEW quantity \in Nat
    PROVE  ListedCost(bids, quantity) \in Int
<1>1. Len(bids) \in 0..Len(bids)
  BY InvertedFacts
<1>2. FillAt(bids, quantity, Len(bids)) \in FillSet
  BY <1>1, FillStarts
<1>3. FillAt(bids, quantity, Len(bids)).cost \in Int
  BY <1>2 DEF FillSet
<1>4. QED
  BY <1>3, CostIsListed

(* A size is safe if it is within the budget.                               *)
LEMMA SafeIs ==
    ASSUME NEW book, NEW side, book[Other(side)] \in Seq(Levels), NEW cents \in Nat,
           NEW quantity \in 1..Available(book[Other(side)])
    PROVE  /\ WalkBook(book, side, "buy", quantity).cost = ListedCost(book[Other(side)], quantity)
           /\ Safe(book, side, quantity, cents) <=> InBudget(book[Other(side)], cents, quantity)
<1> DEFINE bids == book[Other(side)]
           n == Len(bids)
           fill == FillAt(bids, quantity, n)
           best == CheapestAsk(bids)
           cost == ListedCost(bids, quantity)
<1>1. bids \in Seq(Levels) /\ n \in Nat /\ n \in 0..n
  BY InvertedFacts
<1>2. Available(bids) \in Nat /\ DepthOf(bids, n) = Available(bids) /\ (Available(bids) > 0 => bids # <<>>)
  BY AvailableIs
<1>3. quantity \in Nat /\ quantity >= 1 /\ quantity <= DepthOf(bids, n) /\ bids # <<>>
  BY <1>2
<1>4. Len(Asks(bids)) = n
  BY AsksFacts
<1>5. WalkBook(book, side, "buy", quantity) = fill
  BY <1>4, WalkIs DEF FillAt
<1>6. fill.cost = cost /\ cost \in Int
  BY <1>3, CostIsListed, CostIsInteger
<1>7. fill.filled = quantity
  <2>1. fill.filled = Lesser(quantity, DepthOf(bids, n))
    BY <1>1, <1>3, FillGrows
  <2>2. QED
    BY <1>3, <2>1 DEF Lesser
<1>8. fill.best = best /\ best \in Int
  <2>1. fill.best = Blank(Asks(bids)).best
    BY <1>1, <1>3, FillGrows
  <2>2. QED
    BY <1>3, <2>1, CheapestAskFacts
<1>9. Slippage(fill, "buy") = Max({0, fill.cost - fill.best * fill.filled})
  BY DEF Slippage
<1>10. Safe(book, side, quantity, cents) <=> Slippage(fill, "buy") <= cents * quantity
  BY <1>5, <1>7 DEF Safe
<1> HIDE DEF bids, fill, best, cost
<1>11. Slippage(fill, "buy") = Max({0, cost - best * quantity})
  BY <1>6, <1>7, <1>8, <1>9
<1> DEFINE x == cost - best * quantity
           y == cents * quantity
<1>12. x \in Int /\ y \in Nat
  <2>1. best * quantity \in Int
    BY <1>3, <1>8
  <2>2. QED
    BY <1>3, <1>6, <2>1
<1>13. InBudget(bids, cents, quantity) <=> x <= y
  BY DEF InBudget, best, cost
<1>14. Slippage(fill, "buy") <= cents * quantity <=> x <= y
  <2>1. Slippage(fill, "buy") = Max({0, x})
    BY <1>11
  <2> HIDE DEF x
  <2>2. Max({0, x}) = (IF 0 >= x THEN 0 ELSE x)
    BY <1>12, MaxOfTwo
  <2>3. cents * quantity = y
    OBVIOUS
  <2> HIDE DEF y
  <2>4. QED
    BY <1>12, <2>1, <2>2, <2>3
<1>15. QED
  BY <1>5, <1>6, <1>10, <1>13, <1>14 DEF bids, cost

(* If one contract more stays within it, so does the order without it.      *)
LEMMA BudgetShrinks ==
    ASSUME NEW bids \in Seq(Levels), NEW cents \in Nat, NEW quantity \in Nat,
           quantity >= 1, quantity < Available(bids), InBudget(bids, cents, quantity + 1)
    PROVE  InBudget(bids, cents, quantity)
<1> DEFINE n == Len(bids)
           old == ListedCost(bids, quantity)
           new == ListedCost(bids, quantity + 1)
           best == CheapestAsk(bids)
           x == best + cents
<1>1. Available(bids) \in Nat /\ DepthOf(bids, n) = Available(bids) /\ bids # <<>>
  BY AvailableIs
<1>2. quantity + 1 \in Nat
  OBVIOUS
<1>3. /\ FillAt(bids, quantity, n).cost = old
      /\ FillAt(bids, quantity + 1, n).cost = new
      /\ old \in Int /\ new \in Int
  BY <1>2, CostIsListed, CostIsInteger
<1>4. ~(DepthOf(bids, n) <= quantity)
  BY <1>1
<1>5. PICK price \in Int : new = old + price /\ old <= price * quantity
  BY <1>3, <1>4, OneMoreCosts DEF OneMore
<1>6. best \in Int /\ x \in Int
  BY <1>1, CheapestAskFacts
<1>7. new - best * (quantity + 1) <= cents * (quantity + 1)
  BY DEF InBudget
<1>8. SUFFICES old - best * quantity <= cents * quantity
  BY DEF InBudget
<1> HIDE DEF old, new, best, n
<1>9. /\ x * quantity = best * quantity + cents * quantity
      /\ x * (quantity + 1) = x * quantity + x
      /\ x * (quantity + 1) = best * (quantity + 1) + cents * (quantity + 1)
  BY <1>6
<1>10. /\ best * quantity \in Int /\ cents * quantity \in Int /\ x * quantity \in Int
       /\ best * (quantity + 1) \in Int /\ cents * (quantity + 1) \in Int
       /\ price * quantity \in Int
  BY <1>5, <1>6
<1> HIDE DEF x
<1>11. old + price <= x * quantity + x
  BY <1>3, <1>5, <1>6, <1>7, <1>9, <1>10
<1>12. old <= x * quantity
  <2>1. CASE price <= x
    <3>1. price * quantity <= x * quantity
      BY <1>5, <1>6, <2>1
    <3>2. QED
      BY <1>3, <1>5, <1>10, <3>1
  <2>2. CASE ~(price <= x)
    BY <1>3, <1>5, <1>6, <1>10, <1>11, <2>2
  <2>3. QED
    BY <2>1, <2>2
<1>13. QED
  BY <1>3, <1>9, <1>10, <1>12

(* The sizes within the budget are those up to the largest.                 *)
Largest(bids, cents) == Max({0} \union {n \in 1..Available(bids) : InBudget(bids, cents, n)})

LEMMA LargestFacts ==
    ASSUME NEW bids \in Seq(Levels), NEW cents \in Nat
    PROVE  /\ Largest(bids, cents) \in 0..Available(bids)
           /\ \A n \in 1..Available(bids) : InBudget(bids, cents, n) <=> n <= Largest(bids, cents)
<1> DEFINE a == Available(bids)
           W == {n \in 1..a : InBudget(bids, cents, n)}
           S == {0} \union W
           m == Largest(bids, cents)
<1>1. a \in Nat
  BY AvailableIs
<1>2. S \in SUBSET (0..a) /\ S # {}
  BY <1>1
<1> HIDE DEF a, W
<1>3. Max(S) \in S /\ \A y \in S : y <= Max(S)
  <2> HIDE DEF S
  <2> DEFINE N == {a - y : y \in S}
  <2>1. N \in SUBSET Nat /\ N # {}
    <3>1. \A y \in S : a - y \in Nat
      BY <1>1, <1>2
    <3>2. QED
      BY <1>2, <3>1
  <2>2. PICK k \in N : \A l \in N : k <= l
    BY <2>1, LeastNatural
  <2>3. PICK x \in S : k = a - x
    OBVIOUS
  <2>4. \A y \in S : x >= y
    <3> SUFFICES ASSUME NEW y \in S PROVE x >= y
      OBVIOUS
    <3>1. a - x <= a - y
      BY <2>2, <2>3
    <3>2. x \in Int /\ y \in Int
      BY <1>2
    <3>3. QED
      BY <1>1, <3>1, <3>2
  <2>5. Max(S) \in S /\ \A y \in S : Max(S) >= y
    BY <2>3, <2>4 DEF Max
  <2>6. \A y \in S : y \in Int
    BY <1>2
  <2>7. QED
    BY <2>5, <2>6
<1>4. m = Max(S)
  BY DEF Largest, W, a
<1> HIDE DEF m
<1>5. m \in 0..a /\ m \in S /\ \A y \in S : y <= m
  BY <1>2, <1>3, <1>4
<1> DEFINE N == {d \in Nat : d < m => m - d \in W}
<1>6. 0 \in N
  BY <1>1, <1>5
<1>7. ASSUME NEW d \in N PROVE d + 1 \in N
  <2> SUFFICES ASSUME d + 1 < m PROVE m - (d + 1) \in W
    OBVIOUS
  <2> DEFINE n == m - (d + 1)
  <2>1. n \in Nat /\ n >= 1 /\ n + 1 = m - d /\ n < a /\ d < m /\ n \in 1..a
    BY <1>1, <1>5
  <2>2. m - d \in W
    BY <2>1
  <2>3. InBudget(bids, cents, n + 1)
    <3>1. InBudget(bids, cents, m - d)
      BY <2>2 DEF W
    <3>2. QED
      BY <2>1, <3>1
  <2> HIDE DEF n
  <2>4. InBudget(bids, cents, n)
    BY <2>1, <2>3, BudgetShrinks DEF a
  <2>5. n \in W
    BY <2>1, <2>4 DEF W
  <2>6. QED
    BY <2>5 DEF n
<1>8. N \in SUBSET Nat
  OBVIOUS
<1> HIDE DEF N
<1>9. N = Nat
  BY <1>6, <1>7, <1>8, NaturalInduction
<1>10. ASSUME NEW n \in 1..a PROVE InBudget(bids, cents, n) <=> n <= m
  <2>1. ASSUME InBudget(bids, cents, n) PROVE n <= m
    <3>1. n \in S
      BY <2>1 DEF W
    <3>2. QED
      BY <1>5, <3>1
  <2>2. ASSUME n <= m PROVE InBudget(bids, cents, n)
    <3>1. m - n \in Nat /\ m - n < m /\ m - (m - n) = n
      BY <1>1, <1>5, <2>2
    <3>2. n \in W
      BY <1>9, <3>1 DEF N
    <3>3. QED
      BY <3>2 DEF W
  <2>3. QED
    BY <2>1, <2>2
<1>11. QED
  BY <1>5, <1>10 DEF a, m

(* The binary search over sizes.                                            *)
SearchStep(search, book, side, cents, low, high) ==
    LET mid == (low + high) \div 2
    IN  IF Searched(low, high) THEN low - 1
        ELSE IF Safe(book, side, mid, cents) THEN search[<<mid + 1, high>>]
        ELSE search[<<low, mid - 1>>]

Search(book, side, cents, possible) ==
    CHOOSE search :
        search = [range \in (1..possible + 1) \X (0..possible) |->
                    SearchStep(search, book, side, cents, range[1], range[2])]

LEMMA SizeIsSearched ==
    ASSUME NEW book, NEW side, NEW cents
    PROVE  MaxSafeSize(book, side, cents) =
              Search(book, side, cents, Available(book[Other(side)]))[<<1, Available(book[Other(side)])>>]
  BY DEF MaxSafeSize, Search, SearchStep

(* What the search finds between low and high.                              *)
Answer(low, high, largest) ==
    IF low > high THEN low - 1
    ELSE IF largest < low THEN low - 1
    ELSE IF high < largest THEN high ELSE largest

LEMMA AnswerStep ==
    ASSUME NEW low \in Nat, NEW high \in Nat, NEW largest \in Nat,
           NEW mid \in Nat, low <= mid, mid <= high
    PROVE  /\ mid <= largest => Answer(mid + 1, high, largest) = Answer(low, high, largest)
           /\ ~(mid <= largest) => Answer(low, mid - 1, largest) = Answer(low, high, largest)
  BY DEF Answer

LEMMA SearchFinds ==
    ASSUME NEW book, NEW side, book[Other(side)] \in Seq(Levels), NEW cents \in Nat
    PROVE  MaxSafeSize(book, side, cents) = Largest(book[Other(side)], cents)
<1> DEFINE bids == book[Other(side)]
           a == Available(bids)
           m == Largest(bids, cents)
           D == (1..a + 1) \X (0..a)
           g == [range \in D |-> Answer(range[1], range[2], m)]
<1>1. a \in Nat /\ m \in 0..a
  BY AvailableIs, LargestFacts
<1>2. \A n \in 1..a : Safe(book, side, n, cents) <=> n <= m
  <2> SUFFICES ASSUME NEW n \in 1..a PROVE Safe(book, side, n, cents) <=> n <= m
    OBVIOUS
  <2>1. Safe(book, side, n, cents) <=> InBudget(bids, cents, n)
    BY SafeIs
  <2>2. QED
    BY <2>1, LargestFacts
<1> HIDE DEF bids, a, m
<1>3. ASSUME NEW low \in 1..a + 1, NEW high \in 0..a
      PROVE  /\ low > high => \A s : SearchStep(s, book, side, cents, low, high) = Answer(low, high, m)
             /\ low <= high =>
                   \E low2 \in 1..a + 1, high2 \in 0..a :
                      /\ high2 - low2 < high - low
                      /\ \A s : SearchStep(s, book, side, cents, low, high) = s[<<low2, high2>>]
                      /\ Answer(low2, high2, m) = Answer(low, high, m)
  <2>1. CASE low > high
    <3>1. ~(low <= high)
      BY <1>1, <2>1
    <3>2. QED
      BY <2>1, <3>1 DEF SearchStep, Searched, Answer
  <2>2. CASE low <= high
    <3> DEFINE mid == (low + high) \div 2
    <3>1. low \in Nat /\ high \in Nat /\ m \in Nat /\ ~(low > high)
      BY <1>1, <2>2
    <3>9. mid \in Nat /\ low <= mid /\ mid <= high
      BY <2>2, <3>1
    <3>3. \A s : SearchStep(s, book, side, cents, low, high) =
                    IF Safe(book, side, mid, cents) THEN s[<<mid + 1, high>>] ELSE s[<<low, mid - 1>>]
      BY <3>1 DEF SearchStep, Searched
    <3> HIDE DEF mid
    <3>2. /\ mid \in Nat /\ low <= mid /\ mid <= high
          /\ mid <= m => Answer(mid + 1, high, m) = Answer(low, high, m)
          /\ ~(mid <= m) => Answer(low, mid - 1, m) = Answer(low, high, m)
      BY <3>1, <3>9, AnswerStep
    <3>4. mid \in 1..a
      BY <1>1, <3>1, <3>2
    <3>5. Safe(book, side, mid, cents) <=> mid <= m
      BY <1>2, <3>4
    <3>6. CASE mid <= m
      <4>1. mid + 1 \in 1..a + 1 /\ high - (mid + 1) < high - low
        BY <1>1, <3>1, <3>2, <3>4
      <4>2. \A s : SearchStep(s, book, side, cents, low, high) = s[<<mid + 1, high>>]
        BY <3>3, <3>5, <3>6
      <4>3. QED
        BY <3>1, <3>2, <3>6, <4>1, <4>2
    <3>7. CASE ~(mid <= m)
      <4>1. mid - 1 \in 0..a /\ (mid - 1) - low < high - low
        BY <1>1, <3>1, <3>2, <3>4
      <4>2. \A s : SearchStep(s, book, side, cents, low, high) = s[<<low, mid - 1>>]
        BY <3>3, <3>5, <3>7
      <4>3. QED
        BY <3>1, <3>2, <3>7, <4>1, <4>2
    <3>8. QED
      BY <3>6, <3>7
  <2>3. low > high \/ low <= high
    BY <1>1
  <2>4. QED
    BY <2>1, <2>2, <2>3
<1>4. \A low \in 1..a + 1, high \in 0..a : g[<<low, high>>] = Answer(low, high, m)
  OBVIOUS
<1>5. g = [range \in D |-> SearchStep(g, book, side, cents, range[1], range[2])]
  <2> SUFFICES ASSUME NEW range \in D
               PROVE  g[range] = SearchStep(g, book, side, cents, range[1], range[2])
    BY DEF g
  <2>1. PICK low \in 1..a + 1, high \in 0..a : range = <<low, high>>
    OBVIOUS
  <2>2. range[1] = low /\ range[2] = high /\ g[range] = Answer(low, high, m)
    BY <1>4, <2>1
  <2> HIDE DEF g, D
  <2>3. SearchStep(g, book, side, cents, low, high) = Answer(low, high, m)
    <3>1. CASE low > high
      BY <1>3, <3>1
    <3>2. CASE ~(low > high)
      <4>1. low <= high
        BY <1>1, <3>2
      <4>2. PICK low2 \in 1..a + 1, high2 \in 0..a :
                /\ \A s : SearchStep(s, book, side, cents, low, high) = s[<<low2, high2>>]
                /\ Answer(low2, high2, m) = Answer(low, high, m)
        BY <1>3, <4>1
      <4>3. QED
        BY <1>4, <4>2
    <3>3. QED
      BY <3>1, <3>2
  <2>4. QED
    BY <2>2, <2>3
<1> DEFINE f == Search(book, side, cents, a)
<1>6. f = [range \in D |-> SearchStep(f, book, side, cents, range[1], range[2])]
  <2> HIDE DEF g
  <2>1. \E s : s = [range \in D |-> SearchStep(s, book, side, cents, range[1], range[2])]
    BY <1>5
  <2>2. QED
    BY <2>1 DEF Search
<1> HIDE DEF f, g
<1>7. \A low \in 1..a + 1, high \in 0..a :
         f[<<low, high>>] = SearchStep(f, book, side, cents, low, high)
  BY <1>6
<1> HIDE DEF D
<1> DEFINE N == {d \in Nat : \A low \in 1..a + 1, high \in 0..a :
                    high - low < d => f[<<low, high>>] = Answer(low, high, m)}
<1>8. 0 \in N
  <2> SUFFICES ASSUME NEW low \in 1..a + 1, NEW high \in 0..a, high - low < 0
               PROVE  f[<<low, high>>] = Answer(low, high, m)
    OBVIOUS
  <2>1. low > high
    BY <1>1
  <2>2. QED
    BY <1>3, <1>7, <2>1
<1>9. ASSUME NEW d \in N PROVE d + 1 \in N
  <2> SUFFICES ASSUME NEW low \in 1..a + 1, NEW high \in 0..a, high - low < d + 1
               PROVE  f[<<low, high>>] = Answer(low, high, m)
    OBVIOUS
  <2>1. CASE low > high
    BY <1>3, <1>7, <2>1
  <2>2. CASE ~(low > high)
    <3>1. low <= high
      BY <1>1, <2>2
    <3>2. PICK low2 \in 1..a + 1, high2 \in 0..a :
              /\ high2 - low2 < high - low
              /\ \A s : SearchStep(s, book, side, cents, low, high) = s[<<low2, high2>>]
              /\ Answer(low2, high2, m) = Answer(low, high, m)
      BY <1>3, <3>1
    <3>3. high2 - low2 < d
      BY <1>1, <3>2
    <3>4. f[<<low2, high2>>] = Answer(low2, high2, m)
      BY <3>3
    <3>5. f[<<low, high>>] = f[<<low2, high2>>]
      BY <1>7, <3>2
    <3>6. QED
      BY <3>2, <3>4, <3>5
  <2>3. QED
    BY <2>1, <2>2
<1>10. N \in SUBSET Nat
  OBVIOUS
<1> HIDE DEF N
<1>11. N = Nat
  BY <1>8, <1>9, <1>10, NaturalInduction
<1>12. f[<<1, a>>] = Answer(1, a, m)
  <2>1. a \in N /\ 1 \in 1..a + 1 /\ a \in 0..a /\ a - 1 < a
    BY <1>1, <1>11
  <2>2. QED
    BY <2>1 DEF N
<1>13. Answer(1, a, m) = m
  BY <1>1 DEF Answer
<1>14. MaxSafeSize(book, side, cents) = f[<<1, a>>]
  BY SizeIsSearched DEF f, a, bids
<1>15. QED
  BY <1>12, <1>13, <1>14 DEF m, bids

LaddersOf == [yes : Seq(Levels), no : Seq(Levels)]

Sizes(book, cents) == [side \in {"yes", "no"} |-> MaxSafeSize(book, side, cents)]

(* What market liquidity shows.                                             *)
LiquidityShown ==
    /\ scan.opt \in Scans
    /\ scan.book \in Ladders
    /\ scan.rows = Sizes(scan.book, scan.opt.cents)

AtWork == {"status", "page", "rank", "book", "collect", "category", "history", "pairs", "compare"}

ScanInv ==
    /\ DOMAIN scan = DOMAIN NoScan /\ scan = [f \in DOMAIN NoScan |-> scan[f]]
    /\ InScan("market") \/ InScan("ladder") => scan.opt \in Scans /\ Runs("liquidity")
    /\ scan.stage \in AtWork => scan.opt \in Scans /\ ~Runs("liquidity")
    /\ InScan("shown") => scan.opt \in Scans /\ (Runs("liquidity") => LiquidityShown)

LEMMA NoScanIs ==
    /\ DOMAIN NoScan = {"opt", "stage", "status", "began", "page", "cut", "markets", "todo", "scores",
                        "kinds", "pairs", "book", "ranked", "rows"}
    /\ NoScan = [f \in DOMAIN NoScan |-> NoScan[f]]
    /\ NoScan.stage = "off"
  BY DEF NoScan

(* A step that leaves the command line, the orderbook and the rows alone.   *)
LEMMA ScanStageStep ==
    ASSUME ScanInv, scan.stage \in AtWork, NEW to \in AtWork \cup {"shown"},
           DOMAIN scan' = DOMAIN NoScan, scan' = [f \in DOMAIN NoScan |-> scan'[f]],
           scan'.opt = scan.opt, scan'.stage = to
    PROVE  ScanInv'
<1>1. scan.opt \in Scans /\ ~(scan.opt.cmd = "liquidity")
  BY DEF ScanInv, Runs
<1>2. ~(scan'.opt.cmd = "liquidity") /\ scan'.opt \in Scans
  BY <1>1
<1>3. to # "market" /\ to # "ladder"
  BY DEF AtWork
<1>4. DOMAIN NoScan' = DOMAIN NoScan
  BY DEF NoScan
<1>5. QED
  BY <1>2, <1>3, <1>4 DEF ScanInv, InScan, Runs

(* The shape of a command's record.                                         *)
Shaped(s) == DOMAIN s = DOMAIN NoScan /\ s = [f \in DOMAIN NoScan |-> s[f]]

LEMMA AtWorkStep ==
    ASSUME ScanInv, scan.stage \in AtWork, NEW next, scan' = next, Shaped(next),
           next.opt = scan.opt, next.stage \in AtWork \cup {"shown"}
    PROVE  ScanInv'
<1>1. DOMAIN scan' = DOMAIN NoScan /\ scan' = [f \in DOMAIN NoScan |-> scan'[f]]
  BY DEF Shaped
<1>2. scan'.opt = scan.opt /\ scan'.stage = next.stage
  OBVIOUS
<1>3. QED
  BY <1>1, <1>2, ScanStageStep

LEMMA AskStatusInv == ASSUME ScanInv, AskStatus PROVE ScanInv'
<1>1. PICK status : scan' = [scan EXCEPT !.status = status, !.stage = "page"]
  BY DEF AskStatus, Continue
<1>2. scan.stage \in AtWork
  BY DEF AskStatus, InScan, AtWork
<1> DEFINE next == [scan EXCEPT !.status = status, !.stage = "page"]
<1>3. Shaped(next) /\ next.opt = scan.opt /\ next.stage = "page"
  BY NoScanIs DEF ScanInv, Shaped
<1> HIDE DEF next
<1>4. QED
  BY <1>1, <1>2, <1>3, AtWorkStep DEF next, AtWork

LEMMA FetchPageInv == ASSUME ScanInv, FetchPage PROVE ScanInv'
<1>1. scan.stage \in AtWork /\ scan.stage = "page"
  BY DEF FetchPage, InScan, AtWork
<1>2. scan.opt.cmd \in {"opportunities", "new-markets", "movers", "arbitrage"}
  BY <1>1, ScanAssumption DEF ScanInv, Runs
<1> DEFINE page == scan.page + 1
           more == scan.markets \o (IF ByEvent THEN PageOfEvents(page) ELSE PageOfMarkets(page))
           over == LastPage(page) \/ page = scan.opt.maxPages
           cut == ~LastPage(page)
           todo == IF over /\ Runs("movers") THEN more ELSE scan.todo
           to == CASE Runs("opportunities") -> "rank" [] Runs("new-markets") -> "collect"
                      [] Runs("movers") -> "history" [] Runs("arbitrage") -> "pairs"
           st == IF over THEN to ELSE scan.stage
           next == [scan EXCEPT !.page = page, !.markets = more, !.cut = cut, !.todo = todo, !.ranked = hour,
                        !.stage = st]
<1>6. scan' = next
  BY DEF FetchPage, Continue
<1>4. to \in {"rank", "collect", "history", "pairs"}
  BY <1>2 DEF Runs
<1>5. st \in AtWork
  BY <1>1, <1>4 DEF AtWork
<1> HIDE DEF st, page, more, cut, todo
<1>7. Shaped(next) /\ next.opt = scan.opt /\ next.stage = st
  BY NoScanIs DEF ScanInv, Shaped
<1> HIDE DEF next
<1>8. QED
  BY <1>1, <1>5, <1>6, <1>7, AtWorkStep

(* A step that shows rows.                                                  *)
LEMMA ShownShape ==
    ASSUME ScanInv, NEW rows
    PROVE  Shaped(Shown(rows)) /\ Shown(rows).opt = scan.opt /\ Shown(rows).stage = "shown"
  BY NoScanIs DEF ScanInv, Shaped, Shown

LEMMA ShowStep ==
    ASSUME ScanInv, scan.stage \in AtWork, NEW rows, scan' = Shown(rows)
    PROVE  ScanInv'
<1>1. Shown(rows).stage \in AtWork \cup {"shown"}
  BY ShownShape
<1>2. QED
  BY <1>1, ShownShape, AtWorkStep

LEMMA RankInv == ASSUME ScanInv, Rank PROVE ScanInv'
<1>1. scan.stage \in AtWork
  BY DEF Rank, InScan, AtWork
<1>2. PICK best : \/ scan' = [scan EXCEPT !.todo = best, !.rows = best, !.ranked = hour, !.stage = "book"]
                  \/ scan' = [Shown(best) EXCEPT !.ranked = hour]
  BY DEF Rank, Continue
<1>3. CASE scan' = [scan EXCEPT !.todo = best, !.rows = best, !.ranked = hour, !.stage = "book"]
  <2> DEFINE next == [scan EXCEPT !.todo = best, !.rows = best, !.ranked = hour, !.stage = "book"]
  <2>1. Shaped(next) /\ next.opt = scan.opt /\ next.stage = "book"
    BY NoScanIs DEF ScanInv, Shaped
  <2> HIDE DEF next
  <2>2. QED
    BY <1>1, <1>3, <2>1, AtWorkStep DEF next, AtWork
<1>4. CASE scan' = [Shown(best) EXCEPT !.ranked = hour]
  <2> DEFINE next == [Shown(best) EXCEPT !.ranked = hour]
  <2>1. Shaped(next) /\ next.opt = scan.opt /\ next.stage = "shown"
    BY ShownShape, NoScanIs DEF Shaped
  <2> HIDE DEF next
  <2>2. QED
    BY <1>1, <1>4, <2>1, AtWorkStep DEF next
<1>5. QED
  BY <1>2, <1>3, <1>4

LEMMA ScoreNextInv == ASSUME ScanInv, ScoreNext PROVE ScanInv'
<1>1. scan.stage \in AtWork /\ scan.stage = "book"
  BY DEF ScoreNext, InScan, AtWork
<1>2. PICK k, score : scan' = [scan EXCEPT !.todo = Tail(@), !.scores[k] = score]
  BY DEF ScoreNext, Continue
<1> DEFINE next == [scan EXCEPT !.todo = Tail(@), !.scores[k] = score]
<1>3. Shaped(next) /\ next.opt = scan.opt /\ next.stage = scan.stage
  BY NoScanIs DEF ScanInv, Shaped
<1> HIDE DEF next
<1>4. QED
  BY <1>1, <1>2, <1>3, AtWorkStep DEF next

LEMMA ShowOpportunitiesInv == ASSUME ScanInv, ShowOpportunities PROVE ScanInv'
<1>1. scan.stage \in AtWork
  BY DEF ShowOpportunities, InScan, AtWork
<1>2. PICK rows : scan' = Shown(rows)
  BY DEF ShowOpportunities, Continue
<1>3. QED
  BY <1>1, <1>2, ShowStep

LEMMA CollectNewInv == ASSUME ScanInv, CollectNew PROVE ScanInv'
<1>1. scan.stage \in AtWork
  BY DEF CollectNew, InScan, AtWork
<1>2. PICK todo : scan' = [scan EXCEPT !.stage = "category", !.todo = todo]
  BY DEF CollectNew, Continue
<1> DEFINE next == [scan EXCEPT !.stage = "category", !.todo = todo]
<1>3. Shaped(next) /\ next.opt = scan.opt /\ next.stage = "category"
  BY NoScanIs DEF ScanInv, Shaped
<1> HIDE DEF next
<1>4. QED
  BY <1>1, <1>2, <1>3, AtWorkStep DEF next, AtWork

LEMMA BuildNewInv == ASSUME ScanInv, BuildNew PROVE ScanInv'
<1>1. scan.stage \in AtWork /\ scan.stage = "category"
  BY DEF BuildNew, InScan, AtWork
<1>2. \/ scan' = Shown(scan.rows)
      \/ \E e, kind, rows : scan' = [scan EXCEPT !.todo = Tail(@), !.kinds[e] = kind, !.rows = rows]
  BY DEF BuildNew, Continue
<1>3. CASE scan' = Shown(scan.rows)
  BY <1>1, <1>3, ShowStep
<1>4. ASSUME NEW e, NEW kind, NEW rows,
             scan' = [scan EXCEPT !.todo = Tail(@), !.kinds[e] = kind, !.rows = rows]
      PROVE  ScanInv'
  <2> DEFINE next == [scan EXCEPT !.todo = Tail(@), !.kinds[e] = kind, !.rows = rows]
  <2>1. Shaped(next) /\ next.opt = scan.opt /\ next.stage = scan.stage
    BY NoScanIs DEF ScanInv, Shaped
  <2> HIDE DEF next
  <2>2. QED
    BY <1>1, <1>4, <2>1, AtWorkStep DEF next
<1>5. QED
  BY <1>2, <1>3, <1>4

LEMMA ReadHistoryInv == ASSUME ScanInv, ReadHistory PROVE ScanInv'
<1>1. scan.stage \in AtWork /\ scan.stage = "history"
  BY DEF ReadHistory, InScan, AtWork
<1>2. \/ \E rows : scan' = Shown(rows)
      \/ \E rows : scan' = [scan EXCEPT !.todo = Tail(@), !.rows = rows]
  BY DEF ReadHistory, Continue
<1>3. ASSUME NEW rows, scan' = [scan EXCEPT !.todo = Tail(@), !.rows = rows]
      PROVE  ScanInv'
  <2> DEFINE next == [scan EXCEPT !.todo = Tail(@), !.rows = rows]
  <2>1. Shaped(next) /\ next.opt = scan.opt /\ next.stage = scan.stage
    BY NoScanIs DEF ScanInv, Shaped
  <2> HIDE DEF next
  <2>2. QED
    BY <1>1, <1>3, <2>1, AtWorkStep DEF next
<1>4. QED
  BY <1>1, <1>2, <1>3, ShowStep

LEMMA FindPairsInv == ASSUME ScanInv, FindPairs PROVE ScanInv'
<1>1. scan.stage \in AtWork
  BY DEF FindPairs, InScan, AtWork
<1>2. PICK pairs : scan' = [scan EXCEPT !.pairs = pairs, !.stage = IF scan.markets = <<>> THEN "shown" ELSE "compare"]
  BY DEF FindPairs, Continue
<1> DEFINE to == IF scan.markets = <<>> THEN "shown" ELSE "compare"
           next == [scan EXCEPT !.pairs = pairs, !.stage = to]
<1>3. to \in AtWork \cup {"shown"}
  BY DEF AtWork
<1>4. scan' = next
  BY <1>2
<1> HIDE DEF to
<1>5. Shaped(next) /\ next.opt = scan.opt /\ next.stage = to
  BY NoScanIs DEF ScanInv, Shaped
<1> HIDE DEF next
<1>6. QED
  BY <1>1, <1>3, <1>4, <1>5, AtWorkStep

LEMMA ShowArbitrageInv == ASSUME ScanInv, ShowArbitrage PROVE ScanInv'
<1>1. scan.stage \in AtWork
  BY DEF ShowArbitrage, InScan, AtWork
<1>2. PICK rows : scan' = Shown(rows)
  BY DEF ShowArbitrage, Continue
<1>3. QED
  BY <1>1, <1>2, ShowStep

LEMMA StartScanInv == ASSUME ScanInv, StartScan PROVE ScanInv'
<1>1. PICK opt \in Scans :
         scan' = [NoScan EXCEPT !.opt = opt, !.began = hour,
                      !.stage = CASE opt.cmd = "opportunities" -> "status"
                                  [] opt.cmd = "liquidity" -> "market"
                                  [] OTHER -> "page"]
  BY DEF StartScan, Continue
<1> DEFINE to == CASE opt.cmd = "opportunities" -> "status"
                      [] opt.cmd = "liquidity" -> "market"
                      [] OTHER -> "page"
           next == [NoScan EXCEPT !.opt = opt, !.began = hour, !.stage = to]
<1>2. /\ opt.cmd = "liquidity" => to = "market"
      /\ opt.cmd # "liquidity" => to \in {"status", "page"}
  OBVIOUS
<1>3. scan' = next
  BY <1>1
<1> HIDE DEF to
<1>4. Shaped(next) /\ next.opt = opt /\ next.stage = to
  BY NoScanIs DEF Shaped
<1> HIDE DEF next
<1>5. QED
  BY <1>2, <1>3, <1>4 DEF ScanInv, Shaped, InScan, Runs, AtWork, NoScan

LEMMA FailingInv == ASSUME ScanInv, Failing PROVE ScanInv'
<1>1. scan' = [NoScan EXCEPT !.stage = "failed"]
  BY DEF Failing, Continue
<1> DEFINE next == [NoScan EXCEPT !.stage = "failed"]
<1>2. Shaped(next) /\ next.stage = "failed"
  BY NoScanIs DEF Shaped
<1> HIDE DEF next
<1>3. QED
  BY <1>1, <1>2 DEF next, ScanInv, Shaped, InScan, AtWork, NoScan

LEMMA GetMarketInv == ASSUME ScanInv, GetMarket PROVE ScanInv'
<1>1. PICK markets : scan' = [scan EXCEPT !.markets = markets, !.stage = "ladder"]
  BY DEF GetMarket, Continue
<1>2. scan.opt \in Scans /\ scan.opt.cmd = "liquidity"
  BY DEF GetMarket, ScanInv, Runs
<1> DEFINE next == [scan EXCEPT !.markets = markets, !.stage = "ladder"]
<1>3. Shaped(next) /\ next.opt = scan.opt /\ next.stage = "ladder"
  BY NoScanIs DEF ScanInv, Shaped
<1> HIDE DEF next
<1>4. QED
  BY <1>1, <1>2, <1>3 DEF next, ScanInv, Shaped, InScan, Runs, AtWork, NoScan

LEMMA GetOrderbookInv == ASSUME ScanInv, GetOrderbook PROVE ScanInv'
<1>1. PICK book \in Ladders :
         scan' = [scan EXCEPT !.book = book, !.stage = "shown", !.rows = Sizes(book, scan.opt.cents)]
  BY DEF GetOrderbook, Continue, Sizes
<1>2. scan.opt \in Scans /\ scan.opt.cmd = "liquidity"
  BY DEF GetOrderbook, ScanInv, Runs
<1> DEFINE rows == Sizes(book, scan.opt.cents)
           next == [scan EXCEPT !.book = book, !.stage = "shown", !.rows = rows]
<1>3. scan' = next
  BY <1>1
<1> HIDE DEF rows
<1>4. Shaped(next) /\ next.opt = scan.opt /\ next.stage = "shown" /\ next.book = book /\ next.rows = rows
  BY NoScanIs DEF ScanInv, Shaped
<1> HIDE DEF next
<1>5. scan'.rows = Sizes(scan'.book, scan'.opt.cents) /\ scan'.book \in Ladders
  BY <1>3, <1>4 DEF rows
<1>6. LiquidityShown'
  BY <1>2, <1>3, <1>4, <1>5 DEF LiquidityShown, Sizes
<1>7. QED
  BY <1>2, <1>3, <1>4, <1>6 DEF ScanInv, Shaped, InScan, Runs, AtWork, NoScan

LEMMA ScanUntouched == ASSUME ScanInv, scan' = scan PROVE ScanInv'
  BY DEF ScanInv, InScan, Runs, AtWork, LiquidityShown, NoScan, Sizes

LEMMA ScanInitInv == ASSUME ScanInit PROVE ScanInv
  BY NoScanIs DEF ScanInit, ScanInv, InScan, AtWork

LEMMA NextScanInv == ASSUME ScanInv, [ScanNext]_screen PROVE ScanInv'
<1>1. CASE Change
  BY <1>1, ScanUntouched DEF Change
<1>2. CASE UNCHANGED screen
  BY <1>2, ScanUntouched DEF screen
<1>3. QED
  BY <1>1, <1>2, StartScanInv, AskStatusInv, FetchPageInv, FailingInv, RankInv, ScoreNextInv,
     ShowOpportunitiesInv, CollectNewInv, BuildNewInv, ReadHistoryInv, FindPairsInv, ShowArbitrageInv,
     GetMarketInv, GetOrderbookInv DEF ScanNext

(* What is shown of an orderbook is right.                                  *)
LEMMA SizesRight == ASSUME ScanInv PROVE SizingSound
<1> SUFFICES ASSUME scan.stage = "shown", Runs("liquidity"), NEW side \in {"yes", "no"}
             PROVE  LET bids == scan.book[Other(side)]
                    IN  /\ scan.rows[side] = Largest(bids, scan.opt.cents)
                        /\ \A n \in 1..Available(bids) :
                              WalkBook(scan.book, side, "buy", n).cost = ListedCost(bids, n)
  <2>1. \A bids : Quantity(bids, DOMAIN bids) = Available(bids)
    BY DEF Quantity, Quantities, Available
  <2>2. QED
    BY <2>1 DEF SizingSound, Largest, InBudget, CheapestAsk, ListedCost, ListedCosts, Quantity, Quantities,
                CheaperThan
<1> DEFINE bids == scan.book[Other(side)]
<1>1. LiquidityShown
  BY DEF ScanInv, InScan
<1>2. scan.book \in Ladders /\ scan.opt.cents \in Nat /\ scan.rows[side] = MaxSafeSize(scan.book, side, scan.opt.cents)
  BY <1>1, ScanAssumption DEF LiquidityShown, Runs, Sizes
<1>3. scan.book \in LaddersOf
  BY <1>2, ScanAssumption DEF LaddersOf, Levels, Sides
<1>4. bids \in Seq(Levels)
  BY <1>3 DEF LaddersOf, Other
<1>5. MaxSafeSize(scan.book, side, scan.opt.cents) = Largest(bids, scan.opt.cents)
  BY <1>2, <1>4, SearchFinds
<1>6. \A n \in 1..Available(bids) : WalkBook(scan.book, side, "buy", n).cost = ListedCost(bids, n)
  BY <1>2, <1>4, SafeIs
<1>7. QED
  BY <1>2, <1>5, <1>6

(* For every orderbook and every slippage: the size market liquidity gives  *)
(* for a side (max_safe_order_size) is the largest order that stays within  *)
(* the slippage, and an order of any size takes the cheapest contracts that *)
(* are listed (estimate_slippage).                                          *)
THEOREM SizesAreRight == ScanSpec => []SizingSound
<1>1. ScanInit => ScanInv
  BY ScanInitInv
<1>2. ScanInv /\ [ScanNext]_screen => ScanInv'
  BY NextScanInv
<1>3. ScanInv => SizingSound
  BY SizesRight
<1>4. QED
  BY <1>1, <1>2, <1>3, PTL DEF ScanSpec

----
(* The rows of the scans: what is listed in order.                         *)

(* Indices that can be put in order by a key, and a list of them in order.  *)
Sortable(S, key) == S \in SUBSET Int /\ IsFiniteSet(S) /\ \A i \in S : key[i] \in Int

Enumerates(f, S, key) ==
    /\ f \in [1..Cardinality(S) -> S]
    /\ \A i \in S : \E p \in 1..Cardinality(S) : f[p] = i
    /\ \A p, q \in 1..Cardinality(S) : p < q <=> Before(key, f[p], f[q])
    /\ \A p, q \in 1..Cardinality(S) : f[p] = f[q] => p = q

LEMMA OrderEnumerates ==
    ASSUME NEW S, NEW key, Sortable(S, key)
    PROVE  Enumerates(Order(S, key), S, key) /\ Cardinality(S) \in Nat
  BY OrderFacts, FS_CardinalityType DEF Sortable, Enumerates

LEMMA UpTo == ASSUME NEW n \in Int, n >= 0 PROVE IsFiniteSet(1..n) /\ Cardinality(1..n) = n
<1>1. 1 \in Int
  OBVIOUS
<1>2. IsFiniteSet(1..n) /\ Cardinality(1..n) = IF 1 > n THEN 0 ELSE n - 1 + 1
  BY <1>1, FS_Interval
<1>3. QED
  BY <1>2

(* As many come before a listed index as are listed before it.              *)
Leading(S, key, i) == {j \in S : Before(key, j, i)}

LEMMA LeadingCounted ==
    ASSUME NEW S, NEW key, Sortable(S, key), NEW f, Enumerates(f, S, key), NEW p \in 1..Cardinality(S)
    PROVE  Cardinality(Leading(S, key, f[p])) = p - 1
<1> DEFINE n == Cardinality(S)
           g == [q \in 1..(p - 1) |-> f[q]]
           T == Leading(S, key, f[p])
<1>1. n \in Nat /\ p \in 1..n /\ \A q \in 1..(p - 1) : q \in 1..n /\ q < p
  BY FS_CardinalityType DEF Sortable
<1>2. \A q \in 1..(p - 1) : f[q] \in T
  BY <1>1 DEF Enumerates, Leading
<1>3. \A i \in T : \E q \in 1..(p - 1) : f[q] = i
  <2> SUFFICES ASSUME NEW i \in S, Before(key, i, f[p])
               PROVE  \E q \in 1..(p - 1) : f[q] = i
    BY DEF Leading
  <2>1. PICK q \in 1..n : f[q] = i
    BY DEF Enumerates
  <2>2. q < p
    BY <1>1, <2>1 DEF Enumerates
  <2>3. QED
    BY <1>1, <2>1, <2>2
<1>4. \A a, b \in 1..(p - 1) : f[a] = f[b] => a = b
  BY <1>1 DEF Enumerates
<1>5. g \in Bijection(1..(p - 1), T)
  BY <1>2, <1>3, <1>4 DEF Bijection, Injection, Surjection, IsInjective
<1>6. IsFiniteSet(1..(p - 1)) /\ Cardinality(1..(p - 1)) = p - 1
  BY <1>1, UpTo
<1>7. QED
  BY <1>5, <1>6, FS_Bijection DEF ExistsBijection

(* Places of a list, in order, and the list g of what f has at them.        *)
Places(e, n, last) == e \in [1..n -> 1..last] /\ \A p, q \in 1..n : p < q => e[p] < e[q]

Through(g, f, e, n, T) ==
    /\ g \in [1..n -> T]
    /\ \A p \in 1..n : g[p] = f[e[p]]
    /\ \A i \in T : \E p \in 1..n : g[p] = i

LEMMA PlacesEnumerate ==
    ASSUME NEW S, NEW key, Sortable(S, key), NEW f, Enumerates(f, S, key),
           NEW n \in Nat, NEW e, Places(e, n, Cardinality(S)), NEW T, NEW g, Through(g, f, e, n, T)
    PROVE  /\ T \in SUBSET S /\ Sortable(T, key) /\ Cardinality(T) = n
           /\ Enumerates(g, T, key)
<1> USE DEF Places, Through
<1>1. Cardinality(S) \in Nat
  BY FS_CardinalityType DEF Sortable
<1>2. T \in SUBSET S
  <2> SUFFICES ASSUME NEW i \in T PROVE i \in S
    OBVIOUS
  <2>1. PICK p \in 1..n : g[p] = i
    OBVIOUS
  <2>2. f[e[p]] = i /\ e[p] \in 1..Cardinality(S)
    BY <2>1
  <2>3. QED
    BY <2>2 DEF Enumerates
<1>3. \A p, q \in 1..n : p < q <=> e[p] < e[q]
  <2> SUFFICES ASSUME NEW p \in 1..n, NEW q \in 1..n, e[p] < e[q] PROVE p < q
    OBVIOUS
  <2>1. e[p] \in Int /\ e[q] \in Int
    BY <1>1
  <2>2. q < p => e[q] < e[p]
    OBVIOUS
  <2>3. QED
    BY <2>1, <2>2
<1>4. \A p, q \in 1..n : f[e[p]] = f[e[q]] => p = q
  <2> SUFFICES ASSUME NEW p \in 1..n, NEW q \in 1..n, f[e[p]] = f[e[q]] PROVE p = q
    OBVIOUS
  <2>1. e[p] = e[q]
    BY DEF Enumerates
  <2>2. e[p] \in Int /\ e[q] \in Int
    BY <1>1
  <2>3. QED
    BY <1>3, <2>1, <2>2
<1>5. (\A p, q \in 1..n : g[p] = g[q] => p = q) /\ \A i \in T : \E p \in 1..n : g[p] = i
  BY <1>4
<1>6. g \in Bijection(1..n, T)
  BY <1>5 DEF Bijection, Injection, Surjection, IsInjective
<1>7. IsFiniteSet(T) /\ Cardinality(T) = n
  <2>1. IsFiniteSet(1..n) /\ Cardinality(1..n) = n
    BY UpTo
  <2>2. QED
    BY <1>6, <2>1, FS_Bijection DEF ExistsBijection
<1>8. Sortable(T, key)
  BY <1>2, <1>7 DEF Sortable
<1>9. \A p, q \in 1..n : p < q <=> Before(key, g[p], g[q])
  BY <1>3 DEF Enumerates
<1>10. \A i \in T : \E p \in 1..n : g[p] = i
  OBVIOUS
<1>11. Enumerates(g, T, key)
  BY <1>5, <1>7, <1>9, <1>10 DEF Enumerates
<1>12. QED
  BY <1>2, <1>7, <1>8, <1>11

(* The first n.                                                             *)
TopOf(S, key, n) == {i \in S : Cardinality(Leading(S, key, i)) < n}

Lowest(a, b) == IF a <= b THEN a ELSE b

LEMMA TopIsListed ==
    ASSUME NEW S, NEW key, Sortable(S, key), NEW f, Enumerates(f, S, key), NEW n \in Nat
    PROVE  LET m == Lowest(n, Cardinality(S))
           IN  /\ m \in Nat /\ Cardinality(TopOf(S, key, n)) = m
               /\ Sortable(TopOf(S, key, n), key)
               /\ Enumerates([p \in 1..m |-> f[p]], TopOf(S, key, n), key)
<1> DEFINE c == Cardinality(S)
           m == Lowest(n, c)
           e == [p \in 1..m |-> p]
           T == {f[e[p]] : p \in 1..m}
<1>1. c \in Nat
  BY FS_CardinalityType DEF Sortable
<1>2. m \in Nat /\ \A p \in 1..c : p \in 1..m <=> p - 1 < n
  BY <1>1 DEF Lowest
<1>3. m <= c
  BY <1>1 DEF Lowest
<1> HIDE DEF m
<1>4. Places(e, m, c)
  BY <1>1, <1>2, <1>3 DEF Places
<1>5. T = TopOf(S, key, n)
  <2>1. ASSUME NEW p \in 1..m PROVE f[p] \in TopOf(S, key, n)
    <3>1. p \in 1..c /\ p - 1 < n
      BY <1>1, <1>2, <1>3
    <3>2. f[p] \in S
      BY <3>1 DEF Enumerates
    <3>3. Cardinality(Leading(S, key, f[p])) < n
      BY <3>1, LeadingCounted
    <3>4. QED
      BY <3>2, <3>3 DEF TopOf
  <2>2. ASSUME NEW i \in TopOf(S, key, n) PROVE \E p \in 1..m : f[p] = i
    <3>1. PICK p \in 1..c : f[p] = i
      BY DEF TopOf, Enumerates
    <3>2. p - 1 < n
      BY <3>1, LeadingCounted DEF TopOf
    <3>3. QED
      BY <1>2, <3>1, <3>2
  <2>3. \A p \in 1..m : e[p] = p
    OBVIOUS
  <2> HIDE DEF e
  <2>4. QED
    BY <2>1, <2>2, <2>3
<1>6. [p \in 1..m |-> f[e[p]]] = [p \in 1..m |-> f[p]]
  OBVIOUS
<1> DEFINE g == [p \in 1..m |-> f[e[p]]]
<1> HIDE DEF e, T, g
<1>7. Cardinality(T) = m /\ Sortable(T, key) /\ Enumerates(g, T, key)
  <2>1. m \in Nat /\ Through(g, f, e, m, T)
    BY <1>2 DEF T, g, Through
  <2>2. QED
    BY <1>4, <2>1, PlacesEnumerate
<1>8. QED
  BY <1>2, <1>5, <1>6, <1>7 DEF m, g

LEMMA FirstOfFacts ==
    ASSUME NEW T, NEW seq \in Seq(T), NEW n \in Nat
    PROVE  /\ FirstOf(seq, n) \in Seq(T)
           /\ Len(FirstOf(seq, n)) = Lowest(n, Len(seq))
           /\ \A i \in 1..Lowest(n, Len(seq)) : FirstOf(seq, n)[i] = seq[i]
<1> DEFINE m == Lowest(n, Len(seq))
<1>1. Min({n, Len(seq)}) = m
  BY MinOfTwo DEF Lowest
<1>2. m \in Nat /\ m <= Len(seq)
  BY DEF Lowest
<1>3. FirstOf(seq, n) = SubSeq(seq, 1, m)
  BY <1>1 DEF FirstOf
<1> HIDE DEF m
<1>4. QED
  BY <1>2, <1>3 DEF m

LEMMA PickedFacts ==
    ASSUME NEW T, NEW seq \in Seq(T), NEW n \in Nat, NEW order \in [1..n -> DOMAIN seq]
    PROVE  /\ Picked(seq, order) \in Seq(T) /\ Len(Picked(seq, order)) = n
           /\ \A p \in 1..n : Picked(seq, order)[p] = seq[order[p]]
<1>1. Picked(seq, order) = [p \in 1..n |-> seq[order[p]]]
  BY DEF Picked
<1>2. \A p \in 1..n : seq[order[p]] \in T
  OBVIOUS
<1>3. QED
  BY <1>1, <1>2

(* What a comprehension keeps and where it was.                             *)
KeptFrom(e, seq, S, T) ==
    /\ Places(e, Cardinality(S), Len(seq)) /\ Cardinality(S) \in Nat
    /\ Kept(seq, S) \in Seq(T) /\ Len(Kept(seq, S)) = Cardinality(S)
    /\ \A p \in 1..Cardinality(S) : e[p] \in S /\ Kept(seq, S)[p] = seq[e[p]]
    /\ \A i \in S : \E p \in 1..Cardinality(S) : e[p] = i

LEMMA KeptFacts ==
    ASSUME NEW T, NEW seq \in Seq(T), NEW S \in SUBSET DOMAIN seq
    PROVE  \E e : KeptFrom(e, seq, S, T)
<1> DEFINE key == [i \in S |-> i]
           e == Order(S, key)
           n == Cardinality(S)
<1>1. DOMAIN seq = 1..Len(seq) /\ Len(seq) \in Nat
  OBVIOUS
<1>2. IsFiniteSet(S)
  BY <1>1, UpTo, FS_Subset
<1>3. Sortable(S, key)
  BY <1>1, <1>2 DEF Sortable
<1>4. Enumerates(e, S, key) /\ n \in Nat
  BY <1>3, OrderEnumerates
<1> HIDE DEF e
<1>5. \A p, q \in 1..n : p < q => e[p] < e[q]
  <2>1. \A p \in 1..n : e[p] \in S /\ e[p] \in Int /\ key[e[p]] = e[p]
    BY <1>1, <1>4 DEF Enumerates
  <2>2. QED
    BY <1>4, <2>1 DEF Enumerates, Before
<1>6. e \in [1..n -> DOMAIN seq] /\ e \in [1..n -> S]
  BY <1>4 DEF Enumerates
<1>7. Kept(seq, S) = Picked(seq, e)
  BY DEF Kept, e
<1>8. Kept(seq, S) \in Seq(T) /\ Len(Kept(seq, S)) = n
      /\ \A p \in 1..n : Kept(seq, S)[p] = seq[e[p]]
  <2> HIDE DEF n
  <2>1. Picked(seq, e) \in Seq(T) /\ Len(Picked(seq, e)) = n
        /\ \A p \in 1..n : Picked(seq, e)[p] = seq[e[p]]
    BY <1>4, <1>6, PickedFacts
  <2>2. QED
    BY <1>7, <2>1
<1>9. Places(e, n, Len(seq))
  BY <1>1, <1>5, <1>6 DEF Places
<1>10. \A i \in S : \E p \in 1..n : e[p] = i
  BY <1>4 DEF Enumerates
<1>11. QED
  BY <1>4, <1>6, <1>8, <1>9, <1>10 DEF KeptFrom

(* Rows that show markets in order say how many come before each.           *)
Reports(rows, markets, best, key) ==
    /\ Len(rows) = Cardinality(best)
    /\ \A r \in DOMAIN rows : \E i \in best :
          markets[i] = rows[r] /\ Cardinality(Leading(best, key, i)) = r - 1

Shows(rows, markets, f, n) ==
    Len(rows) = n /\ DOMAIN rows = 1..n /\ \A p \in 1..n : rows[p] = markets[f[p]]

LEMMA ShowsReports ==
    ASSUME NEW S, NEW key, Sortable(S, key), NEW f, Enumerates(f, S, key),
           NEW rows, NEW markets, Shows(rows, markets, f, Cardinality(S))
    PROVE  Reports(rows, markets, S, key)
<1>1. ASSUME NEW r \in DOMAIN rows
      PROVE  \E i \in S : markets[i] = rows[r] /\ Cardinality(Leading(S, key, i)) = r - 1
  <2>1. r \in 1..Cardinality(S) /\ rows[r] = markets[f[r]]
    BY DEF Shows
  <2>2. f[r] \in S
    BY <2>1 DEF Enumerates
  <2>4. Cardinality(Leading(S, key, f[r])) = r - 1
    BY <2>1, LeadingCounted
  <2>3. QED
    BY <2>1, <2>2, <2>4
<1>2. QED
  BY <1>1 DEF Reports, Shows

(* The first n of what is shown are the first n.                            *)
LEMMA FirstShown ==
    ASSUME NEW S, NEW key, Sortable(S, key), NEW f, Enumerates(f, S, key),
           NEW T, NEW seq \in Seq(T), NEW markets, Shows(seq, markets, f, Cardinality(S)), NEW n \in Nat
    PROVE  \E g : /\ Sortable(TopOf(S, key, n), key) /\ Enumerates(g, TopOf(S, key, n), key)
                  /\ Shows(FirstOf(seq, n), markets, g, Cardinality(TopOf(S, key, n)))
                  /\ FirstOf(seq, n) \in Seq(T)
<1> DEFINE m == Lowest(n, Cardinality(S))
           g == [p \in 1..m |-> f[p]]
<1>1. /\ m \in Nat /\ Cardinality(TopOf(S, key, n)) = m
      /\ Sortable(TopOf(S, key, n), key) /\ Enumerates(g, TopOf(S, key, n), key)
  BY TopIsListed
<1>2. Len(seq) = Cardinality(S) /\ Cardinality(S) \in Nat
  BY FS_CardinalityType DEF Shows, Sortable
<1>3. m <= Cardinality(S)
  BY <1>2 DEF Lowest
<1>4. /\ FirstOf(seq, n) \in Seq(T) /\ Len(FirstOf(seq, n)) = m
      /\ \A i \in 1..m : FirstOf(seq, n)[i] = seq[i]
  BY <1>2, FirstOfFacts
<1> HIDE DEF m
<1>5. \A i \in 1..m : seq[i] = markets[f[i]]
  BY <1>1, <1>2, <1>3 DEF Shows
<1>6. Shows(FirstOf(seq, n), markets, g, m)
  BY <1>4, <1>5 DEF Shows
<1>7. QED
  BY <1>1, <1>4, <1>6

(* A market as it is listed.                                                *)
Listed == [ticker : Tickers, bid : Quotes, ask : Quotes, active : BOOLEAN, closes : Int, created : Int,
           volume : Int]

(* The rows of scan opportunities from the record of the command.           *)
Opens(s) ==
    {i \in DOMAIN s.markets :
        /\ s.status # "halted" /\ s.markets[i].active /\ s.markets[i].closes > s.ranked
        /\ Fits(s.markets[i], s.opt, s.ranked)}

Keys(s) == [i \in Opens(s) |-> SortKey(s.markets[i], s.opt)]

Ranking(s) == FirstOf(Picked(s.markets, Order(Opens(s), Keys(s))), Candidates(s.opt))

Scored(s, m) == IF s.scores[m.ticker] = None THEN 0 ELSE s.scores[m.ticker]

Enough(s, S) ==
    {i \in S : \/ s.opt.minLiquidity <= 0
               \/ /\ s.scores[s.markets[i].ticker] # None
                  /\ s.scores[s.markets[i].ticker] >= s.opt.minLiquidity}

BestOf(s) ==
    IF s.opt.minLiquidity # None
    THEN TopOf(Enough(s, TopOf(Opens(s), Keys(s), Candidates(s.opt))), Keys(s), s.opt.top)
    ELSE TopOf(Opens(s), Keys(s), s.opt.top)

Looks(s) ==
    /\ s.markets \in Seq(Listed)
    /\ s.opt \in Scans /\ s.opt.cmd = "opportunities"

LEMMA OptionsOfRanking ==
    ASSUME NEW s, Looks(s)
    PROVE  /\ s.opt.top \in Nat /\ Candidates(s.opt) \in Nat
           /\ s.opt.minLiquidity # None => s.opt.minLiquidity \in Int
           /\ s.opt.minLiquidity = None => Candidates(s.opt) = s.opt.top
           /\ s.opt.filter \in {"close-race", "high-volume", "wide-spread", "expiring-soon"}
<1>1. s.opt.top \in Nat /\ s.opt.minLiquidity \in Int \union {None}
      /\ s.opt.filter \in {"close-race", "high-volume", "wide-spread", "expiring-soon"}
      /\ MaxCandidates \in Nat
  BY ScanAssumption DEF Looks
<1>2. Min({s.opt.top * 5, MaxCandidates}) = Lowest(s.opt.top * 5, MaxCandidates)
  BY <1>1, MinOfTwo DEF Lowest
<1>3. Lowest(s.opt.top * 5, MaxCandidates) \in Nat
  BY <1>1 DEF Lowest
<1>4. QED
  BY <1>1, <1>2, <1>3 DEF Candidates

LEMMA KeysSortable ==
    ASSUME NEW s, Looks(s)
    PROVE  Sortable(Opens(s), Keys(s))
<1>1. Opens(s) \in SUBSET (1..Len(s.markets)) /\ Len(s.markets) \in Nat
  BY DEF Opens, Looks
<1>2. IsFiniteSet(Opens(s)) /\ Opens(s) \in SUBSET Int
  BY <1>1, UpTo, FS_Subset
<1>3. ASSUME NEW i \in Opens(s) PROVE SortKey(s.markets[i], s.opt) \in Int
  <2>1. s.markets[i] \in Listed /\ s.markets[i].bid # None /\ s.markets[i].ask # None
    BY DEF Opens, Looks, Fits, BothQuoted
  <2>2. /\ s.markets[i].bid \in Int /\ s.markets[i].ask \in Int
        /\ s.markets[i].volume \in Int /\ s.markets[i].closes \in Int
    BY <2>1 DEF Listed, Quotes
  <2>3. QED
    BY <2>2, OptionsOfRanking DEF SortKey, Gap, Twice, Spread
<1>4. QED
  BY <1>2, <1>3 DEF Sortable, Keys

(* The ranking shows the best of what is open.                              *)
LEMMA RankingShows ==
    ASSUME NEW s, Looks(s)
    PROVE  LET top == TopOf(Opens(s), Keys(s), Candidates(s.opt))
           IN  \E g : /\ Sortable(top, Keys(s)) /\ Enumerates(g, top, Keys(s))
                      /\ Shows(Ranking(s), s.markets, g, Cardinality(top))
                      /\ Ranking(s) \in Seq(Listed)
<1> DEFINE f == Order(Opens(s), Keys(s))
           n == Cardinality(Opens(s))
           seq == Picked(s.markets, f)
<1>1. Enumerates(f, Opens(s), Keys(s)) /\ n \in Nat
  BY KeysSortable, OrderEnumerates
<1> HIDE DEF f
<1>2. s.markets \in Seq(Listed) /\ f \in [1..n -> DOMAIN s.markets]
  BY <1>1 DEF Enumerates, Opens, Looks
<1>3. /\ seq \in Seq(Listed) /\ Len(seq) = n
      /\ \A p \in 1..n : seq[p] = s.markets[f[p]]
  <2> HIDE DEF n
  <2>1. QED
    BY <1>1, <1>2, PickedFacts
<1>4. Shows(seq, s.markets, f, n)
  BY <1>3 DEF Shows
<1>5. Ranking(s) = FirstOf(seq, Candidates(s.opt))
  BY DEF Ranking, f
<1>6. Candidates(s.opt) \in Nat
  BY OptionsOfRanking
<1> HIDE DEF seq
<1>7. QED
  BY <1>1, <1>3, <1>4, <1>5, <1>6, KeysSortable, FirstShown

LEMMA RankingReports ==
    ASSUME NEW s, Looks(s), s.opt.minLiquidity = None
    PROVE  Reports(Ranking(s), s.markets, BestOf(s), Keys(s))
<1> DEFINE top == TopOf(Opens(s), Keys(s), Candidates(s.opt))
<1>1. PICK g : /\ Sortable(top, Keys(s)) /\ Enumerates(g, top, Keys(s))
               /\ Shows(Ranking(s), s.markets, g, Cardinality(top))
  BY RankingShows
<1>2. top = BestOf(s)
  BY OptionsOfRanking DEF BestOf
<1> HIDE DEF top
<1>3. QED
  BY <1>1, <1>2, ShowsReports

(* ... and of these the ones whose orderbook scored enough.                 *)
LEMMA EnoughReports ==
    ASSUME NEW s, Looks(s), s.opt.minLiquidity # None,
           \A k \in Tickers : s.scores[k] \in Nat \union {None},
           NEW P, P = {i \in DOMAIN Ranking(s) : Scored(s, Ranking(s)[i]) >= s.opt.minLiquidity}
    PROVE  Reports(FirstOf(Kept(Ranking(s), P), s.opt.top), s.markets, BestOf(s), Keys(s))
<1> DEFINE top == TopOf(Opens(s), Keys(s), Candidates(s.opt))
           rows == Ranking(s)
           key == Keys(s)
           E == Enough(s, top)
           n == Cardinality(P)
<1>1. PICK g : /\ Sortable(top, key) /\ Enumerates(g, top, key)
               /\ Shows(rows, s.markets, g, Cardinality(top))
               /\ rows \in Seq(Listed)
  BY RankingShows
<1>2. s.opt.minLiquidity \in Int
  BY OptionsOfRanking
<1> HIDE DEF top, rows, key
<1>3. P \in SUBSET DOMAIN rows /\ DOMAIN rows = 1..Cardinality(top) /\ Len(rows) = Cardinality(top)
  BY <1>1 DEF Shows, rows
<1>14. PICK e : KeptFrom(e, rows, P, Listed)
  BY <1>1, <1>3, KeptFacts
<1>4. /\ Places(e, n, Len(rows)) /\ n \in Nat
      /\ Kept(rows, P) \in Seq(Listed) /\ Len(Kept(rows, P)) = n
      /\ \A p \in 1..n : e[p] \in P /\ Kept(rows, P)[p] = rows[e[p]]
      /\ \A i \in P : \E p \in 1..n : e[p] = i
  BY <1>14 DEF KeptFrom
<1> HIDE DEF n
<1>5. ASSUME NEW p \in 1..Cardinality(top) PROVE p \in P <=> g[p] \in E
  <2>1. g[p] \in top /\ rows[p] = s.markets[g[p]] /\ rows[p] \in Listed
    BY <1>1, <1>3 DEF Enumerates, Shows
  <2>2. rows[p].ticker \in Tickers
    BY <2>1 DEF Listed
  <2> DEFINE k == rows[p].ticker
  <2>3. p \in P <=> Scored(s, rows[p]) >= s.opt.minLiquidity
    BY <1>3 DEF rows
  <2>4. g[p] \in E <=> \/ s.opt.minLiquidity <= 0
                       \/ s.scores[k] # None /\ s.scores[k] >= s.opt.minLiquidity
    BY <2>1 DEF Enough
  <2>5. s.scores[k] # None => s.scores[k] \in Nat
    BY <2>2
  <2>6. Scored(s, rows[p]) = IF s.scores[k] = None THEN 0 ELSE s.scores[k]
    BY DEF Scored
  <2> HIDE DEF k
  <2>7. QED
    BY <1>2, <2>3, <2>4, <2>5, <2>6
<1> DEFINE h == [p \in 1..n |-> g[e[p]]]
<1>6. \A p \in 1..n : e[p] \in 1..Cardinality(top) /\ e[p] \in P
  BY <1>3, <1>4
<1>7. E \in SUBSET top
  BY DEF Enough
<1> HIDE DEF E
<1>8. Through(h, g, e, n, E)
  <2>1. \A p \in 1..n : h[p] = g[e[p]] /\ g[e[p]] \in E
    BY <1>5, <1>6
  <2>2. ASSUME NEW i \in E PROVE \E p \in 1..n : h[p] = i
    <3>1. PICK q \in 1..Cardinality(top) : g[q] = i
      BY <1>1, <1>7 DEF Enumerates
    <3>2. q \in P
      BY <1>5, <3>1
    <3>3. QED
      BY <1>4, <2>1, <3>1, <3>2
  <2>3. h \in [1..n -> E]
    BY <2>1
  <2> HIDE DEF h
  <2>4. QED
    BY <2>1, <2>2, <2>3 DEF Through
<1> HIDE DEF h
<1>9. Sortable(E, key) /\ Cardinality(E) = n /\ Enumerates(h, E, key)
  BY <1>1, <1>3, <1>4, <1>8, PlacesEnumerate
<1>10. Shows(Kept(rows, P), s.markets, h, n)
  <2>1. \A p \in 1..n : Kept(rows, P)[p] = s.markets[h[p]]
    <3>1. \A q \in 1..Cardinality(top) : rows[q] = s.markets[g[q]]
      BY <1>1 DEF Shows
    <3>2. \A p \in 1..n : h[p] = g[e[p]]
      BY <1>8 DEF Through
    <3>3. ASSUME NEW p \in 1..n PROVE Kept(rows, P)[p] = s.markets[h[p]]
      <4>1. e[p] \in 1..Cardinality(top) /\ Kept(rows, P)[p] = rows[e[p]] /\ h[p] = g[e[p]]
        BY <1>4, <1>6, <3>2
      <4>2. rows[e[p]] = s.markets[g[e[p]]]
        BY <3>1, <4>1
      <4>3. QED
        BY <4>1, <4>2
    <3>4. QED
      BY <3>3
  <2>2. QED
    BY <1>4, <2>1 DEF Shows
<1>11. PICK f : /\ Sortable(TopOf(E, key, s.opt.top), key) /\ Enumerates(f, TopOf(E, key, s.opt.top), key)
                /\ Shows(FirstOf(Kept(rows, P), s.opt.top), s.markets, f, Cardinality(TopOf(E, key, s.opt.top)))
  <2>1. s.opt.top \in Nat
    BY OptionsOfRanking
  <2>2. Kept(rows, P) \in Seq(Listed) /\ Shows(Kept(rows, P), s.markets, h, Cardinality(E))
    BY <1>4, <1>9, <1>10
  <2>3. QED
    BY <1>9, <2>1, <2>2, FirstShown
<1>12. BestOf(s) = TopOf(E, key, s.opt.top)
  BY DEF BestOf, E, key, top
<1>13. QED
  BY <1>11, <1>12, ShowsReports DEF rows, key

----
(* The liquidity score is a natural number.                                *)

LEMMA LargestOfSet ==
    ASSUME NEW S \in SUBSET Int, IsFiniteSet(S), S # {}
    PROVE  Max(S) \in S /\ \A y \in S : Max(S) >= y
<1> DEFINE key == [i \in S |-> i]
<1>1. \A i \in S : key[i] \in Int
  OBVIOUS
<1>2. PICK x \in S : \A y \in S \ {x} : Before(key, y, x)
  <2> HIDE DEF key
  <2>1. QED
    BY <1>1, LastExists
<1>3. \A y \in S : x >= y
  BY <1>2 DEF Before
<1>4. QED
  BY <1>3 DEF Max

LEMMA LevelsOfSide ==
    ASSUME NEW levels \in Sides, NEW i \in 1..Len(levels)
    PROVE  levels[i].price \in Int /\ levels[i].qty \in Nat
<1>1. levels \in Seq(Levels)
  BY DEF Sides, Levels
<1>2. levels[i] \in Levels
  BY <1>1
<1>3. QED
  BY <1>2 DEF Levels

LEMMA BestBidIsInteger ==
    ASSUME NEW levels \in Sides, levels # <<>>
    PROVE  BestBid(levels) \in Int
<1> DEFINE price == [i \in 1..Len(levels) |-> levels[i].price]
<1>1. Len(levels) \in Nat /\ DOMAIN levels = 1..Len(levels) /\ Len(levels) > 0
  BY DEF Sides
<1>2. \A i \in 1..Len(levels) : price[i] \in Int /\ price[i] = levels[i].price
  BY LevelsOfSide
<1>3. Prices(levels) \in SUBSET Int
  BY <1>1, <1>2 DEF Prices
<1>4. price \in Surjection(1..Len(levels), Prices(levels))
  BY <1>1 DEF Prices, Surjection
<1>5. IsFiniteSet(1..Len(levels))
  BY <1>1, UpTo
<1>6. IsFiniteSet(Prices(levels))
  BY <1>4, <1>5, FS_Surjection
<1>7. levels[1].price \in Prices(levels)
  BY <1>1 DEF Prices
<1>8. Max(Prices(levels)) \in Int
  BY <1>3, <1>6, <1>7, LargestOfSet
<1>9. QED
  BY <1>8 DEF BestBid

LEMMA WeightedIsInteger ==
    ASSUME NEW levels \in Sides, NEW twiceMid \in Int, NEW radius \in Nat
    PROVE  Weighted(levels, twiceMid, radius) \in Int
<1> DEFINE S == Near(levels, twiceMid, radius)
           fun == [i \in DOMAIN levels |->
                      levels[i].qty * (2 * (radius + 1) - Away(levels[i].price, twiceMid))]
<1>1. S \in SUBSET (1..Len(levels)) /\ Len(levels) \in Nat
  BY SMTT(30) DEF Near, Sides
<1>2. IsFiniteSet(S)
  BY <1>1, UpTo, FS_Subset
<1>3. ASSUME NEW i \in S PROVE fun[i] \in Int
  <2>1. i \in DOMAIN levels /\ levels[i].qty \in Int /\ levels[i].price \in Int
    <3>1. i \in 1..Len(levels) /\ DOMAIN levels = 1..Len(levels)
      BY <1>1 DEF Sides
    <3>2. QED
      BY <3>1, LevelsOfSide
  <2>2. Away(levels[i].price, twiceMid) \in Int
    BY <2>1 DEF Away
  <2>3. 2 * (radius + 1) - Away(levels[i].price, twiceMid) \in Int
    BY <2>2
  <2>4. \A a, b \in Int : a * b \in Int
    OBVIOUS
  <2>5. QED
    BY <2>1, <2>3, <2>4
<1> HIDE DEF fun, S
<1>4. SumFunctionOnSet(fun, S) \in Int
  BY <1>2, <1>3, SumInt
<1>5. QED
  BY <1>4 DEF Weighted, fun, S

LEMMA InvertedSide ==
    ASSUME NEW levels \in Sides
    PROVE  Inverted(levels) \in Sides
<1>1. DOMAIN levels = 1..Len(levels) /\ Len(levels) \in Nat
  BY DEF Sides
<1>2. \A i \in 1..Len(levels) : Level(100 - levels[i].price, levels[i].qty) \in Levels
  BY LevelsOfSide DEF Levels, Level
<1>3. QED
  BY <1>1, <1>2 DEF Inverted, Sides, Levels

LEMMA ScoreIsNatural ==
    ASSUME NEW book \in [yes : Sides, no : Sides], NEW volume \in Int
    PROVE  LiquidityScore(book, volume, volume) \in Nat
<1> DEFINE spread == IF TwoSided(book) THEN BookSpread(book) ELSE 100
           tight == IF spread <= 1 THEN 19 ELSE IF spread >= 20 THEN 0 ELSE 20 - spread
           weighted == Depth(book, 10).weighted
           a == Min({22000, weighted})
           b == Min({10000, volume})
           c == Min({5000, volume})
           parts == 3 * 100 * tight * 1100 + 3 * a * 95 + 2 * b * 209 + 2 * c * 418
           whole == parts \div 209000
<1>1. book.yes \in Sides /\ book.no \in Sides
  OBVIOUS
<1>2. TwoSided(book) => BestBid(book.yes) \in Int /\ BestBid(book.no) \in Int
  BY <1>1, BestBidIsInteger DEF TwoSided
<1>3. spread \in Int
  BY <1>2 DEF BookSpread
<1>4. weighted \in Int
  <2>1. CASE ~TwoSided(book)
    BY <2>1 DEF Depth
  <2>2. CASE TwoSided(book)
    <3>1. TwiceMidpoint(book) \in Int
      BY <1>2, <2>2 DEF TwiceMidpoint
    <3>2. Weighted(book.yes, TwiceMidpoint(book), 10) \in Int
      BY <1>1, <3>1, WeightedIsInteger
    <3>3. Weighted(Inverted(book.no), TwiceMidpoint(book), 10) \in Int
      BY <1>1, <3>1, InvertedSide, WeightedIsInteger
    <3>4. weighted = Weighted(book.yes, TwiceMidpoint(book), 10) + Weighted(Inverted(book.no), TwiceMidpoint(book), 10)
      BY <2>2 DEF Depth
    <3>5. QED
      BY <3>2, <3>3, <3>4
  <2>3. QED
    BY <2>1, <2>2
<1> HIDE DEF weighted, spread
<1>5. tight \in Int
  BY <1>3
<1>6. a \in Int /\ b \in Int /\ c \in Int
  BY <1>4, MinOfTwo
<1> HIDE DEF tight, a, b, c
<1>7. parts \in Int
  BY <1>5, <1>6
<1> HIDE DEF parts
<1>8. whole \in Int
  BY <1>7
<1> HIDE DEF whole
<1>9. Min({100, whole}) \in Int
  BY <1>8, MinOfTwo
<1>10. Max({0, Min({100, whole})}) \in Nat
  BY <1>9, MaxOfTwo
<1>11. LiquidityScore(book, volume, volume) = Max({0, Min({100, whole})})
  BY DEF LiquidityScore, whole, parts, a, b, c, tight, spread, weighted
<1>12. QED
  BY <1>10, <1>11

----
(* scan new-markets.                                                       *)

(* scan new-markets: the candidates, newest first.                          *)
Fresh(s) ==
    {i \in DOMAIN s.markets : /\ s.markets[i].created >= s.began - s.opt.hours
                              /\ s.opt.unpriced \/ ~Unpriced(s.markets[i])}

Ages(s) == [i \in Fresh(s) |-> -s.markets[i].created]

Newest(s) == Picked(s.markets, Order(Fresh(s), Ages(s)))

Kinds == {ClassOf[e] : e \in Events} \union {Category[e] : e \in Events}
KindOf(s, m) == s.kinds[EventOf[m.ticker]]
NewRows == [ticker : Tickers, created : Int, kind : Kinds]

LooksNew(s) ==
    /\ s.markets \in Seq(Listed) /\ s.began \in Int
    /\ s.opt \in Scans /\ s.opt.cmd = "new-markets"
    /\ s.kinds \in [Events -> Kinds \union {None}]

(* The first d candidates have been looked at: each has its row, or is of a *)
(* category that is not asked for.                                          *)
RowsFrom(s, new, d) ==
    \A r \in 1..Len(s.rows) : \E p \in 1..d :
        /\ s.rows[r].ticker = new[p].ticker
        /\ s.rows[r].created = new[p].created
        /\ s.rows[r].kind = KindOf(s, new[p])
        /\ s.rows[r].kind # None

RowsByAge(s) == \A r, q \in 1..Len(s.rows) : r < q => s.rows[r].created >= s.rows[q].created

Settled(s, new, d) ==
    \A p \in 1..d :
        \/ \E r \in 1..Len(s.rows) : s.rows[r].ticker = new[p].ticker
        \/ /\ s.opt.kinds # None /\ KindOf(s, new[p]) # None
           /\ KindOf(s, new[p]) \notin s.opt.kinds

LookedAt(s, d) ==
    /\ d \in 0..Len(Newest(s))
    /\ s.todo = SubSeq(Newest(s), d + 1, Len(Newest(s)))
    /\ s.rows \in Seq(NewRows) /\ Len(s.rows) <= s.opt.top
    /\ RowsFrom(s, Newest(s), d) /\ RowsByAge(s) /\ Settled(s, Newest(s), d)

NewRight(s) ==
    /\ \A i, j \in DOMAIN s.rows :
          /\ i < j => s.rows[i].created >= s.rows[j].created
          /\ EventOf[s.rows[i].ticker] = EventOf[s.rows[j].ticker] => s.rows[i].kind = s.rows[j].kind
    /\ \A i \in DOMAIN s.markets :
          \/ \E r \in DOMAIN s.rows : s.rows[r].ticker = s.markets[i].ticker
          \/ s.markets[i].created < s.began - s.opt.hours
          \/ Unpriced(s.markets[i]) /\ ~s.opt.unpriced
          \/ /\ s.opt.kinds # None /\ KindOf(s, s.markets[i]) # None
             /\ KindOf(s, s.markets[i]) \notin s.opt.kinds
          \/ Len(s.rows) = s.opt.top /\ s.markets[i].created <= s.rows[s.opt.top].created

LEMMA NewestFacts ==
    ASSUME NEW s, LooksNew(s)
    PROVE  /\ Newest(s) \in Seq(Listed)
           /\ \A p, q \in 1..Len(Newest(s)) : p < q => Newest(s)[p].created >= Newest(s)[q].created
           /\ \A i \in Fresh(s) : \E p \in 1..Len(Newest(s)) : Newest(s)[p] = s.markets[i]
           /\ s.opt.top \in Nat \ {0} /\ s.opt.hours \in Int
<1> DEFINE f == Order(Fresh(s), Ages(s))
           n == Cardinality(Fresh(s))
<1>1. s.opt.top \in Nat \ {0} /\ s.opt.hours \in Int
  BY ScanAssumption DEF LooksNew
<1>2. Fresh(s) \in SUBSET (1..Len(s.markets)) /\ Len(s.markets) \in Nat
  BY DEF Fresh, LooksNew
<1>3. IsFiniteSet(Fresh(s)) /\ Fresh(s) \in SUBSET Int
  BY <1>2, UpTo, FS_Subset
<1>4. ASSUME NEW i \in Fresh(s) PROVE s.markets[i].created \in Int /\ s.markets[i] \in Listed
  <2>1. s.markets[i] \in Listed
    BY DEF Fresh, LooksNew
  <2>2. QED
    BY <2>1 DEF Listed
<1>5. Sortable(Fresh(s), Ages(s))
  BY <1>3, <1>4 DEF Sortable, Ages
<1>6. Enumerates(f, Fresh(s), Ages(s)) /\ n \in Nat
  BY <1>5, OrderEnumerates
<1> HIDE DEF f
<1>7. s.markets \in Seq(Listed) /\ f \in [1..n -> DOMAIN s.markets]
  BY <1>6 DEF Enumerates, Fresh, LooksNew
<1>8. Newest(s) = Picked(s.markets, f)
  BY DEF Newest, f
<1>9. /\ Newest(s) \in Seq(Listed) /\ Len(Newest(s)) = n
      /\ \A p \in 1..n : Newest(s)[p] = s.markets[f[p]]
  <2> HIDE DEF n
  <2>1. Picked(s.markets, f) \in Seq(Listed) /\ Len(Picked(s.markets, f)) = n
        /\ \A p \in 1..n : Picked(s.markets, f)[p] = s.markets[f[p]]
    BY <1>6, <1>7, PickedFacts
  <2>2. QED
    BY <1>8, <2>1
<1>10. ASSUME NEW p \in 1..n, NEW q \in 1..n, p < q
       PROVE  Newest(s)[p].created >= Newest(s)[q].created
  <2>1. Before(Ages(s), f[p], f[q]) /\ f[p] \in Fresh(s) /\ f[q] \in Fresh(s)
    BY <1>6, <1>10 DEF Enumerates
  <2>2. -s.markets[f[p]].created <= -s.markets[f[q]].created
    BY <1>4, <2>1 DEF Before, Ages
  <2>3. s.markets[f[p]].created \in Int /\ s.markets[f[q]].created \in Int
    BY <1>4, <2>1
  <2>4. s.markets[f[p]].created >= s.markets[f[q]].created
    BY <2>2, <2>3
  <2>5. QED
    BY <1>9, <2>4
<1>11. \A i \in Fresh(s) : \E p \in 1..n : Newest(s)[p] = s.markets[i]
  BY <1>6, <1>9 DEF Enumerates
<1>12. QED
  BY <1>1, <1>9, <1>10, <1>11

(* Every row of new-markets that is shown is right.                         *)
LEMMA LookedAtShows ==
    ASSUME NEW s, LooksNew(s), NEW d, LookedAt(s, d), s.todo = <<>> \/ Len(s.rows) >= s.opt.top
    PROVE  NewRight(s)
<1> DEFINE new == Newest(s)
           n == Len(new)
<1>1. /\ new \in Seq(Listed) /\ n \in Nat /\ d \in 0..n
      /\ s.opt.top \in Nat \ {0} /\ s.opt.hours \in Int /\ s.began \in Int
      /\ s.rows \in Seq(NewRows) /\ DOMAIN s.rows = 1..Len(s.rows) /\ Len(s.rows) \in Nat
  BY NewestFacts DEF LookedAt, LooksNew
<1>2. ASSUME NEW i \in DOMAIN s.rows, NEW j \in DOMAIN s.rows
      PROVE  /\ i < j => s.rows[i].created >= s.rows[j].created
             /\ EventOf[s.rows[i].ticker] = EventOf[s.rows[j].ticker] => s.rows[i].kind = s.rows[j].kind
  <2>1. i < j => s.rows[i].created >= s.rows[j].created
    BY <1>1 DEF LookedAt, RowsByAge
  <2>2. \A r \in DOMAIN s.rows : s.rows[r].kind = s.kinds[EventOf[s.rows[r].ticker]]
    BY <1>1 DEF LookedAt, RowsFrom, KindOf
  <2>3. QED
    BY <2>1, <2>2
<1>3. ASSUME NEW i \in DOMAIN s.markets
      PROVE  \/ \E r \in DOMAIN s.rows : s.rows[r].ticker = s.markets[i].ticker
             \/ s.markets[i].created < s.began - s.opt.hours
             \/ Unpriced(s.markets[i]) /\ ~s.opt.unpriced
             \/ /\ s.opt.kinds # None /\ KindOf(s, s.markets[i]) # None
                /\ KindOf(s, s.markets[i]) \notin s.opt.kinds
             \/ Len(s.rows) = s.opt.top /\ s.markets[i].created <= s.rows[s.opt.top].created
  <2>1. s.markets[i] \in Listed
    BY DEF LooksNew
  <2>2. s.markets[i].created \in Int
    BY <2>1 DEF Listed
  <2>3. CASE i \notin Fresh(s)
    BY <1>1, <2>2, <2>3 DEF Fresh
  <2>4. CASE i \in Fresh(s)
    <3>1. PICK p \in 1..n : new[p] = s.markets[i]
      BY <2>4, NewestFacts
    <3>2. CASE p <= d
      <4>1. p \in 1..d
        BY <1>1, <3>2
      <4>2. \/ \E r \in 1..Len(s.rows) : s.rows[r].ticker = new[p].ticker
            \/ /\ s.opt.kinds # None /\ KindOf(s, new[p]) # None
               /\ KindOf(s, new[p]) \notin s.opt.kinds
        BY <4>1 DEF LookedAt, Settled
      <4> HIDE DEF new
      <4>3. QED
        BY <1>1, <3>1, <4>2
    <3>3. CASE ~(p <= d)
      <4>1. s.todo = SubSeq(new, d + 1, n) /\ d < n
        BY <1>1, <3>3 DEF LookedAt
      <4>2. Len(SubSeq(new, d + 1, n)) = n - d
        <5> HIDE DEF new, n
        <5>1. QED
          BY <1>1, <4>1 DEF n
      <4>3. s.todo # <<>>
        <5>1. Len(s.todo) = n - d /\ Len(<<>>) = 0
          BY <4>1, <4>2
        <5>2. n - d # 0
          BY <1>1, <4>1
        <5> HIDE DEF new, n
        <5>3. QED
          BY <5>1, <5>2
      <4>4. Len(s.rows) = s.opt.top
        BY <1>1, <4>3 DEF LookedAt
      <4>5. PICK q \in 1..d : s.rows[s.opt.top].created = new[q].created
        <5>1. s.opt.top \in 1..Len(s.rows)
          BY <1>1, <4>4
        <5>2. QED
          BY <5>1 DEF LookedAt, RowsFrom
      <4>6. q \in 1..n /\ q < p
        BY <1>1, <3>3
      <4>7. new[q].created >= new[p].created
        BY <4>6, NewestFacts
      <4>8. new[q] \in Listed
        BY <1>1, <4>6
      <4>9. new[q].created \in Int
        BY <4>8 DEF Listed
      <4>10. s.markets[i].created <= s.rows[s.opt.top].created
        BY <2>2, <3>1, <4>5, <4>7, <4>9
      <4>11. QED
        BY <4>4, <4>10
    <3>4. QED
      BY <3>2, <3>3
  <2>5. QED
    BY <2>3, <2>4
<1>4. QED
  BY <1>2, <1>3 DEF NewRight

LEMMA RestOfSequence ==
    ASSUME NEW T, NEW seq \in Seq(T), NEW d \in 0..Len(seq), SubSeq(seq, d + 1, Len(seq)) # <<>>
    PROVE  /\ d < Len(seq) /\ Head(SubSeq(seq, d + 1, Len(seq))) = seq[d + 1]
           /\ Tail(SubSeq(seq, d + 1, Len(seq))) = SubSeq(seq, d + 2, Len(seq))
<1> DEFINE n == Len(seq)
           rest == SubSeq(seq, d + 1, n)
           more == SubSeq(seq, d + 2, n)
<1>1. n \in Nat /\ d \in Nat /\ d <= n
  OBVIOUS
<1>2. rest \in Seq(T) /\ Len(rest) = n - d /\ \A i \in 1..(n - d) : rest[i] = seq[d + i]
  BY <1>1
<1>3. d < n
  <2>1. Len(rest) # 0
    BY <1>2, EmptySeq
  <2> HIDE DEF rest, n
  <2>2. QED
    BY <1>1, <1>2, <2>1
<1>4. more \in Seq(T) /\ Len(more) = n - d - 1 /\ \A i \in 1..(n - d - 1) : more[i] = seq[d + 1 + i]
  BY <1>1, <1>3
<1> HIDE DEF rest, more, n
<1>5. Head(rest) = rest[1] /\ rest[1] = seq[d + 1]
  BY <1>1, <1>2, <1>3
<1>6. Tail(rest) \in Seq(T) /\ Len(Tail(rest)) = n - d - 1
      /\ \A i \in 1..(n - d - 1) : Tail(rest)[i] = rest[i + 1]
  BY <1>1, <1>2, <1>3
<1>7. \A i \in 1..(n - d - 1) : Tail(rest)[i] = more[i]
  <2> SUFFICES ASSUME NEW i \in 1..(n - d - 1) PROVE Tail(rest)[i] = more[i]
    OBVIOUS
  <2>1. i + 1 \in 1..(n - d) /\ d + (i + 1) = d + 1 + i
    BY <1>1
  <2>2. QED
    BY <1>2, <1>4, <1>6, <2>1
<1>8. Tail(rest) = more
  BY <1>4, <1>6, <1>7, SeqEqual
<1>9. QED
  BY <1>3, <1>5, <1>8 DEF rest, more, n

LEMMA LookedAtStep ==
    ASSUME NEW s, LooksNew(s), NEW d, LookedAt(s, d), s.todo # <<>>, Len(s.rows) < s.opt.top,
           NEW m, m = Head(s.todo), NEW e, e = EventOf[m.ticker],
           NEW kind \in Kinds, kind # None, s.kinds[e] # None => kind = s.kinds[e],
           NEW t, t.opt = s.opt, t.markets = s.markets, t.began = s.began, t.todo = Tail(s.todo),
           t.kinds = [s.kinds EXCEPT ![e] = kind],
           t.rows = IF s.opt.kinds = None \/ kind \in s.opt.kinds
                    THEN Append(s.rows, [ticker |-> m.ticker, created |-> m.created, kind |-> kind])
                    ELSE s.rows
    PROVE  LooksNew(t) /\ LookedAt(t, d + 1)
<1> DEFINE new == Newest(s)
           n == Len(new)
           c == Len(s.rows)
           row == [ticker |-> m.ticker, created |-> m.created, kind |-> kind]
           asked == s.opt.kinds = None \/ kind \in s.opt.kinds
<1>1. /\ new \in Seq(Listed) /\ n \in Nat /\ d \in 0..n
      /\ s.opt.top \in Nat /\ s.rows \in Seq(NewRows) /\ c \in Nat
      /\ s.todo = SubSeq(new, d + 1, n)
  BY NewestFacts DEF LookedAt
<1>2. Newest(t) = new
  BY DEF Newest, Fresh, Ages
<1> HIDE DEF new
<1>3. d < n /\ m = new[d + 1] /\ t.todo = SubSeq(new, d + 2, n)
  <2>1. new \in Seq(Listed) /\ d \in 0..Len(new) /\ SubSeq(new, d + 1, Len(new)) # <<>>
    BY <1>1
  <2>2. /\ d < Len(new) /\ Head(SubSeq(new, d + 1, Len(new))) = new[d + 1]
        /\ Tail(SubSeq(new, d + 1, Len(new))) = SubSeq(new, d + 2, Len(new))
    BY <2>1, RestOfSequence
  <2>3. QED
    BY <1>1, <2>2
<1>4. m \in Listed /\ d + 1 \in 1..n /\ d + 1 \in 0..n
  BY <1>1, <1>3
<1>5. m.ticker \in Tickers /\ m.created \in Int /\ e \in Events
  BY <1>4 DEF Listed, Events
<1>6. s.kinds \in [Events -> Kinds \union {None}]
  BY DEF LooksNew
<1>7. t.kinds \in [Events -> Kinds \union {None}] /\ t.kinds[e] = kind
  BY <1>5, <1>6
<1>8. \A x \in Listed : KindOf(s, x) # None => KindOf(t, x) = KindOf(s, x)
  <2> SUFFICES ASSUME NEW x \in Listed, KindOf(s, x) # None PROVE KindOf(t, x) = KindOf(s, x)
    OBVIOUS
  <2>1. EventOf[x.ticker] \in Events
    BY DEF Listed, Events
  <2>2. EventOf[x.ticker] # e => t.kinds[EventOf[x.ticker]] = s.kinds[EventOf[x.ticker]]
    BY <1>6, <2>1
  <2>3. QED
    BY <1>7, <2>2 DEF KindOf
<1>9. KindOf(t, m) = kind
  BY <1>7 DEF KindOf
<1>10. LooksNew(t)
  BY <1>7 DEF LooksNew
<1>11. row \in NewRows /\ row.ticker = m.ticker /\ row.created = m.created /\ row.kind = kind
  BY <1>5 DEF NewRows
<1> HIDE DEF row
<1>12. t.rows = IF asked THEN Append(s.rows, row) ELSE s.rows
  BY DEF row
<1>13. \A p \in 1..d : p \in 1..n /\ new[p] \in Listed
  BY <1>1
<1>14. \A p \in 1..(d + 1) : p = d + 1 \/ p \in 1..d
  BY <1>1
<1>15. \A r \in 1..c : \E p \in 1..d :
          /\ s.rows[r].ticker = new[p].ticker
          /\ s.rows[r].created = new[p].created
          /\ s.rows[r].kind = KindOf(t, new[p])
          /\ s.rows[r].kind # None
  <2> SUFFICES ASSUME NEW r \in 1..c
               PROVE  \E p \in 1..d :
                         /\ s.rows[r].ticker = new[p].ticker
                         /\ s.rows[r].created = new[p].created
                         /\ s.rows[r].kind = KindOf(t, new[p])
                         /\ s.rows[r].kind # None
    OBVIOUS
  <2>1. PICK p \in 1..d : /\ s.rows[r].ticker = new[p].ticker
                          /\ s.rows[r].created = new[p].created
                          /\ s.rows[r].kind = KindOf(s, new[p])
                          /\ s.rows[r].kind # None
    BY DEF LookedAt, RowsFrom, new
  <2>2. KindOf(t, new[p]) = KindOf(s, new[p])
    BY <1>8, <1>13, <2>1
  <2>3. QED
    BY <2>1, <2>2
<1>16. \A r, q \in 1..c : r < q => s.rows[r].created >= s.rows[q].created
  BY DEF LookedAt, RowsByAge
<1>17. \A p \in 1..d :
          \/ \E r \in 1..c : s.rows[r].ticker = new[p].ticker
          \/ /\ s.opt.kinds # None /\ KindOf(t, new[p]) # None
             /\ KindOf(t, new[p]) \notin s.opt.kinds
  <2> SUFFICES ASSUME NEW p \in 1..d, ~\E r \in 1..c : s.rows[r].ticker = new[p].ticker
               PROVE  /\ s.opt.kinds # None /\ KindOf(t, new[p]) # None
                      /\ KindOf(t, new[p]) \notin s.opt.kinds
    OBVIOUS
  <2>1. /\ s.opt.kinds # None /\ KindOf(s, new[p]) # None
        /\ KindOf(s, new[p]) \notin s.opt.kinds
    BY DEF LookedAt, Settled, new
  <2>2. QED
    BY <1>8, <1>13, <2>1
<1>18. \A r \in 1..c : s.rows[r].created >= m.created
  <2> SUFFICES ASSUME NEW r \in 1..c PROVE s.rows[r].created >= m.created
    OBVIOUS
  <2>1. PICK p \in 1..d : s.rows[r].created = new[p].created
    BY <1>15
  <2>2. p \in 1..n /\ p < d + 1
    BY <1>1, <2>1
  <2>3. new[p].created >= new[d + 1].created
    BY <1>4, <2>2, NewestFacts DEF new
  <2>4. QED
    BY <1>3, <2>1, <2>3
<1>23. /\ Append(s.rows, row) \in Seq(NewRows) /\ Len(Append(s.rows, row)) = c + 1
       /\ Append(s.rows, row)[c + 1] = row
       /\ \A r \in 1..c : Append(s.rows, row)[r] = s.rows[r]
  <2>1. s.rows \in Seq(NewRows) /\ row \in NewRows
    BY <1>1, <1>11
  <2>2. QED
    BY <2>1, AppendProperties
<1>19. Len(t.rows) <= s.opt.top /\ t.rows \in Seq(NewRows)
  <2>1. c < s.opt.top
    OBVIOUS
  <2> HIDE DEF asked
  <2>2. CASE asked
    <3>1. t.rows = Append(s.rows, row)
      BY <1>12, <2>2
    <3>2. c + 1 <= s.opt.top
      BY <1>1, <2>1
    <3>3. QED
      BY <1>23, <3>1, <3>2
  <2>3. CASE ~asked
    <3>1. t.rows = s.rows
      BY <1>12, <2>3
    <3>2. c <= s.opt.top
      BY <1>1, <2>1
    <3>3. QED
      BY <1>1, <3>1, <3>2
  <2>4. QED
    BY <2>2, <2>3
<1>20. CASE ~asked
  <2>1. t.rows = s.rows
    BY <1>12, <1>20
  <2>2. s.opt.kinds # None /\ kind \notin s.opt.kinds
    BY <1>20
  <2> HIDE DEF asked
  <2>3. \A r \in 1..c : \E p \in 1..(d + 1) :
          /\ s.rows[r].ticker = new[p].ticker
          /\ s.rows[r].created = new[p].created
          /\ s.rows[r].kind = KindOf(t, new[p])
          /\ s.rows[r].kind # None
    <3>1. \A p \in 1..d : p \in 1..(d + 1)
      BY <1>1
    <3>2. QED
      BY <1>15, <3>1
  <2>4. \A p \in 1..(d + 1) :
          \/ \E r \in 1..c : s.rows[r].ticker = new[p].ticker
          \/ /\ s.opt.kinds # None /\ KindOf(t, new[p]) # None
             /\ KindOf(t, new[p]) \notin s.opt.kinds
    BY <1>3, <1>9, <1>14, <1>17, <2>2
  <2>5. t.todo = SubSeq(Newest(t), (d + 1) + 1, Len(Newest(t)))
    <3>1. (d + 1) + 1 = d + 2
      BY <1>1
    <3>2. QED
      BY <1>2, <1>3, <3>1
  <2>9. Len(t.rows) = c /\ t.opt = s.opt
    BY <2>1
  <2>11. RowsFrom(t, new, d + 1)
    BY <2>1, <2>3, <2>9 DEF RowsFrom
  <2>12. RowsByAge(t)
    BY <1>16, <2>1, <2>9 DEF RowsByAge
  <2>13. Settled(t, new, d + 1)
    BY <2>1, <2>4, <2>9 DEF Settled
  <2>6. LookedAt(t, d + 1)
    BY <1>2, <1>4, <1>19, <2>5, <2>11, <2>12, <2>13 DEF LookedAt
  <2>7. QED
    BY <1>10, <2>6
<1>21. CASE asked
  <2>1. t.rows = Append(s.rows, row)
    BY <1>12, <1>21
  <2> HIDE DEF asked
  <2>2. /\ Len(t.rows) = c + 1 /\ t.rows[c + 1] = row
        /\ \A r \in 1..c : t.rows[r] = s.rows[r]
    BY <1>23, <2>1
  <2>3. \A r \in 1..(c + 1) : r = c + 1 \/ r \in 1..c
    BY <1>1
  <2>9. c + 1 \in 1..(c + 1) /\ (\A r \in 1..c : r \in 1..(c + 1)) /\ \A p \in 1..d : p \in 1..(d + 1)
    BY <1>1
  <2>4. \A r \in 1..(c + 1) : \E p \in 1..(d + 1) :
          /\ t.rows[r].ticker = new[p].ticker
          /\ t.rows[r].created = new[p].created
          /\ t.rows[r].kind = KindOf(t, new[p])
          /\ t.rows[r].kind # None
    <3> SUFFICES ASSUME NEW r \in 1..(c + 1)
                 PROVE  \E p \in 1..(d + 1) :
                           /\ t.rows[r].ticker = new[p].ticker
                           /\ t.rows[r].created = new[p].created
                           /\ t.rows[r].kind = KindOf(t, new[p])
                           /\ t.rows[r].kind # None
      OBVIOUS
    <3>1. CASE r = c + 1
      <4>1. d + 1 \in 1..(d + 1)
        BY <1>1
      <4>2. QED
        BY <1>3, <1>9, <1>11, <2>2, <3>1, <4>1
    <3>2. CASE r \in 1..c
      <4>1. PICK p \in 1..d : /\ s.rows[r].ticker = new[p].ticker
                              /\ s.rows[r].created = new[p].created
                              /\ s.rows[r].kind = KindOf(t, new[p])
                              /\ s.rows[r].kind # None
        BY <1>15, <3>2
      <4>2. QED
        BY <2>2, <2>9, <3>2, <4>1
    <3>3. QED
      BY <2>3, <3>1, <3>2
  <2>5. \A r, q \in 1..(c + 1) : r < q => t.rows[r].created >= t.rows[q].created
    <3> SUFFICES ASSUME NEW r \in 1..(c + 1), NEW q \in 1..(c + 1), r < q
                 PROVE  t.rows[r].created >= t.rows[q].created
      OBVIOUS
    <3>1. r \in 1..c /\ t.rows[r] = s.rows[r]
      BY <1>1, <2>2
    <3>2. CASE q = c + 1
      BY <1>11, <1>18, <2>2, <3>1, <3>2
    <3>3. CASE q \in 1..c
      BY <1>16, <2>2, <3>1, <3>3
    <3>4. QED
      BY <2>3, <3>2, <3>3
  <2>6. \A p \in 1..(d + 1) :
          \/ \E r \in 1..(c + 1) : t.rows[r].ticker = new[p].ticker
          \/ /\ s.opt.kinds # None /\ KindOf(t, new[p]) # None
             /\ KindOf(t, new[p]) \notin s.opt.kinds
    <3> SUFFICES ASSUME NEW p \in 1..(d + 1)
                 PROVE  \/ \E r \in 1..(c + 1) : t.rows[r].ticker = new[p].ticker
                        \/ /\ s.opt.kinds # None /\ KindOf(t, new[p]) # None
                           /\ KindOf(t, new[p]) \notin s.opt.kinds
      OBVIOUS
    <3>1. CASE p = d + 1
      <4>1. t.rows[c + 1].ticker = new[p].ticker
        BY <1>3, <1>11, <2>2, <3>1
      <4>2. QED
        BY <2>9, <4>1
    <3>2. CASE p \in 1..d
      BY <1>17, <2>2, <2>9, <3>2
    <3>3. QED
      BY <1>14, <3>1, <3>2
  <2>7. t.todo = SubSeq(Newest(t), (d + 1) + 1, Len(Newest(t)))
    <3>1. (d + 1) + 1 = d + 2
      BY <1>1
    <3>2. QED
      BY <1>2, <1>3, <3>1
  <2>11. RowsFrom(t, new, d + 1) /\ RowsByAge(t) /\ Settled(t, new, d + 1)
    BY <2>2, <2>4, <2>5, <2>6 DEF RowsFrom, RowsByAge, Settled
  <2>8. LookedAt(t, d + 1)
    BY <1>2, <1>4, <1>19, <2>7, <2>11 DEF LookedAt
  <2>10. QED
    BY <1>10, <2>8
<1>22. QED
  BY <1>20, <1>21

----
(* scan movers.                                                            *)

(* The first n of what is sorted: nothing left out would come before one of *)
(* them.                                                                    *)
Sifted(out, rows, key, n, f) ==
    /\ Len(out) = Lowest(n, Len(rows)) /\ DOMAIN out = 1..Len(out)
    /\ \A p \in 1..Len(out) : f[p] \in 1..Len(rows) /\ out[p] = rows[f[p]]
    /\ \A p, q \in 1..Len(out) : p < q => key[f[p]] <= key[f[q]]
    /\ \A i \in 1..Len(rows) :
          \/ \E p \in 1..Len(out) : f[p] = i
          \/ Len(out) = n /\ \A p \in 1..Len(out) : key[f[p]] <= key[i]

LEMMA SortedSifts ==
    ASSUME NEW T, NEW rows \in Seq(T), NEW key, \A i \in 1..Len(rows) : key[i] \in Int, NEW n \in Nat
    PROVE  /\ FirstOf(Sorted(rows, key), n) \in Seq(T)
           /\ Sifted(FirstOf(Sorted(rows, key), n), rows, key, n, Order(DOMAIN rows, key))
<1> DEFINE S == DOMAIN rows
           c == Len(rows)
           f == Order(S, key)
           all == Sorted(rows, key)
           out == FirstOf(all, n)
           m == Lowest(n, c)
<1>1. S = 1..c /\ c \in Nat
  OBVIOUS
<1>2. IsFiniteSet(S) /\ Cardinality(S) = c
  BY <1>1, UpTo
<1>3. Sortable(S, key)
  BY <1>1, <1>2 DEF Sortable
<1>4. Enumerates(f, S, key)
  BY <1>3, OrderEnumerates
<1>5. all = Picked(rows, f)
  BY DEF Sorted
<1> HIDE DEF f, all
<1>6. /\ f \in [1..c -> 1..c] /\ \A i \in 1..c : \E p \in 1..c : f[p] = i
      /\ \A p, q \in 1..c : p < q <=> Before(key, f[p], f[q])
  BY <1>1, <1>2, <1>4 DEF Enumerates
<1>7. \A p, q \in 1..c : p < q => key[f[p]] <= key[f[q]]
  <2> SUFFICES ASSUME NEW p \in 1..c, NEW q \in 1..c, p < q PROVE key[f[p]] <= key[f[q]]
    OBVIOUS
  <2>1. f[p] \in 1..c /\ f[q] \in 1..c /\ Before(key, f[p], f[q])
    BY <1>6
  <2>2. key[f[p]] \in Int /\ key[f[q]] \in Int
    BY <2>1
  <2>3. QED
    BY <2>1, <2>2 DEF Before
<1>8. all \in Seq(T) /\ Len(all) = c /\ \A p \in 1..c : all[p] = rows[f[p]]
  <2>1. f \in [1..c -> DOMAIN rows]
    BY <1>1, <1>6
  <2>2. c \in Nat
    BY <1>1
  <2> HIDE DEF c, S
  <2>3. /\ Picked(rows, f) \in Seq(T) /\ Len(Picked(rows, f)) = c
        /\ \A p \in 1..c : Picked(rows, f)[p] = rows[f[p]]
    BY <2>1, <2>2, PickedFacts
  <2>4. QED
    BY <1>5, <2>3
<1>9. out \in Seq(T) /\ Len(out) = m /\ \A p \in 1..m : out[p] = all[p]
  <2>1. all \in Seq(T) /\ Lowest(n, Len(all)) = m
    BY <1>8
  <2> HIDE DEF m, c
  <2>2. /\ FirstOf(all, n) \in Seq(T) /\ Len(FirstOf(all, n)) = Lowest(n, Len(all))
        /\ \A p \in 1..Lowest(n, Len(all)) : FirstOf(all, n)[p] = all[p]
    BY <2>1, FirstOfFacts
  <2>3. QED
    BY <2>1, <2>2
<1>10. m \in Nat /\ m <= c /\ (m = c \/ m = n)
  BY <1>1 DEF Lowest
<1> HIDE DEF m, out
<1>11. DOMAIN out = 1..m
  BY <1>9
<1> HIDE DEF c, S
<1>12. \A p \in 1..m : p \in 1..c
  BY <1>1, <1>10
<1>13. ASSUME NEW i \in 1..c, ~\E p \in 1..m : f[p] = i
       PROVE  m = n /\ \A p \in 1..m : key[f[p]] <= key[i]
  <2>1. PICK q \in 1..c : f[q] = i
    BY <1>6
  <2>2. ~(q \in 1..m)
    BY <1>13, <2>1
  <2>3. m < q /\ m # c
    BY <1>1, <1>10, <2>2
  <2>4. ASSUME NEW p \in 1..m PROVE key[f[p]] <= key[i]
    <3>1. p \in 1..c /\ p < q
      BY <1>10, <1>12, <2>3
    <3>2. QED
      BY <1>7, <2>1, <3>1
  <2>5. QED
    BY <1>10, <2>3, <2>4
<1>14. Sifted(out, rows, key, n, f)
  BY <1>6, <1>7, <1>8, <1>9, <1>11, <1>12, <1>13 DEF Sifted, c, m
<1>15. QED
  BY <1>9, <1>14 DEF out, all, f, S

(* scan movers: the stored prices of a ticker, newest first.                *)
Stored(prices, now) ==
    /\ prices \in Seq(Snapshots)
    /\ \A i \in 1..Len(prices) :
          /\ prices[i].at <= now
          /\ \A j \in 1..Len(prices) : i < j => prices[j].at <= prices[i].at

(* A change is that of a window of what is stored.                          *)
Spanned(prices, from, change) ==
    \E new, old \in 1..Len(prices) :
        /\ change = prices[new].twice - prices[old].twice
        /\ prices[old].at >= from
        /\ old - new < HistoryLimit
        /\ \/ old = Len(prices)
           \/ old - new + 1 = HistoryLimit
           \/ prices[old + 1].at < from

(* One more price.                                                          *)
Newer(prices, now, twice) == <<[at |-> now, twice |-> twice]>> \o prices

LEMMA StoredMore ==
    ASSUME NEW prices, NEW now \in Int, Stored(prices, now), NEW twice \in Int
    PROVE  /\ Stored(Newer(prices, now, twice), now)
           /\ \A from, change : Spanned(prices, from, change) => Spanned(Newer(prices, now, twice), from, change)
<1> DEFINE more == Newer(prices, now, twice)
           n == Len(prices)
           x == [at |-> now, twice |-> twice]
<1>1. prices \in Seq(Snapshots) /\ n \in Nat
  BY DEF Stored
<1>2. x \in Snapshots /\ x.at = now
  BY DEF Snapshots
<1> HIDE DEF x
<1>3. <<x>> \in Seq(Snapshots) /\ Len(<<x>>) = 1 /\ <<x>>[1] = x
  BY <1>2
<1>4. /\ more \in Seq(Snapshots) /\ Len(more) = n + 1 /\ more[1] = x
      /\ \A i \in 1..n : i + 1 \in 1..(n + 1) /\ more[i + 1] = prices[i]
  <2>1. more = <<x>> \o prices
    BY DEF x, Newer
  <2> HIDE DEF more
  <2>2. /\ more \in Seq(Snapshots) /\ Len(more) = 1 + n
        /\ \A i \in 1..Len(more) : more[i] = IF i <= 1 THEN <<x>>[i] ELSE prices[i - 1]
    BY <1>1, <1>3, <2>1
  <2> HIDE DEF n
  <2>3. 1 \in 1..Len(more) /\ more[1] = x
    BY <1>1, <1>3, <2>2
  <2>4. ASSUME NEW i \in 1..n PROVE i + 1 \in 1..(n + 1) /\ more[i + 1] = prices[i]
    <3>1. i + 1 \in 1..Len(more) /\ ~(i + 1 <= 1) /\ (i + 1) - 1 = i
      BY <1>1, <2>2
    <3>2. QED
      BY <1>1, <2>2, <3>1
  <2>5. QED
    BY <1>1, <2>2, <2>3, <2>4
<1> HIDE DEF more
<1>5. \A i \in 1..n : prices[i] \in Snapshots
  BY <1>1
<1>6. \A i \in 1..n : prices[i].at \in Int /\ prices[i].at <= now
  BY <1>5 DEF Stored, Snapshots
<1>7. \A i \in 1..(n + 1) : i = 1 \/ \E j \in 1..n : i = j + 1
  <2> HIDE DEF n
  <2> SUFFICES ASSUME NEW i \in 1..(n + 1), i # 1 PROVE \E j \in 1..n : i = j + 1
    OBVIOUS
  <2>1. i - 1 \in 1..n /\ i = (i - 1) + 1
    BY <1>1
  <2>2. QED
    BY <2>1
<1>8. ASSUME NEW i \in 1..(n + 1) PROVE more[i].at <= now
  <2>1. CASE i = 1
    BY <1>2, <1>4, <2>1
  <2>2. CASE \E j \in 1..n : i = j + 1
    BY <1>4, <1>6, <2>2
  <2>3. QED
    BY <1>7, <2>1, <2>2
<1>9. ASSUME NEW i \in 1..(n + 1), NEW j \in 1..(n + 1), i < j PROVE more[j].at <= more[i].at
  <2>1. CASE i = 1
    BY <1>2, <1>4, <1>8, <2>1
  <2>2. CASE i # 1
    <3>1. PICK p \in 1..n : i = p + 1
      BY <1>7, <2>2
    <3>2. j # 1
      <4> HIDE DEF n
      <4>1. QED
        BY <1>1, <1>9, <3>1
    <3>3. PICK q \in 1..n : j = q + 1
      BY <1>7, <3>2
    <3>4. p < q
      <4> HIDE DEF n
      <4>1. QED
        BY <1>1, <1>9, <3>1, <3>3
    <3>5. prices[q].at <= prices[p].at
      BY <3>4 DEF Stored
    <3>6. more[i] = prices[p] /\ more[j] = prices[q]
      BY <1>4, <3>1, <3>3
    <3>7. QED
      BY <3>5, <3>6
  <2>3. QED
    BY <2>1, <2>2
<1>10. Stored(more, now)
  BY <1>4, <1>8, <1>9 DEF Stored
<1>11. ASSUME NEW from, NEW change, Spanned(prices, from, change) PROVE Spanned(more, from, change)
  <2>1. PICK new \in 1..n, old \in 1..n :
            /\ change = prices[new].twice - prices[old].twice
            /\ prices[old].at >= from
            /\ old - new < HistoryLimit
            /\ \/ old = Len(prices)
               \/ old - new + 1 = HistoryLimit
               \/ prices[old + 1].at < from
    BY <1>11 DEF Spanned
  <2>2. /\ new + 1 \in 1..(n + 1) /\ old + 1 \in 1..(n + 1)
        /\ more[new + 1] = prices[new] /\ more[old + 1] = prices[old]
    BY <1>4
  <2> HIDE DEF n
  <2>3. (old + 1) - (new + 1) = old - new
    BY <1>1
  <2>4. old = n \/ (old + 1 \in 1..n /\ more[(old + 1) + 1] = prices[old + 1])
    <3>1. old = n \/ old + 1 \in 1..n
      BY <1>1
    <3>2. QED
      BY <1>4, <3>1
  <2>5. \/ old + 1 = Len(more)
        \/ (old + 1) - (new + 1) + 1 = HistoryLimit
        \/ more[(old + 1) + 1].at < from
    BY <1>4, <2>1, <2>3, <2>4 DEF n
  <2>6. QED
    BY <1>4, <2>1, <2>2, <2>3, <2>5 DEF Spanned
<1>12. QED
  BY <1>10, <1>11 DEF more

(* The stored prices that scan movers looks at.                             *)
Window(prices, from) ==
    LET read == FirstOf(prices, HistoryLimit)
    IN  Kept(read, {i \in DOMAIN read : read[i].at >= from})

LEMMA WindowSpans ==
    ASSUME NEW prices, NEW now \in Int, Stored(prices, now), NEW from \in Int,
           NEW seen, seen = Window(prices, from), Len(seen) >= 2
    PROVE  /\ seen \in Seq(Snapshots)
           /\ seen[1].twice - seen[Len(seen)].twice \in Int
           /\ Spanned(prices, from, seen[1].twice - seen[Len(seen)].twice)
<1> DEFINE read == FirstOf(prices, HistoryLimit)
           P == {i \in DOMAIN read : read[i].at >= from}
           n == Cardinality(P)
           c == Len(prices)
           m == Lowest(HistoryLimit, c)
<1>1. prices \in Seq(Snapshots) /\ c \in Nat /\ HistoryLimit \in Nat
  BY ScanAssumption DEF Stored
<1>2. read \in Seq(Snapshots) /\ Len(read) = m /\ \A i \in 1..m : read[i] = prices[i]
  BY <1>1, FirstOfFacts
<1>3. m \in Nat /\ m <= c /\ m <= HistoryLimit /\ (m = c \/ m = HistoryLimit)
  BY <1>1 DEF Lowest
<1>4. \A i \in 1..m : i \in 1..c
  BY <1>1, <1>3
<1>5. \A i \in 1..c : prices[i] \in Snapshots
  BY <1>1
<1>6. \A i \in 1..c : prices[i].at \in Int /\ prices[i].twice \in Int
  BY <1>5 DEF Snapshots
<1>7. seen = Kept(read, P)
  BY DEF Window
<1>8. PICK e : KeptFrom(e, read, P, Snapshots)
  <2>1. P \in SUBSET DOMAIN read
    OBVIOUS
  <2> HIDE DEF P, read
  <2>2. QED
    BY <1>2, <2>1, KeptFacts
<1> HIDE DEF m
<1>9. DOMAIN read = 1..m
  BY <1>2
<1>10. \A i \in 1..m : i \in P <=> prices[i].at >= from
  BY <1>2, <1>9
<1>11. P \in SUBSET (1..m)
  BY <1>9
<1> HIDE DEF P, read
<1>12. /\ n \in Nat /\ seen \in Seq(Snapshots) /\ Len(seen) = n
       /\ \A p \in 1..n : e[p] \in P /\ seen[p] = read[e[p]]
       /\ \A i \in P : \E p \in 1..n : e[p] = i
       /\ \A p, q \in 1..n : p < q => e[p] < e[q]
  BY <1>7, <1>8 DEF KeptFrom, Places
<1> HIDE DEF n, c
<1>13. 1 \in 1..n /\ n \in 1..n /\ n >= 2
  BY <1>12
<1>14. e[1] \in P /\ e[n] \in P /\ seen[1] = prices[e[1]] /\ seen[n] = prices[e[n]]
  <2>1. e[1] \in P /\ e[n] \in P /\ seen[1] = read[e[1]] /\ seen[n] = read[e[n]]
    BY <1>12, <1>13
  <2>2. QED
    BY <1>2, <1>11, <2>1
<1>15. e[1] \in 1..m /\ e[n] \in 1..m /\ e[1] \in 1..c /\ e[n] \in 1..c
  BY <1>4, <1>11, <1>14
<1>16. e[1] = 1
  <2>1. CASE e[1] > 1
    <3>1. 1 \in 1..m /\ 1 \in 1..c
      BY <1>3, <1>4, <1>15, <2>1
    <3>2. prices[e[1]].at <= prices[1].at
      BY <1>15, <2>1, <3>1 DEF Stored, c
    <3>3. prices[e[1]].at >= from
      BY <1>10, <1>14, <1>15
    <3>4. 1 \in P
      BY <1>6, <1>10, <1>15, <3>1, <3>2, <3>3
    <3>5. PICK p \in 1..n : e[p] = 1
      BY <1>12, <3>4
    <3>6. p # 1
      BY <2>1, <3>5
    <3>7. 1 < p
      BY <1>12, <3>6
    <3>8. e[1] < e[p]
      BY <1>12, <1>13, <3>7
    <3>9. QED
      BY <1>15, <2>1, <3>5, <3>8
  <2>2. QED
    BY <1>15, <2>1
<1> DEFINE new == e[1]
           old == e[n]
           change == seen[1].twice - seen[n].twice
<1>17. change = prices[new].twice - prices[old].twice /\ change \in Int
  BY <1>6, <1>14, <1>15
<1>18. prices[old].at >= from
  BY <1>10, <1>14, <1>15
<1>19. old - new < HistoryLimit
  BY <1>1, <1>3, <1>15, <1>16
<1>20. \/ old = c
       \/ old - new + 1 = HistoryLimit
       \/ prices[old + 1].at < from
  <2>1. CASE old = m
    BY <1>1, <1>3, <1>16, <2>1
  <2>2. CASE old # m
    <3>1. old + 1 \in 1..m /\ old < old + 1
      BY <1>3, <1>15, <2>2
    <3>2. old + 1 \notin P
      <4> SUFFICES ASSUME old + 1 \in P PROVE FALSE
        OBVIOUS
      <4>1. PICK p \in 1..n : e[p] = old + 1
        BY <1>12
      <4>2. p = n \/ p < n
        BY <1>12
      <4>3. p = n \/ e[p] < e[n]
        BY <1>12, <1>13, <4>2
      <4>4. QED
        BY <1>15, <4>1, <4>3
    <3>3. prices[old + 1].at \in Int
      BY <1>4, <1>6, <3>1
    <3>4. ~(prices[old + 1].at >= from)
      BY <1>10, <3>1, <3>2
    <3>5. QED
      BY <3>3, <3>4
  <2>3. QED
    BY <2>1, <2>2
<1>21. Spanned(prices, from, change)
  <2> HIDE DEF change, new, old
  <2>1. new \in 1..c /\ old \in 1..c
    BY <1>15 DEF new, old
  <2>2. QED
    BY <1>17, <1>18, <1>19, <1>20, <2>1 DEF Spanned, c
<1>22. QED
  BY <1>12, <1>17, <1>21

(* The rows of scan movers.                                                 *)
Moves == [ticker : Tickers, change : Int, was : Seq(Snapshots)]

Spans(s, stored) ==
    /\ s.rows \in Seq(Moves)
    /\ \A r \in 1..Len(s.rows) : Spanned(stored[s.rows[r].ticker], s.ranked - s.opt.hours, s.rows[r].change)

ByGap(s) == \A q, r \in 1..Len(s.rows) : q < r => Gap(s.rows[q].change, 0) >= Gap(s.rows[r].change, 0)

LEMMA MovesShown ==
    ASSUME NEW s, NEW stored, Spans(s, stored), NEW n \in Nat,
           NEW t, t.opt = s.opt, t.ranked = s.ranked,
           t.rows = FirstOf(Sorted(s.rows, [i \in DOMAIN s.rows |-> -Gap(s.rows[i].change, 0)]), n)
    PROVE  Spans(t, stored) /\ ByGap(t)
<1> DEFINE key == [i \in DOMAIN s.rows |-> -Gap(s.rows[i].change, 0)]
           f == Order(DOMAIN s.rows, key)
           c == Len(s.rows)
<1>1. s.rows \in Seq(Moves) /\ DOMAIN s.rows = 1..c
  BY DEF Spans
<1>2. \A i \in 1..c : s.rows[i] \in Moves
  BY <1>1
<1>3. \A i \in 1..c : key[i] = -Gap(s.rows[i].change, 0) /\ Gap(s.rows[i].change, 0) \in Int
  <2> SUFFICES ASSUME NEW i \in 1..c
               PROVE key[i] = -Gap(s.rows[i].change, 0) /\ Gap(s.rows[i].change, 0) \in Int
    OBVIOUS
  <2>1. s.rows[i].change \in Int
    BY <1>2 DEF Moves
  <2>2. Gap(s.rows[i].change, 0) \in Int
    BY <2>1 DEF Gap
  <2>3. QED
    BY <1>1, <2>2
<1> HIDE DEF key
<1>4. \A i \in 1..c : key[i] \in Int
  BY <1>3
<1>5. t.rows \in Seq(Moves) /\ Sifted(t.rows, s.rows, key, n, f)
  <2>1. t.rows = FirstOf(Sorted(s.rows, key), n)
    BY DEF key
  <2> HIDE DEF f
  <2>2. FirstOf(Sorted(s.rows, key), n) \in Seq(Moves)
        /\ Sifted(FirstOf(Sorted(s.rows, key), n), s.rows, key, n, f)
    BY <1>1, <1>4, SortedSifts DEF f
  <2>3. QED
    BY <2>1, <2>2
<1> HIDE DEF f
<1>6. /\ \A p \in 1..Len(t.rows) : f[p] \in 1..c /\ t.rows[p] = s.rows[f[p]]
      /\ \A p, q \in 1..Len(t.rows) : p < q => key[f[p]] <= key[f[q]]
  BY <1>5 DEF Sifted
<1>7. Spans(t, stored)
  BY <1>5, <1>6 DEF Spans
<1>8. ASSUME NEW q \in 1..Len(t.rows), NEW r \in 1..Len(t.rows), q < r
      PROVE  Gap(t.rows[q].change, 0) >= Gap(t.rows[r].change, 0)
  <2>1. /\ f[q] \in 1..c /\ t.rows[q] = s.rows[f[q]]
        /\ f[r] \in 1..c /\ t.rows[r] = s.rows[f[r]]
        /\ key[f[q]] <= key[f[r]]
    BY <1>6, <1>8
  <2>2. -Gap(t.rows[q].change, 0) <= -Gap(t.rows[r].change, 0)
    BY <1>3, <2>1
  <2>3. Gap(t.rows[q].change, 0) \in Int /\ Gap(t.rows[r].change, 0) \in Int
    BY <1>3, <2>1
  <2>4. QED
    BY <2>2, <2>3, SMTT(30)
<1>9. QED
  BY <1>7, <1>8 DEF ByGap

----
(* scan arbitrage.                                                         *)

LEMMA SmallestOfSet ==
    ASSUME NEW S \in SUBSET Int, IsFiniteSet(S), S # {}
    PROVE  Min(S) \in S /\ \A y \in S : Min(S) <= y
<1> DEFINE key == [i \in S |-> -i]
<1>1. \A i \in S : key[i] \in Int /\ key[i] = -i
  OBVIOUS
<1>2. PICK x \in S : \A y \in S \ {x} : Before(key, y, x)
  <2> HIDE DEF key
  <2>1. QED
    BY <1>1, LastExists
<1> HIDE DEF key
<1>3. ASSUME NEW y \in S PROVE x <= y
  <2>1. CASE y = x
    BY <2>1
  <2>2. CASE y # x
    <3>1. Before(key, y, x) /\ key[x] = -x /\ key[y] = -y
      BY <1>1, <1>2, <2>2
    <3>2. QED
      BY <3>1 DEF Before
  <2>3. QED
    BY <2>1, <2>2
<1>4. QED
  BY <1>3 DEF Min

(* A set written as a sequence has its elements.                            *)
LEMMA SequenceOfSet ==
    ASSUME NEW S, IsFiniteSet(S)
    PROVE  SetToSeq(S) \in Seq(S)
<1> DEFINE n == Cardinality(S)
<1>1. n \in Nat
  BY FS_CardinalityType
<1>2. PICK f : f \in Bijection(1..n, S)
  BY FS_CardinalityType DEF ExistsBijection
<1>3. f \in [1..n -> S] /\ \A a, b \in 1..n : f[a] = f[b] => a = b
  BY <1>2 DEF Bijection, Injection, IsInjective
<1>4. IsInjective(f)
  BY <1>3 DEF IsInjective
<1>5. SetToSeq(S) \in [1..n -> S]
  BY <1>3, <1>4 DEF SetToSeq
<1>6. QED
  BY <1>1, <1>5

(* A market that is priced has an integer midpoint.                         *)
LEMMA TwiceIsInteger ==
    ASSUME NEW m \in Listed, Priced(m)
    PROVE  Twice(m) \in Int
  BY DEF Listed, Quotes, Priced, BothQuoted, Twice

Arbitrage == [tickers : SUBSET Tickers, kind : {"positive", "negative", "group"}, divergence : Int]

LooksForArbitrage(s) ==
    /\ s.markets \in Seq(Listed) /\ s.pairs \in SUBSET Correlated
    /\ s.opt \in Scans /\ s.opt.cmd = "arbitrage"

LEMMA PriceIsInteger ==
    ASSUME LooksForArbitrage(scan), NEW k, PricedAs(k) # {}
    PROVE  PriceOf(k) \in Int
<1> DEFINE S == PricedAs(k)
<1>1. S \in SUBSET (1..Len(scan.markets)) /\ Len(scan.markets) \in Nat
  BY DEF PricedAs, LooksForArbitrage
<1>2. IsFiniteSet(S) /\ S \in SUBSET Int
  BY <1>1, UpTo, FS_Subset
<1>3. Max(S) \in S
  BY <1>2, LargestOfSet
<1>4. Priced(scan.markets[Max(S)]) /\ Max(S) \in DOMAIN scan.markets
  BY <1>3 DEF PricedAs
<1>5. scan.markets[Max(S)] \in Listed
  BY <1>4 DEF LooksForArbitrage
<1>6. QED
  BY <1>4, <1>5, TwiceIsInteger DEF PriceOf

LEMMA DivergenceIsInteger ==
    ASSUME LooksForArbitrage(scan), NEW pair \in scan.pairs, BothPriced(pair)
    PROVE  PairDivergence(pair) \in Int
<1> DEFINE fun == [k \in pair.tickers |-> PriceOf(k)]
           all == {PriceOf(k) : k \in pair.tickers}
<1>1. PICK a \in Tickers, b \in Tickers : pair.tickers = {a, b}
  BY ScanAssumption DEF LooksForArbitrage
<1>2. IsFiniteSet(pair.tickers) /\ pair.tickers # {}
  <2>1. IsFiniteSet({a}) /\ IsFiniteSet({a} \cup {b})
    BY FS_Singleton, FS_AddElement
  <2>2. {a} \cup {b} = {a, b}
    OBVIOUS
  <2>3. QED
    BY <1>1, <2>1, <2>2
<1>3. \A k \in pair.tickers : PriceOf(k) \in Int
  BY PriceIsInteger DEF BothPriced
<1>4. \A k \in pair.tickers : fun[k] \in Int
  BY <1>3
<1>5. all \in SUBSET Int /\ all # {}
  BY <1>2, <1>3
<1>6. IsFiniteSet(all)
  <2>1. fun \in Surjection(pair.tickers, all)
    BY DEF Surjection
  <2>2. QED
    BY <1>2, <2>1, FS_Surjection
<1> HIDE DEF fun, all
<1>7. SumFunctionOnSet(fun, pair.tickers) \in Int
  BY <1>2, <1>4, SumInt
<1>8. Max(all) \in Int /\ Min(all) \in Int
  BY <1>5, <1>6, LargestOfSet, SmallestOfSet
<1>9. Gap(SumFunctionOnSet(fun, pair.tickers), 200) \in Int /\ Max(all) - Min(all) \in Int
  BY <1>7, <1>8 DEF Gap
<1>10. PairDivergence(pair) = IF pair.kind = "negative" THEN Gap(SumFunctionOnSet(fun, pair.tickers), 200)
                              ELSE Max(all) - Min(all)
  BY DEF PairDivergence, fun, all
<1>11. QED
  BY <1>9, <1>10

LEMMA PairRowsAreRows ==
    ASSUME LooksForArbitrage(scan)
    PROVE  /\ PairRows \in Seq(Arbitrage)
           /\ \A r \in 1..Len(PairRows) : PairRows[r].kind # "group"
<1> DEFINE found == {p \in scan.pairs : BothPriced(p) /\ PairDivergence(p) > 2 * scan.opt.threshold}
           row == [p \in found |-> [tickers |-> p.tickers, kind |-> p.kind, divergence |-> PairDivergence(p)]]
           S == {[tickers |-> p.tickers, kind |-> p.kind, divergence |-> PairDivergence(p)] : p \in found}
           U == {r \in Arbitrage : r.kind # "group"}
<1>1. IsFiniteSet(found)
  <2>1. found \in SUBSET Correlated /\ IsFiniteSet(Correlated)
    BY ScanAssumption DEF LooksForArbitrage
  <2>2. QED
    BY <2>1, FS_Subset
<1>2. IsFiniteSet(S)
  <2>1. row \in Surjection(found, S)
    BY DEF Surjection
  <2>2. QED
    BY <1>1, <2>1, FS_Surjection
<1>3. S \in SUBSET U
  <2> SUFFICES ASSUME NEW p \in found
               PROVE  [tickers |-> p.tickers, kind |-> p.kind, divergence |-> PairDivergence(p)] \in U
    OBVIOUS
  <2>1. PairDivergence(p) \in Int
    BY DivergenceIsInteger
  <2>2. p.kind \in {"positive", "negative"} /\ \E a, b \in Tickers : p.tickers = {a, b}
    BY ScanAssumption DEF LooksForArbitrage
  <2>3. p.tickers \in SUBSET Tickers
    BY <2>2
  <2> HIDE DEF found
  <2>4. QED
    BY <2>1, <2>2, <2>3 DEF Arbitrage
<1>4. PairRows = SetToSeq(S)
  BY DEF PairRows
<1> HIDE DEF S
<1>5. SetToSeq(S) \in Seq(S)
  BY <1>2, SequenceOfSet
<1>6. PairRows \in Seq(U)
  <2>1. SetToSeq(S) \in Seq(U)
    BY <1>3, <1>5
  <2>2. QED
    BY <1>4, <2>1
<1>7. PairRows \in Seq(Arbitrage)
  BY <1>6
<1>8. \A r \in 1..Len(PairRows) : PairRows[r] \in U
  <2> HIDE DEF U
  <2>1. QED
    BY <1>6
<1>9. QED
  BY <1>7, <1>8

(* The markets of an event, their names and how far they are off, from the  *)
(* record of the command.                                                   *)
MarketsOf(s, e) == {i \in DOMAIN s.markets : EventOf[s.markets[i].ticker] = e}
NamesOf(s, S) == {s.markets[i].ticker : i \in S}
OffBy(s, e) == Gap(SumFunctionOnSet([i \in MarketsOf(s, e) |-> Twice(s.markets[i])], MarketsOf(s, e)), 200)
AllPriced(s, e) == \A i \in MarketsOf(s, e) : Priced(s.markets[i])

(* What a row says of a group.                                              *)
RowOf(row, s, e) ==
    /\ row \in Arbitrage /\ row.kind = "group"
    /\ row.tickers = NamesOf(s, MarketsOf(s, e)) /\ AllPriced(s, e) /\ row.divergence = OffBy(s, e)

LEMMA MarketsOfEvent ==
    ASSUME NEW s, s.markets \in Seq(Listed), NEW e
    PROVE  /\ MarketsOf(s, e) \in SUBSET (1..Len(s.markets)) /\ IsFiniteSet(MarketsOf(s, e))
           /\ NamesOf(s, MarketsOf(s, e)) \in SUBSET Tickers
           /\ AllPriced(s, e) => OffBy(s, e) \in Int
<1> DEFINE S == MarketsOf(s, e)
           fun == [i \in S |-> Twice(s.markets[i])]
<1>1. S \in SUBSET (1..Len(s.markets)) /\ Len(s.markets) \in Nat
  BY DEF MarketsOf
<1>2. IsFiniteSet(S)
  BY <1>1, UpTo, FS_Subset
<1>3. \A i \in S : s.markets[i] \in Listed
  BY DEF MarketsOf
<1>4. NamesOf(s, S) \in SUBSET Tickers
  BY <1>3 DEF NamesOf, Listed
<1>5. ASSUME AllPriced(s, e) PROVE OffBy(s, e) \in Int
  <2>1. \A i \in S : fun[i] \in Int
    BY <1>3, <1>5, TwiceIsInteger DEF AllPriced
  <2> HIDE DEF fun, S
  <2>2. SumFunctionOnSet(fun, S) \in Int
    BY <1>2, <2>1, SumInt
  <2>3. Gap(SumFunctionOnSet(fun, S), 200) \in Int
    BY <2>2 DEF Gap
  <2>4. QED
    BY <2>3 DEF OffBy, fun, S
<1>6. QED
  BY <1>1, <1>2, <1>4, <1>5

LEMMA GroupIsPriced ==
    ASSUME LooksForArbitrage(scan), NEW e, Group(e) # {}
    PROVE  RowOf(GroupRow(e), scan, e) /\ Group(e) = MarketsOf(scan, e)
<1>1. Group(e) = MarketsOf(scan, e) /\ AllPriced(scan, e)
  BY DEF Group, MarketsOf, AllPriced
<1>2. GroupRow(e) = [tickers |-> NamesOf(scan, MarketsOf(scan, e)), kind |-> "group", divergence |-> OffBy(scan, e)]
  BY <1>1 DEF GroupRow, NamesOf, OffBy
<1>3. OffBy(scan, e) \in Int /\ NamesOf(scan, MarketsOf(scan, e)) \in SUBSET Tickers
  BY <1>1, MarketsOfEvent DEF LooksForArbitrage
<1>4. QED
  BY <1>1, <1>2, <1>3 DEF RowOf, Arbitrage

(* The first market of an event.                                            *)
LEMMA LeaderExists ==
    ASSUME LooksForArbitrage(scan), NEW e, MarketsOf(scan, e) # {}
    PROVE  \E i \in MarketsOf(scan, e) : \A j \in 1..i-1 : EventOf[scan.markets[j].ticker] # e
<1> DEFINE S == MarketsOf(scan, e)
<1>1. S \in SUBSET (1..Len(scan.markets)) /\ IsFiniteSet(S) /\ Len(scan.markets) \in Nat
      /\ DOMAIN scan.markets = 1..Len(scan.markets)
  BY MarketsOfEvent DEF LooksForArbitrage
<1>2. S \in SUBSET Int
  BY <1>1
<1>3. Min(S) \in S /\ \A y \in S : Min(S) <= y
  BY <1>1, <1>2, SmallestOfSet
<1>4. ASSUME NEW j \in 1..Min(S)-1 PROVE EventOf[scan.markets[j].ticker] # e
  <2>1. Min(S) \in 1..Len(scan.markets)
    BY <1>1, <1>3
  <2> HIDE DEF S
  <2>2. j \in DOMAIN scan.markets /\ ~(Min(S) <= j)
    BY <1>1, <2>1
  <2>3. j \notin S
    BY <1>3, <2>2
  <2>4. QED
    BY <2>2, <2>3 DEF MarketsOf, S
<1>5. QED
  BY <1>3, <1>4

LEMMA GroupRowsAreRows ==
    ASSUME LooksForArbitrage(scan)
    PROVE  /\ GroupRows \in Seq(Arbitrage)
           /\ \A r \in 1..Len(GroupRows) : \E e \in Events : RowOf(GroupRows[r], scan, e)
           /\ \A e \in Events :
                 Cardinality(Group(e)) >= 2 /\ GroupRow(e).divergence > 2 * scan.opt.threshold
                 => \E r \in 1..Len(GroupRows) : RowOf(GroupRows[r], scan, e)
<1> DEFINE M == scan.markets
           At(i) == EventOf[scan.markets[i].ticker]
           all == [i \in DOMAIN scan.markets |-> GroupRow(At(i))]
           off == {i \in DOMAIN scan.markets :
                      /\ \A j \in 1..i-1 : At(j) # At(i)
                      /\ Cardinality(Group(At(i))) >= 2
                      /\ GroupRow(At(i)).divergence > 2 * scan.opt.threshold}
           n == Cardinality(off)
           U == {GroupRow(At(i)) : i \in DOMAIN M}
<1>1. M \in Seq(Listed) /\ DOMAIN M = 1..Len(M) /\ Len(M) \in Nat
  BY DEF LooksForArbitrage
<1>2. \A i \in DOMAIN M : At(i) \in Events
  <2> SUFFICES ASSUME NEW i \in DOMAIN M PROVE At(i) \in Events
    OBVIOUS
  <2>1. M[i] \in Listed
    BY <1>1
  <2>2. QED
    BY <2>1 DEF Listed, Events
<1>3. \A i \in off : RowOf(GroupRow(At(i)), scan, At(i))
  <2> SUFFICES ASSUME NEW i \in off PROVE RowOf(GroupRow(At(i)), scan, At(i))
    OBVIOUS
  <2>1. Group(At(i)) # {}
    <3>1. Cardinality(Group(At(i))) >= 2
      OBVIOUS
    <3>2. Cardinality({}) = 0
      BY FS_EmptySet
    <3>3. QED
      BY <3>1, <3>2
  <2>2. QED
    BY <2>1, GroupIsPriced
<1>4. all \in Seq(U) /\ DOMAIN all = DOMAIN M /\ \A i \in DOMAIN M : all[i] = GroupRow(At(i))
  BY <1>1
<1>5. off \in SUBSET DOMAIN all
  BY <1>4
<1>6. GroupRows = Kept(all, off)
  BY DEF GroupRows
<1> HIDE DEF all, U
<1>7. PICK e : KeptFrom(e, all, off, U)
  <2> HIDE DEF off
  <2>1. QED
    BY <1>4, <1>5, KeptFacts
<1>8. /\ n \in Nat /\ GroupRows \in Seq(U) /\ Len(GroupRows) = n
      /\ \A p \in 1..n : e[p] \in off /\ GroupRows[p] = all[e[p]]
      /\ \A i \in off : \E p \in 1..n : e[p] = i
  <2> HIDE DEF off
  <2>1. QED
    BY <1>6, <1>7 DEF KeptFrom
<1>9. \A i \in off : i \in DOMAIN M
  OBVIOUS
<1>10. ASSUME NEW r \in 1..n
       PROVE  e[r] \in off /\ GroupRows[r] = GroupRow(At(e[r])) /\ At(e[r]) \in Events
              /\ RowOf(GroupRows[r], scan, At(e[r]))
  <2>1. e[r] \in off /\ GroupRows[r] = all[e[r]]
    BY <1>8
  <2>2. e[r] \in DOMAIN M
    BY <1>9, <2>1
  <2> HIDE DEF off
  <2>3. GroupRows[r] = GroupRow(At(e[r])) /\ At(e[r]) \in Events
    BY <1>2, <1>4, <2>1, <2>2
  <2>4. RowOf(GroupRow(At(e[r])), scan, At(e[r]))
    BY <1>3, <2>1
  <2>5. QED
    BY <2>1, <2>3, <2>4
<1>11. GroupRows \in Seq(Arbitrage)
  <2>1. \A r \in 1..n : GroupRows[r] \in Arbitrage
    BY <1>10 DEF RowOf
  <2> HIDE DEF n
  <2>2. QED
    BY <1>8, <2>1
<1>12. ASSUME NEW x \in Events, Cardinality(Group(x)) >= 2, GroupRow(x).divergence > 2 * scan.opt.threshold
       PROVE  \E r \in 1..n : RowOf(GroupRows[r], scan, x)
  <2>1. Group(x) # {}
    <3>1. Cardinality({}) = 0
      BY FS_EmptySet
    <3>2. QED
      BY <1>12, <3>1
  <2>2. Group(x) = MarketsOf(scan, x)
    BY <2>1, GroupIsPriced
  <2>3. PICK i \in MarketsOf(scan, x) : \A j \in 1..i-1 : EventOf[scan.markets[j].ticker] # x
    BY <2>1, <2>2, LeaderExists
  <2>4. i \in DOMAIN M /\ At(i) = x
    BY DEF MarketsOf
  <2>5. i \in off
    BY <1>12, <2>3, <2>4
  <2>6. PICK r \in 1..n : e[r] = i
    <3> HIDE DEF off
    <3>1. QED
      BY <1>8, <2>5
  <2>7. RowOf(GroupRows[r], scan, At(e[r]))
    BY <1>10
  <2>8. QED
    BY <2>4, <2>6, <2>7
<1>13. QED
  BY <1>8, <1>10, <1>11, <1>12

ArbRight(s) ==
    /\ \A r \in DOMAIN s.rows : s.rows[r].kind = "group" =>
          \E e \in Events : /\ s.rows[r].tickers = NamesOf(s, MarketsOf(s, e))
                           /\ AllPriced(s, e)
                           /\ s.rows[r].divergence = OffBy(s, e)
    /\ \A e \in Events :
          \/ Cardinality(MarketsOf(s, e)) < 2 \/ ~AllPriced(s, e)
          \/ OffBy(s, e) <= 2 * s.opt.threshold
          \/ \E r \in DOMAIN s.rows : s.rows[r].tickers = NamesOf(s, MarketsOf(s, e))
          \/ Len(s.rows) = s.opt.top /\ \A r \in DOMAIN s.rows : s.rows[r].divergence >= OffBy(s, e)

(* All the rows, pairs first: a group of them is that of an event, and each *)
(* event that is off has one.                                               *)
ArbRows == PairRows \o GroupRows

LEMMA ArbRowsFacts ==
    ASSUME LooksForArbitrage(scan)
    PROVE  /\ ArbRows \in Seq(Arbitrage)
           /\ \A r \in 1..Len(ArbRows) : ArbRows[r].kind = "group" => \E e \in Events : RowOf(ArbRows[r], scan, e)
           /\ \A e \in Events :
                 Cardinality(Group(e)) >= 2 /\ GroupRow(e).divergence > 2 * scan.opt.threshold
                 => \E r \in 1..Len(ArbRows) : RowOf(ArbRows[r], scan, e)
<1> DEFINE a == Len(PairRows)
           b == Len(GroupRows)
<1>1. /\ PairRows \in Seq(Arbitrage) /\ a \in Nat
      /\ \A r \in 1..a : PairRows[r].kind # "group"
  BY PairRowsAreRows
<1>2. /\ GroupRows \in Seq(Arbitrage) /\ b \in Nat
      /\ \A r \in 1..b : \E e \in Events : RowOf(GroupRows[r], scan, e)
      /\ \A e \in Events :
            Cardinality(Group(e)) >= 2 /\ GroupRow(e).divergence > 2 * scan.opt.threshold
            => \E r \in 1..b : RowOf(GroupRows[r], scan, e)
  BY GroupRowsAreRows
<1>3. /\ ArbRows \in Seq(Arbitrage) /\ Len(ArbRows) = a + b
      /\ \A r \in 1..(a + b) : ArbRows[r] = IF r <= a THEN PairRows[r] ELSE GroupRows[r - a]
  BY <1>1, <1>2 DEF ArbRows
<1> HIDE DEF a, b
<1>4. ASSUME NEW r \in 1..(a + b), ArbRows[r].kind = "group"
      PROVE  \E e \in Events : RowOf(ArbRows[r], scan, e)
  <2>1. ~(r <= a)
    <3> SUFFICES ASSUME r <= a PROVE FALSE
      OBVIOUS
    <3>1. r \in 1..a /\ ArbRows[r] = PairRows[r]
      BY <1>1, <1>3
    <3>2. QED
      BY <1>1, <1>4, <3>1
  <2>2. r - a \in 1..b /\ ArbRows[r] = GroupRows[r - a]
    BY <1>1, <1>2, <1>3, <2>1
  <2>3. QED
    BY <1>2, <2>2
<1>5. ASSUME NEW e \in Events, Cardinality(Group(e)) >= 2, GroupRow(e).divergence > 2 * scan.opt.threshold
      PROVE  \E r \in 1..(a + b) : RowOf(ArbRows[r], scan, e)
  <2>1. PICK r \in 1..b : RowOf(GroupRows[r], scan, e)
    BY <1>2, <1>5
  <2>2. a + r \in 1..(a + b) /\ ~(a + r <= a) /\ (a + r) - a = r
    BY <1>1, <1>2
  <2>3. ArbRows[a + r] = GroupRows[r]
    BY <1>3, <2>2
  <2>4. QED
    BY <2>1, <2>2, <2>3
<1>6. QED
  BY <1>3, <1>4, <1>5

LEMMA ArbitrageShown ==
    ASSUME LooksForArbitrage(scan), NEW t, t.opt = scan.opt, t.markets = scan.markets,
           t.rows = FirstOf(Sorted(ArbRows, [i \in DOMAIN ArbRows |-> -ArbRows[i].divergence]), scan.opt.top)
    PROVE  ArbRight(t)
<1> DEFINE rows == ArbRows
           key == [i \in DOMAIN rows |-> -rows[i].divergence]
           c == Len(rows)
           f == Order(DOMAIN rows, key)
           n == scan.opt.top
<1>1. /\ rows \in Seq(Arbitrage)
      /\ \A r \in 1..c : rows[r].kind = "group" => \E e \in Events : RowOf(rows[r], scan, e)
      /\ \A e \in Events :
            Cardinality(Group(e)) >= 2 /\ GroupRow(e).divergence > 2 * scan.opt.threshold
            => \E r \in 1..c : RowOf(rows[r], scan, e)
  BY ArbRowsFacts
<1> HIDE DEF rows
<1>2. DOMAIN rows = 1..c /\ \A i \in 1..c : rows[i] \in Arbitrage
  BY <1>1
<1>3. \A i \in 1..c : key[i] = -rows[i].divergence /\ rows[i].divergence \in Int
  BY <1>2 DEF Arbitrage
<1> HIDE DEF key
<1>4. \A i \in 1..c : key[i] \in Int
  BY <1>3
<1>5. n \in Nat
  BY ScanAssumption DEF LooksForArbitrage
<1> HIDE DEF n
<1>6. t.rows \in Seq(Arbitrage) /\ Sifted(t.rows, rows, key, n, f)
  <2>1. t.rows = FirstOf(Sorted(rows, key), n)
    BY DEF key, rows, n
  <2> HIDE DEF f
  <2>2. FirstOf(Sorted(rows, key), n) \in Seq(Arbitrage)
        /\ Sifted(FirstOf(Sorted(rows, key), n), rows, key, n, f)
    BY <1>1, <1>4, <1>5, SortedSifts DEF f
  <2>3. QED
    BY <2>1, <2>2
<1> HIDE DEF f
<1>7. /\ DOMAIN t.rows = 1..Len(t.rows)
      /\ \A p \in 1..Len(t.rows) : f[p] \in 1..c /\ t.rows[p] = rows[f[p]]
      /\ \A i \in 1..c :
            \/ \E p \in 1..Len(t.rows) : f[p] = i
            \/ Len(t.rows) = n /\ \A p \in 1..Len(t.rows) : key[f[p]] <= key[i]
  BY <1>6 DEF Sifted
<1> HIDE DEF c
<1>8. \A e : MarketsOf(t, e) = MarketsOf(scan, e) /\ OffBy(t, e) = OffBy(scan, e)
             /\ (AllPriced(t, e) <=> AllPriced(scan, e))
             /\ NamesOf(t, MarketsOf(t, e)) = NamesOf(scan, MarketsOf(scan, e))
  BY DEF MarketsOf, OffBy, AllPriced, NamesOf
<1>9. ASSUME NEW r \in DOMAIN t.rows, t.rows[r].kind = "group"
      PROVE  \E e \in Events : /\ t.rows[r].tickers = NamesOf(t, MarketsOf(t, e))
                               /\ AllPriced(t, e)
                               /\ t.rows[r].divergence = OffBy(t, e)
  <2>1. f[r] \in 1..c /\ t.rows[r] = rows[f[r]]
    BY <1>7
  <2>2. PICK e \in Events : RowOf(rows[f[r]], scan, e)
    BY <1>1, <1>9, <2>1 DEF c
  <2>3. QED
    BY <1>8, <2>1, <2>2 DEF RowOf
<1>10. ASSUME NEW e \in Events, Cardinality(MarketsOf(t, e)) >= 2, AllPriced(t, e),
              OffBy(t, e) > 2 * t.opt.threshold
       PROVE  \/ \E r \in DOMAIN t.rows : t.rows[r].tickers = NamesOf(t, MarketsOf(t, e))
              \/ Len(t.rows) = t.opt.top /\ \A r \in DOMAIN t.rows : t.rows[r].divergence >= OffBy(t, e)
  <2>1. Group(e) = MarketsOf(scan, e)
    BY <1>8, <1>10 DEF Group, MarketsOf, AllPriced
  <2>2. Group(e) # {}
    <3>1. Cardinality({}) = 0
      BY FS_EmptySet
    <3>2. QED
      BY <1>8, <1>10, <2>1, <3>1
  <2>3. RowOf(GroupRow(e), scan, e)
    BY <2>2, GroupIsPriced
  <2>4. Cardinality(Group(e)) >= 2 /\ GroupRow(e).divergence > 2 * scan.opt.threshold
    BY <1>8, <1>10, <2>1, <2>3 DEF RowOf
  <2>5. PICK i \in 1..c : RowOf(rows[i], scan, e)
    BY <1>1, <2>4 DEF c
  <2>6. CASE \E p \in 1..Len(t.rows) : f[p] = i
    <3>1. PICK p \in 1..Len(t.rows) : f[p] = i
      BY <2>6
    <3>2. p \in DOMAIN t.rows /\ t.rows[p] = rows[i]
      BY <1>7, <3>1
    <3>3. QED
      BY <1>8, <2>5, <3>2 DEF RowOf
  <2>7. CASE Len(t.rows) = n /\ \A p \in 1..Len(t.rows) : key[f[p]] <= key[i]
    <3>1. ASSUME NEW r \in DOMAIN t.rows PROVE t.rows[r].divergence >= OffBy(t, e)
      <4>1. r \in 1..Len(t.rows) /\ f[r] \in 1..c /\ t.rows[r] = rows[f[r]]
        BY <1>7
      <4>2. key[f[r]] <= key[i]
        BY <2>7, <4>1
      <4>3. rows[f[r]].divergence >= rows[i].divergence
        BY <1>3, <4>1, <4>2
      <4>4. QED
        BY <1>8, <2>5, <4>1, <4>3 DEF RowOf
    <3>2. QED
      BY <2>7, <3>1 DEF n
  <2>8. QED
    BY <1>7, <2>6, <2>7
<1>11. ASSUME NEW e
       PROVE  /\ Cardinality(MarketsOf(t, e)) < 2 \/ Cardinality(MarketsOf(t, e)) >= 2
              /\ AllPriced(t, e) => OffBy(t, e) <= 2 * t.opt.threshold \/ OffBy(t, e) > 2 * t.opt.threshold
  <2>1. Cardinality(MarketsOf(t, e)) \in Nat
    BY <1>8, MarketsOfEvent, FS_CardinalityType DEF LooksForArbitrage
  <2>2. AllPriced(t, e) => OffBy(t, e) \in Int
    BY <1>8, MarketsOfEvent DEF LooksForArbitrage
  <2>3. t.opt.threshold \in Int
    BY ScanAssumption DEF LooksForArbitrage
  <2>4. QED
    BY <2>1, <2>2, <2>3
<1>12. QED
  BY <1>9, <1>10, <1>11 DEF ArbRight

----
(* The rows are right in every state.                                      *)

(* The exchange's markets and the stored prices, newest first.              *)
World ==
    /\ board \in [Tickers -> Markets] /\ hour \in Nat
    /\ DOMAIN history = Tickers /\ \A k \in Tickers : Stored(history[k], hour)

Typed(s) ==
    /\ s.markets \in Seq(Listed) /\ s.began \in Int /\ s.ranked \in Int /\ s.page \in Nat
    /\ s.scores \in [Tickers -> Nat \union {None}]
    /\ s.kinds \in [Events -> Kinds \union {None}]
    /\ s.pairs \in SUBSET Correlated

(* Each stage is one of a command, and until there are rows there are none. *)
InCommand(s) ==
    /\ s.stage \in {"status", "rank", "book"} => s.opt.cmd = "opportunities"
    /\ s.stage \in {"collect", "category"} => s.opt.cmd = "new-markets"
    /\ s.stage = "history" => s.opt.cmd = "movers"
    /\ s.stage \in {"pairs", "compare"} => s.opt.cmd = "arbitrage"
    /\ s.stage \in {"status", "page", "rank", "collect", "pairs", "compare"} => s.rows = <<>>

(* What the rows are on the way ... *)
OnTheWay(s, stored) ==
    /\ s.stage = "book" => s.opt.minLiquidity # None /\ s.rows = Ranking(s) /\ s.todo \in Seq(Listed)
    /\ s.stage = "category" => \E d : LookedAt(s, d)
    /\ s.stage = "history" => Spans(s, stored) /\ s.todo \in Seq(Listed)

(* ... and when they are shown. *)
AsShown(s, stored) ==
    s.stage = "shown" =>
        /\ s.opt.cmd = "opportunities" => Reports(s.rows, s.markets, BestOf(s), Keys(s))
        /\ s.opt.cmd = "new-markets" => NewRight(s)
        /\ s.opt.cmd = "movers" => Spans(s, stored) /\ ByGap(s)
        /\ s.opt.cmd = "arbitrage" => ArbRight(s)

RowsInv(s, stored) == Typed(s) /\ InCommand(s) /\ OnTheWay(s, stored) /\ AsShown(s, stored)

ReportInv == ScanInv /\ World /\ RowsInv(scan, history)

LEMMA InitReports == ASSUME ScanInit PROVE World /\ RowsInv(scan, history)
<1>1. board \in [Tickers -> Markets] /\ hour \in Nat
  BY ScanAssumption DEF ScanInit
<1>2. history \in Histories /\ hour = 0
  BY DEF ScanInit
<1>3. history \in [Tickers -> Seq(Snapshots)]
  BY <1>2, ScanAssumption
<1>4. ASSUME NEW k \in Tickers PROVE Stored(history[k], hour)
  <2>1. history[k] \in Seq(Snapshots) /\ DOMAIN history[k] = 1..Len(history[k])
    BY <1>3
  <2>2. \A i \in DOMAIN history[k] :
           /\ history[k][i].at <= 0
           /\ \A j \in DOMAIN history[k] : i < j => history[k][j].at <= history[k][i].at
    BY <1>2, ScanAssumption
  <2>3. QED
    BY <1>2, <2>1, <2>2 DEF Stored
<1>5. World
  BY <1>1, <1>3, <1>4 DEF World
<1>6. Typed(NoScan)
  BY DEF Typed, NoScan, Tickers, Events
<1>7. NoScan.stage = "off"
  BY NoScanIs
<1>8. RowsInv(NoScan, history)
  BY <1>6, <1>7 DEF RowsInv, InCommand, OnTheWay, AsShown
<1>9. QED
  BY <1>5, <1>8 DEF ScanInit

(* More prices leave what was true of the rows true.                        *)
LEMMA SpansStay ==
    ASSUME NEW s, NEW stored, NEW more, Spans(s, stored),
           \A k \in Tickers : \A from, change : Spanned(stored[k], from, change) => Spanned(more[k], from, change)
    PROVE  Spans(s, more)
<1>1. s.rows \in Seq(Moves)
  BY DEF Spans
<1>2. \A r \in 1..Len(s.rows) : s.rows[r] \in Moves
  BY <1>1
<1>3. \A r \in 1..Len(s.rows) : s.rows[r].ticker \in Tickers
  BY <1>2 DEF Moves
<1>4. QED
  BY <1>1, <1>3 DEF Spans

LEMMA RowsStay ==
    ASSUME NEW s, NEW stored, NEW more, RowsInv(s, stored),
           \A k \in Tickers : \A from, change : Spanned(stored[k], from, change) => Spanned(more[k], from, change)
    PROVE  RowsInv(s, more)
<1>1. Spans(s, stored) => Spans(s, more)
  BY SpansStay
<1>2. QED
  BY <1>1 DEF RowsInv, OnTheWay, AsShown

LEMMA ChangeReports == ASSUME ReportInv, Change PROVE World' /\ RowsInv(scan, history)'
<1>1. scan' = scan
  BY DEF Change
<1>2. board \in [Tickers -> Markets] /\ hour \in Nat /\ DOMAIN history = Tickers
      /\ \A k \in Tickers : Stored(history[k], hour)
  BY DEF ReportInv, World
<1>3. CASE history' = history
  <2>1. board' \in [Tickers -> Markets]
    BY <1>2, ScanAssumption DEF Change
  <2>2. hour' \in Nat /\ hour <= hour'
    <3>1. hour' = hour \/ hour' = hour + 1
      BY DEF Change
    <3>2. QED
      BY <1>2, <3>1
  <2>3. ASSUME NEW k \in Tickers PROVE Stored(history[k], hour')
    <3>1. Stored(history[k], hour)
      BY <1>2
    <3>2. \A i \in 1..Len(history[k]) : history[k][i] \in Snapshots
      BY <3>1 DEF Stored
    <3>3. \A i \in 1..Len(history[k]) : history[k][i].at \in Int
      BY <3>2 DEF Snapshots
    <3>4. \A i \in 1..Len(history[k]) : history[k][i].at <= hour'
      BY <1>2, <2>2, <3>1, <3>3 DEF Stored
    <3>5. QED
      BY <3>1, <3>4 DEF Stored
  <2>4. World'
    BY <1>2, <1>3, <2>1, <2>2, <2>3 DEF World
  <2>5. QED
    BY <1>1, <1>3, <2>4 DEF ReportInv
<1>4. ASSUME NEW k \in Tickers, board[k].bid # None, board[k].ask # None,
             history' = [history EXCEPT ![k] = <<[at |-> hour, twice |-> board[k].bid + board[k].ask]>> \o @],
             UNCHANGED <<board, halted, hour>>
      PROVE  World' /\ RowsInv(scan, history)'
  <2> DEFINE twice == board[k].bid + board[k].ask
             more == Newer(history[k], hour, twice)
  <2>1. board[k] \in Markets
    BY <1>2
  <2>2. twice \in Int
    BY <1>4, <2>1 DEF Markets, Quotes
  <2>3. Stored(history[k], hour) /\ hour \in Int
    BY <1>2
  <2> HIDE DEF twice
  <2>4. /\ Stored(more, hour)
        /\ \A from, change : Spanned(history[k], from, change) => Spanned(more, from, change)
    BY <2>2, <2>3, StoredMore
  <2> HIDE DEF more
  <2>5. history' = [history EXCEPT ![k] = more]
    BY <1>4 DEF twice, more, Newer
  <2>6. DOMAIN history' = Tickers /\ \A x \in Tickers : history'[x] = IF x = k THEN more ELSE history[x]
    BY <1>2, <2>5
  <2>7. World'
    BY <1>2, <1>4, <2>4, <2>6 DEF World
  <2>8. \A x \in Tickers : \A from, change : Spanned(history[x], from, change) => Spanned(history'[x], from, change)
    BY <2>4, <2>6
  <2>9. RowsInv(scan, history')
    BY <2>8, RowsStay DEF ReportInv
  <2>10. QED
    BY <1>1, <2>7, <2>9
<1>5. QED
  BY <1>3, <1>4 DEF Change

LEMMA Onward ==
    ASSUME ReportInv, NEW next, Continue(next), RowsInv(next, history)
    PROVE  World' /\ RowsInv(scan, history)'
<1>1. scan' = next /\ board' = board /\ hour' = hour /\ history' = history
  BY DEF Continue
<1>2. World'
  BY <1>1 DEF ReportInv, World
<1>3. QED
  BY <1>1, <1>2

(* The fields of the command's record.                                      *)
LEMMA FieldsOf ==
    ASSUME ScanInv
    PROVE  DOMAIN scan = {"opt", "stage", "status", "began", "page", "cut", "markets", "todo", "scores",
                          "kinds", "pairs", "book", "ranked", "rows"}
  BY NoScanIs DEF ScanInv

LEMMA StartReports == ASSUME ReportInv, StartScan PROVE World' /\ RowsInv(scan, history)'
<1>1. PICK opt \in Scans :
         Continue([NoScan EXCEPT !.opt = opt, !.began = hour,
                      !.stage = CASE opt.cmd = "opportunities" -> "status"
                                  [] opt.cmd = "liquidity" -> "market"
                                  [] OTHER -> "page"])
  BY DEF StartScan
<1> DEFINE to == CASE opt.cmd = "opportunities" -> "status"
                      [] opt.cmd = "liquidity" -> "market"
                      [] OTHER -> "page"
           next == [NoScan EXCEPT !.opt = opt, !.began = hour, !.stage = to]
<1>2. to \in {"status", "market", "page"} /\ (to = "status" => opt.cmd = "opportunities")
  OBVIOUS
<1>3. Continue(next)
  BY <1>1
<1> HIDE DEF to
<1>4. /\ next.opt = opt /\ next.began = hour /\ next.stage = to /\ next.rows = <<>>
      /\ next.markets = <<>> /\ next.ranked = 0 /\ next.page = 0 /\ next.pairs = {}
      /\ next.scores = [k \in Tickers |-> None] /\ next.kinds = [e \in Events |-> None]
  BY DEF NoScan
<1> HIDE DEF next
<1>5. Typed(next)
  BY <1>4 DEF Typed, ReportInv, World
<1>6. InCommand(next) /\ OnTheWay(next, history) /\ AsShown(next, history)
  BY <1>2, <1>4 DEF InCommand, OnTheWay, AsShown
<1>7. QED
  BY <1>3, <1>5, <1>6, Onward DEF RowsInv

LEMMA FailingReports == ASSUME ReportInv, Failing PROVE World' /\ RowsInv(scan, history)'
<1> DEFINE next == [NoScan EXCEPT !.stage = "failed"]
<1>1. Continue(next)
  BY DEF Failing
<1>2. /\ next.began = 0 /\ next.stage = "failed"
      /\ next.markets = <<>> /\ next.ranked = 0 /\ next.page = 0 /\ next.pairs = {}
      /\ next.scores = [k \in Tickers |-> None] /\ next.kinds = [e \in Events |-> None]
  BY DEF NoScan
<1> HIDE DEF next
<1>3. Typed(next)
  BY <1>2 DEF Typed
<1>4. InCommand(next) /\ OnTheWay(next, history) /\ AsShown(next, history)
  BY <1>2 DEF InCommand, OnTheWay, AsShown
<1>5. QED
  BY <1>1, <1>3, <1>4, Onward DEF RowsInv

LEMMA StatusReports == ASSUME ReportInv, AskStatus PROVE World' /\ RowsInv(scan, history)'
<1>1. PICK status : Continue([scan EXCEPT !.status = status, !.stage = "page"])
  BY DEF AskStatus
<1>2. scan.stage = "status"
  BY DEF AskStatus, InScan
<1> DEFINE next == [scan EXCEPT !.status = status, !.stage = "page"]
<1>3. Continue(next)
  BY <1>1
<1>4. /\ next.opt = scan.opt /\ next.began = scan.began /\ next.stage = "page" /\ next.rows = scan.rows
      /\ next.markets = scan.markets /\ next.ranked = scan.ranked /\ next.page = scan.page
      /\ next.pairs = scan.pairs /\ next.scores = scan.scores /\ next.kinds = scan.kinds
  BY FieldsOf DEF ReportInv
<1> HIDE DEF next
<1>5. Typed(next)
  BY <1>4 DEF Typed, ReportInv, RowsInv
<1>6. InCommand(next) /\ OnTheWay(next, history) /\ AsShown(next, history)
  BY <1>2, <1>4 DEF InCommand, OnTheWay, AsShown, ReportInv, RowsInv
<1>7. QED
  BY <1>3, <1>5, <1>6, Onward DEF RowsInv

LEMMA ListedAsIsListed == ASSUME World, NEW k \in Tickers PROVE ListedAs(k) \in Listed
<1>1. board[k] \in Markets
  BY DEF World
<1>2. QED
  BY <1>1 DEF ListedAs, Listed, Markets

LEMMA PagesAreListed ==
    ASSUME World, NEW page \in Nat \ {0}
    PROVE  PageOfMarkets(page) \in Seq(Listed) /\ PageOfEvents(page) \in Seq(Listed)
<1>1. Listing \in Seq(Tickers) /\ PageSize \in Nat
  BY ScanAssumption
<1>2. ASSUME NEW seq \in Seq(Tickers) PROVE [i \in DOMAIN seq |-> ListedAs(seq[i])] \in Seq(Listed)
  <2>1. DOMAIN seq = 1..Len(seq) /\ Len(seq) \in Nat
    OBVIOUS
  <2>2. \A i \in 1..Len(seq) : ListedAs(seq[i]) \in Listed
    BY ListedAsIsListed
  <2>3. QED
    BY <2>1, <2>2
<1>3. PageOfMarkets(page) \in Seq(Listed)
  <2> DEFINE a == (page - 1) * PageSize
             b == page * PageSize
             c == Min({b, Len(Listing)})
             slice == SubSeq(Listing, a + 1, c)
             S == {i \in DOMAIN slice : board[slice[i]].active}
             open == Kept(slice, S)
  <2>1. \A x, y \in Nat : x * y \in Nat
    OBVIOUS
  <2>2. page - 1 \in Nat /\ page \in Nat /\ Len(Listing) \in Nat
    BY <1>1
  <2>3. a \in Nat /\ b \in Nat
    BY <1>1, <2>1, <2>2
  <2> HIDE DEF a, b
  <2>4. c \in Nat /\ c <= Len(Listing)
    BY <2>2, <2>3, MinOfTwo
  <2>5. slice \in Seq(Tickers)
    <3> HIDE DEF c
    <3>1. \A i \in (a + 1)..c : i \in 1..Len(Listing)
      BY <2>2, <2>3, <2>4
    <3>2. QED
      BY <1>1, <2>3, <2>4, <3>1, SubSeqProperties
  <2>6. S \in SUBSET DOMAIN slice
    OBVIOUS
  <2>7. PageOfMarkets(page) = [i \in DOMAIN open |-> ListedAs(open[i])]
    BY DEF PageOfMarkets, a, b
  <2> HIDE DEF slice, S
  <2>8. PICK e : KeptFrom(e, slice, S, Tickers)
    BY <2>5, <2>6, KeptFacts
  <2>9. open \in Seq(Tickers)
    BY <2>8 DEF KeptFrom
  <2> HIDE DEF open
  <2>10. QED
    BY <1>2, <2>7, <2>9
<1>4. PageOfEvents(page) \in Seq(Listed)
  <2> DEFINE slice == ToSet(SubSeq(EventList, (page - 1) * PageSize + 1, Min({page * PageSize, Len(EventList)})))
             S == {i \in DOMAIN Listing : EventOf[Listing[i]] \in slice \intersect scan.opt.wanted}
             nested == Kept(Listing, S)
  <2>1. S \in SUBSET DOMAIN Listing
    OBVIOUS
  <2>2. PageOfEvents(page) = [i \in DOMAIN nested |-> ListedAs(nested[i])]
    BY DEF PageOfEvents
  <2> HIDE DEF S
  <2>3. PICK e : KeptFrom(e, Listing, S, Tickers)
    BY <1>1, <2>1, KeptFacts
  <2>4. nested \in Seq(Tickers)
    BY <2>3 DEF KeptFrom
  <2> HIDE DEF nested
  <2>5. QED
    BY <1>2, <2>2, <2>4
<1>5. QED
  BY <1>3, <1>4

LEMMA PageReports == ASSUME ReportInv, FetchPage PROVE World' /\ RowsInv(scan, history)'
<1>1. scan.stage = "page" /\ scan.rows = <<>>
  BY DEF FetchPage, InScan, ReportInv, RowsInv, InCommand
<1>2. scan.opt \in Scans /\ scan.opt.cmd \in {"opportunities", "new-markets", "movers", "arbitrage"}
  BY <1>1, ScanAssumption DEF ReportInv, ScanInv, Runs, AtWork
<1> DEFINE page == scan.page + 1
           more == scan.markets \o (IF ByEvent THEN PageOfEvents(page) ELSE PageOfMarkets(page))
           over == LastPage(page) \/ page = scan.opt.maxPages
           cut == ~LastPage(page)
           todo == IF over /\ Runs("movers") THEN more ELSE scan.todo
           to == CASE Runs("opportunities") -> "rank" [] Runs("new-markets") -> "collect"
                      [] Runs("movers") -> "history" [] Runs("arbitrage") -> "pairs"
           st == IF over THEN to ELSE scan.stage
           next == [scan EXCEPT !.page = page, !.markets = more, !.cut = cut, !.todo = todo, !.ranked = hour,
                        !.stage = st]
<1>3. Continue(next)
  BY DEF FetchPage
<1>4. /\ Runs("opportunities") => to = "rank"
      /\ Runs("new-markets") => to = "collect"
      /\ Runs("movers") => to = "history"
      /\ Runs("arbitrage") => to = "pairs"
  BY <1>2 DEF Runs
<1>5. st = "page" \/ (over /\ st = to)
  BY <1>1
<1>6. page \in Nat \ {0} /\ scan.markets \in Seq(Listed)
  BY DEF ReportInv, RowsInv, Typed
<1> HIDE DEF page, to
<1>7. more \in Seq(Listed)
  BY <1>6, PagesAreListed DEF ReportInv
<1>8. st = "history" => todo = more
  BY <1>2, <1>4, <1>5 DEF Runs
<1> HIDE DEF more, todo, over, st, cut
<1>9. /\ next.opt = scan.opt /\ next.began = scan.began /\ next.stage = st /\ next.rows = scan.rows
      /\ next.markets = more /\ next.ranked = hour /\ next.page = page /\ next.todo = todo
      /\ next.pairs = scan.pairs /\ next.scores = scan.scores /\ next.kinds = scan.kinds
  BY FieldsOf DEF ReportInv
<1> HIDE DEF next
<1>10. Typed(next)
  BY <1>6, <1>7, <1>9 DEF Typed, ReportInv, RowsInv, World
<1>11. InCommand(next) /\ st \notin {"book", "category", "shown"}
  BY <1>1, <1>2, <1>4, <1>5, <1>9 DEF InCommand, Runs
<1>12. Spans(next, history)
  BY <1>1, <1>9 DEF Spans
<1>13. OnTheWay(next, history) /\ AsShown(next, history)
  BY <1>7, <1>8, <1>9, <1>11, <1>12 DEF OnTheWay, AsShown
<1>14. QED
  BY <1>3, <1>10, <1>11, <1>13, Onward DEF RowsInv

LEMMA SameRanking ==
    ASSUME NEW s, NEW t, t.opt = s.opt, t.markets = s.markets, t.status = s.status, t.ranked = s.ranked
    PROVE  Ranking(t) = Ranking(s) /\ Keys(t) = Keys(s) /\ Opens(t) = Opens(s)
<1>1. Opens(t) = Opens(s)
  BY DEF Opens
<1>2. Keys(t) = Keys(s)
  BY <1>1 DEF Keys
<1>3. QED
  BY <1>1, <1>2 DEF Ranking

LEMMA SameBest ==
    ASSUME NEW s, NEW t, t.opt = s.opt, t.markets = s.markets, t.status = s.status, t.ranked = s.ranked,
           t.scores = s.scores
    PROVE  BestOf(t) = BestOf(s) /\ Keys(t) = Keys(s)
<1>1. Keys(t) = Keys(s) /\ Opens(t) = Opens(s)
  BY SameRanking
<1>2. \A S : Enough(t, S) = Enough(s, S)
  BY DEF Enough
<1>3. QED
  BY <1>1, <1>2 DEF BestOf

(* No candidate, no row.                                                    *)
LEMMA NoneReports ==
    ASSUME NEW s, Looks(s), s.opt.minLiquidity # None, Ranking(s) = <<>>
    PROVE  Reports(<<>>, s.markets, BestOf(s), Keys(s))
<1> DEFINE top == TopOf(Opens(s), Keys(s), Candidates(s.opt))
           E == Enough(s, top)
<1>1. PICK g : Sortable(top, Keys(s)) /\ Shows(Ranking(s), s.markets, g, Cardinality(top))
  BY RankingShows
<1>2. Cardinality(top) = 0 /\ IsFiniteSet(top)
  BY <1>1 DEF Shows, Sortable
<1>3. top = {}
  BY <1>2, FS_EmptySet
<1>4. E = {}
  BY <1>3 DEF Enough
<1>5. BestOf(s) = {}
  <2>1. BestOf(s) = TopOf(E, Keys(s), s.opt.top)
    BY DEF BestOf
  <2> HIDE DEF E
  <2>2. QED
    BY <1>4, <2>1 DEF TopOf
<1>6. Cardinality({}) = 0
  BY FS_EmptySet
<1>7. QED
  BY <1>5, <1>6 DEF Reports

LEMMA RankReports == ASSUME ReportInv, Rank PROVE World' /\ RowsInv(scan, history)'
<1>1. scan.stage = "rank" /\ scan.rows = <<>> /\ scan.opt.cmd = "opportunities"
  BY DEF Rank, InScan, ReportInv, RowsInv, InCommand
<1>2. scan.opt \in Scans /\ Typed(scan) /\ hour \in Int
  BY <1>1 DEF ReportInv, RowsInv, ScanInv, AtWork, World
<1> DEFINE opt == scan.opt
           M == scan.markets
           kept == {i \in DOMAIN M : Verified(M[i], scan.status) /\ Fits(M[i], opt, hour)}
           best == FirstOf(Picked(M, Order(kept, [i \in kept |-> SortKey(M[i], opt)])), Candidates(opt))
           s == [opt |-> scan.opt, markets |-> scan.markets, status |-> scan.status, ranked |-> hour,
                 scores |-> scan.scores]
<1>3. Opens(s) = kept
  <2>1. ASSUME NEW i \in DOMAIN M
        PROVE  Verified(M[i], scan.status) <=> scan.status # "halted" /\ M[i].active /\ M[i].closes > hour
    <3>1. M[i] \in Listed
      BY <1>2 DEF Typed
    <3>2. M[i].closes \in Int
      BY <3>1 DEF Listed
    <3>3. QED
      BY <1>2, <3>2 DEF Verified
  <2>2. QED
    BY <2>1 DEF Opens
<1>4. Keys(s) = [i \in kept |-> SortKey(M[i], opt)]
  BY <1>3 DEF Keys
<1>5. Ranking(s) = best
  BY <1>3, <1>4 DEF Ranking
<1>6. Looks(s)
  BY <1>1, <1>2 DEF Looks, Typed
<1>7. best \in Seq(Listed)
  BY <1>5, <1>6, RankingShows
<1> HIDE DEF best
<1>8. s.opt = scan.opt /\ s.markets = scan.markets /\ s.status = scan.status /\ s.ranked = hour
      /\ s.scores = scan.scores
  OBVIOUS
<1> HIDE DEF s
<1>9. CASE NeedsBooks /\ best # <<>>
  <2> DEFINE next == [scan EXCEPT !.todo = best, !.rows = best, !.ranked = hour, !.stage = "book"]
  <2>1. Continue(next)
    BY <1>9 DEF Rank, best
  <2>2. /\ next.opt = scan.opt /\ next.began = scan.began /\ next.stage = "book" /\ next.rows = best
        /\ next.markets = scan.markets /\ next.ranked = hour /\ next.page = scan.page /\ next.todo = best
        /\ next.pairs = scan.pairs /\ next.scores = scan.scores /\ next.kinds = scan.kinds
        /\ next.status = scan.status
    BY FieldsOf DEF ReportInv
  <2> HIDE DEF next
  <2>3. Typed(next)
    BY <1>2, <2>2 DEF Typed
  <2>4. Ranking(next) = best
    BY <1>5, <1>8, <2>2, SameRanking
  <2>5. InCommand(next) /\ OnTheWay(next, history) /\ AsShown(next, history)
    BY <1>1, <1>7, <1>9, <2>2, <2>4 DEF InCommand, OnTheWay, AsShown, NeedsBooks
  <2>6. QED
    BY <2>1, <2>3, <2>5, Onward DEF RowsInv
<1>10. CASE ~(NeedsBooks /\ best # <<>>)
  <2> DEFINE next == [Shown(best) EXCEPT !.ranked = hour]
  <2>1. Continue(next)
    BY <1>10 DEF Rank, best
  <2>2. /\ next.opt = scan.opt /\ next.began = scan.began /\ next.stage = "shown" /\ next.rows = best
        /\ next.markets = scan.markets /\ next.ranked = hour /\ next.page = scan.page
        /\ next.pairs = scan.pairs /\ next.scores = scan.scores /\ next.kinds = scan.kinds
        /\ next.status = scan.status
    BY FieldsOf DEF ReportInv, Shown
  <2> HIDE DEF next
  <2>3. Typed(next)
    BY <1>2, <2>2 DEF Typed
  <2>4. BestOf(next) = BestOf(s) /\ Keys(next) = Keys(s)
    BY <1>8, <2>2, SameBest
  <2>5. Reports(best, s.markets, BestOf(s), Keys(s))
    <3>1. CASE ~NeedsBooks
      BY <1>5, <1>6, <1>8, <3>1, RankingReports DEF NeedsBooks
    <3>2. CASE NeedsBooks
      BY <1>5, <1>6, <1>8, <1>10, <3>2, NoneReports DEF NeedsBooks
    <3>3. QED
      BY <3>1, <3>2
  <2>6. InCommand(next) /\ OnTheWay(next, history) /\ AsShown(next, history)
    BY <1>1, <1>8, <2>2, <2>4, <2>5 DEF InCommand, OnTheWay, AsShown
  <2>7. QED
    BY <2>1, <2>3, <2>6, Onward DEF RowsInv
<1>11. QED
  BY <1>9, <1>10

LEMMA ScoreReports == ASSUME ReportInv, ScoreNext PROVE World' /\ RowsInv(scan, history)'
<1>1. /\ scan.stage = "book" /\ scan.todo # <<>> /\ scan.opt.cmd = "opportunities"
      /\ scan.opt.minLiquidity # None /\ scan.rows = Ranking(scan) /\ scan.todo \in Seq(Listed)
      /\ Typed(scan)
  BY DEF ScoreNext, InScan, ReportInv, RowsInv, InCommand, OnTheWay
<1> DEFINE m == Head(scan.todo)
<1>2. m \in Listed /\ Tail(scan.todo) \in Seq(Listed)
  BY <1>1
<1>3. m.ticker \in Tickers /\ m.volume \in Int
  BY <1>2 DEF Listed
<1> HIDE DEF m
<1>4. PICK score \in {LiquidityScore(book, m.volume, m.volume) : book \in Books} \union {None} :
          Continue([scan EXCEPT !.todo = Tail(@), !.scores[m.ticker] = score])
  BY DEF ScoreNext, m
<1>5. score \in Nat \union {None}
  <2>1. \A book \in Books : book \in [yes : Sides, no : Sides]
    BY ScanAssumption
  <2>2. \A book \in Books : LiquidityScore(book, m.volume, m.volume) \in Nat
    BY <1>3, <2>1, ScoreIsNatural
  <2>3. QED
    BY <1>4, <2>2
<1> DEFINE next == [scan EXCEPT !.todo = Tail(@), !.scores[m.ticker] = score]
<1>6. Continue(next)
  BY <1>4
<1>7. /\ next.opt = scan.opt /\ next.began = scan.began /\ next.stage = scan.stage /\ next.rows = scan.rows
      /\ next.markets = scan.markets /\ next.ranked = scan.ranked /\ next.page = scan.page
      /\ next.todo = Tail(scan.todo) /\ next.status = scan.status
      /\ next.pairs = scan.pairs /\ next.kinds = scan.kinds
      /\ next.scores = [scan.scores EXCEPT ![m.ticker] = score]
  BY FieldsOf DEF ReportInv
<1> HIDE DEF next
<1>8. next.scores \in [Tickers -> Nat \union {None}]
  BY <1>1, <1>5, <1>7 DEF Typed
<1>9. Typed(next)
  BY <1>1, <1>7, <1>8 DEF Typed
<1>10. Ranking(next) = Ranking(scan)
  BY <1>7, SameRanking
<1>11. InCommand(next) /\ OnTheWay(next, history) /\ AsShown(next, history)
  BY <1>1, <1>2, <1>7, <1>10 DEF InCommand, OnTheWay, AsShown
<1>12. QED
  BY <1>6, <1>9, <1>11, Onward DEF RowsInv

(* A step that shows rows.                                                  *)
LEMMA ShownFields ==
    ASSUME ScanInv, NEW rows
    PROVE  LET next == Shown(rows)
           IN  /\ next.opt = scan.opt /\ next.began = scan.began /\ next.stage = "shown" /\ next.rows = rows
               /\ next.markets = scan.markets /\ next.ranked = scan.ranked /\ next.page = scan.page
               /\ next.pairs = scan.pairs /\ next.scores = scan.scores /\ next.kinds = scan.kinds
               /\ next.status = scan.status /\ next.todo = scan.todo
  BY FieldsOf DEF Shown

LEMMA ShowOpportunitiesReports ==
    ASSUME ReportInv, ShowOpportunities PROVE World' /\ RowsInv(scan, history)'
<1>1. /\ scan.stage = "book" /\ scan.opt.cmd = "opportunities"
      /\ scan.opt.minLiquidity # None /\ scan.rows = Ranking(scan) /\ Typed(scan) /\ scan.opt \in Scans
  BY DEF ShowOpportunities, InScan, ReportInv, RowsInv, InCommand, OnTheWay, ScanInv, AtWork
<1> DEFINE P == {i \in DOMAIN scan.rows : Scored(scan, scan.rows[i]) >= scan.opt.minLiquidity}
           rows == FirstOf(Kept(scan.rows, P), scan.opt.top)
           next == Shown(rows)
<1>2. Continue(next)
  BY DEF ShowOpportunities, Scored
<1>3. Looks(scan) /\ \A k \in Tickers : scan.scores[k] \in Nat \union {None}
  BY <1>1 DEF Looks, Typed
<1>4. P = {i \in DOMAIN Ranking(scan) : Scored(scan, Ranking(scan)[i]) >= scan.opt.minLiquidity}
  BY <1>1
<1> HIDE DEF P
<1>5. Reports(rows, scan.markets, BestOf(scan), Keys(scan))
  <2>1. rows = FirstOf(Kept(Ranking(scan), P), scan.opt.top)
    BY <1>1
  <2> HIDE DEF rows
  <2>2. Reports(FirstOf(Kept(Ranking(scan), P), scan.opt.top), scan.markets, BestOf(scan), Keys(scan))
    BY <1>1, <1>3, <1>4, EnoughReports
  <2>3. QED
    BY <2>1, <2>2
<1> HIDE DEF rows
<1>6. /\ next.opt = scan.opt /\ next.began = scan.began /\ next.stage = "shown" /\ next.rows = rows
      /\ next.markets = scan.markets /\ next.ranked = scan.ranked /\ next.page = scan.page
      /\ next.pairs = scan.pairs /\ next.scores = scan.scores /\ next.kinds = scan.kinds
      /\ next.status = scan.status
  BY ShownFields DEF ReportInv
<1> HIDE DEF next
<1>7. Typed(next)
  BY <1>1, <1>6 DEF Typed
<1>8. BestOf(next) = BestOf(scan) /\ Keys(next) = Keys(scan)
  BY <1>6, SameBest
<1>9. InCommand(next) /\ OnTheWay(next, history) /\ AsShown(next, history)
  BY <1>1, <1>5, <1>6, <1>8 DEF InCommand, OnTheWay, AsShown
<1>10. QED
  BY <1>2, <1>7, <1>9, Onward DEF RowsInv

LEMMA CollectReports == ASSUME ReportInv, CollectNew PROVE World' /\ RowsInv(scan, history)'
<1>1. /\ scan.stage = "collect" /\ scan.opt.cmd = "new-markets" /\ scan.rows = <<>> /\ Typed(scan)
      /\ scan.opt \in Scans
  BY DEF CollectNew, InScan, ReportInv, RowsInv, InCommand, ScanInv, AtWork
<1> DEFINE new == Newest(scan)
           next == [scan EXCEPT !.stage = "category", !.todo = new]
<1>2. Continue(next)
  BY DEF CollectNew, Newest, Fresh, Ages
<1>3. LooksNew(scan)
  BY <1>1 DEF LooksNew, Typed
<1>4. new \in Seq(Listed) /\ scan.opt.top \in Nat
  BY <1>3, NewestFacts
<1> HIDE DEF new
<1>5. /\ next.opt = scan.opt /\ next.began = scan.began /\ next.stage = "category" /\ next.rows = <<>>
      /\ next.markets = scan.markets /\ next.ranked = scan.ranked /\ next.page = scan.page
      /\ next.pairs = scan.pairs /\ next.scores = scan.scores /\ next.kinds = scan.kinds
      /\ next.todo = new
  BY <1>1, FieldsOf DEF ReportInv
<1> HIDE DEF next
<1>6. Typed(next)
  BY <1>1, <1>5 DEF Typed
<1>7. Newest(next) = new
  BY <1>5 DEF Newest, Fresh, Ages, new
<1>8. new = SubSeq(new, 0 + 1, Len(new))
  BY <1>4
<1>9. RowsFrom(next, new, 0) /\ RowsByAge(next) /\ Settled(next, new, 0)
  BY <1>5 DEF RowsFrom, RowsByAge, Settled
<1>10. LookedAt(next, 0)
  <2>1. 0 \in 0..Len(new) /\ <<>> \in Seq(NewRows) /\ Len(<<>>) <= scan.opt.top
    BY <1>4
  <2>2. QED
    BY <1>5, <1>7, <1>8, <1>9, <2>1 DEF LookedAt
<1>11. InCommand(next) /\ OnTheWay(next, history) /\ AsShown(next, history)
  BY <1>1, <1>5, <1>10 DEF InCommand, OnTheWay, AsShown
<1>12. QED
  BY <1>2, <1>6, <1>11, Onward DEF RowsInv

(* What is right of the rows of new-markets depends on these fields.        *)
LEMMA SameNewRight ==
    ASSUME NEW s, NEW t, t.opt = s.opt, t.markets = s.markets, t.began = s.began, t.kinds = s.kinds,
           t.rows = s.rows, NewRight(s)
    PROVE  NewRight(t)
  BY DEF NewRight, KindOf

LEMMA BuildReports == ASSUME ReportInv, BuildNew PROVE World' /\ RowsInv(scan, history)'
<1>1. /\ scan.stage = "category" /\ scan.opt.cmd = "new-markets" /\ Typed(scan) /\ scan.opt \in Scans
      /\ \E d : LookedAt(scan, d)
  BY DEF BuildNew, InScan, ReportInv, RowsInv, InCommand, OnTheWay, ScanInv, AtWork
<1>2. LooksNew(scan)
  BY <1>1 DEF LooksNew, Typed
<1>3. PICK d : LookedAt(scan, d)
  BY <1>1
<1>4. scan.opt.top \in Nat /\ Len(scan.rows) \in Nat
  BY <1>2, <1>3, NewestFacts DEF LookedAt
<1>5. CASE /\ scan.todo = <<>> \/ Len(scan.rows) >= scan.opt.top
           /\ Continue(Shown(scan.rows))
  <2> DEFINE next == Shown(scan.rows)
  <2>1. /\ next.opt = scan.opt /\ next.began = scan.began /\ next.stage = "shown" /\ next.rows = scan.rows
        /\ next.markets = scan.markets /\ next.ranked = scan.ranked /\ next.page = scan.page
        /\ next.pairs = scan.pairs /\ next.scores = scan.scores /\ next.kinds = scan.kinds
    BY ShownFields DEF ReportInv
  <2>2. Continue(next)
    BY <1>5
  <2> HIDE DEF next
  <2>3. Typed(next)
    BY <1>1, <2>1 DEF Typed
  <2>4. NewRight(scan)
    BY <1>2, <1>3, <1>5, LookedAtShows
  <2>5. NewRight(next)
    BY <2>1, <2>4, SameNewRight
  <2>6. InCommand(next) /\ OnTheWay(next, history) /\ AsShown(next, history)
    BY <1>1, <2>1, <2>5 DEF InCommand, OnTheWay, AsShown
  <2>7. QED
    BY <2>2, <2>3, <2>6, Onward DEF RowsInv
<1>6. CASE scan.todo # <<>> /\ Len(scan.rows) < scan.opt.top
  <2> DEFINE m == Head(scan.todo)
             e == EventOf[m.ticker]
  <2>11. ~(scan.todo = <<>> \/ Len(scan.rows) >= scan.opt.top)
    BY <1>4, <1>6
  <2>1. PICK kind \in KindsOf(e) :
            Continue([scan EXCEPT !.todo = Tail(@), !.kinds[e] = kind,
                !.rows = IF scan.opt.kinds = None \/ kind \in scan.opt.kinds
                         THEN Append(@, [ticker |-> m.ticker, created |-> m.created, kind |-> kind]) ELSE @])
    BY <2>11 DEF BuildNew
  <2>2. m \in Listed
    <3>1. Newest(scan) \in Seq(Listed) /\ d \in 0..Len(Newest(scan))
          /\ scan.todo = SubSeq(Newest(scan), d + 1, Len(Newest(scan)))
      BY <1>2, <1>3, NewestFacts DEF LookedAt
    <3>2. d + 1 \in 1..Len(Newest(scan)) /\ m = Newest(scan)[d + 1]
      BY <1>6, <3>1, RestOfSequence
    <3>3. QED
      BY <3>1, <3>2
  <2>3. e \in Events
    BY <2>2 DEF Listed, Events
  <2> HIDE DEF e, m
  <2>4. kind \in Kinds /\ kind # None /\ (scan.kinds[e] # None => kind = scan.kinds[e])
    <3>1. ClassOf[e] # None /\ scan.kinds[e] \in Kinds \union {None}
      BY <1>2, <2>3, ScanAssumption DEF LooksNew
    <3>2. QED
      BY <2>1, <2>3, <3>1 DEF KindsOf, Kinds
  <2> DEFINE rows == IF scan.opt.kinds = None \/ kind \in scan.opt.kinds
                     THEN Append(scan.rows, [ticker |-> m.ticker, created |-> m.created, kind |-> kind])
                     ELSE scan.rows
             next == [scan EXCEPT !.todo = Tail(@), !.kinds[e] = kind, !.rows = rows]
  <2>5. Continue(next)
    BY <2>1
  <2> HIDE DEF rows
  <2>6. /\ next.opt = scan.opt /\ next.began = scan.began /\ next.stage = scan.stage /\ next.rows = rows
        /\ next.markets = scan.markets /\ next.ranked = scan.ranked /\ next.page = scan.page
        /\ next.pairs = scan.pairs /\ next.scores = scan.scores
        /\ next.kinds = [scan.kinds EXCEPT ![e] = kind] /\ next.todo = Tail(scan.todo)
    BY FieldsOf DEF ReportInv
  <2> HIDE DEF next
  <2>7. LooksNew(next) /\ LookedAt(next, d + 1)
    <3>1. m = Head(scan.todo) /\ e = EventOf[m.ticker]
      BY DEF e, m
    <3>2. next.rows = IF scan.opt.kinds = None \/ kind \in scan.opt.kinds
                      THEN Append(scan.rows, [ticker |-> m.ticker, created |-> m.created, kind |-> kind])
                      ELSE scan.rows
      BY <2>6 DEF rows
    <3>3. QED
      BY <1>2, <1>3, <1>6, <2>4, <2>6, <3>1, <3>2, LookedAtStep
  <2>8. Typed(next)
    BY <1>1, <2>6, <2>7 DEF Typed, LooksNew
  <2>9. InCommand(next) /\ OnTheWay(next, history) /\ AsShown(next, history)
    BY <1>1, <2>6, <2>7 DEF InCommand, OnTheWay, AsShown
  <2>10. QED
    BY <2>5, <2>8, <2>9, Onward DEF RowsInv
<1>7. QED
  BY <1>5, <1>6 DEF BuildNew

LEMMA HistoryReports == ASSUME ReportInv, ReadHistory PROVE World' /\ RowsInv(scan, history)'
<1>1. /\ scan.stage = "history" /\ scan.opt.cmd = "movers" /\ Typed(scan) /\ scan.opt \in Scans
      /\ Spans(scan, history) /\ scan.todo \in Seq(Listed)
  BY DEF ReadHistory, InScan, ReportInv, RowsInv, InCommand, OnTheWay, ScanInv, AtWork
<1>2. scan.opt.top \in Nat /\ scan.opt.hours \in Int
  BY <1>1, ScanAssumption
<1>3. CASE scan.todo = <<>>
  <2> DEFINE rows == FirstOf(Sorted(scan.rows, [i \in DOMAIN scan.rows |-> -Gap(scan.rows[i].change, 0)]), scan.opt.top)
             next == Shown(rows)
  <2>1. Continue(next)
    BY <1>3 DEF ReadHistory
  <2>2. next.rows = rows
    BY ShownFields DEF ReportInv
  <2>3. /\ next.opt = scan.opt /\ next.began = scan.began /\ next.stage = "shown"
        /\ next.markets = scan.markets /\ next.ranked = scan.ranked /\ next.page = scan.page
        /\ next.pairs = scan.pairs /\ next.scores = scan.scores /\ next.kinds = scan.kinds
    BY ShownFields DEF ReportInv
  <2> HIDE DEF next
  <2>4. Spans(next, history) /\ ByGap(next)
    BY <1>1, <1>2, <2>2, <2>3, MovesShown
  <2>5. Typed(next)
    BY <1>1, <2>3 DEF Typed
  <2>6. InCommand(next) /\ OnTheWay(next, history) /\ AsShown(next, history)
    BY <1>1, <2>3, <2>4 DEF InCommand, OnTheWay, AsShown
  <2>7. QED
    BY <2>1, <2>5, <2>6, Onward DEF RowsInv
<1>4. CASE scan.todo # <<>>
  <2> DEFINE k == Head(scan.todo).ticker
             prices == Recent(k)
             from == scan.ranked - scan.opt.hours
             change == prices[1].twice - prices[Len(prices)].twice
             far == Len(prices) >= 2 /\ Gap(change, 0) > 2
             row == [ticker |-> k, change |-> change, was |-> prices]
             rows == IF far THEN Append(scan.rows, row) ELSE scan.rows
             next == [scan EXCEPT !.todo = Tail(@), !.rows = rows]
  <2>1. Continue(next)
    BY <1>4 DEF ReadHistory
  <2>2. Head(scan.todo) \in Listed /\ Tail(scan.todo) \in Seq(Listed)
    BY <1>1, <1>4
  <2>3. k \in Tickers
    BY <2>2 DEF Listed
  <2>4. prices = Window(history[k], from)
    BY DEF Recent, Window
  <2>5. Stored(history[k], hour) /\ hour \in Int /\ from \in Int
    BY <1>1, <1>2, <2>3 DEF ReportInv, World, Typed
  <2> HIDE DEF rows
  <2>6. /\ next.opt = scan.opt /\ next.began = scan.began /\ next.stage = scan.stage /\ next.rows = rows
        /\ next.markets = scan.markets /\ next.ranked = scan.ranked /\ next.page = scan.page
        /\ next.pairs = scan.pairs /\ next.scores = scan.scores /\ next.kinds = scan.kinds
        /\ next.todo = Tail(scan.todo)
    BY FieldsOf DEF ReportInv
  <2> HIDE DEF next, prices, k, from
  <2>7. Spans(next, history)
    <3>1. CASE far
      <4>1. prices \in Seq(Snapshots) /\ change \in Int /\ Spanned(history[k], from, change)
        BY <2>4, <2>5, <3>1, WindowSpans
      <4>2. row \in Moves /\ row.ticker = k /\ row.change = change
        <5> HIDE DEF change
        <5>1. QED
          BY <2>3, <4>1 DEF Moves
      <4> HIDE DEF row, change
      <4>3. next.rows = Append(scan.rows, row)
        BY <2>6, <3>1 DEF rows
      <4>4. scan.rows \in Seq(Moves)
        BY <1>1 DEF Spans
      <4>5. /\ next.rows \in Seq(Moves) /\ Len(next.rows) = Len(scan.rows) + 1
            /\ next.rows[Len(scan.rows) + 1] = row
            /\ \A i \in 1..Len(scan.rows) : next.rows[i] = scan.rows[i]
        BY <4>2, <4>3, <4>4, AppendProperties
      <4>6. \A i \in 1..(Len(scan.rows) + 1) : i = Len(scan.rows) + 1 \/ i \in 1..Len(scan.rows)
        BY <4>4
      <4>7. ASSUME NEW i \in 1..Len(next.rows)
            PROVE  Spanned(history[next.rows[i].ticker], next.ranked - next.opt.hours, next.rows[i].change)
        <5>1. CASE i = Len(scan.rows) + 1
          BY <2>6, <4>1, <4>2, <4>5, <5>1 DEF from
        <5>2. CASE i \in 1..Len(scan.rows)
          BY <1>1, <2>6, <4>5, <5>2 DEF Spans
        <5>3. QED
          BY <4>5, <4>6, <5>1, <5>2
      <4>8. QED
        BY <4>5, <4>7 DEF Spans
    <3>2. CASE ~far
      <4>1. next.rows = scan.rows
        BY <2>6, <3>2 DEF rows
      <4>2. QED
        BY <1>1, <2>6, <4>1 DEF Spans
    <3>3. QED
      BY <3>1, <3>2
  <2>8. Typed(next)
    BY <1>1, <2>6 DEF Typed
  <2>9. InCommand(next) /\ OnTheWay(next, history) /\ AsShown(next, history)
    BY <1>1, <2>2, <2>6, <2>7 DEF InCommand, OnTheWay, AsShown
  <2>10. QED
    BY <2>1, <2>8, <2>9, Onward DEF RowsInv
<1>5. QED
  BY <1>3, <1>4

LEMMA NoMarketsArbRight ==
    ASSUME NEW s, s.markets = <<>>, s.rows = <<>>
    PROVE  ArbRight(s)
<1>1. \A e : MarketsOf(s, e) = {}
  BY DEF MarketsOf
<1>2. ASSUME NEW e PROVE Cardinality(MarketsOf(s, e)) < 2
  <2>1. Cardinality({}) = 0
    BY FS_EmptySet
  <2>2. MarketsOf(s, e) = {}
    BY <1>1
  <2>3. QED
    BY <2>1, <2>2
<1>3. DOMAIN s.rows = {}
  OBVIOUS
<1>4. QED
  BY <1>2, <1>3 DEF ArbRight

LEMMA PairsReports == ASSUME ReportInv, FindPairs PROVE World' /\ RowsInv(scan, history)'
<1>1. /\ scan.stage = "pairs" /\ scan.opt.cmd = "arbitrage" /\ Typed(scan) /\ scan.rows = <<>>
  BY DEF FindPairs, InScan, ReportInv, RowsInv, InCommand
<1>2. PICK pairs \in SUBSET Correlated :
          Continue([scan EXCEPT !.pairs = pairs, !.stage = IF scan.markets = <<>> THEN "shown" ELSE "compare"])
  BY DEF FindPairs
<1> DEFINE to == IF scan.markets = <<>> THEN "shown" ELSE "compare"
           next == [scan EXCEPT !.pairs = pairs, !.stage = to]
<1>3. Continue(next)
  BY <1>2
<1>4. (to = "shown" /\ scan.markets = <<>>) \/ to = "compare"
  OBVIOUS
<1> HIDE DEF to
<1>5. /\ next.opt = scan.opt /\ next.began = scan.began /\ next.stage = to /\ next.rows = <<>>
      /\ next.markets = scan.markets /\ next.ranked = scan.ranked /\ next.page = scan.page
      /\ next.pairs = pairs /\ next.scores = scan.scores /\ next.kinds = scan.kinds
  BY <1>1, FieldsOf DEF ReportInv
<1> HIDE DEF next
<1>6. Typed(next)
  BY <1>1, <1>5 DEF Typed
<1>7. to = "shown" => ArbRight(next)
  BY <1>4, <1>5, NoMarketsArbRight
<1>8. InCommand(next) /\ OnTheWay(next, history) /\ AsShown(next, history)
  BY <1>1, <1>4, <1>5, <1>7 DEF InCommand, OnTheWay, AsShown
<1>9. QED
  BY <1>3, <1>6, <1>8, Onward DEF RowsInv

LEMMA CompareReports == ASSUME ReportInv, ShowArbitrage PROVE World' /\ RowsInv(scan, history)'
<1>1. /\ scan.stage = "compare" /\ scan.opt.cmd = "arbitrage" /\ Typed(scan) /\ scan.opt \in Scans
  BY DEF ShowArbitrage, InScan, ReportInv, RowsInv, InCommand, ScanInv, AtWork
<1>2. LooksForArbitrage(scan)
  BY <1>1 DEF LooksForArbitrage, Typed
<1> DEFINE rows == FirstOf(Sorted(ArbRows, [i \in DOMAIN ArbRows |-> -ArbRows[i].divergence]), scan.opt.top)
           next == Shown(rows)
<1>3. Continue(next)
  BY DEF ShowArbitrage, ArbRows
<1>4. next.rows = rows
  BY ShownFields DEF ReportInv
<1>5. /\ next.opt = scan.opt /\ next.began = scan.began /\ next.stage = "shown"
      /\ next.markets = scan.markets /\ next.ranked = scan.ranked /\ next.page = scan.page
      /\ next.pairs = scan.pairs /\ next.scores = scan.scores /\ next.kinds = scan.kinds
  BY ShownFields DEF ReportInv
<1> HIDE DEF next
<1>6. ArbRight(next)
  BY <1>2, <1>4, <1>5, ArbitrageShown
<1>7. Typed(next)
  BY <1>1, <1>5 DEF Typed
<1>8. InCommand(next) /\ OnTheWay(next, history) /\ AsShown(next, history)
  BY <1>1, <1>5, <1>6 DEF InCommand, OnTheWay, AsShown
<1>9. QED
  BY <1>3, <1>7, <1>8, Onward DEF RowsInv

LEMMA LiquidityReports == ASSUME ReportInv, GetMarket \/ GetOrderbook PROVE World' /\ RowsInv(scan, history)'
<1>1. scan.opt.cmd = "liquidity" /\ Typed(scan)
  BY DEF GetMarket, GetOrderbook, InScan, Runs, ReportInv, RowsInv, ScanInv
<1>2. CASE GetMarket
  <2>1. PICK k \in Tickers : Continue([scan EXCEPT !.markets = <<ListedAs(k)>>, !.stage = "ladder"])
    BY <1>2 DEF GetMarket
  <2> DEFINE markets == <<ListedAs(k)>>
             next == [scan EXCEPT !.markets = markets, !.stage = "ladder"]
  <2>2. Continue(next)
    BY <2>1
  <2>3. markets \in Seq(Listed)
    BY ListedAsIsListed DEF ReportInv
  <2> HIDE DEF markets
  <2>4. /\ next.began = scan.began /\ next.stage = "ladder"
        /\ next.markets = markets /\ next.ranked = scan.ranked /\ next.page = scan.page
        /\ next.pairs = scan.pairs /\ next.scores = scan.scores /\ next.kinds = scan.kinds
    BY FieldsOf DEF ReportInv
  <2> HIDE DEF next
  <2>5. Typed(next)
    BY <1>1, <2>3, <2>4 DEF Typed
  <2>6. InCommand(next) /\ OnTheWay(next, history) /\ AsShown(next, history)
    BY <2>4 DEF InCommand, OnTheWay, AsShown
  <2>7. QED
    BY <2>2, <2>5, <2>6, Onward DEF RowsInv
<1>3. CASE GetOrderbook
  <2>1. PICK book, rows : Continue([scan EXCEPT !.book = book, !.stage = "shown", !.rows = rows])
    BY <1>3 DEF GetOrderbook
  <2> DEFINE next == [scan EXCEPT !.book = book, !.stage = "shown", !.rows = rows]
  <2>2. Continue(next)
    BY <2>1
  <2>3. /\ next.opt = scan.opt /\ next.began = scan.began /\ next.stage = "shown"
        /\ next.markets = scan.markets /\ next.ranked = scan.ranked /\ next.page = scan.page
        /\ next.pairs = scan.pairs /\ next.scores = scan.scores /\ next.kinds = scan.kinds
    BY FieldsOf DEF ReportInv
  <2> HIDE DEF next
  <2>4. Typed(next)
    BY <1>1, <2>3 DEF Typed
  <2>5. InCommand(next) /\ OnTheWay(next, history) /\ AsShown(next, history)
    BY <1>1, <2>3 DEF InCommand, OnTheWay, AsShown
  <2>6. QED
    BY <2>2, <2>4, <2>5, Onward DEF RowsInv
<1>4. QED
  BY <1>2, <1>3

LEMMA NextReports == ASSUME ReportInv, [ScanNext]_screen PROVE ReportInv'
<1>1. ScanInv'
  BY NextScanInv DEF ReportInv
<1>2. CASE UNCHANGED screen
  <2>1. scan' = scan /\ board' = board /\ hour' = hour /\ history' = history
    BY <1>2 DEF screen
  <2>2. World' /\ RowsInv(scan, history)'
    BY <2>1 DEF ReportInv, World
  <2>3. QED
    BY <1>1, <2>2 DEF ReportInv
<1>3. ASSUME ScanNext PROVE World' /\ RowsInv(scan, history)'
  BY <1>3, ChangeReports, StartReports, StatusReports, PageReports, FailingReports, RankReports, ScoreReports,
     ShowOpportunitiesReports, CollectReports, BuildReports, HistoryReports, PairsReports, CompareReports,
     LiquidityReports DEF ScanNext
<1>4. QED
  BY <1>1, <1>2, <1>3 DEF ReportInv

LEMMA OpportunitiesAreRight == ASSUME ReportInv PROVE OpportunitiesRight
<1> SUFFICES ASSUME scan.stage = "shown", scan.opt.cmd = "opportunities" PROVE OpportunitiesRight
  BY DEF OpportunitiesRight, Runs
<1> DEFINE opt == scan.opt
           M == scan.markets
           Pre(i, j) == \/ SortKey(M[i], opt) < SortKey(M[j], opt)
                        \/ SortKey(M[i], opt) = SortKey(M[j], opt) /\ i < j
           Top(S, n) == {i \in S : Cardinality({j \in S : Pre(j, i)}) < n}
           open == {i \in DOMAIN M : scan.status # "halted" /\ M[i].active /\ M[i].closes > scan.ranked
                                     /\ Fits(M[i], opt, scan.ranked)}
           Good(S) == {i \in S :
                         \/ opt.minLiquidity <= 0
                         \/ scan.scores[M[i].ticker] # None /\ scan.scores[M[i].ticker] >= opt.minLiquidity}
           best == IF NeedsBooks THEN Top(Good(Top(open, Candidates(opt))), opt.top) ELSE Top(open, opt.top)
           key == Keys(scan)
<1>1. Reports(scan.rows, M, BestOf(scan), key)
  BY DEF ReportInv, RowsInv, AsShown
<1>2. open = Opens(scan)
  BY DEF Opens
<1>3. \A i \in open : key[i] = SortKey(M[i], opt)
  BY <1>2 DEF Keys
<1> HIDE DEF key, open
<1>4. \A S \in SUBSET open : \A i \in S : Leading(S, key, i) = {j \in S : Pre(j, i)}
  <2> SUFFICES ASSUME NEW S \in SUBSET open, NEW i \in S
               PROVE  Leading(S, key, i) = {j \in S : Pre(j, i)}
    OBVIOUS
  <2>1. \A j \in S : key[j] = SortKey(M[j], opt)
    BY <1>3
  <2>2. QED
    BY <2>1 DEF Leading, Before
<1>5. \A S \in SUBSET open : \A n : TopOf(S, key, n) = Top(S, n) /\ Top(S, n) \in SUBSET open
  <2> SUFFICES ASSUME NEW S \in SUBSET open, NEW n
               PROVE  TopOf(S, key, n) = Top(S, n) /\ Top(S, n) \in SUBSET open
    OBVIOUS
  <2>1. \A i \in S : Leading(S, key, i) = {j \in S : Pre(j, i)}
    BY <1>4
  <2>2. QED
    BY <2>1 DEF TopOf
<1>6. \A S : Good(S) = Enough(scan, S) /\ Good(S) \in SUBSET S
  BY DEF Enough
<1> HIDE DEF Top, Good
<1>7. best = BestOf(scan) /\ best \in SUBSET open
  <2>1. TopOf(open, key, Candidates(opt)) = Top(open, Candidates(opt)) /\ Top(open, Candidates(opt)) \in SUBSET open
    BY <1>5
  <2>2. TopOf(open, key, opt.top) = Top(open, opt.top) /\ Top(open, opt.top) \in SUBSET open
    BY <1>5
  <2> DEFINE E == Good(Top(open, Candidates(opt)))
  <2>3. E \in SUBSET open /\ E = Enough(scan, TopOf(open, key, Candidates(opt)))
    BY <1>6, <2>1
  <2>4. TopOf(E, key, opt.top) = Top(E, opt.top) /\ Top(E, opt.top) \in SUBSET open
    BY <1>5, <2>3
  <2>5. BestOf(scan) = IF NeedsBooks THEN TopOf(E, key, opt.top) ELSE TopOf(open, key, opt.top)
    BY <1>2, <2>3 DEF BestOf, NeedsBooks, key
  <2> HIDE DEF E
  <2>6. best = IF NeedsBooks THEN Top(E, opt.top) ELSE Top(open, opt.top)
    BY DEF E
  <2>7. QED
    BY <2>2, <2>4, <2>5, <2>6
<1> HIDE DEF best
<1>8. Len(scan.rows) = Cardinality(best)
  BY <1>1, <1>7 DEF Reports
<1>9. ASSUME NEW r \in DOMAIN scan.rows
      PROVE  \E i \in best : M[i] = scan.rows[r] /\ Cardinality({j \in best : Pre(j, i)}) = r - 1
  <2>1. PICK i \in best : M[i] = scan.rows[r] /\ Cardinality(Leading(best, key, i)) = r - 1
    BY <1>1, <1>7 DEF Reports
  <2>2. Leading(best, key, i) = {j \in best : Pre(j, i)}
    BY <1>4, <1>7
  <2>3. QED
    BY <2>1, <2>2
<1>10. QED
  BY <1>8, <1>9 DEF OpportunitiesRight, best, Top, Good, open

LEMMA MoversAreRight ==
    ASSUME Typed(scan), World, Spans(scan, history), ByGap(scan), scan.opt.hours \in Int
    PROVE  MoversRight
<1>1. scan.rows \in Seq(Moves) /\ DOMAIN scan.rows = 1..Len(scan.rows)
  BY DEF Spans
<1>2. ASSUME NEW r \in DOMAIN scan.rows
      PROVE  LET prices == history[scan.rows[r].ticker]
             IN  /\ DOMAIN prices = 1..Len(prices)
                 /\ Spanned(prices, scan.ranked - scan.opt.hours, scan.rows[r].change)
  <2>1. scan.rows[r] \in Moves
    BY <1>1
  <2>2. scan.rows[r].ticker \in Tickers
    BY <2>1 DEF Moves
  <2>3. history[scan.rows[r].ticker] \in Seq(Snapshots)
    BY <2>2 DEF World, Stored
  <2>4. QED
    BY <1>1, <2>3 DEF Spans
<1>3. ASSUME NEW r \in DOMAIN scan.rows
      PROVE  \E new, old \in DOMAIN history[scan.rows[r].ticker] :
                /\ scan.rows[r].change = history[scan.rows[r].ticker][new].twice - history[scan.rows[r].ticker][old].twice
                /\ history[scan.rows[r].ticker][old].at >= scan.ranked - scan.opt.hours
                /\ old - new < HistoryLimit
                /\ \/ old = Len(history[scan.rows[r].ticker])
                   \/ old - new + 1 = HistoryLimit
                   \/ history[scan.rows[r].ticker][old + 1].at < scan.ranked - scan.opt.hours
  BY <1>2 DEF Spanned
<1>4. \A r, q \in DOMAIN scan.rows : q < r => Gap(scan.rows[q].change, 0) >= Gap(scan.rows[r].change, 0)
  BY <1>1 DEF ByGap
<1>5. QED
  BY <1>3, <1>4 DEF MoversRight

LEMMA ScansAreRight == ASSUME ReportInv PROVE ScansRight
<1>1. ASSUME scan.stage = "shown", scan.opt.cmd = "new-markets" PROVE NewMarketsRight
  <2>1. NewRight(scan)
    BY <1>1 DEF ReportInv, RowsInv, AsShown
  <2>2. QED
    BY <2>1 DEF NewRight, KindOf, NewMarketsRight
<1>2. ASSUME scan.stage = "shown", scan.opt.cmd = "movers" PROVE MoversRight
  <2>1. Spans(scan, history) /\ ByGap(scan)
    BY <1>2 DEF ReportInv, RowsInv, AsShown
  <2>2. scan.opt.hours \in Int
    BY <1>2, ScanAssumption DEF ReportInv, ScanInv, InScan
  <2>3. QED
    BY <2>1, <2>2, MoversAreRight DEF ReportInv, RowsInv
<1>3. ASSUME scan.stage = "shown", scan.opt.cmd = "arbitrage" PROVE ArbitrageRight
  <2>1. ArbRight(scan)
    BY <1>3 DEF ReportInv, RowsInv, AsShown
  <2>2. QED
    BY <2>1, ZenonT(60) DEF ArbRight, MarketsOf, NamesOf, OffBy, AllPriced, ArbitrageRight
<1>4. QED
  BY <1>1, <1>2, <1>3, OpportunitiesAreRight DEF ScansRight, ReportsRight, Runs

(* For every exchange, every history of it, every command line and every  *)
(* change of the markets, the prices and the clock between the requests of*)
(* a command: what scan opportunities, new-markets, movers and arbitrage  *)
(* show is what their listing, their orderbooks, their events and their   *)
(* stored prices warrant (cli/scan/).                                     *)
THEOREM ReportsAreRight == ScanSpec => []ScansRight
<1>1. ScanInit => ReportInv
  BY InitReports, ScanInitInv DEF ReportInv
<1>2. ReportInv /\ [ScanNext]_screen => ReportInv'
  BY NextReports
<1>3. ReportInv => ScansRight
  BY ScansAreRight
<1>4. QED
  BY <1>1, <1>2, <1>3, PTL DEF ScanSpec

=============================================================================
