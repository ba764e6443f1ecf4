------------------------- MODULE DataSchedulerProofs -------------------------
(***************************************************************************)
(* For any jobs, intervals, run times and lateness of the event loop: the   *)
(* runners stay on their grid, a call is never later than the wake-up that  *)
(* makes it, and nothing runs once stop() has returned.                     *)
(***************************************************************************)
EXTENDS DataScheduler, TLAPS

(* How far a job can be behind: a sleeper is woken in time, a function that *)
(* takes its time is late by as much.                                      *)
NotBehind(j) ==
    /\ due[j] \in (-(Lateness + MaxRun))..Period[j] /\ phase[j] \in 0..Period[j]
    /\ busy[j] \in 0..MaxRun
    /\ pc[j] = "waiting" => due[j] >= -Lateness
    /\ pc[j] \in {"func", "cancelled"} => due[j] >= -Lateness - busy[j]

(* A runner that has a grid keeps its distance from it also while its       *)
(* function runs; none has a grid before it is scheduled, and no function   *)
(* runs without.                                                            *)
Aligned(j) ==
    j \in Repeating =>
        /\ pc[j] = "unscheduled" => ~initialized[j]
        /\ pc[j] = "func" => initialized[j]
        /\ initialized[j] /\ pc[j] \in {"waiting", "func"} => (phase[j] + due[j]) % Period[j] = 0

(* What runs is known to the scheduler, or stop() has lost sight of it; and *)
(* while the scheduler does not run, stop() waits for it.                   *)
Accounted(j) ==
    j \notin strays =>
        /\ pc[j] \in {"waiting", "func", "cancelled"} => j \in tasks
        /\ ~running /\ pc[j] \in {"func", "cancelled"} => stopper = "gathering" /\ j \in gathered

JobOK(j) == NotBehind(j) /\ Aligned(j) /\ Accounted(j)

(* The variables without the bounds on the times.                           *)
Types ==
    /\ running \in BOOLEAN
    /\ tasks \subseteq Jobs
    /\ pc \in [Jobs -> {"unscheduled", "waiting", "func", "cancelled", "done"}]
    /\ initialized \in [Jobs -> BOOLEAN]
    /\ due \in [Jobs -> Int] /\ phase \in [Jobs -> Int] /\ busy \in [Jobs -> Int]
    /\ gathered \subseteq tasks
    /\ stopper \in {"idle", "gathering"}
    /\ stopped \in BOOLEAN
    /\ strays \subseteq Jobs

(* The inductive invariant.                                                 *)
IInv == Types /\ \A j \in Jobs : JobOK(j)

-----------------------------------------------------------------------------
(* Remainders.                                                              *)
LEMMA Division ==
    ASSUME NEW x \in Int, NEW p \in Nat \ {0}
    PROVE  x \div p \in Int /\ x % p \in 0..(p - 1) /\ x = p * (x \div p) + (x % p)
  OBVIOUS

LEMMA RemainderIsUnique ==
    ASSUME NEW x \in Int, NEW p \in Nat \ {0}, NEW k \in Int, NEW r \in 0..(p - 1), x = p * k + r
    PROVE  x % p = r
  OBVIOUS

LEMMA Multiple ==
    ASSUME NEW x \in Int, NEW p \in Nat \ {0}
    PROVE  x % p = 0 <=> \E k \in Int : x = p * k
<1>1. ASSUME x % p = 0 PROVE \E k \in Int : x = p * k
  <2>1. x = p * (x \div p) /\ x \div p \in Int
    BY <1>1, Division
  <2>2. QED
    BY <2>1
<1>2. ASSUME NEW k \in Int, x = p * k PROVE x % p = 0
  <2>1. 0 \in 0..(p - 1) /\ x = p * k + 0
    BY <1>2
  <2>2. QED
    BY <2>1, RemainderIsUnique
<1>3. QED
  BY <1>1, <1>2

LEMMA Distribute ==
    ASSUME NEW p \in Int, NEW k \in Int, NEW l \in Int
    PROVE  p * (k + l) = p * k + p * l /\ p * (k - l) = p * k - p * l
  OBVIOUS

(* Multiples of p add up.                                                   *)
LEMMA MultiplesAdd ==
    ASSUME NEW x \in Int, NEW y \in Int, NEW p \in Nat \ {0}, x % p = 0, y % p = 0
    PROVE  (x + y) % p = 0 /\ (x - y) % p = 0
<1>1. PICK k \in Int : x = p * k
  BY Multiple
<1>2. PICK l \in Int : y = p * l
  BY Multiple
<1>3. x + y = p * (k + l) /\ x - y = p * (k - l)
  BY <1>1, <1>2, Distribute
<1>4. k + l \in Int /\ k - l \in Int /\ x + y \in Int /\ x - y \in Int
  OBVIOUS
<1>5. QED
  BY <1>3, <1>4, Multiple

(* One tick later the slot is one tick nearer.                              *)
LEMMA TickAligns ==
    ASSUME NEW f \in Int, NEW d \in Int, NEW p \in Nat \ {0}, (f + d) % p = 0
    PROVE  (((f + 1) % p) + (d - 1)) % p = 0
<1>1. PICK r \in Int, q \in Int : r = (f + 1) % p /\ f + 1 = p * q + r
  BY Division
<1>2. (f + 1 - r) % p = 0
  <2>1. f + 1 - r = p * q /\ f + 1 - r \in Int
    BY <1>1
  <2>2. QED
    BY <2>1, Multiple
<1>3. ((f + d) - (f + 1 - r)) % p = 0
  BY <1>2, MultiplesAdd
<1>4. (f + d) - (f + 1 - r) = r + (d - 1)
  BY <1>1
<1>5. QED
  BY <1>1, <1>3, <1>4

(* There is a next slot, and it is on the grid.                             *)
LEMMA NextDueOnGrid ==
    ASSUME NEW j \in Jobs, due[j] \in Int, Period[j] \in Nat \ {0}
    PROVE  /\ NextDue(j) \in 1..Period[j]
           /\ (NextDue(j) - due[j]) % Period[j] = 0
<1> DEFINE p == Period[j]
<1>1. PICK r \in 0..(p - 1), q \in Int : due[j] = p * q + r
  BY Division
<1>2. \E d \in 1..p : (d - due[j]) % p = 0
  <2>1. CASE r = 0
    <3>0. p * 1 = p /\ p \in Int /\ p \in 1..p
      OBVIOUS
    <3>1. p - due[j] = p * 1 - p * q /\ p - due[j] \in Int
      BY <1>1, <2>1, <3>0
    <3>2. p * (1 - q) = p * 1 - p * q /\ 1 - q \in Int
      BY <3>0, Distribute
    <3>3. p - due[j] = p * (1 - q)
      BY <3>1, <3>2
    <3>4. QED
      BY <3>0, <3>1, <3>2, <3>3, Multiple
  <2>2. CASE r # 0
    <3>1. r - due[j] = p * 0 - p * q /\ r - due[j] \in Int /\ r \in 1..p
      BY <1>1, <2>2
    <3>2. p * (0 - q) = p * 0 - p * q /\ 0 - q \in Int
      BY Distribute
    <3>3. r - due[j] = p * (0 - q)
      BY <3>1, <3>2
    <3>4. QED
      BY <3>1, <3>2, <3>3, Multiple
  <2>3. QED
    BY <2>1, <2>2
<1>3. QED
  BY <1>2 DEF NextDue

-----------------------------------------------------------------------------
LEMMA Bounds ==
    /\ MaxRun \in Nat /\ Lateness \in Nat
    /\ Repeating \subseteq Jobs /\ Immediate \subseteq Repeating
    /\ \A j \in Jobs : Period[j] \in Nat
    /\ \A j \in Repeating : Period[j] \in Nat \ {0}
  BY SchedulerAssumption

LEMMA InitIInv == ASSUME Init PROVE IInv
<1>1. Types
  <2>1. running \in BOOLEAN /\ stopped \in BOOLEAN /\ stopper \in {"idle", "gathering"}
    BY DEF Init
  <2>2. tasks \subseteq Jobs /\ gathered \subseteq tasks /\ strays \subseteq Jobs
    BY DEF Init
  <2>3. pc \in [Jobs -> {"unscheduled", "waiting", "func", "cancelled", "done"}]
    BY DEF Init
  <2>4. initialized \in [Jobs -> BOOLEAN]
    BY DEF Init
  <2>5. due \in [Jobs -> Int] /\ phase \in [Jobs -> Int] /\ busy \in [Jobs -> Int]
    BY DEF Init
  <2>6. QED
    BY <2>1, <2>2, <2>3, <2>4, <2>5 DEF Types
<1>2. ASSUME NEW j \in Jobs PROVE JobOK(j)
  <2>1. pc[j] = "unscheduled" /\ initialized[j] = FALSE /\ due[j] = 0 /\ phase[j] = 0 /\ busy[j] = 0
    BY DEF Init
  <2>2. QED
    BY <2>1, Bounds DEF JobOK, NotBehind, Aligned, Accounted
<1>3. QED
  BY <1>1, <1>2 DEF IInv

(* What one job's step leaves to the others.                                *)
LEMMA OthersStay ==
    ASSUME IInv, NEW j \in Jobs, Types', JobOK(j)',
           \A k \in Jobs \ {j} : /\ pc'[k] = pc[k] /\ initialized'[k] = initialized[k]
                                 /\ due'[k] = due[k] /\ phase'[k] = phase[k] /\ busy'[k] = busy[k],
           tasks \subseteq tasks', gathered' = gathered, stopper' = stopper, strays' = strays,
           running' = running
    PROVE  IInv'
<1>1. ASSUME NEW k \in Jobs, k # j PROVE JobOK(k)'
  <2>1. JobOK(k)
    BY DEF IInv
  <2>2. QED
    BY <1>1, <2>1 DEF JobOK, NotBehind, Aligned, Accounted
<1>2. QED
  BY <1>1 DEF IInv

LEMMA JobFacts ==
    ASSUME IInv, NEW j \in Jobs
    PROVE  /\ NotBehind(j) /\ Aligned(j) /\ Accounted(j)
           /\ due[j] \in Int /\ phase[j] \in Int /\ busy[j] \in Int /\ Period[j] \in Nat
  BY Bounds DEF IInv, JobOK, NotBehind, Types

LEMMA ScheduleStep == ASSUME IInv, NEW j \in Jobs, Schedule(j) PROVE IInv'
<1>1. Types'
  BY Bounds DEF Schedule, IInv, Types, Stopping
<1>2. /\ pc'[j] = "waiting" /\ j \in tasks' /\ due'[j] = (IF j \in Repeating THEN 0 ELSE Period[j])
      /\ phase'[j] = phase[j] /\ busy'[j] = busy[j] /\ initialized' = initialized
  BY DEF Schedule, IInv, Types
<1>3. NotBehind(j)'
  BY <1>2, JobFacts, Bounds DEF NotBehind
<1>4. Aligned(j)'
  BY <1>2, JobFacts DEF Aligned, Schedule
<1>5. Accounted(j)'
  BY <1>2 DEF Accounted
<1>6. \A k \in Jobs \ {j} : /\ pc'[k] = pc[k] /\ initialized'[k] = initialized[k]
                            /\ due'[k] = due[k] /\ phase'[k] = phase[k] /\ busy'[k] = busy[k]
  BY DEF Schedule, IInv, Types
<1>7. JobOK(j)'
  BY <1>3, <1>4, <1>5 DEF JobOK
<1>8. QED
  BY <1>1, <1>6, <1>7, OthersStay DEF Schedule, Stopping

LEMMA StartStep == ASSUME IInv, Start PROVE IInv'
<1>1. Types'
  BY DEF Start, IInv, Types, Grid, Stopping
<1>2. ASSUME NEW j \in Jobs PROVE JobOK(j)'
  BY JobFacts DEF JobOK, NotBehind, Aligned, Accounted, Start, Grid, Stopping
<1>3. QED
  BY <1>1, <1>2 DEF IInv

LEMMA PollStep == ASSUME IInv, NEW j \in Jobs, Poll(j) PROVE IInv'
<1>1. Types'
  BY DEF Poll, IInv, Types, Stopping
<1>2. initialized'[j] = FALSE /\ pc[j] = "waiting"
  BY DEF Poll, IInv, Types
<1>3. JobOK(j)'
  BY <1>2, JobFacts DEF JobOK, NotBehind, Aligned, Accounted, Poll, Stopping
<1>4. \A k \in Jobs \ {j} : /\ pc'[k] = pc[k] /\ initialized'[k] = initialized[k]
                            /\ due'[k] = due[k] /\ phase'[k] = phase[k] /\ busy'[k] = busy[k]
  BY DEF Poll, IInv, Types
<1>5. QED
  BY <1>1, <1>3, <1>4, OthersStay DEF Poll, Stopping

LEMMA InitializeStep == ASSUME IInv, NEW j \in Jobs, Initialize(j) PROVE IInv'
<1>1. /\ pc[j] = "waiting" /\ initialized'[j] = TRUE /\ phase'[j] = 0 /\ running
      /\ \/ due'[j] = 0 /\ pc'[j] = "func" /\ busy'[j] = 0
         \/ due'[j] = Period[j] /\ pc' = pc /\ busy' = busy
  BY DEF Initialize, IInv, Types, Call
<1>2. Types'
  <2>1. pc' \in [Jobs -> {"unscheduled", "waiting", "func", "cancelled", "done"}]
    BY DEF Initialize, IInv, Types, Call
  <2>2. initialized' \in [Jobs -> BOOLEAN]
    BY DEF Initialize, IInv, Types
  <2>3. due' \in [Jobs -> Int] /\ phase' \in [Jobs -> Int] /\ busy' \in [Jobs -> Int]
    BY Bounds DEF Initialize, IInv, Types, Call
  <2>4. QED
    BY <2>1, <2>2, <2>3 DEF Initialize, IInv, Types, Stopping
<1>3. NotBehind(j)'
  BY <1>1, JobFacts, Bounds DEF NotBehind
<1>4. Aligned(j)'
  <2>1. CASE j \in Repeating
    <3>1. Period[j] \in Nat \ {0} /\ Period[j] = Period[j] * 1 /\ 0 = Period[j] * 0
      BY <2>1, Bounds
    <3>2. Period[j] % Period[j] = 0 /\ 0 % Period[j] = 0
      BY <3>1, Multiple
    <3>3. (phase'[j] + due'[j]) % Period[j] = 0
      BY <1>1, <3>1, <3>2
    <3>4. QED
      BY <1>1, <3>3 DEF Aligned
  <2>2. QED
    BY <2>1 DEF Aligned
<1>5. Accounted(j)'
  BY <1>1, JobFacts DEF Accounted, Initialize, Stopping
<1>6. \A k \in Jobs \ {j} : /\ pc'[k] = pc[k] /\ initialized'[k] = initialized[k]
                            /\ due'[k] = due[k] /\ phase'[k] = phase[k] /\ busy'[k] = busy[k]
  BY DEF Initialize, IInv, Types, Call
<1>7. JobOK(j)'
  BY <1>3, <1>4, <1>5 DEF JobOK
<1>8. QED
  BY <1>2, <1>6, <1>7, OthersStay DEF Initialize, Stopping

LEMMA BeginStep == ASSUME IInv, NEW j \in Jobs, Begin(j) PROVE IInv'
<1>1. pc[j] = "waiting" /\ initialized[j] /\ running /\ pc'[j] = "func" /\ busy'[j] = 0
  BY DEF Begin, IInv, Types, Call
<1>2. Types'
  BY DEF Begin, IInv, Types, Call, Grid, Stopping
<1>3. JobOK(j)'
  BY <1>1, JobFacts, Bounds DEF JobOK, NotBehind, Aligned, Accounted, Begin, Grid, Stopping
<1>4. \A k \in Jobs \ {j} : /\ pc'[k] = pc[k] /\ initialized'[k] = initialized[k]
                            /\ due'[k] = due[k] /\ phase'[k] = phase[k] /\ busy'[k] = busy[k]
  BY DEF Begin, IInv, Types, Call, Grid
<1>5. QED
  BY <1>2, <1>3, <1>4, OthersStay DEF Begin, Stopping

LEMMA FinishStep == ASSUME IInv, NEW j \in Jobs, Finish(j) PROVE IInv'
<1>1. /\ pc[j] = "func" /\ initialized' = initialized /\ phase' = phase /\ busy' = busy
      /\ \/ j \in Repeating /\ pc'[j] = "waiting" /\ due'[j] = NextDue(j)
         \/ j \notin Repeating /\ pc'[j] = "done" /\ due' = due
  BY DEF Finish, IInv, Types
<1>2. j \in Repeating =>
         /\ Period[j] \in Nat \ {0} /\ NextDue(j) \in 1..Period[j]
         /\ (phase[j] + NextDue(j)) % Period[j] = 0
  <2>1. HAVE j \in Repeating
  <2>2. Period[j] \in Nat \ {0}
    BY <2>1, Bounds
  <2>3. /\ NextDue(j) \in 1..Period[j] /\ (NextDue(j) - due[j]) % Period[j] = 0
        /\ due[j] \in Int /\ phase[j] \in Int
    BY <2>2, JobFacts, NextDueOnGrid
  <2>4. (phase[j] + due[j]) % Period[j] = 0
    BY <1>1, <2>1, JobFacts DEF Aligned
  <2>5. ((phase[j] + due[j]) + (NextDue(j) - due[j])) % Period[j] = 0
    BY <2>2, <2>3, <2>4, MultiplesAdd
  <2>6. (phase[j] + due[j]) + (NextDue(j) - due[j]) = phase[j] + NextDue(j)
    BY <2>2, <2>3
  <2>7. QED
    BY <2>2, <2>3, <2>5, <2>6
<1>3. Types'
  BY <1>2 DEF Finish, IInv, Types, Stopping
<1>4. NotBehind(j)'
  BY <1>1, <1>2, JobFacts, Bounds DEF NotBehind
<1>5. Aligned(j)'
  BY <1>1, <1>2, JobFacts DEF Aligned
<1>6. Accounted(j)'
  BY <1>1, JobFacts DEF Accounted, Finish, Stopping
<1>7. \A k \in Jobs \ {j} : /\ pc'[k] = pc[k] /\ initialized'[k] = initialized[k]
                            /\ due'[k] = due[k] /\ phase'[k] = phase[k] /\ busy'[k] = busy[k]
  BY DEF Finish, IInv, Types
<1>8. JobOK(j)'
  BY <1>4, <1>5, <1>6 DEF JobOK
<1>9. QED
  BY <1>3, <1>7, <1>8, OthersStay DEF Finish, Stopping

LEMMA RunOnceStep == ASSUME IInv, NEW j \in Jobs, RunOnce(j) PROVE IInv'
<1>1. /\ pc[j] = "waiting" /\ j \notin Repeating
      /\ \/ running /\ pc'[j] = "func" /\ busy'[j] = 0
         \/ pc'[j] = "done" /\ busy' = busy
  BY DEF RunOnce, IInv, Types, Call
<1>2. Types'
  BY DEF RunOnce, IInv, Types, Call, Grid, Stopping
<1>3. JobOK(j)'
  BY <1>1, JobFacts, Bounds DEF JobOK, NotBehind, Aligned, Accounted, RunOnce, Grid, Stopping
<1>4. \A k \in Jobs \ {j} : /\ pc'[k] = pc[k] /\ initialized'[k] = initialized[k]
                            /\ due'[k] = due[k] /\ phase'[k] = phase[k] /\ busy'[k] = busy[k]
  BY DEF RunOnce, IInv, Types, Call, Grid
<1>5. QED
  BY <1>2, <1>3, <1>4, OthersStay DEF RunOnce, Stopping

LEMMA CleanedUpStep == ASSUME IInv, NEW j \in Jobs, CleanedUp(j) PROVE IInv'
<1>1. pc'[j] = "done"
  BY DEF CleanedUp, IInv, Types
<1>2. Types'
  BY DEF CleanedUp, IInv, Types, Grid, Stopping
<1>3. JobOK(j)'
  BY <1>1, JobFacts DEF JobOK, NotBehind, Aligned, Accounted, CleanedUp, Grid, Stopping
<1>4. \A k \in Jobs \ {j} : /\ pc'[k] = pc[k] /\ initialized'[k] = initialized[k]
                            /\ due'[k] = due[k] /\ phase'[k] = phase[k] /\ busy'[k] = busy[k]
  BY DEF CleanedUp, IInv, Types, Grid
<1>5. QED
  BY <1>2, <1>3, <1>4, OthersStay DEF CleanedUp, Stopping

-----------------------------------------------------------------------------
LEMMA StopStep == ASSUME IInv, Stop PROVE IInv'
<1>1. ASSUME NEW j \in Jobs
      PROVE  /\ pc'[j] \in {"unscheduled", "waiting", "func", "cancelled", "done"}
             /\ j \notin tasks => pc'[j] = pc[j]
             /\ j \in tasks => pc'[j] \in {"unscheduled", "cancelled", "done"}
             /\ pc'[j] = "cancelled" => pc[j] \in {"func", "cancelled"}
             /\ pc'[j] = "unscheduled" => pc[j] = "unscheduled"
  BY DEF Stop, Cancel, IInv, Types
<1>2. Types'
  <2>1. pc' \in [Jobs -> {"unscheduled", "waiting", "func", "cancelled", "done"}]
    <3>1. pc' = [j \in Jobs |-> IF j \in tasks THEN Cancel(j) ELSE pc[j]]
      BY DEF Stop
    <3>2. QED
      BY <1>1, <3>1
  <2>2. QED
    BY <2>1 DEF Stop, IInv, Types, Grid
<1>3. ASSUME NEW j \in Jobs PROVE JobOK(j)'
  <2>1. NotBehind(j)'
    BY <1>1, JobFacts DEF NotBehind, Stop, Grid
  <2>2. Aligned(j)'
    BY <1>1, JobFacts DEF Aligned, Stop, Grid
  <2>3. Accounted(j)'
    BY <1>1, JobFacts DEF Accounted, Stop, Grid
  <2>4. QED
    BY <2>1, <2>2, <2>3 DEF JobOK
<1>4. QED
  BY <1>2, <1>3 DEF IInv

LEMMA StopReturnsStep == ASSUME IInv, StopReturns PROVE IInv'
<1>1. Types'
  BY DEF StopReturns, IInv, Types, Grid
<1>2. ASSUME NEW j \in Jobs PROVE JobOK(j)'
  <2>1. NotBehind(j)' /\ Aligned(j)'
    BY JobFacts DEF NotBehind, Aligned, StopReturns, Grid
  <2>2. Accounted(j)'
    BY JobFacts DEF Accounted, StopReturns, Grid
  <2>3. QED
    BY <2>1, <2>2 DEF JobOK
<1>3. QED
  BY <1>1, <1>2 DEF IInv

LEMMA TickStep == ASSUME IInv, Tick PROVE IInv'
<1>1. ASSUME NEW j \in Jobs
      PROVE  /\ due'[j] = IF Counting(j) THEN due[j] - 1 ELSE due[j]
             /\ phase'[j] = IF Counting(j) /\ j \in Repeating THEN (phase[j] + 1) % Period[j] ELSE phase[j]
             /\ busy'[j] = IF pc[j] \in {"func", "cancelled"} THEN busy[j] + 1 ELSE busy[j]
             /\ pc[j] \in {"func", "cancelled"} => busy[j] < MaxRun
             /\ (pc[j] = "waiting" /\ Counting(j)) => due[j] > -Lateness
             /\ j \in Repeating => (phase[j] + 1) % Period[j] \in 0..Period[j]
  <2>1. j \in Repeating => (phase[j] + 1) % Period[j] \in 0..Period[j]
    <3>1. HAVE j \in Repeating
    <3>2. Period[j] \in Nat \ {0} /\ phase[j] + 1 \in Int
      BY <3>1, Bounds, JobFacts
    <3>3. (phase[j] + 1) % Period[j] \in 0..(Period[j] - 1)
      BY <3>2, Division
    <3>4. QED
      BY <3>2, <3>3
  <2>2. QED
    BY <2>1 DEF Tick
<1>2. Types'
  <2>1. due' \in [Jobs -> Int]
    BY JobFacts DEF Tick
  <2>2. phase' \in [Jobs -> Int]
    <3>1. ASSUME NEW j \in Jobs PROVE phase'[j] \in Int
      BY <1>1, JobFacts
    <3>2. QED
      BY <3>1 DEF Tick
  <2>3. busy' \in [Jobs -> Int]
    BY JobFacts DEF Tick
  <2>4. QED
    BY <2>1, <2>2, <2>3 DEF Tick, IInv, Types, Stopping
<1>3. ASSUME NEW j \in Jobs PROVE JobOK(j)'
  <2>1. NotBehind(j)'
    <3>1. phase'[j] \in 0..Period[j]
      BY <1>1, JobFacts DEF NotBehind
    <3>2. busy'[j] \in 0..MaxRun
      BY <1>1, JobFacts, Bounds DEF NotBehind
    <3>3. pc' = pc
      BY DEF Tick
    <3>4. pc[j] = "waiting" => due'[j] >= -Lateness
      BY <1>1, JobFacts, Bounds DEF NotBehind
    <3>5. pc[j] \in {"func", "cancelled"} => due'[j] >= -Lateness - busy'[j]
      BY <1>1, JobFacts, Bounds DEF NotBehind
    <3>6. due'[j] \in (-(Lateness + MaxRun))..Period[j]
      <4>1. CASE Counting(j)
        BY <4>1, <1>1, <3>2, <3>4, <3>5, JobFacts, Bounds DEF NotBehind, Counting
      <4>2. CASE ~Counting(j)
        BY <4>2, <1>1, JobFacts DEF NotBehind
      <4>3. QED
        BY <4>1, <4>2
    <3>7. QED
      BY <3>1, <3>2, <3>3, <3>4, <3>5, <3>6 DEF NotBehind
  <2>2. Aligned(j)'
    <3>1. pc' = pc /\ initialized' = initialized
      BY DEF Tick
    <3>2. ASSUME j \in Repeating, initialized[j], pc[j] \in {"waiting", "func"}
          PROVE  (phase'[j] + due'[j]) % Period[j] = 0
      <4>1. (phase[j] + due[j]) % Period[j] = 0
        BY <3>2, JobFacts DEF Aligned
      <4>2. phase'[j] = (phase[j] + 1) % Period[j] /\ due'[j] = due[j] - 1
        BY <3>2, <1>1 DEF Counting
      <4>3. Period[j] \in Nat \ {0}
        BY <3>2, Bounds
      <4>4. QED
        BY <4>1, <4>2, <4>3, JobFacts, TickAligns
    <3>3. QED
      BY <3>1, <3>2, JobFacts DEF Aligned
  <2>3. Accounted(j)'
    BY JobFacts DEF Accounted, Tick, Stopping
  <2>4. QED
    BY <2>1, <2>2, <2>3 DEF JobOK
<1>4. QED
  BY <1>2, <1>3 DEF IInv

LEMMA StutterStep == ASSUME IInv, UNCHANGED vars PROVE IInv'
<1>1. Types'
  BY DEF vars, IInv, Types
<1>2. ASSUME NEW j \in Jobs PROVE JobOK(j)'
  BY JobFacts DEF JobOK, NotBehind, Aligned, Accounted, vars
<1>3. QED
  BY <1>1, <1>2 DEF IInv

LEMMA NextIInv == ASSUME IInv, [Next]_vars PROVE IInv'
<1>1. CASE \E j \in Jobs : Schedule(j) \/ JobStep(j)
  BY <1>1, ScheduleStep, PollStep, InitializeStep, BeginStep, FinishStep, RunOnceStep,
     CleanedUpStep DEF JobStep
<1>2. QED
  BY <1>1, StartStep, StopStep, StopReturnsStep, TickStep, StutterStep DEF Next

-----------------------------------------------------------------------------
(* The invariant says what the run checks.                                  *)
LEMMA IInvSays == ASSUME IInv PROVE TypeOK /\ OnGrid /\ NothingRunsAfterStop
<1>1. TypeOK
  BY JobFacts DEF IInv, Types, TypeOK, NotBehind
<1>2. OnGrid
  <2>1. ASSUME NEW j \in Repeating, initialized[j], pc[j] = "waiting"
        PROVE  (phase[j] + due[j]) % Period[j] = 0 /\ due[j] <= Period[j]
    BY <2>1, Bounds, JobFacts DEF Aligned, NotBehind
  <2>2. QED
    BY <2>1 DEF OnGrid
<1>3. NothingRunsAfterStop
  BY JobFacts DEF NothingRunsAfterStop, Accounted
<1>4. QED
  BY <1>1, <1>2, <1>3

(* Only a sleeper that is woken calls, and none is woken too late.          *)
LEMMA CallsArePunctual ==
    ASSUME IInv, [Next]_vars, NEW j \in Repeating, pc[j] = "waiting", pc'[j] = "func"
    PROVE  due'[j] >= -Lateness
<1>1. j \in Jobs /\ IInv' /\ pc \in [Jobs -> {"unscheduled", "waiting", "func", "cancelled", "done"}]
  BY Bounds, NextIInv DEF IInv, Types
<1>2. CASE Initialize(j) \/ Begin(j)
  <2>1. busy'[j] = 0
    BY <1>1, <1>2 DEF Initialize, Begin, Call, IInv, Types
  <2>2. due'[j] = 0 \/ due'[j] = due[j]
    BY <1>1, <1>2 DEF Initialize, Begin, Call, IInv, Types, Grid
  <2>3. QED
    BY <1>1, <2>2, JobFacts, Bounds DEF NotBehind
<1>3. Initialize(j) \/ Begin(j)
  <2>1. ASSUME NEW k \in Jobs, Schedule(k) \/ JobStep(k) PROVE Initialize(j) \/ Begin(j)
    <3>1. CASE k = j
      BY <1>1, <2>1, <3>1 DEF Schedule, JobStep, Poll, Finish, RunOnce, CleanedUp, Grid
    <3>2. CASE k # j
      BY <1>1, <2>1, <3>2
         DEF Schedule, JobStep, Poll, Initialize, Begin, Finish, RunOnce, CleanedUp, Call, Grid
    <3>3. QED
      BY <3>1, <3>2
  <2>2. CASE Stop
    BY <1>1, <2>2 DEF Stop, Cancel
  <2>3. QED
    BY <2>1, <2>2 DEF Next, Start, StopReturns, Tick, vars
<1>4. QED
  BY <1>2, <1>3

(* schedule_interval "corrects for execution time drift": however long the  *)
(* functions take and however late the loop wakes a sleeper, a runner waits *)
(* for a slot of its grid, a call is never later than its wake-up, and when *)
(* stop() has returned nothing it saw still runs.                           *)
THEOREM TimetableIsKept == Spec => TimetableKept
<1>1. Init => IInv
  BY InitIInv
<1>2. IInv /\ [Next]_vars => IInv'
  BY NextIInv
<1>3. IInv => TypeOK /\ OnGrid /\ NothingRunsAfterStop
  BY IInvSays
<1>4. IInv /\ [Next]_vars =>
         [\A j \in Repeating : (pc[j] = "waiting" /\ pc'[j] = "func") => due'[j] >= -Lateness]_vars
  BY CallsArePunctual
<1>5. QED
  BY <1>1, <1>2, <1>3, <1>4, PTL DEF Spec, TimetableKept, Punctual

=============================================================================
