------------------------- MODULE ResearchAgentProofs -------------------------
(***************************************************************************)
(* For any plan, budget, costs, number of runs and mishaps: the variables   *)
(* keep their types, and what a run records as spent exceeds its budget at  *)
(* most by what one cost exceeds its estimate; a market pays for a second   *)
(* task, and a run reports a task that is not its own, only where something *)
(* went wrong.                                                             *)
(***************************************************************************)
EXTENDS ResearchAgent, SequenceTheorems, FiniteSetTheorems, TLAPS

(* From the create request to the end of a research step, and the part of   *)
(* it in which a task is known.                                             *)
Researching == {"send", "sent", "save", "write", "lookup", "list", "poll", "final"}
Holding     == {"save", "write", "lookup", "poll", "final"}

(* What holds of a run when there are n tasks: the step it is in was paid   *)
(* for in advance, so that its cost, whenever it comes, cannot take the     *)
(* run further over its budget than an estimate may be wrong.               *)
GoodRun(x, n) ==
    /\ x \in RunRecord
    /\ x.id # NoTask => x.id \in 1..n
    /\ x.spent <= Budget + MaxOvershoot
    /\ x.pc \in Researching => /\ x.step <= Len(Plan)
                               /\ x.spent + Estimate["research"] <= Budget
    /\ x.pc \in {"send", "sent"} => x.attempt >= 1
    /\ x.pc \in Holding => x.id # NoTask

GoodFile(f, n) ==
    f \in {NoFile, Torn} \/ (f \in [id : Nat, topic : Topics] /\ f.id \in 1..n)

(* A completed task costs what a research task may cost.                    *)
GoodTask == {k \in TaskRecord : k.status = "completed" => k.cost \in Costs["research"]}

RunsOK  == run \in [Runs -> RunRecord] /\ \A r \in Runs : GoodRun(run[r], Len(tasks))
FilesOK == /\ file \in [Tickers -> {NoFile, Torn} \cup [id : Nat, topic : Topics]]
           /\ \A t \in Tickers : GoodFile(file[t], Len(tasks))
TasksOK == tasks \in Seq(GoodTask)
WireOK  == wire \subseteq Runs \X (1..Len(Plan)) \X (1..MaxRetries)
CountOK == mishaps \in [Tickers -> 0..MaxMishaps]

(* The inductive invariant.                                                 *)
IInv == RunsOK /\ FilesOK /\ TasksOK /\ WireOK /\ CountOK

-----------------------------------------------------------------------------
LEMMA PlanFacts ==
    /\ Len(Plan) \in Nat
    /\ \A i \in 1..Len(Plan) : Plan[i] \in Endpoints
    /\ \A e \in Endpoints : Estimate[e] \in Nat
    /\ \A e \in Endpoints : \A c \in Costs[e] : c \in Nat /\ c <= Estimate[e] + MaxOvershoot
  BY AgentAssumption

(* A run, a file and the tasks that are good stay good when tasks are added. *)
LEMMA GoodRunGrows ==
    ASSUME NEW x, NEW n \in Nat, NEW m \in Nat, n <= m, GoodRun(x, n)
    PROVE  GoodRun(x, m)
  BY DEF GoodRun

LEMMA GoodFileGrows ==
    ASSUME NEW f, NEW n \in Nat, NEW m \in Nat, n <= m, GoodFile(f, n)
    PROVE  GoodFile(f, m)
  BY DEF GoodFile

(* What the invariant says of the run that takes a step.                    *)
LEMMA RunFacts ==
    ASSUME IInv, NEW r \in Runs
    PROVE  /\ run[r] \in RunRecord
           /\ run[r].ticker \in Tickers /\ run[r].topic \in Topics
           /\ run[r].step \in 1..(Len(Plan) + 1) /\ run[r].spent \in Nat
           /\ run[r].attempt \in 0..MaxRetries /\ run[r].polls \in 0..MaxPolls
           /\ run[r].id \in Nat \cup {NoTask}
           /\ GoodRun(run[r], Len(tasks))
           /\ Len(tasks) \in Nat
  BY DEF IInv, RunsOK, TasksOK, RunRecord

(* The other runs keep what they have: RunsOK' when one run takes a step     *)
(* and no task is lost.                                                     *)
LEMMA OneRunChanges ==
    ASSUME IInv, NEW r \in Runs, Len(tasks') \in Nat, Len(tasks) <= Len(tasks'),
           GoodRun(run'[r], Len(tasks')), run' = [run EXCEPT ![r] = run'[r]]
    PROVE  RunsOK'
<1>1. Len(tasks) \in Nat /\ run \in [Runs -> RunRecord] /\ run'[r] \in RunRecord
  BY DEF IInv, RunsOK, TasksOK, GoodRun
<1>2. run' \in [Runs -> RunRecord]
  BY <1>1
<1>3. ASSUME NEW o \in Runs PROVE GoodRun(run'[o], Len(tasks'))
  <2>1. CASE o = r
    BY <2>1
  <2>2. CASE o # r
    <3>1. run'[o] = run[o]
      BY <2>2, <1>1
    <3>2. GoodRun(run[o], Len(tasks))
      BY DEF IInv, RunsOK
    <3>3. QED
      BY <3>1, <3>2, <1>1, GoodRunGrows
  <2>3. QED
    BY <2>1, <2>2
<1>4. QED
  BY <1>2, <1>3 DEF RunsOK

-----------------------------------------------------------------------------
(* What the steps do to the run that takes them.                            *)
PCs == AtWork \cup {"idle", "done"}

LEMMA ARecord ==
    ASSUME NEW pc \in PCs, NEW t \in Tickers, NEW i \in Topics, NEW s \in 1..(Len(Plan) + 1),
           NEW c \in Nat, NEW a \in 0..MaxRetries, NEW p \in 0..MaxPolls,
           NEW k \in Nat \cup {NoTask}
    PROVE  [pc |-> pc, ticker |-> t, topic |-> i, step |-> s, spent |-> c,
            attempt |-> a, polls |-> p, id |-> k] \in RunRecord
  BY DEF RunRecord, PCs

LEMMA GoFacts ==
    ASSUME IInv, NEW r \in Runs, NEW v \in PCs, Go(r, v), tasks' = tasks,
           v \in Researching => run[r].pc \in Researching,
           v \notin {"send", "sent"} \/ run[r].attempt >= 1,
           v \in Holding => run[r].id # NoTask
    PROVE  RunsOK'
<1> DEFINE x == [run[r] EXCEPT !.pc = v]
<1>1. run' = [run EXCEPT ![r] = x]
  BY DEF Go
<1>2. run'[r] = x
  BY <1>1 DEF IInv, RunsOK
<1>3. GoodRun(x, Len(tasks))
  <2>1. x \in RunRecord
    BY RunFacts DEF RunRecord, PCs
  <2>2. x.pc = v /\ x.id = run[r].id /\ x.spent = run[r].spent /\ x.step = run[r].step
           /\ x.attempt = run[r].attempt
    BY RunFacts DEF RunRecord
  <2> HIDE DEF x
  <2>3. QED
    BY <2>1, <2>2, RunFacts DEF GoodRun
<1> HIDE DEF x
<1>4. Len(tasks') = Len(tasks) /\ Len(tasks) \in Nat
  BY RunFacts
<1>5. run' = [run EXCEPT ![r] = run'[r]] /\ GoodRun(run'[r], Len(tasks'))
  BY <1>1, <1>2, <1>3, <1>4
<1>6. QED
  BY <1>4, <1>5, OneRunChanges

LEMMA StepOverFacts ==
    ASSUME IInv, NEW r \in Runs, NEW cost \in Nat, StepOver(r, cost),
           run[r].step <= Len(Plan), run[r].spent + cost <= Budget + MaxOvershoot,
           Len(tasks') = Len(tasks)
    PROVE  RunsOK'
<1> DEFINE x == [pc |-> "next", ticker |-> run[r].ticker, topic |-> run[r].topic,
                 step |-> run[r].step + 1, spent |-> run[r].spent + cost,
                 attempt |-> 0, polls |-> 0, id |-> NoTask]
<1>1. run' = [run EXCEPT ![r] = x]
  BY DEF StepOver
<1>2. run'[r] = x
  BY <1>1 DEF IInv, RunsOK
<1>3. GoodRun(x, Len(tasks))
  <2>1. /\ run[r].step + 1 \in 1..(Len(Plan) + 1) /\ run[r].spent + cost \in Nat
    BY RunFacts, PlanFacts
  <2>a. 0 \in 0..MaxRetries /\ 0 \in 0..MaxPolls /\ "next" \in PCs
    BY AgentAssumption DEF PCs, AtWork
  <2>2. x \in RunRecord
    BY <2>1, <2>a, RunFacts, ARecord
  <2>3. x.pc = "next" /\ x.id = NoTask /\ x.spent = run[r].spent + cost
    OBVIOUS
  <2> HIDE DEF x
  <2>4. QED
    BY <2>2, <2>3, RunFacts DEF GoodRun, Researching, Holding
<1> HIDE DEF x
<1>4. Len(tasks') = Len(tasks) /\ Len(tasks) \in Nat
  BY RunFacts
<1>5. run' = [run EXCEPT ![r] = run'[r]] /\ GoodRun(run'[r], Len(tasks'))
  BY <1>1, <1>2, <1>3, <1>4
<1>6. QED
  BY <1>4, <1>5, OneRunChanges

LEMMA AgainFacts ==
    ASSUME IInv, NEW r \in Runs, Again(r), run[r].pc = "sent", tasks' = tasks
    PROVE  RunsOK'
<1> DEFINE x == [pc |-> "send", ticker |-> run[r].ticker, topic |-> run[r].topic,
                 step |-> run[r].step, spent |-> run[r].spent,
                 attempt |-> run[r].attempt + 1, polls |-> run[r].polls, id |-> run[r].id]
<1>1. run' = [run EXCEPT ![r] = x]
  BY RunFacts, SMTT(40) DEF Again, IInv, RunsOK, RunRecord
<1>2. run'[r] = x
  BY <1>1 DEF IInv, RunsOK
<1>3. GoodRun(x, Len(tasks))
  <2>1. run[r].attempt + 1 \in 0..MaxRetries /\ "send" \in PCs /\ run[r].attempt + 1 >= 1
    BY RunFacts, AgentAssumption, SMTT(40) DEF PCs, AtWork, Again
  <2>2. x \in RunRecord
    BY <2>1, RunFacts, ARecord
  <2>3. /\ x.pc = "send" /\ x.attempt = run[r].attempt + 1 /\ x.id = run[r].id
        /\ x.spent = run[r].spent /\ x.step = run[r].step
    OBVIOUS
  <2> HIDE DEF x
  <2>4. QED
    BY <2>1, <2>2, <2>3, RunFacts DEF GoodRun, Researching, Holding
<1> HIDE DEF x
<1>4. Len(tasks') = Len(tasks) /\ Len(tasks) \in Nat
  BY RunFacts
<1>5. run' = [run EXCEPT ![r] = run'[r]] /\ GoodRun(run'[r], Len(tasks'))
  BY <1>1, <1>2, <1>3, <1>4
<1>6. QED
  BY <1>4, <1>5, OneRunChanges

(* A step of the loop that failed cost nothing.                             *)
LEMMA FailFacts ==
    ASSUME IInv, NEW r \in Runs, StepFailed(r), run[r].step <= Len(Plan),
           Len(tasks') = Len(tasks)
    PROVE  RunsOK'
<1>1. run[r].spent + 0 <= Budget + MaxOvershoot
  BY RunFacts DEF GoodRun
<1>2. StepOver(r, 0)
  BY DEF StepFailed
<1>3. QED
  BY <1>1, <1>2, StepOverFacts

(* A run that keeps its step and what it spent.                             *)
LEMMA MoveFacts ==
    ASSUME IInv, NEW r \in Runs, run' = [run EXCEPT ![r] = run'[r]], run'[r] \in RunRecord,
           run'[r].spent = run[r].spent, run'[r].step = run[r].step,
           Len(tasks') \in Nat, Len(tasks) <= Len(tasks'),
           run'[r].id # NoTask => run'[r].id \in 1..Len(tasks'),
           run'[r].pc \in Researching => /\ run[r].step <= Len(Plan)
                                        /\ run[r].spent + Estimate["research"] <= Budget,
           run'[r].pc \in {"send", "sent"} => run'[r].attempt >= 1,
           run'[r].pc \in Holding => run'[r].id # NoTask
    PROVE  RunsOK'
<1>1. GoodRun(run'[r], Len(tasks'))
  BY RunFacts DEF GoodRun
<1>2. QED
  BY <1>1, OneRunChanges

(* What a step does to the files, the wire and the counts.                  *)
LEMMA MishapFacts ==
    ASSUME IInv, NEW t \in Tickers, Mishap(t)
    PROVE  CountOK'
  BY AgentAssumption DEF IInv, CountOK, Mishap

LEMMA UnchangedFacts ==
    ASSUME IInv
    PROVE  /\ UNCHANGED <<run, tasks>> => RunsOK'
           /\ UNCHANGED <<file, tasks>> => FilesOK'
           /\ UNCHANGED tasks => TasksOK'
           /\ UNCHANGED wire => WireOK'
           /\ UNCHANGED mishaps => CountOK'
  BY DEF IInv, RunsOK, FilesOK, TasksOK, WireOK, CountOK

LEMMA FileFacts ==
    ASSUME IInv, NEW t \in Tickers, file' = [file EXCEPT ![t] = file'[t]],
           GoodFile(file'[t], Len(tasks)), Len(tasks') = Len(tasks)
    PROVE  FilesOK'
  BY DEF IInv, FilesOK, GoodFile

-----------------------------------------------------------------------------
(* Every action keeps the invariant.                                       *)
LEMMA BeginStep ==
    ASSUME IInv, NEW r \in Runs, NEW t \in Tickers, NEW i \in Topics, Begin(r, t, i)
    PROVE  IInv'
<1> DEFINE x == [run[r] EXCEPT !.pc = "next", !.ticker = t, !.topic = i]
<1>1. run' = [run EXCEPT ![r] = x] /\ run'[r] = x
  BY DEF Begin, IInv, RunsOK
<1>2. x \in RunRecord
  BY RunFacts DEF RunRecord, AtWork
<1>3. x.pc = "next" /\ x.id = run[r].id /\ x.spent = run[r].spent /\ x.step = run[r].step
  BY RunFacts DEF RunRecord
<1> HIDE DEF x
<1>4. RunsOK'
  <2>1. Len(tasks') \in Nat /\ Len(tasks) = Len(tasks') /\ Len(tasks) <= Len(tasks')
    BY RunFacts DEF Begin
  <2>2. run[r].id # NoTask => run[r].id \in 1..Len(tasks)
    BY RunFacts DEF GoodRun
  <2>3. /\ run' = [run EXCEPT ![r] = run'[r]] /\ run'[r] \in RunRecord
        /\ run'[r].spent = run[r].spent /\ run'[r].step = run[r].step
        /\ run'[r].id # NoTask => run'[r].id \in 1..Len(tasks')
        /\ run'[r].pc = "next"
    BY <1>1, <1>2, <1>3, <2>1, <2>2
  <2>4. QED
    BY <2>1, <2>3, MoveFacts DEF Researching, Holding
<1>5. CountOK'
  BY MishapFacts, UnchangedFacts DEF Begin
<1>6. FilesOK' /\ TasksOK' /\ WireOK'
  BY UnchangedFacts DEF Begin
<1>7. QED
  BY <1>4, <1>5, <1>6 DEF IInv

LEMMA SkipStep == ASSUME IInv, NEW r \in Runs, Skip(r) PROVE IInv'
<1>1. RunsOK'
  BY FailFacts DEF Skip, AtStep
<1>2. FilesOK' /\ TasksOK' /\ WireOK' /\ CountOK'
  BY UnchangedFacts DEF Skip
<1>3. QED
  BY <1>1, <1>2 DEF IInv

(* What can_spend leaves of the budget covers the estimate of the step.     *)
LEMMA AskStep == ASSUME IInv, NEW r \in Runs, Ask(r) PROVE IInv'
<1>1. RunsOK'
  <2>1. CASE StepFailed(r)
    BY <2>1, FailFacts DEF Ask, AtStep
  <2>2. ASSUME NEW cost \in Costs[Endpoint(r)], StepOver(r, cost) PROVE RunsOK'
    <3>1. Endpoint(r) \in Endpoints /\ run[r].spent \in Nat
      BY RunFacts DEF Ask, Endpoints
    <3>2. cost \in Nat /\ cost <= Estimate[Endpoint(r)] + MaxOvershoot
      BY <3>1, PlanFacts
    <3>3. Estimate[Endpoint(r)] \in Nat /\ MaxOvershoot \in Nat /\ Budget \in Nat
      BY <3>1, PlanFacts, AgentAssumption
    <3>4. run[r].spent + Estimate[Endpoint(r)] <= Budget /\ run[r].step <= Len(Plan)
      BY DEF Ask, Fits, AtStep
    <3>5. run[r].spent + cost <= Budget + MaxOvershoot
      BY <3>1, <3>2, <3>3, <3>4
    <3>6. Len(tasks') = Len(tasks)
      BY DEF Ask
    <3>7. QED
      BY <2>2, <3>2, <3>4, <3>5, <3>6, StepOverFacts
  <2>3. QED
    BY <2>1, <2>2 DEF Ask
<1>2. FilesOK' /\ TasksOK' /\ WireOK' /\ CountOK'
  BY UnchangedFacts DEF Ask
<1>3. QED
  BY <1>1, <1>2 DEF IInv

LEMMA SummarizeStep == ASSUME IInv, NEW r \in Runs, Summarize(r) PROVE IInv'
<1>1. RunsOK'
  BY GoFacts DEF Summarize, PCs, Researching, Holding
<1>2. FilesOK' /\ TasksOK' /\ WireOK' /\ CountOK'
  BY UnchangedFacts DEF Summarize
<1>3. QED
  BY <1>1, <1>2 DEF IInv

(* A deep step is only taken when its estimate fits.                        *)
LEMMA AtResearchFacts ==
    ASSUME IInv, NEW r \in Runs, AtResearch(r)
    PROVE  run[r].step <= Len(Plan) /\ run[r].spent + Estimate["research"] <= Budget
  BY DEF AtResearch, AtStep, Fits

(* A run that pays for a task anew, of its plan or after a lookup failed.   *)
LEMMA BuyFacts ==
    ASSUME IInv, NEW r \in Runs, BuyAnew(r), tasks' = tasks,
           run[r].step <= Len(Plan) /\ run[r].spent + Estimate["research"] <= Budget
    PROVE  RunsOK'
<1> DEFINE x == [run[r] EXCEPT !.pc = "send", !.attempt = 1, !.id = NoTask]
<1>1. run' = [run EXCEPT ![r] = x] /\ run'[r] = x
  BY DEF IInv, RunsOK, BuyAnew
<1>2. 1 \in 0..MaxRetries
  BY AgentAssumption
<1>3. x \in RunRecord
  BY <1>2, RunFacts DEF RunRecord, AtWork
<1>4. /\ x.pc = "send" /\ x.id = NoTask /\ x.attempt = 1
      /\ x.spent = run[r].spent /\ x.step = run[r].step
  BY RunFacts DEF RunRecord
<1> HIDE DEF x
<1>5. Len(tasks') \in Nat /\ Len(tasks) <= Len(tasks')
  BY RunFacts
<1>6. /\ run' = [run EXCEPT ![r] = run'[r]] /\ run'[r] \in RunRecord
      /\ run'[r].spent = run[r].spent /\ run'[r].step = run[r].step
      /\ run'[r].pc = "send" /\ run'[r].attempt = 1 /\ run'[r].id = NoTask
  BY <1>1, <1>3, <1>4
<1>7. QED
  BY <1>5, <1>6, MoveFacts DEF Researching, Holding

(* A run that gets hold of a task that exists, or is just created.          *)
LEMMA HoldFacts ==
    ASSUME IInv, NEW r \in Runs, NEW v \in Holding, NEW k \in Nat,
           run' = [run EXCEPT ![r].pc = v, ![r].id = k],
           Len(tasks') \in Nat, Len(tasks) <= Len(tasks'), k \in 1..Len(tasks'),
           run[r].step <= Len(Plan) /\ run[r].spent + Estimate["research"] <= Budget
    PROVE  RunsOK'
<1> DEFINE x == [run[r] EXCEPT !.pc = v, !.id = k]
<1>1. run' = [run EXCEPT ![r] = x] /\ run'[r] = x
  BY DEF IInv, RunsOK
<1>2. x \in RunRecord
  BY RunFacts DEF RunRecord, AtWork, Holding
<1>3. x.pc = v /\ x.id = k /\ x.spent = run[r].spent /\ x.step = run[r].step
  BY RunFacts DEF RunRecord
<1> HIDE DEF x
<1>4. v \in Researching /\ v \notin {"send", "sent"} /\ k # NoTask
  BY AgentAssumption DEF Holding, Researching
<1>5. /\ run' = [run EXCEPT ![r] = run'[r]] /\ run'[r] \in RunRecord
      /\ run'[r].spent = run[r].spent /\ run'[r].step = run[r].step
      /\ run'[r].id # NoTask => run'[r].id \in 1..Len(tasks')
      /\ run'[r].pc = v /\ run'[r].id # NoTask
  BY <1>1, <1>2, <1>3, <1>4
<1>6. QED
  BY <1>4, <1>5, MoveFacts

LEMMA LoadStep == ASSUME IInv, NEW r \in Runs, Load(r) PROVE IInv'
<1>1. /\ run[r].step <= Len(Plan) /\ run[r].spent + Estimate["research"] <= Budget
      /\ tasks' = tasks /\ Len(tasks') \in Nat /\ Len(tasks) <= Len(tasks')
      /\ run[r].ticker \in Tickers
  BY AtResearchFacts, RunFacts DEF Load
<1>2. ASSUME Exists(r), LookUp(r) PROVE RunsOK'
  <2>1. PICK k : k = Saved(r).id
    OBVIOUS
  <2>2. k \in Nat /\ k \in 1..Len(tasks')
    BY <1>1, <1>2, <2>1 DEF Exists, Saved, IInv, FilesOK, GoodFile
  <2>3. run' = [run EXCEPT ![r].pc = "lookup", ![r].id = k]
    BY <1>2, <2>1 DEF LookUp
  <2>4. QED
    BY <1>1, <2>2, <2>3, HoldFacts DEF Holding
<1>3. ASSUME BuyAnew(r) PROVE RunsOK'
  BY <1>1, <1>3, BuyFacts
<1>4. RunsOK'
  BY <1>2, <1>3 DEF Load
<1>5. CountOK'
  BY <1>1, MishapFacts, UnchangedFacts DEF Load
<1>6. FilesOK' /\ TasksOK' /\ WireOK'
  BY UnchangedFacts DEF Load
<1>7. QED
  BY <1>4, <1>5, <1>6 DEF IInv

(* Between the create request and the report the estimate is still free.    *)
LEMMA ResearchingFacts ==
    ASSUME IInv, NEW r \in Runs, run[r].pc \in Researching
    PROVE  /\ run[r].step <= Len(Plan) /\ run[r].spent + Estimate["research"] <= Budget
           /\ run[r].pc \in {"send", "sent"} => run[r].attempt >= 1
           /\ run[r].pc \in Holding => run[r].id \in 1..Len(tasks) /\ run[r].id # NoTask
           /\ run[r].ticker \in Tickers
           /\ Len(tasks) \in Nat
  BY RunFacts DEF GoodRun

LEMMA SendStep == ASSUME IInv, NEW r \in Runs, Send(r) PROVE IInv'
<1>1. run[r].pc = "send" /\ run[r].pc \in Researching
  BY DEF Send, Researching
<1>2. RunsOK'
  <2>1. run[r].attempt >= 1
    BY <1>1, ResearchingFacts
  <2>2. Go(r, "sent") /\ tasks' = tasks
    BY DEF Send
  <2>3. "sent" \in PCs /\ "sent" \in Researching /\ "sent" \notin Holding
    BY DEF PCs, AtWork, Researching, Holding
  <2>4. QED
    BY <1>1, <2>1, <2>2, <2>3, GoFacts
<1>3. WireOK'
  <2>1. run[r].step \in 1..Len(Plan) /\ run[r].attempt \in 1..MaxRetries
    BY <1>1, ResearchingFacts, RunFacts, PlanFacts, AgentAssumption
  <2>2. QED
    BY <2>1 DEF Send, WireOK, IInv
<1>4. FilesOK' /\ TasksOK' /\ CountOK'
  BY UnchangedFacts DEF Send
<1>5. QED
  BY <1>2, <1>3, <1>4 DEF IInv

(* Tasks that are added keep what the others and the files say.             *)
LEMMA NewTaskFacts ==
    ASSUME IInv, NEW r \in Runs, tasks' = Append(tasks, NewTask(r))
    PROVE  TasksOK' /\ Len(tasks') = Len(tasks) + 1 /\ Len(tasks) \in Nat
<1>1. NewTask(r) \in GoodTask
  BY RunFacts DEF NewTask, GoodTask, TaskRecord
<1>2. tasks \in Seq(GoodTask)
  BY DEF IInv, TasksOK
<1>3. QED
  BY <1>1, <1>2, AppendProperties DEF TasksOK

LEMMA MoreTasksFacts ==
    ASSUME IInv, Len(tasks') = Len(tasks) + 1, Len(tasks) \in Nat
    PROVE  /\ UNCHANGED file => FilesOK'
           /\ UNCHANGED run => RunsOK'
<1>1. Len(tasks') \in Nat /\ Len(tasks) <= Len(tasks')
  OBVIOUS
<1>2. ASSUME UNCHANGED file PROVE FilesOK'
  BY <1>1, <1>2, GoodFileGrows DEF IInv, FilesOK
<1>3. ASSUME UNCHANGED run PROVE RunsOK'
  BY <1>1, <1>3, GoodRunGrows DEF IInv, RunsOK
<1>4. QED
  BY <1>2, <1>3

LEMMA CreatedStep == ASSUME IInv, NEW r \in Runs, Created(r) PROVE IInv'
<1>1. TasksOK' /\ Len(tasks') = Len(tasks) + 1 /\ Len(tasks) \in Nat
  BY NewTaskFacts DEF Created
<1>2. RunsOK'
  <2>1. PICK k : k = Len(tasks) + 1
    OBVIOUS
  <2>2. /\ k \in Nat /\ k \in 1..Len(tasks')
        /\ Len(tasks') \in Nat /\ Len(tasks) <= Len(tasks')
    BY <1>1, <2>1
  <2>3. run' = [run EXCEPT ![r].pc = "save", ![r].id = k]
    BY <2>1 DEF Created
  <2>4. run[r].pc \in Researching
    BY DEF Created, Researching
  <2>5. run[r].step <= Len(Plan) /\ run[r].spent + Estimate["research"] <= Budget
    BY <2>4, ResearchingFacts
  <2>6. QED
    BY <2>2, <2>3, <2>5, HoldFacts DEF Holding
<1>3. FilesOK'
  BY <1>1, MoreTasksFacts DEF Created
<1>4. WireOK'
  BY DEF Created, WireOK, IInv
<1>5. CountOK'
  BY UnchangedFacts DEF Created
<1>6. QED
  BY <1>1, <1>2, <1>3, <1>4, <1>5 DEF IInv

LEMMA UnansweredStep == ASSUME IInv, NEW r \in Runs, Unanswered(r) PROVE IInv'
<1>1. run[r].pc = "sent" /\ tasks' = tasks /\ run[r].pc \in Researching
  BY DEF Unanswered, Researching
<1>2. run[r].step <= Len(Plan) /\ run[r].ticker \in Tickers
  BY <1>1, ResearchingFacts
<1>3. RunsOK'
  BY <1>1, <1>2, AgainFacts, FailFacts DEF Unanswered
<1>4. CountOK'
  BY <1>2, MishapFacts DEF Unanswered
<1>5. FilesOK' /\ TasksOK' /\ WireOK'
  BY UnchangedFacts DEF Unanswered
<1>6. QED
  BY <1>3, <1>4, <1>5 DEF IInv

LEMMA RefusedStep == ASSUME IInv, NEW r \in Runs, Refused(r) PROVE IInv'
<1>1. run[r].pc = "sent" /\ tasks' = tasks /\ run[r].pc \in Researching
  BY DEF Refused, Researching
<1>2. run[r].step <= Len(Plan)
  BY <1>1, ResearchingFacts
<1>3. RunsOK'
  BY <1>1, <1>2, AgainFacts, FailFacts DEF Refused
<1>4. WireOK'
  BY DEF Refused, WireOK, IInv
<1>5. FilesOK' /\ TasksOK' /\ CountOK'
  BY UnchangedFacts DEF Refused
<1>6. QED
  BY <1>3, <1>4, <1>5 DEF IInv

LEMMA ServeStep == ASSUME IInv, NEW c \in wire, Serve(c) PROVE IInv'
<1>1. WireOK'
  BY DEF Serve, WireOK, IInv
<1>2. CountOK'
  BY UnchangedFacts DEF Serve
<1>3. RunsOK' /\ FilesOK' /\ TasksOK'
  <2>1. CASE tasks' = tasks
    BY <2>1, UnchangedFacts DEF Serve
  <2>2. CASE tasks' = Append(tasks, NewTask(c[1]))
    <3>1. c[1] \in Runs
      BY DEF IInv, WireOK
    <3>2. TasksOK' /\ Len(tasks') = Len(tasks) + 1 /\ Len(tasks) \in Nat
      BY <2>2, <3>1, NewTaskFacts
    <3>3. QED
      BY <3>2, MoreTasksFacts DEF Serve
  <2>3. QED
    BY <2>1, <2>2 DEF Serve
<1>4. QED
  BY <1>1, <1>2, <1>3 DEF IInv

LEMMA TrackedFacts ==
    ASSUME IInv, NEW r \in Runs, run[r].pc \in Holding, Tracked(r), tasks' = tasks
    PROVE  RunsOK'
<1>1. Go(r, "final") \/ Go(r, "poll")
  BY DEF Tracked
<1>2. run[r].pc \in Researching /\ run[r].id # NoTask
  BY ResearchingFacts DEF Holding, Researching
<1>3. QED
  BY <1>1, <1>2, GoFacts DEF PCs, AtWork, Researching, Holding

LEMMA OpenFileStep == ASSUME IInv, NEW r \in Runs, OpenFile(r) PROVE IInv'
<1>1. /\ run[r].pc \in Researching /\ run[r].pc \in Holding /\ tasks' = tasks
      /\ run[r].ticker \in Tickers
  BY RunFacts DEF OpenFile, Researching, Holding
<1>2. run[r].id # NoTask
  BY <1>1, ResearchingFacts
<1>3. CASE file' = [file EXCEPT ![run[r].ticker] = Torn] /\ Go(r, "write") /\ UNCHANGED mishaps
  <2>1. RunsOK'
    BY <1>1, <1>2, <1>3, GoFacts DEF PCs, AtWork, Researching, Holding
  <2>2. FilesOK'
    BY <1>1, <1>3 DEF IInv, FilesOK, GoodFile
  <2>3. TasksOK' /\ WireOK' /\ CountOK'
    BY <1>3, UnchangedFacts DEF OpenFile
  <2>4. QED
    BY <2>1, <2>2, <2>3 DEF IInv
<1>4. CASE Tracked(r) /\ Mishap(run[r].ticker) /\ UNCHANGED file
  <2>1. RunsOK'
    BY <1>1, <1>4, TrackedFacts
  <2>2. CountOK'
    BY <1>1, <1>4, MishapFacts
  <2>3. FilesOK' /\ TasksOK' /\ WireOK'
    BY <1>4, UnchangedFacts DEF OpenFile
  <2>4. QED
    BY <2>1, <2>2, <2>3 DEF IInv
<1>5. QED
  BY <1>3, <1>4 DEF OpenFile

LEMMA WriteFileStep == ASSUME IInv, NEW r \in Runs, WriteFile(r) PROVE IInv'
<1>1. /\ run[r].pc \in Holding /\ tasks' = tasks /\ Tracked(r)
      /\ run[r].ticker \in Tickers /\ run[r].topic \in Topics
  BY RunFacts DEF WriteFile, Holding
<1>2. RunsOK'
  BY <1>1, TrackedFacts
<1>3. FilesOK'
  <2> DEFINE f == [id |-> run[r].id, topic |-> run[r].topic]
  <2>1. run[r].id \in 1..Len(tasks) /\ run[r].id \in Nat
    BY <1>1, ResearchingFacts DEF Researching, Holding
  <2>2. f \in [id : Nat, topic : Topics] /\ f.id \in 1..Len(tasks)
    BY <1>1, <2>1
  <2>3. CASE UNCHANGED file
    BY <1>1, <2>3, UnchangedFacts
  <2>4. CASE file' = [file EXCEPT ![run[r].ticker] = f]
    <3> HIDE DEF f
    <3>1. QED
      BY <1>1, <2>2, <2>4 DEF IInv, FilesOK, GoodFile
  <2>5. QED
    BY <2>3, <2>4 DEF WriteFile
<1>4. CountOK'
  BY <1>1, MishapFacts, UnchangedFacts DEF WriteFile
<1>5. TasksOK' /\ WireOK'
  BY UnchangedFacts DEF WriteFile
<1>6. QED
  BY <1>2, <1>3, <1>4, <1>5 DEF IInv

LEMMA LookupStep == ASSUME IInv, NEW r \in Runs, Lookup(r) PROVE IInv'
<1>1. /\ run[r].pc \in Researching /\ run[r].pc \in Holding /\ tasks' = tasks
      /\ run[r].ticker \in Tickers
  BY RunFacts DEF Lookup, Researching, Holding
<1>2. CASE Tracked(r) /\ UNCHANGED mishaps
  BY <1>1, <1>2, TrackedFacts, UnchangedFacts DEF Lookup, IInv
<1>3. CASE Go(r, "list") /\ Mishap(run[r].ticker)
  <2>1. RunsOK'
    BY <1>1, <1>3, GoFacts DEF PCs, AtWork, Researching, Holding
  <2>2. CountOK'
    BY <1>1, <1>3, MishapFacts
  <2>3. FilesOK' /\ TasksOK' /\ WireOK'
    BY <1>3, UnchangedFacts DEF Lookup
  <2>4. QED
    BY <2>1, <2>2, <2>3 DEF IInv
<1>4. QED
  BY <1>2, <1>3 DEF Lookup

LEMMA ListStep == ASSUME IInv, NEW r \in Runs, List(r) PROVE IInv'
<1>1. tasks' = tasks /\ run[r].pc \in Researching
  BY DEF List, Researching
<1>2. /\ run[r].step <= Len(Plan) /\ run[r].spent + Estimate["research"] <= Budget
      /\ Len(tasks) \in Nat
  BY <1>1, ResearchingFacts
<1>3. CASE BuyAnew(r)
  <2>1. RunsOK'
    BY <1>1, <1>2, <1>3, BuyFacts
  <2>2. FilesOK' /\ TasksOK' /\ WireOK' /\ CountOK'
    BY UnchangedFacts DEF List
  <2>3. QED
    BY <2>1, <2>2 DEF IInv
<1>4. ASSUME NEW k \in DOMAIN tasks,
             run' = [run EXCEPT ![r].pc = "save", ![r].id = k]
      PROVE  IInv'
  <2>1. k \in Nat /\ k \in 1..Len(tasks)
    BY <1>2 DEF IInv, TasksOK
  <2>2. Len(tasks') \in Nat /\ Len(tasks) <= Len(tasks') /\ k \in 1..Len(tasks')
    BY <1>1, <1>2, <2>1
  <2>3. RunsOK'
    BY <1>2, <1>4, <2>1, <2>2, HoldFacts DEF Holding
  <2>4. FilesOK' /\ TasksOK' /\ WireOK' /\ CountOK'
    BY UnchangedFacts DEF List
  <2>5. QED
    BY <2>3, <2>4 DEF IInv
<1>5. QED
  BY <1>3, <1>4 DEF List

LEMMA DieStep == ASSUME IInv, NEW r \in Runs, Die(r) PROVE IInv'
<1>1. RunsOK'
  BY GoFacts DEF Die, PCs, Researching, Holding
<1>2. CountOK'
  BY RunFacts, MishapFacts DEF Die
<1>3. FilesOK' /\ TasksOK' /\ WireOK'
  BY UnchangedFacts DEF Die
<1>4. QED
  BY <1>1, <1>2, <1>3 DEF IInv

LEMMA PollStep == ASSUME IInv, NEW r \in Runs, Poll(r) PROVE IInv'
<1>1. /\ run[r].pc = "poll" /\ tasks' = tasks
      /\ run[r].pc \in Researching /\ run[r].pc \in Holding
  BY DEF Poll, Researching, Holding
<1>2. /\ run[r].step <= Len(Plan) /\ run[r].spent + Estimate["research"] <= Budget
      /\ Len(tasks) \in Nat /\ run[r].id # NoTask /\ run[r].id \in 1..Len(tasks)
  BY <1>1, ResearchingFacts
<1>3. UNCHANGED file
  BY DEF Poll, GiveUp
<1>4. RunsOK'
  <2>1. CASE Go(r, "final")
    BY <1>1, <1>2, <2>1, GoFacts DEF PCs, AtWork, Researching, Holding
  <2>2. CASE run[r].polls < MaxPolls /\ run' = [run EXCEPT ![r].polls = run[r].polls + 1]
    <3> DEFINE x == [run[r] EXCEPT !.polls = run[r].polls + 1]
    <3>1. run' = [run EXCEPT ![r] = x] /\ run'[r] = x
      BY <2>2 DEF IInv, RunsOK
    <3>2. run[r].polls + 1 \in 0..MaxPolls
      BY <2>2, RunFacts, AgentAssumption, SMTT(40)
    <3>3. x \in RunRecord
      BY <3>2, RunFacts DEF RunRecord
    <3>4. /\ x.pc = run[r].pc /\ x.id = run[r].id
          /\ x.spent = run[r].spent /\ x.step = run[r].step
      BY RunFacts DEF RunRecord
    <3> HIDE DEF x
    <3>5. Len(tasks') \in Nat /\ Len(tasks) <= Len(tasks')
      BY <1>1, <1>2
    <3>6. /\ run' = [run EXCEPT ![r] = run'[r]] /\ run'[r] \in RunRecord
          /\ run'[r].spent = run[r].spent /\ run'[r].step = run[r].step
          /\ run'[r].pc = "poll" /\ run'[r].id # NoTask /\ run'[r].id \in 1..Len(tasks')
      BY <1>1, <1>2, <3>1, <3>3, <3>4
    <3>7. QED
      BY <1>2, <3>5, <3>6, MoveFacts DEF Researching, Holding
  <2>3. CASE GiveUp(r)
    BY <1>1, <1>2, <2>3, FailFacts DEF GiveUp
  <2>4. QED
    BY <2>1, <2>2, <2>3 DEF Poll
<1>5. FilesOK' /\ TasksOK' /\ WireOK' /\ CountOK'
  BY <1>3, UnchangedFacts DEF Poll
<1>6. QED
  BY <1>4, <1>5 DEF IInv

(* One task changes and stays good.                                         *)
LEMMA OneTaskChanges ==
    ASSUME IInv, NEW k \in DOMAIN tasks, tasks'[k] \in GoodTask,
           tasks' = [tasks EXCEPT ![k] = tasks'[k]]
    PROVE  TasksOK' /\ Len(tasks') = Len(tasks)
<1>1. tasks \in Seq(GoodTask) /\ k \in 1..Len(tasks)
  BY DEF IInv, TasksOK
<1>2. PICK e : e = tasks'[k]
  OBVIOUS
<1>3. tasks' = [tasks EXCEPT ![k] = e] /\ e \in GoodTask
  BY <1>2
<1>4. QED
  BY <1>1, <1>3, ExceptSeq DEF TasksOK

LEMMA TaskFacts ==
    ASSUME IInv, NEW k \in DOMAIN tasks
    PROVE  /\ tasks[k] \in TaskRecord
           /\ tasks[k].status = "completed" => tasks[k].cost \in Costs["research"]
<1>1. tasks \in Seq(GoodTask) /\ k \in 1..Len(tasks)
  BY DEF IInv, TasksOK
<1>2. tasks[k] \in GoodTask
  BY <1>1, ElementOfSeq
<1>3. QED
  BY <1>2 DEF GoodTask

LEMMA EndTaskStep == ASSUME IInv, NEW k \in DOMAIN tasks, EndTask(k) PROVE IInv'
<1>1. tasks'[k] \in GoodTask /\ tasks' = [tasks EXCEPT ![k] = tasks'[k]]
  <2>1. ASSUME NEW cost \in Costs["research"],
               tasks' = [tasks EXCEPT ![k].status = "completed", ![k].cost = cost]
        PROVE  tasks'[k] \in GoodTask /\ tasks' = [tasks EXCEPT ![k] = tasks'[k]]
    <3> DEFINE x == [tasks[k] EXCEPT !.status = "completed", !.cost = cost]
    <3>1. tasks' = [tasks EXCEPT ![k] = x] /\ tasks'[k] = x
      BY <2>1
    <3>2. cost \in Nat
      BY PlanFacts DEF Endpoints
    <3>3. x \in TaskRecord /\ x.status = "completed" /\ x.cost = cost
      BY <3>2, TaskFacts DEF TaskRecord, Terminal
    <3> HIDE DEF x
    <3>4. QED
      BY <2>1, <3>1, <3>3 DEF GoodTask
  <2>2. ASSUME tasks' = [tasks EXCEPT ![k].status = "failed"]
        PROVE  tasks'[k] \in GoodTask /\ tasks' = [tasks EXCEPT ![k] = tasks'[k]]
    <3> DEFINE x == [tasks[k] EXCEPT !.status = "failed"]
    <3>1. tasks' = [tasks EXCEPT ![k] = x] /\ tasks'[k] = x
      BY <2>2
    <3>2. x \in TaskRecord /\ x.status = "failed"
      BY TaskFacts DEF TaskRecord, Terminal
    <3> HIDE DEF x
    <3>3. QED
      BY <3>1, <3>2 DEF GoodTask
  <2>3. QED
    BY <2>1, <2>2 DEF EndTask
<1>2. TasksOK' /\ Len(tasks') = Len(tasks)
  BY <1>1, OneTaskChanges
<1>3. RunsOK' /\ FilesOK'
  BY <1>2 DEF EndTask, IInv, RunsOK, FilesOK
<1>4. WireOK' /\ CountOK'
  BY UnchangedFacts DEF EndTask
<1>5. QED
  BY <1>2, <1>3, <1>4 DEF IInv

(* The cost that a report adds is one the estimate was checked for.         *)
LEMMA FinalizeStep == ASSUME IInv, NEW r \in Runs, Finalize(r) PROVE IInv'
<1> DEFINE k == run[r].id
           t == run[r].ticker
<1>1. /\ run[r].step <= Len(Plan) /\ run[r].spent + Estimate["research"] <= Budget
      /\ k \in DOMAIN tasks /\ t \in Tickers /\ run[r].spent \in Nat
  BY ResearchingFacts, RunFacts DEF Finalize, Researching, Holding, IInv, TasksOK
<1>2. FilesOK' \/ Len(tasks') # Len(tasks)
  <2>1. CASE file' = [file EXCEPT ![t] = NoFile]
    BY <1>1, <2>1 DEF IInv, FilesOK, GoodFile
  <2>2. CASE UNCHANGED file
    BY <2>2 DEF IInv, FilesOK
  <2>3. QED
    BY <2>1, <2>2 DEF Finalize
<1>3. CountOK'
  BY <1>1, MishapFacts, UnchangedFacts DEF Finalize
<1>4. WireOK'
  BY UnchangedFacts DEF Finalize
<1>5. RunsOK' /\ TasksOK' /\ Len(tasks') = Len(tasks)
  <2>1. CASE tasks[k].status = "completed"
    <3> DEFINE x == [tasks[k] EXCEPT !.reported = tasks[k].reported \cup {r}]
    <3>1. tasks' = [tasks EXCEPT ![k] = x] /\ StepOver(r, tasks[k].cost)
      BY <2>1 DEF Finalize
    <3>2. x \in TaskRecord /\ x.status = "completed" /\ x.cost = tasks[k].cost
      BY <1>1, <2>1, TaskFacts DEF TaskRecord
    <3>3. tasks[k].cost \in Costs["research"]
      BY <1>1, <2>1, TaskFacts
    <3> HIDE DEF x, k
    <3>4. tasks'[k] = x /\ x \in GoodTask
      BY <1>1, <3>1, <3>2, <3>3 DEF GoodTask
    <3>5. TasksOK' /\ Len(tasks') = Len(tasks)
      BY <1>1, <3>1, <3>4, OneTaskChanges
    <3>6. PICK c \in Costs["research"] : c = tasks[k].cost
      BY <3>3
    <3>7. c \in Nat /\ c <= Estimate["research"] + MaxOvershoot
      BY PlanFacts DEF Endpoints
    <3>8. run[r].spent + c <= Budget + MaxOvershoot
      BY <1>1, <3>7, PlanFacts, AgentAssumption, SMTT(40) DEF Endpoints
    <3>9. QED
      BY <1>1, <3>1, <3>5, <3>6, <3>7, <3>8, StepOverFacts
  <2>2. CASE tasks[k].status # "completed"
    <3> DEFINE x == [tasks[k] EXCEPT !.dropped = TRUE]
    <3>1. tasks' = [tasks EXCEPT ![k] = x] /\ StepFailed(r)
      BY <2>2 DEF Finalize
    <3>2. x \in TaskRecord /\ x.status # "completed"
      BY <1>1, <2>2, TaskFacts DEF TaskRecord
    <3> HIDE DEF x, k
    <3>3. tasks'[k] = x /\ x \in GoodTask
      BY <1>1, <3>1, <3>2 DEF GoodTask
    <3>4. TasksOK' /\ Len(tasks') = Len(tasks)
      BY <1>1, <3>1, <3>3, OneTaskChanges
    <3>5. QED
      BY <1>1, <3>1, <3>4, FailFacts
  <2>3. QED
    BY <2>1, <2>2
<1>6. QED
  BY <1>2, <1>3, <1>4, <1>5 DEF IInv

-----------------------------------------------------------------------------
LEMMA InitIInv == ASSUME Init PROVE IInv
<1> DEFINE x == [pc |-> "idle", ticker |-> CHOOSE t \in Tickers : TRUE,
                 topic |-> CHOOSE i \in Topics : TRUE, step |-> 1, spent |-> 0,
                 attempt |-> 0, polls |-> 0, id |-> NoTask]
<1>1. run = [r \in Runs |-> x]
  BY DEF Init
<1>2. x \in RunRecord
  <2>1. /\ (CHOOSE t \in Tickers : TRUE) \in Tickers
        /\ (CHOOSE i \in Topics : TRUE) \in Topics
    BY AgentAssumption
  <2>2. /\ "idle" \in PCs /\ 1 \in 1..(Len(Plan) + 1) /\ 0 \in Nat
        /\ 0 \in 0..MaxRetries /\ 0 \in 0..MaxPolls
    BY PlanFacts, AgentAssumption DEF PCs
  <2>3. QED
    BY <2>1, <2>2, ARecord
<1>3. x.pc = "idle" /\ x.id = NoTask /\ x.spent = 0
  OBVIOUS
<1> HIDE DEF x
<1>4. GoodRun(x, 0)
  BY <1>2, <1>3, AgentAssumption DEF GoodRun, Researching, Holding
<1>5. tasks = <<>> /\ Len(tasks) = 0
  BY DEF Init
<1>6. RunsOK
  BY <1>1, <1>2, <1>4, <1>5 DEF RunsOK
<1>7. FilesOK /\ TasksOK /\ WireOK /\ CountOK
  BY <1>5, AgentAssumption DEF Init, FilesOK, TasksOK, WireOK, CountOK, GoodFile
<1>8. QED
  BY <1>6, <1>7 DEF IInv

LEMMA NextIInv == ASSUME IInv, [Next]_vars PROVE IInv'
<1>1. ASSUME NEW r \in Runs, RunStep(r) PROVE IInv'
  BY <1>1, SkipStep, AskStep, SummarizeStep, LoadStep, SendStep, CreatedStep,
     UnansweredStep, RefusedStep, OpenFileStep, WriteFileStep, LookupStep, ListStep,
     PollStep, FinalizeStep DEF RunStep
<1>2. CASE UNCHANGED vars
  BY <1>2, UnchangedFacts DEF vars, IInv
<1>3. QED
  BY <1>1, <1>2, DieStep, BeginStep, ServeStep, EndTaskStep DEF Next

LEMMA IInvTypeOK == ASSUME IInv PROVE TypeOK
<1>1. DOMAIN tasks = 1..Len(tasks) /\ tasks \in Seq(TaskRecord)
  <2>1. tasks \in Seq(GoodTask)
    BY DEF IInv, TasksOK
  <2>2. GoodTask \subseteq TaskRecord
    BY DEF GoodTask
  <2>3. QED
    BY <2>1, <2>2
<1>2. QED
  BY <1>1, RunFacts DEF TypeOK, IInv, RunsOK, FilesOK, WireOK, CountOK, GoodRun, GoodFile

(* Runs, files and tasks are what TypeOK says: in particular a file names a *)
(* task that exists, and no request is attempted more than MaxRetries times *)
(* (StepExecutor, ResearchTaskRecovery, ExaHTTPBase._request).             *)
THEOREM TypeCorrect == Spec => []TypeOK
<1>1. Init => IInv
  BY InitIInv
<1>2. IInv /\ [Next]_vars => IInv'
  BY NextIInv
<1>3. IInv => TypeOK
  BY IInvTypeOK
<1>4. QED
  BY <1>1, <1>2, <1>3, PTL DEF Spec

(* A run never records more than its budget and what one estimate may be    *)
(* wrong by, although the cost of a step is known only when it is over, a   *)
(* step may fail at any point, and the task it reports may be another's     *)
(* (ExaBudget.can_spend, execute_plan).                                     *)
THEOREM SpendStaysBounded == Spec => []SpendBounded
<1>1. Init => IInv
  BY InitIInv
<1>2. IInv /\ [Next]_vars => IInv'
  BY NextIInv
<1>3. IInv => SpendBounded
  BY RunFacts DEF SpendBounded, GoodRun
<1>4. QED
  BY <1>1, <1>2, <1>3, PTL DEF Spec

(* Whatever becomes of its steps, a run, its file and its task stay         *)
(* well-formed and its budget is kept (execute_plan).                       *)
THEOREM BudgetIsKept == Spec => []BudgetKept
<1>1. TypeOK /\ SpendBounded => BudgetKept
  BY DEF BudgetKept
<1>2. QED
  BY TypeCorrect, SpendStaysBounded, <1>1, PTL

-----------------------------------------------------------------------------
(* The tasks that are paid for.  What a market has on its account: tasks    *)
(* nobody collected, requests nobody waits for any more, and runs that may  *)
(* still pay.  Plans hold one research step, so that a run pays once unless *)
(* something goes wrong.                                                   *)

(* A run whose research step is still to come, one that may still pay for a *)
(* task, and one that is about to write the file.                           *)
Fresh(x)   == x.pc = "next" /\ \E s \in x.step..Len(Plan) : Plan[s] = "research"
Owing(x)   == Fresh(x) \/ x.pc \in {"send", "sent", "list"}
Writing(x) == x.pc \in {"save", "write"}

Mine(t)  == {r \in Runs : run[r].pc \in AtWork /\ run[r].ticker = t}
Open(t)  == {r \in Mine(t) : Owing(run[r])}
Stray(t) == {c \in wire : run[c[1]].ticker = t /\ ~Awaited(c)}
Dues(t)  == Cardinality(Uncollected(t)) + Cardinality(Stray(t)) + Cardinality(Open(t))

(* The market's file names a task that is uncollected; a run is past        *)
(* loading it; one is about to change it; one holds a task somebody else    *)
(* collected.                                                               *)
Kept(t)   == file[t] \notin {NoFile, Torn} /\ file[t].id \in Uncollected(t)
Passed(t) == \E r \in Mine(t) : ~Fresh(run[r])
Busy(t)   == \E r \in Mine(t) : Owing(run[r]) \/ Writing(run[r])
Lost(t)   == \E r \in Mine(t) : run[r].pc \in Holding /\ run[r].id \notin Uncollected(t)

(* One purchase is free, if no file is kept or the first run that loads it  *)
(* finds it; every other one is paid for by a mishap.                       *)
Paid(t) ==
    /\ Mine(t) = {} => Dues(t) <= mishaps[t] + (IF Kept(t) THEN 1 ELSE 0)
    /\ Mine(t) # {} => Dues(t) <= mishaps[t] + 2
    /\ Mine(t) # {} /\ (~Kept(t) \/ Passed(t)) => Dues(t) <= mishaps[t] + 1
    /\ Mine(t) # {} /\ ~Kept(t) /\ ~Busy(t) => Dues(t) <= mishaps[t]
    /\ Lost(t) => Dues(t) <= mishaps[t]

(* A run that has not begun left nothing behind.                            *)
Traceless(r) == (\A c \in wire : c[1] # r) /\ \A k \in DOMAIN tasks : r \notin tasks[k].reported

(* The inductive invariant for the tasks.                                   *)
Accounts ==
    /\ IInv
    /\ IsFiniteSet(wire)
    /\ \A r \in Runs : run[r].pc \in Researching => Endpoint(r) = "research"
    /\ \A r \in Runs : run[r].pc = "idle" => Traceless(r)
    /\ \A t \in Tickers : Paid(t)

-----------------------------------------------------------------------------
LEMMA Recount ==
    ASSUME NEW S, IsFiniteSet(S), NEW T, NEW e, T \subseteq S \cup {e}
    PROVE  /\ IsFiniteSet(T) /\ Cardinality(T) \in Nat /\ Cardinality(S) \in Nat
           /\ Cardinality(T) <= Cardinality(S) + 1
           /\ T \subseteq S => Cardinality(T) <= Cardinality(S)
           /\ T \subseteq S \ {e} /\ e \in S => Cardinality(T) + 1 <= Cardinality(S)
<1>1. Cardinality(S) \in Nat
  BY FS_CardinalityType
<1>2. ASSUME T \subseteq S PROVE Cardinality(T) <= Cardinality(S)
  BY <1>2, FS_Subset
<1>3. /\ IsFiniteSet(S \cup {e}) /\ Cardinality(S \cup {e}) <= Cardinality(S) + 1
      /\ Cardinality(S \cup {e}) \in Nat
  BY <1>1, FS_AddElement, FS_CardinalityType
<1>4. IsFiniteSet(T) /\ Cardinality(T) <= Cardinality(S \cup {e})
  BY <1>3, FS_Subset
<1>5. Cardinality(T) \in Nat
  BY <1>4, FS_CardinalityType
<1>6. ASSUME T \subseteq S \ {e}, e \in S PROVE Cardinality(T) + 1 <= Cardinality(S)
  <2>1. IsFiniteSet(S \ {e}) /\ Cardinality(S \ {e}) = Cardinality(S) - 1
    BY <1>6, FS_RemoveElement
  <2>2. Cardinality(T) <= Cardinality(S \ {e})
    BY <1>6, <2>1, FS_Subset
  <2>3. QED
    BY <1>1, <1>5, <2>1, <2>2
<1>7. QED
  BY <1>1, <1>2, <1>3, <1>4, <1>5, <1>6

LEMMA Counted ==
    ASSUME IInv, IsFiniteSet(wire), NEW t \in Tickers
    PROVE  /\ IsFiniteSet(Uncollected(t)) /\ Cardinality(Uncollected(t)) \in Nat
           /\ IsFiniteSet(Stray(t)) /\ Cardinality(Stray(t)) \in Nat
           /\ IsFiniteSet(Open(t)) /\ Cardinality(Open(t)) \in Nat
           /\ Dues(t) \in Nat /\ mishaps[t] \in Nat
<1>1. IsFiniteSet(DOMAIN tasks)
  <2>1. DOMAIN tasks = 1..Len(tasks) /\ Len(tasks) \in Nat
    BY DEF IInv, TasksOK
  <2>2. QED
    BY <2>1, FS_Interval
<1>2. Uncollected(t) \subseteq DOMAIN tasks /\ Stray(t) \subseteq wire /\ Open(t) \subseteq Runs
  BY DEF Uncollected, Stray, Open, Mine
<1>3. /\ IsFiniteSet(Uncollected(t)) /\ IsFiniteSet(Stray(t)) /\ IsFiniteSet(Open(t))
  BY <1>1, <1>2, AgentAssumption, FS_Subset
<1>4. /\ Cardinality(Uncollected(t)) \in Nat /\ Cardinality(Stray(t)) \in Nat
      /\ Cardinality(Open(t)) \in Nat
  BY <1>3, FS_CardinalityType
<1>5. mishaps[t] \in Nat
  BY AgentAssumption DEF IInv, CountOK
<1>6. QED
  BY <1>3, <1>4, <1>5 DEF Dues

(* The run that takes a step goes on for its market.                        *)
Moves(r) ==
    /\ run[r].pc \in AtWork /\ run'[r].pc \in AtWork
    /\ run'[r].ticker = run[r].ticker
    /\ run' = [run EXCEPT ![r] = run'[r]]

LEMMA OthersRest ==
    ASSUME IInv, NEW r \in Runs, run' = [run EXCEPT ![r] = run'[r]]
    PROVE  \A o \in Runs : o # r => run'[o] = run[o]
  BY DEF IInv, RunsOK

(* What a step of a run does to its market: at most as many dues come on    *)
(* its account as mishaps happened, and the file is lost or forgotten only  *)
(* when the run has a purchase in hand or one less is owed.                 *)
LEMMA WorkPays ==
    ASSUME Accounts, NEW r \in Runs, Moves(r), NEW t \in Tickers, t = run[r].ticker,
           Uncollected(t) \subseteq Uncollected(t)',
           NEW d \in Nat, Dues(t)' = d, NEW m \in Nat, mishaps'[t] = m, mishaps[t] <= m,
           d - m <= Dues(t) - mishaps[t],
           Fresh(run[r]) /\ ~Fresh(run'[r]) => d <= m + 1,
           ~Kept(t)' => ~Kept(t) \/ ~Fresh(run'[r]),
           ~Kept(t)' /\ ~Owing(run'[r]) /\ ~Writing(run'[r]) =>
               (~Kept(t) /\ ~Owing(run[r]) /\ ~Writing(run[r])) \/ d <= m,
           run'[r].pc \in Holding /\ run'[r].id \notin Uncollected(t)' =>
               (run[r].pc \in Holding /\ run[r].id \notin Uncollected(t)) \/ d <= m
    PROVE  Paid(t)'
<1>1. \A o \in Runs : o # r => run'[o] = run[o]
  BY OthersRest DEF Accounts, Moves
<1>2. Mine(t)' = Mine(t) /\ r \in Mine(t)
  BY <1>1 DEF Mine, Moves
<1>3. Dues(t) \in Nat /\ mishaps[t] \in Nat /\ Paid(t)
  BY Counted DEF Accounts
<1>4. d <= m + 2
  BY <1>2, <1>3 DEF Paid
<1>5. ~Fresh(run[r]) => Passed(t)
  BY <1>2 DEF Passed
<1>6. ~Fresh(run'[r]) => d <= m + 1
  BY <1>2, <1>3, <1>5 DEF Paid
<1>7. Passed(t)' => d <= m + 1
  <2>1. CASE \E o \in Mine(t) : o # r /\ ~Fresh(run'[o])
    <3>1. Passed(t)
      BY <1>1, <2>1 DEF Passed, Mine
    <3>2. QED
      BY <1>2, <1>3, <3>1 DEF Paid
  <2>2. QED
    BY <1>2, <1>6, <2>1 DEF Passed
<1>8. ~Kept(t)' => d <= m + 1
  BY <1>2, <1>3, <1>6 DEF Paid
<1>9. ~Kept(t)' /\ ~Busy(t)' => d <= m
  <2>1. HAVE ~Kept(t)' /\ ~Busy(t)'
  <2>2. ~Owing(run'[r]) /\ ~Writing(run'[r])
    BY <1>2, <2>1 DEF Busy
  <2>3. \A o \in Mine(t) : o # r => ~Owing(run[o]) /\ ~Writing(run[o])
    <3>1. ASSUME NEW o \in Mine(t), o # r PROVE ~Owing(run[o]) /\ ~Writing(run[o])
      <4>1. ~Owing(run'[o]) /\ ~Writing(run'[o])
        BY <1>2, <2>1 DEF Busy
      <4>2. QED
        BY <1>1, <3>1, <4>1 DEF Mine
    <3>2. QED
      BY <3>1
  <2>4. CASE ~Kept(t) /\ ~Owing(run[r]) /\ ~Writing(run[r])
    <3>1. ~Busy(t)
      BY <2>3, <2>4 DEF Busy
    <3>2. QED
      BY <1>2, <1>3, <2>4, <3>1 DEF Paid
  <2>5. QED
    BY <2>1, <2>2, <2>4
<1>10. Lost(t)' => d <= m
  <2>1. HAVE Lost(t)'
  <2>2. PICK o \in Mine(t) : run'[o].pc \in Holding /\ run'[o].id \notin Uncollected(t)'
    BY <1>2, <2>1 DEF Lost
  <2>3. CASE o # r
    <3>1. run[o].pc \in Holding /\ run[o].id \notin Uncollected(t)
      BY <1>1, <2>2, <2>3 DEF Mine
    <3>2. QED
      BY <1>3, <3>1 DEF Lost, Paid
  <2>4. CASE o = r
    <3>1. CASE run[r].pc \in Holding /\ run[r].id \notin Uncollected(t)
      BY <1>2, <1>3, <3>1 DEF Lost, Paid
    <3>2. QED
      BY <2>2, <2>4, <3>1
  <2>5. QED
    BY <2>3, <2>4
<1>11. QED
  BY <1>2, <1>4, <1>7, <1>8, <1>9, <1>10 DEF Paid

-----------------------------------------------------------------------------
(* The ways in which a step changes the run that takes it.                  *)
Keeps(r) ==
    /\ run' = [run EXCEPT ![r] = run'[r]]
    /\ run'[r].ticker = run[r].ticker /\ run'[r].topic = run[r].topic

LEMMA Goes ==
    ASSUME IInv, NEW r \in Runs, NEW v, Go(r, v)
    PROVE  Keeps(r) /\ run'[r].pc = v /\ run'[r].step = run[r].step /\ run'[r].id = run[r].id
  BY RunFacts DEF Go, Keeps, IInv, RunsOK, RunRecord

LEMMA Overs ==
    ASSUME IInv, NEW r \in Runs, NEW cost, StepOver(r, cost)
    PROVE  Keeps(r) /\ run'[r].pc = "next" /\ run'[r].step = run[r].step + 1
  BY RunFacts DEF StepOver, Keeps, IInv, RunsOK

LEMMA Fails ==
    ASSUME IInv, NEW r \in Runs, StepFailed(r)
    PROVE  Keeps(r) /\ run'[r].pc = "next" /\ run'[r].step = run[r].step + 1
  BY Overs DEF StepFailed

LEMMA Agains ==
    ASSUME IInv, NEW r \in Runs, Again(r)
    PROVE  /\ Keeps(r) /\ run'[r].pc = "send" /\ run'[r].step = run[r].step
           /\ run'[r].attempt = run[r].attempt + 1
  BY RunFacts DEF Again, Keeps, IInv, RunsOK, RunRecord

LEMMA LooksUp ==
    ASSUME IInv, NEW r \in Runs, LookUp(r)
    PROVE  Keeps(r) /\ run'[r].pc = "lookup" /\ run'[r].step = run[r].step /\ run'[r].id = Saved(r).id
  BY RunFacts DEF LookUp, Keeps, IInv, RunsOK, RunRecord

LEMMA Buys ==
    ASSUME IInv, NEW r \in Runs, BuyAnew(r)
    PROVE  Keeps(r) /\ run'[r].pc = "send" /\ run'[r].step = run[r].step
  BY RunFacts DEF BuyAnew, Keeps, IInv, RunsOK, RunRecord

LEMMA Takes ==
    ASSUME IInv, NEW r \in Runs, NEW k, run' = [run EXCEPT ![r].pc = "save", ![r].id = k]
    PROVE  Keeps(r) /\ run'[r].pc = "save" /\ run'[r].step = run[r].step /\ run'[r].id = k
  BY RunFacts DEF Keeps, IInv, RunsOK, RunRecord

LEMMA Polls ==
    ASSUME IInv, NEW r \in Runs, run[r].pc = "poll",
           run' = [run EXCEPT ![r].polls = run[r].polls + 1]
    PROVE  Keeps(r) /\ run'[r].pc = "poll" /\ run'[r].step = run[r].step /\ run'[r].id = run[r].id
  BY RunFacts DEF Keeps, IInv, RunsOK, RunRecord

LEMMA Tracks ==
    ASSUME IInv, NEW r \in Runs, Tracked(r)
    PROVE  /\ Keeps(r) /\ run'[r].pc \in {"poll", "final"} /\ run'[r].step = run[r].step
           /\ run'[r].id = run[r].id
  BY Goes DEF Tracked

(* Within a research step the plan has no further one.                      *)
LEMMA OneResearchStep ==
    ASSUME IInv, NEW r \in Runs, run[r].step <= Len(Plan), Endpoint(r) = "research",
           run'[r].step = run[r].step + 1
    PROVE  ~Fresh(run'[r])
<1>1. run[r].step \in 1..Len(Plan) /\ run[r].step \in Nat /\ Len(Plan) \in Nat
  BY RunFacts, PlanFacts
<1>2. ASSUME NEW s \in (run[r].step + 1)..Len(Plan), Plan[s] = "research" PROVE FALSE
  <2>1. s \in 1..Len(Plan) /\ s # run[r].step
    BY <1>1
  <2>2. QED
    BY <1>1, <1>2, <2>1, AgentAssumption DEF Endpoint
<1>3. QED
  BY <1>2 DEF Fresh

LEMMA FreshBefore ==
    ASSUME IInv, NEW r \in Runs, run[r].pc = "next",
           run'[r].step \in {run[r].step, run[r].step + 1}, Fresh(run'[r])
    PROVE  Fresh(run[r])
<1>1. run[r].step \in Nat /\ Len(Plan) \in Nat
  BY RunFacts, PlanFacts
<1>2. PICK s \in run'[r].step..Len(Plan) : Plan[s] = "research"
  BY DEF Fresh
<1>3. s \in run[r].step..Len(Plan)
  BY <1>1
<1>4. QED
  BY <1>2, <1>3 DEF Fresh

LEMMA FreshAtResearch ==
    ASSUME IInv, NEW r \in Runs, AtResearch(r)
    PROVE  Fresh(run[r])
<1>1. run[r].pc = "next" /\ Plan[run[r].step] = "research" /\ run[r].step \in run[r].step..Len(Plan)
  BY RunFacts, PlanFacts DEF AtResearch, AtStep, Endpoint
<1>2. QED
  BY <1>1 DEF Fresh

-----------------------------------------------------------------------------
(* What happens to the sets whose sizes are counted.                        *)
LEMMA OpenCounts ==
    ASSUME Accounts, NEW r \in Runs, Moves(r), NEW t \in Tickers, t = run[r].ticker
    PROVE  /\ Cardinality(Open(t)') \in Nat /\ Cardinality(Open(t)') <= Cardinality(Open(t)) + 1
           /\ Owing(run[r]) \/ ~Owing(run'[r]) => Cardinality(Open(t)') <= Cardinality(Open(t))
           /\ Owing(run[r]) /\ ~Owing(run'[r]) => Cardinality(Open(t)') + 1 <= Cardinality(Open(t))
<1>1. \A o \in Runs : o # r => run'[o] = run[o]
  BY OthersRest DEF Accounts, Moves
<1>2. Mine(t)' = Mine(t) /\ r \in Mine(t)
  BY <1>1 DEF Mine, Moves
<1>3. Open(t)' \subseteq Open(t) \cup {r}
  BY <1>1, <1>2 DEF Open, Mine
<1>4. Owing(run[r]) => r \in Open(t)
  BY <1>2 DEF Open
<1>5. ~Owing(run'[r]) => Open(t)' \subseteq Open(t) \ {r}
  BY <1>3 DEF Open
<1>6. IsFiniteSet(Open(t))
  BY Counted DEF Accounts
<1>7. Owing(run[r]) \/ ~Owing(run'[r]) => Open(t)' \subseteq Open(t)
  BY <1>3, <1>4, <1>5
<1>8. QED
  BY <1>3, <1>4, <1>5, <1>6, <1>7, Recount

LEMMA RequestsOfRuns ==
    ASSUME IInv
    PROVE  /\ \A c \in wire : c[1] \in Runs /\ c = <<c[1], c[2], c[3]>>
           /\ \A t \in Tickers : Stray(t) = {c \in wire : run[c[1]].ticker = t /\ ~Awaited(c)}
  BY DEF IInv, WireOK, Stray

(* A request is given up only by its run.                                   *)
LEMMA StrayStays ==
    ASSUME IInv, NEW r \in Runs, Keeps(r), wire' = wire,
           run[r].pc # "sent", run'[r].pc # "sent", NEW t \in Tickers
    PROVE  Stray(t)' = Stray(t)
<1>1. \A o \in Runs : o # r => run'[o] = run[o]
  BY OthersRest DEF Keeps
<1>2. ASSUME NEW c \in wire
      PROVE  run'[c[1]].ticker = run[c[1]].ticker /\ (Awaited(c)' <=> Awaited(c))
  <2>1. c[1] \in Runs
    BY RequestsOfRuns
  <2>2. QED
    BY <1>1, <2>1 DEF Awaited, Keeps
<1>3. QED
  BY <1>2 DEF Stray

LEMMA StrayAfterSent ==
    ASSUME IInv, NEW r \in Runs, Keeps(r), run[r].pc = "sent", run'[r].pc # "sent",
           wire' \subseteq wire, NEW t \in Tickers
    PROVE  /\ Stray(t)' \subseteq Stray(t) \cup {<<r, run[r].step, run[r].attempt>>}
           /\ <<r, run[r].step, run[r].attempt>> \notin wire' => Stray(t)' \subseteq Stray(t)
<1>1. \A o \in Runs : o # r => run'[o] = run[o]
  BY OthersRest DEF Keeps
<1>2. ASSUME NEW c \in Stray(t)', c # <<r, run[r].step, run[r].attempt>> PROVE c \in Stray(t)
  <2>1. c \in wire /\ c[1] \in Runs /\ c = <<c[1], c[2], c[3]>> /\ run'[c[1]].ticker = t
    BY RequestsOfRuns DEF Stray
  <2>2. ~Awaited(c)
    <3>1. CASE c[1] = r
      BY <1>2, <2>1, <3>1 DEF Awaited
    <3>2. CASE c[1] # r
      BY <1>1, <1>2, <2>1, <3>2 DEF Awaited, Stray
    <3>3. QED
      BY <3>1, <3>2
  <2>3. run[c[1]].ticker = t
    BY <1>1, <2>1 DEF Keeps
  <2>4. QED
    BY <2>1, <2>2, <2>3 DEF Stray
<1>3. Stray(t)' \subseteq wire'
  BY DEF Stray
<1>4. QED
  BY <1>2, <1>3

LEMMA UncollectedStays ==
    ASSUME tasks' = tasks, NEW t \in Tickers
    PROVE  Uncollected(t)' = Uncollected(t)
  BY DEF Uncollected

LEMMA TasksGrow ==
    ASSUME IInv, NEW r \in Runs, tasks' = Append(tasks, NewTask(r))
    PROVE  /\ Len(tasks) \in Nat /\ DOMAIN tasks = 1..Len(tasks) /\ DOMAIN tasks' = 1..(Len(tasks) + 1)
           /\ \A k \in DOMAIN tasks : tasks'[k] = tasks[k]
           /\ tasks'[Len(tasks) + 1] = NewTask(r)
<1>1. tasks \in Seq(GoodTask) /\ NewTask(r) \in GoodTask
  BY RunFacts DEF IInv, TasksOK, NewTask, GoodTask, TaskRecord
<1>2. QED
  BY <1>1, AppendProperties, LenProperties

LEMMA UncollectedGrows ==
    ASSUME IInv, NEW r \in Runs, tasks' = Append(tasks, NewTask(r)), NEW t \in Tickers
    PROVE  Uncollected(t)' = IF t = run[r].ticker THEN Uncollected(t) \cup {Len(tasks) + 1}
                             ELSE Uncollected(t)
<1>1. /\ Len(tasks) \in Nat /\ DOMAIN tasks = 1..Len(tasks) /\ DOMAIN tasks' = 1..(Len(tasks) + 1)
      /\ \A k \in DOMAIN tasks : tasks'[k] = tasks[k]
      /\ tasks'[Len(tasks) + 1] = NewTask(r)
  BY TasksGrow
<1>2. DOMAIN tasks' = DOMAIN tasks \cup {Len(tasks) + 1}
  BY <1>1
<1>3. /\ NewTask(r).ticker = run[r].ticker /\ NewTask(r).reported = {}
      /\ NewTask(r).dropped = FALSE
  BY DEF NewTask
<1>4. QED
  BY <1>1, <1>2, <1>3 DEF Uncollected

LEMMA StrayElsewhere ==
    ASSUME Accounts, NEW r \in Runs, Keeps(r), NEW t \in Tickers, t # run[r].ticker,
           \A c \in wire \cup wire' : c[1] # r => (c \in wire' <=> c \in wire)
    PROVE  Stray(t)' = Stray(t)
<1>1. \A o \in Runs : o # r => run'[o] = run[o]
  BY OthersRest DEF Keeps, Accounts
<1>2. ASSUME NEW c \in wire \cup wire'
      PROVE  /\ c[1] \in Runs /\ run'[c[1]].ticker = run[c[1]].ticker
             /\ c[1] # r => (Awaited(c)' <=> Awaited(c))
  <2>1. c[1] \in Runs
    BY DEF Accounts, IInv, WireOK
  <2>2. QED
    BY <1>1, <2>1 DEF Awaited, Keeps
<1>3. ASSUME NEW c PROVE c \in Stray(t)' <=> c \in Stray(t)
  BY <1>2 DEF Stray
<1>4. QED
  BY <1>3

(* The other markets: a run can only collect one of their tasks.            *)
LEMMA Elsewhere ==
    ASSUME Accounts, NEW r \in Runs, Keeps(r),
           NEW t \in Tickers, t # run[r].ticker,
           file'[t] = file[t], mishaps'[t] = mishaps[t],
           \A c \in wire \cup wire' : c[1] # r => (c \in wire' <=> c \in wire),
           \/ Uncollected(t)' = Uncollected(t)
           \/ \E k \in Uncollected(t) : Uncollected(t)' = Uncollected(t) \ {k}
    PROVE  Paid(t)'
<1>1. \A o \in Runs : o # r => run'[o] = run[o]
  BY OthersRest DEF Keeps, Accounts
<1>2. Mine(t)' = Mine(t) /\ \A o \in Mine(t) : o \in Runs /\ o # r /\ run'[o] = run[o]
  BY <1>1 DEF Mine, Keeps
<1>3. Open(t)' = Open(t)
  BY <1>2 DEF Open
<1>4. Stray(t)' = Stray(t)
  BY StrayElsewhere
<1>5. (Passed(t)' <=> Passed(t)) /\ (Busy(t)' <=> Busy(t))
  BY <1>2 DEF Passed, Busy
<1>6. Paid(t) /\ Dues(t) \in Nat /\ mishaps[t] \in Nat
  BY Counted DEF Accounts
<1>7. CASE Uncollected(t)' = Uncollected(t)
  <2>1. Dues(t)' = Dues(t)
    BY <1>3, <1>4, <1>7 DEF Dues
  <2>2. Kept(t)' <=> Kept(t)
    BY <1>7 DEF Kept
  <2>3. Lost(t)' <=> Lost(t)
    BY <1>2, <1>7 DEF Lost
  <2>4. QED
    BY <1>2, <1>5, <1>6, <2>1, <2>2, <2>3 DEF Paid
<1>8. ASSUME NEW k \in Uncollected(t), Uncollected(t)' = Uncollected(t) \ {k} PROVE Paid(t)'
  <2>1. Dues(t)' \in Nat /\ Dues(t)' + 1 <= Dues(t)
    <3>1. /\ Cardinality(Uncollected(t)') + 1 <= Cardinality(Uncollected(t))
          /\ Cardinality(Uncollected(t)') \in Nat
      BY <1>8, Counted, Recount DEF Accounts
    <3>2. /\ Cardinality(Uncollected(t)) \in Nat
          /\ Cardinality(Stray(t)) \in Nat /\ Cardinality(Open(t)) \in Nat
      BY Counted DEF Accounts
    <3>3. QED
      BY <1>3, <1>4, <3>1, <3>2 DEF Dues
  <2>2. Lost(t)' => Passed(t)
    BY <1>2 DEF Lost, Passed, Fresh, Holding
  <2>3. ~Busy(t) /\ Mine(t) # {} => Passed(t)
    BY DEF Busy, Passed, Owing
  <2>4. Lost(t)' => Mine(t) # {}
    BY <1>2 DEF Lost
  <2>5. QED
    BY <1>2, <1>5, <1>6, <2>1, <2>2, <2>3, <2>4 DEF Paid
<1>9. QED
  BY <1>7, <1>8

-----------------------------------------------------------------------------
LEMMA MishapCounts ==
    ASSUME IInv, NEW t \in Tickers, Mishap(t)
    PROVE  /\ mishaps[t] \in Nat /\ mishaps'[t] = mishaps[t] + 1
           /\ \A u \in Tickers : u # t => mishaps'[u] = mishaps[u]
  BY AgentAssumption DEF IInv, CountOK, Mishap

(* What is on the account of a market while one of its runs is at work.     *)
LEMMA AtWorkOwes ==
    ASSUME Accounts, NEW r \in Runs, run[r].pc \in AtWork, NEW t \in Tickers, t = run[r].ticker
    PROVE  /\ Cardinality(Uncollected(t)) \in Nat /\ Cardinality(Stray(t)) \in Nat
           /\ Cardinality(Open(t)) \in Nat /\ mishaps[t] \in Nat
           /\ Dues(t) = Cardinality(Uncollected(t)) + Cardinality(Stray(t)) + Cardinality(Open(t))
           /\ Dues(t) <= mishaps[t] + 2
           /\ ~Fresh(run[r]) \/ ~Kept(t) => Dues(t) <= mishaps[t] + 1
           /\ run[r].pc \in Holding /\ run[r].id \notin Uncollected(t) => Dues(t) <= mishaps[t]
<1>1. r \in Mine(t)
  BY DEF Mine
<1>2. (~Fresh(run[r]) => Passed(t)) /\ Paid(t)
  BY <1>1 DEF Passed, Accounts
<1>3. run[r].pc \in Holding /\ run[r].id \notin Uncollected(t) => Lost(t)
  BY <1>1 DEF Lost
<1>4. QED
  BY <1>1, <1>2, <1>3, Counted DEF Paid, Dues, Accounts

(* Steps that change nothing but the run, or that a lookup went wrong: a    *)
(* run may go on to pay without a mishap if no file is kept, and it gives   *)
(* that up when it takes on a task that exists.                             *)
LEMMA PlainPays ==
    ASSUME Accounts, NEW r \in Runs, Moves(r), Keeps(r), UNCHANGED <<tasks, wire, file>>,
           run[r].pc # "sent", run'[r].pc # "sent", ~Writing(run[r]),
           \/ mishaps' = mishaps /\ (Owing(run'[r]) => Owing(run[r]))
           \/ Mishap(run[r].ticker),
           Fresh(run[r]) /\ Owing(run'[r]) /\ ~Fresh(run'[r]) =>
               Mishap(run[r].ticker) \/ ~Kept(run[r].ticker),
           run'[r].pc \in Holding /\ run'[r].id \notin Uncollected(run[r].ticker) =>
               \/ run[r].pc \in Holding /\ run[r].id \notin Uncollected(run[r].ticker)
               \/ Fresh(run[r]) /\ ~Kept(run[r].ticker)
               \/ Owing(run[r]) /\ ~Fresh(run[r])
    PROVE  \A t \in Tickers : Paid(t)'
<1>1. ASSUME NEW t \in Tickers, t # run[r].ticker PROVE Paid(t)'
  <2>1. Uncollected(t)' = Uncollected(t)
    BY UncollectedStays
  <2>2. run[r].ticker \in Tickers /\ mishaps'[t] = mishaps[t]
    BY <1>1, RunFacts, MishapCounts DEF Accounts
  <2>3. QED
    BY <1>1, <2>1, <2>2, Elsewhere
<1>2. ASSUME NEW t \in Tickers, t = run[r].ticker PROVE Paid(t)'
  <2> DEFINE o == Cardinality(Open(t)')
             d == Cardinality(Uncollected(t)) + Cardinality(Stray(t)) + o
             m == mishaps'[t]
  <2>1. Uncollected(t)' = Uncollected(t) /\ Stray(t)' = Stray(t) /\ (Kept(t)' <=> Kept(t))
    BY UncollectedStays, StrayStays DEF Kept, Accounts
  <2>2. /\ o \in Nat /\ o <= Cardinality(Open(t)) + 1
        /\ Owing(run[r]) \/ ~Owing(run'[r]) => o <= Cardinality(Open(t))
        /\ Owing(run[r]) /\ ~Owing(run'[r]) => o + 1 <= Cardinality(Open(t))
    BY <1>2, OpenCounts
  <2>3. /\ Cardinality(Uncollected(t)) \in Nat /\ Cardinality(Stray(t)) \in Nat
        /\ Cardinality(Open(t)) \in Nat /\ mishaps[t] \in Nat
        /\ Dues(t) = Cardinality(Uncollected(t)) + Cardinality(Stray(t)) + Cardinality(Open(t))
        /\ Dues(t) <= mishaps[t] + 2
        /\ ~Fresh(run[r]) \/ ~Kept(t) => Dues(t) <= mishaps[t] + 1
        /\ run[r].pc \in Holding /\ run[r].id \notin Uncollected(t) => Dues(t) <= mishaps[t]
    BY <1>2, AtWorkOwes DEF Moves
  <2>4. Dues(t)' = d
    BY <2>1 DEF Dues
  <2>5. \/ m = mishaps[t] /\ (Owing(run'[r]) => Owing(run[r]))
        \/ m = mishaps[t] + 1 /\ Mishap(t)
    BY <1>2, MishapCounts DEF Accounts
  <2>6. Mishap(t) => m = mishaps[t] + 1
    BY MishapCounts DEF Accounts
  <2> HIDE DEF o, m
  <2>7. m \in Nat /\ mishaps[t] <= m
    BY <2>3, <2>5
  <2>8. d \in Nat /\ d - m <= Dues(t) - mishaps[t]
    BY <2>2, <2>3, <2>5, <2>7
  <2>9. Fresh(run[r]) => Owing(run[r])
    BY DEF Owing
  <2>10. Fresh(run[r]) /\ ~Fresh(run'[r]) => d <= m + 1
    BY <1>2, <2>2, <2>3, <2>5, <2>6, <2>7, <2>9
  <2>11. ~Kept(t) /\ Owing(run[r]) /\ ~Owing(run'[r]) => d <= m
    BY <2>2, <2>3, <2>7
  <2>12. run'[r].pc \in Holding => ~Owing(run'[r])
    BY DEF Owing, Fresh, Holding
  <2>13. Owing(run[r]) /\ ~Fresh(run[r]) /\ ~Owing(run'[r]) => d <= m
    BY <2>2, <2>3, <2>7
  <2>14. run'[r].pc \in Holding /\ run'[r].id \notin Uncollected(t)' =>
            (run[r].pc \in Holding /\ run[r].id \notin Uncollected(t)) \/ d <= m
    BY <1>2, <2>1, <2>9, <2>11, <2>12, <2>13
  <2>15. PICK dd \in Nat, mm \in Nat : dd = d /\ mm = m
    BY <2>7, <2>8
  <2> HIDE DEF d
  <2>16. Dues(t)' = dd /\ mishaps'[t] = mm
    BY <2>4, <2>15 DEF m
  <2>17. QED
    BY <1>2, <2>1, <2>7, <2>8, <2>10, <2>11, <2>14, <2>15, <2>16, WorkPays
<1>3. QED
  BY <1>1, <1>2

-----------------------------------------------------------------------------
(* Each step is paid for.                                                   *)
LEMMA SkipPays == ASSUME Accounts, NEW r \in Runs, Skip(r) PROVE \A t \in Tickers : Paid(t)'
<1>1. Keeps(r) /\ run'[r].pc = "next" /\ run'[r].step = run[r].step + 1 /\ run[r].pc = "next"
  BY Fails DEF Skip, AtStep, Accounts
<1>2. Fresh(run'[r]) => Fresh(run[r])
  BY <1>1, FreshBefore DEF Accounts
<1>3. Moves(r) /\ ~Writing(run[r]) /\ (Owing(run'[r]) => Fresh(run'[r]) /\ Owing(run[r]))
  BY <1>1, <1>2 DEF Moves, Keeps, AtWork, Writing, Owing
<1>4. QED
  BY <1>1, <1>3, PlainPays DEF Skip, Holding

LEMMA AskPays == ASSUME Accounts, NEW r \in Runs, Ask(r) PROVE \A t \in Tickers : Paid(t)'
<1>1. Keeps(r) /\ run'[r].pc = "next" /\ run'[r].step = run[r].step + 1 /\ run[r].pc = "next"
  BY Fails, Overs DEF Ask, AtStep, Accounts
<1>2. Fresh(run'[r]) => Fresh(run[r])
  BY <1>1, FreshBefore DEF Accounts
<1>3. Moves(r) /\ ~Writing(run[r]) /\ (Owing(run'[r]) => Fresh(run'[r]) /\ Owing(run[r]))
  BY <1>1, <1>2 DEF Moves, Keeps, AtWork, Writing, Owing
<1>4. QED
  BY <1>1, <1>3, PlainPays DEF Ask, Holding

LEMMA LoadPays == ASSUME Accounts, NEW r \in Runs, Load(r) PROVE \A t \in Tickers : Paid(t)'
<1>1. run[r].pc = "next" /\ Fresh(run[r]) /\ Owing(run[r]) /\ ~Writing(run[r])
  BY FreshAtResearch DEF Load, AtResearch, AtStep, Owing, Writing, Accounts
<1>2. CASE Exists(r) /\ LookUp(r) /\ UNCHANGED mishaps
  <2>1. Keeps(r) /\ run'[r].pc = "lookup" /\ run'[r].id = file[run[r].ticker].id
    BY <1>2, LooksUp DEF Accounts, Saved
  <2>2. Moves(r) /\ ~Owing(run'[r])
    BY <1>1, <2>1 DEF Moves, Keeps, AtWork, Owing, Fresh
  <2>3. run'[r].id \notin Uncollected(run[r].ticker) => ~Kept(run[r].ticker)
    BY <2>1 DEF Kept
  <2>4. QED
    BY <1>1, <1>2, <2>1, <2>2, <2>3, PlainPays DEF Load
<1>3. CASE BuyAnew(r) /\ (Mishap(run[r].ticker) \/ (~Exists(r) /\ UNCHANGED mishaps))
  <2>1. Keeps(r) /\ run'[r].pc = "send"
    BY <1>3, Buys DEF Accounts
  <2>2. Moves(r) /\ Owing(run'[r]) /\ ~Fresh(run'[r]) /\ run'[r].pc \notin Holding
    BY <1>1, <2>1 DEF Moves, Keeps, AtWork, Owing, Fresh, Holding
  <2>3. ~Exists(r) => ~Kept(run[r].ticker)
    BY DEF Exists, Saved, Kept
  <2>4. QED
    BY <1>1, <1>3, <2>1, <2>2, <2>3, PlainPays DEF Load
<1>4. QED
  BY <1>2, <1>3 DEF Load

LEMMA LookupPays == ASSUME Accounts, NEW r \in Runs, Lookup(r) PROVE \A t \in Tickers : Paid(t)'
<1>1. run[r].pc = "lookup" /\ ~Fresh(run[r]) /\ ~Writing(run[r]) /\ run[r].pc \in Holding
  BY DEF Lookup, Fresh, Writing, Holding
<1>2. CASE Tracked(r) /\ UNCHANGED mishaps
  <2>1. Keeps(r) /\ run'[r].pc \in {"poll", "final"} /\ run'[r].id = run[r].id
    BY <1>2, Tracks DEF Accounts
  <2>2. Moves(r) /\ ~Owing(run'[r])
    BY <1>1, <2>1 DEF Moves, Keeps, AtWork, Owing, Fresh
  <2>3. QED
    BY <1>1, <1>2, <2>1, <2>2, PlainPays DEF Lookup
<1>3. CASE Go(r, "list") /\ Mishap(run[r].ticker)
  <2>1. Keeps(r) /\ run'[r].pc = "list"
    BY <1>3, Goes DEF Accounts
  <2>2. Moves(r) /\ run'[r].pc \notin Holding
    BY <1>1, <2>1 DEF Moves, Keeps, AtWork, Holding
  <2>3. QED
    BY <1>1, <1>3, <2>1, <2>2, PlainPays DEF Lookup
<1>4. QED
  BY <1>2, <1>3 DEF Lookup

LEMMA ListPays == ASSUME Accounts, NEW r \in Runs, List(r) PROVE \A t \in Tickers : Paid(t)'
<1>1. run[r].pc = "list" /\ ~Fresh(run[r]) /\ Owing(run[r]) /\ ~Writing(run[r])
  BY DEF List, Fresh, Owing, Writing
<1>2. Keeps(r) /\ run'[r].pc \in {"send", "save"}
  BY Buys, Takes DEF List, Accounts
<1>3. Moves(r)
  BY <1>1, <1>2 DEF Moves, Keeps, AtWork
<1>4. QED
  BY <1>1, <1>2, <1>3, PlainPays DEF List

LEMMA PollPays == ASSUME Accounts, NEW r \in Runs, Poll(r) PROVE \A t \in Tickers : Paid(t)'
<1>1. run[r].pc = "poll" /\ ~Fresh(run[r]) /\ ~Writing(run[r]) /\ run[r].pc \in Holding
  BY DEF Poll, Fresh, Writing, Holding
<1>2. run[r].step <= Len(Plan) /\ Endpoint(r) = "research"
  BY <1>1, ResearchingFacts DEF Accounts, Researching
<1>3. Keeps(r) /\ run'[r].pc \in {"poll", "final", "next"} /\ ~Fresh(run'[r])
      /\ (run'[r].pc \in Holding => run'[r].id = run[r].id)
  <2>1. CASE Go(r, "final")
    BY <2>1, Goes DEF Accounts, Fresh
  <2>2. CASE run' = [run EXCEPT ![r].polls = run[r].polls + 1]
    BY <1>1, <2>2, Polls DEF Accounts, Fresh
  <2>3. CASE StepFailed(r)
    BY <1>2, <2>3, Fails, OneResearchStep DEF Accounts, Holding
  <2>4. QED
    BY <2>1, <2>2, <2>3 DEF Poll, GiveUp
<1>4. Moves(r) /\ ~Owing(run'[r])
  BY <1>1, <1>3 DEF Moves, Keeps, AtWork, Owing
<1>5. QED
  BY <1>1, <1>3, <1>4, PlainPays DEF Poll, GiveUp

(* A run past loading the file: the account has one due more than mishaps   *)
(* at most, so that a due that goes or a mishap that comes settles it.      *)
LEMMA LatePays ==
    ASSUME Accounts, NEW r \in Runs, Moves(r), NEW t \in Tickers, t = run[r].ticker,
           ~Fresh(run[r]), ~Fresh(run'[r]), Uncollected(t) \subseteq Uncollected(t)',
           NEW u \in Nat, Cardinality(Uncollected(t)') = u,
           NEW s \in Nat, Cardinality(Stray(t)') = s, NEW m \in Nat, mishaps'[t] = m,
           NEW w \in {0, 1}, w = 1 => Owing(run[r]) /\ ~Owing(run'[r]),
           (u + s) - m <= (Cardinality(Uncollected(t)) + Cardinality(Stray(t))) - mishaps[t] + w,
           mishaps[t] <= m, Owing(run'[r]) => Owing(run[r]),
           \/ Owing(run'[r]) \/ Writing(run'[r]) \/ Kept(t)'
           \/ (u + s) - m < (Cardinality(Uncollected(t)) + Cardinality(Stray(t))) - mishaps[t] + w
           \/ run[r].pc \in Holding /\ run[r].id \notin Uncollected(t),
           run'[r].pc \in Holding /\ run'[r].id \notin Uncollected(t)' =>
               run[r].pc \in Holding /\ run[r].id \notin Uncollected(t)
    PROVE  Paid(t)'
<1>1. PICK o \in Nat : o = Cardinality(Open(t)')
  BY OpenCounts
<1>2. /\ Owing(run[r]) \/ ~Owing(run'[r]) => o <= Cardinality(Open(t))
      /\ Owing(run[r]) /\ ~Owing(run'[r]) => o + 1 <= Cardinality(Open(t))
  BY <1>1, OpenCounts
<1>3. /\ Cardinality(Uncollected(t)) \in Nat /\ Cardinality(Stray(t)) \in Nat
      /\ Cardinality(Open(t)) \in Nat /\ mishaps[t] \in Nat
      /\ Dues(t) = Cardinality(Uncollected(t)) + Cardinality(Stray(t)) + Cardinality(Open(t))
      /\ Dues(t) <= mishaps[t] + 1
      /\ run[r].pc \in Holding /\ run[r].id \notin Uncollected(t) => Dues(t) <= mishaps[t]
  BY AtWorkOwes DEF Moves
<1>4. PICK d \in Nat : d = u + s + o
  BY <1>1
<1>5. Dues(t)' = d
  BY <1>1, <1>4 DEF Dues
<1>6. o + w <= Cardinality(Open(t))
  BY <1>1, <1>2, <1>3
<1>7. d - m <= Dues(t) - mishaps[t]
  BY <1>3, <1>4, <1>6
<1>8. (u + s) - m < (Cardinality(Uncollected(t)) + Cardinality(Stray(t))) - mishaps[t] + w => d <= m
  BY <1>3, <1>4, <1>6
<1>9. run[r].pc \in Holding /\ run[r].id \notin Uncollected(t) => d <= m
  BY <1>3, <1>7
<1>10. ~Kept(t)' /\ ~Owing(run'[r]) /\ ~Writing(run'[r]) => d <= m
  BY <1>8, <1>9
<1>11. QED
  BY <1>5, <1>7, <1>10, WorkPays

LEMMA SizesNow ==
    ASSUME Accounts, NEW t \in Tickers
    PROVE  /\ Cardinality(Uncollected(t)) \in Nat /\ Cardinality(Stray(t)) \in Nat
           /\ mishaps[t] \in Nat /\ IsFiniteSet(Uncollected(t)) /\ IsFiniteSet(Stray(t))
  BY Counted DEF Accounts

LEMMA SentStray ==
    ASSUME Accounts, NEW r \in Runs, Send(r), NEW t \in Tickers
    PROVE  Stray(t)' \subseteq Stray(t)
<1>1. Keeps(r) /\ run'[r].pc = "sent" /\ run'[r].step = run[r].step
      /\ run'[r].attempt = run[r].attempt
  BY Goes, RunFacts DEF Send, Go, Accounts, IInv, RunsOK, RunRecord
<1>2. \A o \in Runs : o # r => run'[o] = run[o]
  BY <1>1, OthersRest DEF Keeps, Accounts
<1>3. ASSUME NEW c \in Stray(t)' PROVE c \in Stray(t)
  <2>1. c # <<r, run[r].step, run[r].attempt>>
    BY <1>1 DEF Stray, Awaited
  <2>2. c \in wire /\ c[1] \in Runs /\ c = <<c[1], c[2], c[3]>>
    BY <2>1, RequestsOfRuns DEF Send, Stray, Accounts
  <2>3. run[r].pc = "send"
    BY DEF Send
  <2>4. QED
    BY <1>1, <1>2, <2>2, <2>3 DEF Stray, Awaited, Keeps
<1>4. QED
  BY <1>3

LEMMA SendPays == ASSUME Accounts, NEW r \in Runs, Send(r) PROVE \A t \in Tickers : Paid(t)'
<1>1. Keeps(r) /\ run'[r].pc = "sent" /\ run[r].pc = "send" /\ run'[r].step = run[r].step
      /\ run'[r].attempt = run[r].attempt
  BY Goes, RunFacts DEF Send, Go, Accounts, IInv, RunsOK, RunRecord
<1>2. Moves(r) /\ Owing(run[r]) /\ Owing(run'[r]) /\ ~Fresh(run[r]) /\ ~Fresh(run'[r])
      /\ run'[r].pc \notin Holding
  BY <1>1 DEF Moves, Keeps, AtWork, Owing, Fresh, Holding
<1>3. \A t \in Tickers : Stray(t)' \subseteq Stray(t)
  BY SentStray
<1>4. ASSUME NEW t \in Tickers, t = run[r].ticker PROVE Paid(t)'
  <2>1. PICK s \in Nat : s = Cardinality(Stray(t)') /\ s <= Cardinality(Stray(t))
    BY <1>3, SizesNow, Recount
  <2>2. Uncollected(t)' = Uncollected(t) /\ mishaps'[t] = mishaps[t]
    BY UncollectedStays DEF Send
  <2>3. QED
    BY <1>2, <1>4, <2>1, <2>2, SizesNow, LatePays
<1>5. ASSUME NEW t \in Tickers, t # run[r].ticker PROVE Paid(t)'
  <2>1. \A c \in wire \cup wire' : c[1] # r => (c \in wire' <=> c \in wire)
    BY DEF Send
  <2>2. Uncollected(t)' = Uncollected(t)
    BY UncollectedStays DEF Send
  <2>3. QED
    BY <1>1, <1>5, <2>1, <2>2, Elsewhere DEF Send
<1>6. QED
  BY <1>4, <1>5

LEMMA CreatedPays == ASSUME Accounts, NEW r \in Runs, Created(r) PROVE \A t \in Tickers : Paid(t)'
<1>1. /\ Keeps(r) /\ run'[r].pc = "save" /\ run'[r].id = Len(tasks) + 1 /\ run[r].pc = "sent"
  BY Takes DEF Created, Accounts
<1>2. /\ Moves(r) /\ Owing(run[r]) /\ ~Owing(run'[r]) /\ Writing(run'[r])
      /\ ~Fresh(run[r]) /\ ~Fresh(run'[r])
  BY <1>1 DEF Moves, Keeps, AtWork, Owing, Fresh, Writing
<1>3. ASSUME NEW t \in Tickers, t = run[r].ticker PROVE Paid(t)'
  <2>1. Uncollected(t)' = Uncollected(t) \cup {Len(tasks) + 1}
    BY <1>3, UncollectedGrows DEF Created, Accounts
  <2>2. Stray(t)' \subseteq Stray(t)
    BY <1>1, StrayAfterSent DEF Created, Accounts
  <2>3. PICK s \in Nat : s = Cardinality(Stray(t)') /\ s <= Cardinality(Stray(t))
    BY <2>2, SizesNow, Recount
  <2>4. PICK u \in Nat : u = Cardinality(Uncollected(t)') /\ u <= Cardinality(Uncollected(t)) + 1
    BY <2>1, SizesNow, Recount
  <2>5. mishaps'[t] = mishaps[t] /\ run'[r].id \in Uncollected(t)'
    BY <1>1, <2>1 DEF Created
  <2>6. PICK m \in Nat : m = mishaps[t]
    BY SizesNow
  <2>7. (u + s) - m <= (Cardinality(Uncollected(t)) + Cardinality(Stray(t))) - mishaps[t] + 1
    BY <2>3, <2>4, <2>6, SizesNow
  <2>8. Uncollected(t) \subseteq Uncollected(t)' /\ mishaps'[t] = m /\ m <= mishaps[t] /\ mishaps[t] <= m
    BY <2>1, <2>5, <2>6
  <2>9. QED
    BY <1>2, <1>3, <2>3, <2>4, <2>5, <2>7, <2>8, LatePays
<1>4. ASSUME NEW t \in Tickers, t # run[r].ticker PROVE Paid(t)'
  <2>1. \A c \in wire \cup wire' : c[1] # r => (c \in wire' <=> c \in wire)
    BY DEF Created
  <2>2. Uncollected(t)' = Uncollected(t)
    BY <1>4, UncollectedGrows DEF Created, Accounts
  <2>3. QED
    BY <1>1, <1>4, <2>1, <2>2, Elsewhere DEF Created
<1>5. QED
  BY <1>3, <1>4

(* A step that ends an attempt to create a task.                            *)
LEMMA AttemptOver ==
    ASSUME Accounts, NEW r \in Runs, run[r].pc = "sent", Again(r) \/ StepFailed(r)
    PROVE  /\ Keeps(r) /\ Moves(r) /\ run'[r].pc \in {"send", "next"}
           /\ Owing(run[r]) /\ ~Fresh(run[r]) /\ ~Fresh(run'[r])
<1>1. run[r].step <= Len(Plan) /\ Endpoint(r) = "research"
  BY ResearchingFacts DEF Accounts, Researching
<1>2. Keeps(r) /\ run'[r].pc \in {"send", "next"} /\ ~Fresh(run'[r])
  <2>1. CASE Again(r)
    BY <2>1, Agains DEF Accounts, Fresh
  <2>2. CASE StepFailed(r)
    BY <1>1, <2>2, Fails, OneResearchStep DEF Accounts
  <2>3. QED
    BY <2>1, <2>2
<1>3. QED
  BY <1>2 DEF Moves, Keeps, AtWork, Owing, Fresh

LEMMA UnansweredPays ==
    ASSUME Accounts, NEW r \in Runs, Unanswered(r)
    PROVE  \A t \in Tickers : Paid(t)'
<1>1. run[r].pc = "sent" /\ run[r].ticker \in Tickers
  BY RunFacts DEF Unanswered, Accounts
<1>2. /\ Keeps(r) /\ Moves(r) /\ run'[r].pc \in {"send", "next"}
      /\ Owing(run[r]) /\ ~Fresh(run[r]) /\ ~Fresh(run'[r])
  BY <1>1, AttemptOver DEF Unanswered
<1>3. ASSUME NEW t \in Tickers, t = run[r].ticker PROVE Paid(t)'
  <2>1. Uncollected(t)' = Uncollected(t)
    BY UncollectedStays DEF Unanswered
  <2>2. Stray(t)' \subseteq Stray(t) \cup {<<r, run[r].step, run[r].attempt>>}
    BY <1>1, <1>2, StrayAfterSent DEF Unanswered, Accounts
  <2>3. PICK s \in Nat : s = Cardinality(Stray(t)') /\ s <= Cardinality(Stray(t)) + 1
    BY <2>2, SizesNow, Recount
  <2>4. mishaps'[t] = mishaps[t] + 1
    BY <1>3, MishapCounts DEF Unanswered, Accounts
  <2>5. run'[r].pc \notin Holding
    BY <1>2 DEF Holding
  <2>6. QED
    BY <1>2, <1>3, <2>1, <2>3, <2>4, <2>5, SizesNow, LatePays
<1>4. ASSUME NEW t \in Tickers, t # run[r].ticker PROVE Paid(t)'
  <2>1. mishaps'[t] = mishaps[t] /\ Uncollected(t)' = Uncollected(t)
    BY <1>1, <1>4, MishapCounts, UncollectedStays DEF Unanswered, Accounts
  <2>2. QED
    BY <1>2, <1>4, <2>1, Elsewhere DEF Unanswered
<1>5. QED
  BY <1>3, <1>4

LEMMA RefusedPays ==
    ASSUME Accounts, NEW r \in Runs, Refused(r)
    PROVE  \A t \in Tickers : Paid(t)'
<1>1. run[r].pc = "sent"
  BY DEF Refused
<1>2. /\ Keeps(r) /\ Moves(r) /\ run'[r].pc \in {"send", "next"}
      /\ Owing(run[r]) /\ ~Fresh(run[r]) /\ ~Fresh(run'[r])
  BY <1>1, AttemptOver DEF Refused
<1>3. ASSUME NEW t \in Tickers, t = run[r].ticker PROVE Paid(t)'
  <2>1. Uncollected(t)' = Uncollected(t) /\ mishaps'[t] = mishaps[t]
    BY UncollectedStays DEF Refused
  <2>2. Stray(t)' \subseteq Stray(t)
    BY <1>1, <1>2, StrayAfterSent DEF Refused, Accounts
  <2>3. PICK s \in Nat : s = Cardinality(Stray(t)') /\ s <= Cardinality(Stray(t))
    BY <2>2, SizesNow, Recount
  <2>4. run'[r].pc \notin Holding
    BY <1>2 DEF Holding
  <2>5. QED
    BY <1>2, <1>3, <2>1, <2>3, <2>4, SizesNow, LatePays
<1>4. ASSUME NEW t \in Tickers, t # run[r].ticker PROVE Paid(t)'
  <2>1. \A c \in wire \cup wire' : c[1] # r => (c \in wire' <=> c \in wire)
    BY DEF Refused
  <2>2. Uncollected(t)' = Uncollected(t)
    BY UncollectedStays DEF Refused
  <2>3. QED
    BY <1>2, <1>4, <2>1, <2>2, Elsewhere DEF Refused
<1>5. QED
  BY <1>3, <1>4

(* Writing the file: while it is torn, and when it is written, the account  *)
(* is settled by the task it names or by the mishap.                        *)
LEMMA WritingPays ==
    ASSUME Accounts, NEW r \in Runs, OpenFile(r) \/ WriteFile(r)
    PROVE  \A t \in Tickers : Paid(t)'
<1>1. /\ run[r].pc \in {"save", "write"} /\ run[r].ticker \in Tickers
      /\ ~Fresh(run[r]) /\ ~Owing(run[r]) /\ run[r].pc \in Holding
      /\ UNCHANGED <<tasks, wire>>
  BY RunFacts DEF OpenFile, WriteFile, Accounts, Fresh, Owing, Holding
<1>2. Keeps(r) /\ run'[r].pc \in {"write", "poll", "final"} /\ run'[r].id = run[r].id
  BY Tracks, Goes DEF OpenFile, WriteFile, Accounts
<1>3. Moves(r) /\ ~Fresh(run'[r]) /\ ~Owing(run'[r])
  BY <1>1, <1>2 DEF Moves, Keeps, AtWork, Owing, Fresh
<1>4. \A t \in Tickers : Uncollected(t)' = Uncollected(t) /\ Stray(t)' = Stray(t)
  BY <1>1, <1>2, UncollectedStays, StrayStays DEF Accounts
<1>5. ASSUME NEW t \in Tickers, t = run[r].ticker PROVE Paid(t)'
  <2>1. \/ Mishap(t)
        \/ mishaps' = mishaps /\ Writing(run'[r])
        \/ mishaps' = mishaps /\ file' = [file EXCEPT ![t] = [id |-> run[r].id, topic |-> run[r].topic]]
    BY <1>5, Goes DEF OpenFile, WriteFile, Accounts, Writing
  <2>2. \/ mishaps'[t] = mishaps[t] + 1
        \/ mishaps'[t] = mishaps[t] /\ (Writing(run'[r]) \/ Kept(t)' \/ run[r].id \notin Uncollected(t))
    <3>1. CASE Mishap(t)
      BY <3>1, MishapCounts DEF Accounts
    <3>2. CASE file' = [file EXCEPT ![t] = [id |-> run[r].id, topic |-> run[r].topic]]
      <4> DEFINE f == [id |-> run[r].id, topic |-> run[r].topic]
      <4>1. file'[t] = f
        BY <3>2 DEF Accounts, IInv, FilesOK
      <4>2. f \in [id : Nat, topic : Topics] /\ f.id = run[r].id
        BY <1>1, ResearchingFacts, RunFacts DEF Accounts, Holding, Researching
      <4> HIDE DEF f
      <4>3. f \notin {NoFile, Torn}
        BY <4>2, AgentAssumption
      <4>4. run[r].id \in Uncollected(t) => Kept(t)'
        BY <1>4, <4>1, <4>2, <4>3 DEF Kept
      <4>5. QED
        BY <2>1, <4>4, MishapCounts DEF Accounts
    <3>3. QED
      BY <2>1, <3>1, <3>2
  <2>3. PICK m \in Nat : m = mishaps'[t]
    BY <2>2, SizesNow
  <2>4. QED
    BY <1>1, <1>2, <1>3, <1>4, <1>5, <2>2, <2>3, SizesNow, LatePays
<1>6. ASSUME NEW t \in Tickers, t # run[r].ticker PROVE Paid(t)'
  <2>1. mishaps'[t] = mishaps[t] /\ file'[t] = file[t]
    BY <1>1, <1>6, MishapCounts DEF OpenFile, WriteFile, Accounts, IInv, FilesOK
  <2>2. QED
    BY <1>1, <1>2, <1>4, <1>6, <2>1, Elsewhere
<1>7. QED
  BY <1>5, <1>6

(* The task that is reported or dropped is off the account; if it was not   *)
(* on it, somebody else had collected it and the account was settled.       *)
LEMMA Collects ==
    ASSUME IInv, NEW r \in Runs, Finalize(r), NEW t \in Tickers
    PROVE  Uncollected(t)' = Uncollected(t) \ {run[r].id}
<1> DEFINE k == run[r].id
<1>1. k \in DOMAIN tasks
  BY RunFacts, ResearchingFacts DEF Finalize, Holding, Researching
<1>2. DOMAIN tasks' = DOMAIN tasks /\ \A j \in DOMAIN tasks : j # k => tasks'[j] = tasks[j]
  BY DEF Finalize
<1>3. tasks'[k].reported # {} \/ tasks'[k].dropped
  <2>1. tasks[k] \in TaskRecord
    BY <1>1 DEF IInv, TasksOK, GoodTask
  <2>2. CASE tasks' = [tasks EXCEPT ![k].reported = @ \cup {r}]
    <3>1. tasks'[k].reported = tasks[k].reported \cup {r}
      BY <1>1, <2>1, <2>2 DEF TaskRecord
    <3>2. QED
      BY <3>1
  <2>3. CASE tasks' = [tasks EXCEPT ![k].dropped = TRUE]
    BY <1>1, <2>1, <2>3 DEF TaskRecord
  <2>4. QED
    BY <2>2, <2>3 DEF Finalize
<1>4. QED
  BY <1>1, <1>2, <1>3 DEF Uncollected

LEMMA FinalizePays ==
    ASSUME Accounts, NEW r \in Runs, Finalize(r)
    PROVE  \A t \in Tickers : Paid(t)'
<1>1. /\ run[r].pc = "final" /\ run[r].pc \in Holding /\ run[r].pc \in AtWork
      /\ run[r].ticker \in Tickers /\ wire' = wire /\ ~Fresh(run[r]) /\ ~Owing(run[r])
  BY RunFacts DEF Finalize, Accounts, Holding, AtWork, Fresh, Owing
<1>2. run[r].step <= Len(Plan) /\ Endpoint(r) = "research"
  BY <1>1, ResearchingFacts DEF Accounts, Researching
<1>3. Keeps(r) /\ run'[r].pc = "next" /\ ~Fresh(run'[r])
  BY <1>2, Overs, Fails, OneResearchStep DEF Finalize, Accounts
<1>4. Moves(r) /\ ~Owing(run'[r])
  BY <1>1, <1>3 DEF Moves, Keeps, AtWork, Owing
<1>5. \A t \in Tickers : Uncollected(t)' = Uncollected(t) \ {run[r].id} /\ Stray(t)' = Stray(t)
  BY <1>1, <1>3, Collects, StrayStays DEF Accounts
<1>6. ASSUME NEW t \in Tickers, t = run[r].ticker PROVE Paid(t)'
  <2>1. PICK o \in Nat : o = Cardinality(Open(t)') /\ o <= Cardinality(Open(t))
    BY <1>4, <1>6, OpenCounts
  <2>2. PICK u \in Nat : /\ u = Cardinality(Uncollected(t)') /\ u <= Cardinality(Uncollected(t))
                         /\ run[r].id \in Uncollected(t) => u + 1 <= Cardinality(Uncollected(t))
    BY <1>5, SizesNow, Recount
  <2>3. PICK m \in Nat : m = mishaps'[t] /\ mishaps[t] <= m
    <3>1. mishaps' = mishaps \/ Mishap(t)
      BY <1>6 DEF Finalize
    <3>2. QED
      BY <3>1, SizesNow, MishapCounts DEF Accounts
  <2>4. /\ Cardinality(Uncollected(t)) \in Nat /\ Cardinality(Stray(t)) \in Nat
        /\ Cardinality(Open(t)) \in Nat /\ mishaps[t] \in Nat
        /\ Dues(t) = Cardinality(Uncollected(t)) + Cardinality(Stray(t)) + Cardinality(Open(t))
        /\ Dues(t) <= mishaps[t] + 1
        /\ run[r].id \notin Uncollected(t) => Dues(t) <= mishaps[t]
    BY <1>1, <1>6, AtWorkOwes
  <2>5. PICK d \in Nat : d = u + Cardinality(Stray(t)) + o
    BY <2>4
  <2>6. Dues(t)' = d
    BY <1>5, <2>1, <2>2, <2>5 DEF Dues
  <2>7. d <= m
    BY <2>1, <2>2, <2>3, <2>4, <2>5
  <2>8. QED
    BY <2>3, <2>6, <2>7 DEF Paid
<1>7. ASSUME NEW t \in Tickers, t # run[r].ticker PROVE Paid(t)'
  <2>1. mishaps'[t] = mishaps[t] /\ file'[t] = file[t]
    BY <1>1, <1>7, MishapCounts DEF Finalize, Accounts, IInv, FilesOK
  <2>2. QED
    BY <1>1, <1>3, <1>5, <1>7, <2>1, Elsewhere
<1>8. QED
  BY <1>6, <1>7

(* A run that ends leaves no request of its own unless it was killed, which *)
(* is a mishap.                                                            *)
LEMMA EndPays ==
    ASSUME Accounts, NEW r \in Runs, Summarize(r) \/ Die(r)
    PROVE  \A t \in Tickers : Paid(t)'
<1>1. /\ run[r].pc \in AtWork /\ run[r].ticker \in Tickers /\ UNCHANGED <<file, tasks, wire>>
      /\ Keeps(r) /\ run'[r].pc = "done"
  BY RunFacts, Goes DEF Summarize, Die, Accounts, AtWork
<1>2. \A o \in Runs : o # r => run'[o] = run[o]
  BY <1>1, OthersRest DEF Keeps, Accounts
<1>3. Summarize(r) => ~Fresh(run[r]) /\ ~Owing(run[r]) /\ ~Writing(run[r]) /\ run[r].pc # "sent"
  <2>1. run[r].step \in Nat /\ Len(Plan) \in Nat
    BY RunFacts, PlanFacts DEF Accounts
  <2>2. HAVE Summarize(r)
  <2>3. run[r].pc = "next" /\ run[r].step..Len(Plan) = {}
    BY <2>1, <2>2 DEF Summarize
  <2>4. QED
    BY <2>3 DEF Fresh, Owing, Writing
<1>4. ASSUME NEW t \in Tickers, t = run[r].ticker PROVE Paid(t)'
  <2>1. Mine(t)' = Mine(t) \ {r} /\ r \in Mine(t)
    BY <1>1, <1>2, <1>4 DEF Mine, Keeps, AtWork
  <2>2. Open(t)' \subseteq Open(t) \ {r} /\ (Owing(run[r]) => r \in Open(t))
    BY <1>2, <2>1 DEF Open, Mine
  <2>3. PICK o \in Nat : /\ o = Cardinality(Open(t)') /\ o <= Cardinality(Open(t))
                         /\ Owing(run[r]) => o + 1 <= Cardinality(Open(t))
    BY <2>2, Counted, Recount DEF Accounts
  <2>4. PICK s \in Nat : /\ s = Cardinality(Stray(t)') /\ s <= Cardinality(Stray(t)) + 1
                         /\ run[r].pc # "sent" => s <= Cardinality(Stray(t))
    <3>1. CASE run[r].pc = "sent"
      <4>1. Stray(t)' \subseteq Stray(t) \cup {<<r, run[r].step, run[r].attempt>>}
        BY <1>1, <3>1, StrayAfterSent DEF Accounts
      <4>2. QED
        BY <3>1, <4>1, SizesNow, Recount
    <3>2. CASE run[r].pc # "sent"
      <4>1. Stray(t)' = Stray(t)
        BY <1>1, <3>2, StrayStays DEF Accounts
      <4>2. QED
        BY <4>1, SizesNow
    <3>3. QED
      BY <3>1, <3>2
  <2>5. /\ Cardinality(Uncollected(t)) \in Nat /\ Cardinality(Stray(t)) \in Nat
        /\ Cardinality(Open(t)) \in Nat /\ mishaps[t] \in Nat
        /\ Dues(t) = Cardinality(Uncollected(t)) + Cardinality(Stray(t)) + Cardinality(Open(t))
        /\ Dues(t) <= mishaps[t] + 2
        /\ ~Fresh(run[r]) \/ ~Kept(t) => Dues(t) <= mishaps[t] + 1
    BY <1>1, <1>4, AtWorkOwes
  <2>6. Uncollected(t)' = Uncollected(t) /\ (Kept(t)' <=> Kept(t))
    BY <1>1, UncollectedStays DEF Kept
  <2>7. PICK d \in Nat : d = Cardinality(Uncollected(t)) + s + o
    BY <2>5
  <2>8. Dues(t)' = d
    BY <2>3, <2>4, <2>6, <2>7 DEF Dues
  <2>9. d <= Dues(t)
    <3>1. run[r].pc = "sent" => Owing(run[r])
      BY DEF Owing
    <3>2. QED
      BY <2>3, <2>4, <2>5, <2>7, <3>1
  <2>10. Lost(t)' => Lost(t)
    BY <1>2, <2>1, <2>6 DEF Lost, Mine
  <2>11. Lost(t) => Dues(t) <= mishaps[t]
    BY DEF Accounts, Paid
  <2>12. CASE Die(r)
    <3>1. PICK m \in Nat : m = mishaps'[t] /\ m = mishaps[t] + 1
      BY <1>4, <2>12, MishapCounts DEF Die, Accounts
    <3>2. d <= m + 1 /\ (~Kept(t) \/ Lost(t)' => d <= m)
      BY <2>5, <2>9, <2>10, <2>11, <3>1
    <3>3. d <= m + 2
      BY <3>2
    <3>4. QED
      BY <2>6, <2>8, <3>1, <3>2, <3>3 DEF Paid
  <2>13. CASE Summarize(r)
    <3>1. PICK m \in Nat : m = mishaps'[t] /\ m = mishaps[t]
      BY <2>5, <2>13 DEF Summarize
    <3>2. Mine(t)' = {} \/ ~Busy(t)' => ~Busy(t)
      BY <1>2, <1>3, <2>1, <2>13 DEF Busy, Mine
    <3>3. ~Kept(t) /\ ~Busy(t) => Dues(t) <= mishaps[t]
      BY <2>1 DEF Accounts, Paid
    <3>4. d <= m + 1 /\ d <= m + 2 /\ (~Kept(t) /\ ~Busy(t) => d <= m) /\ (Lost(t)' => d <= m)
      BY <1>3, <2>5, <2>9, <2>10, <2>11, <2>13, <3>1, <3>3
    <3>5. QED
      BY <2>6, <2>8, <3>1, <3>2, <3>4 DEF Paid
  <2>14. QED
    BY <2>12, <2>13
<1>5. ASSUME NEW t \in Tickers, t # run[r].ticker PROVE Paid(t)'
  <2>1. mishaps'[t] = mishaps[t] /\ Uncollected(t)' = Uncollected(t)
    BY <1>1, <1>5, MishapCounts, UncollectedStays DEF Summarize, Die, Accounts
  <2>2. QED
    BY <1>1, <1>5, <2>1, Elsewhere
<1>6. QED
  BY <1>4, <1>5

(* A run that begins: the first finds at most one task kept in the file, a  *)
(* second one is a mishap.                                                 *)
LEMMA BeginPays ==
    ASSUME Accounts, NEW r \in Runs, NEW n \in Tickers, NEW i \in Topics, Begin(r, n, i)
    PROVE  \A t \in Tickers : Paid(t)'
<1>1. /\ run[r].pc = "idle" /\ run[r].pc \notin AtWork /\ UNCHANGED <<file, tasks, wire>>
      /\ Traceless(r)
  BY DEF Begin, AtWork, Accounts
<1>2. /\ run' = [run EXCEPT ![r] = run'[r]] /\ run'[r].pc = "next" /\ run'[r].ticker = n
  BY RunFacts DEF Begin, Accounts, IInv, RunsOK, RunRecord
<1>3. \A o \in Runs : o # r => run'[o] = run[o]
  BY <1>2, OthersRest DEF Accounts
<1>4. run'[r].pc \in AtWork /\ run'[r].pc \notin Holding /\ (Owing(run'[r]) <=> Fresh(run'[r]))
  BY <1>2 DEF AtWork, Holding, Owing
<1>5. ASSUME NEW t \in Tickers PROVE Stray(t)' = Stray(t)
  <2>1. \A c \in wire : c[1] \in Runs /\ c[1] # r
    BY <1>1 DEF Accounts, IInv, WireOK, Traceless
  <2>2. \A c \in wire : run'[c[1]] = run[c[1]]
    BY <1>3, <2>1
  <2>3. QED
    BY <1>1, <2>2 DEF Stray, Awaited
<1>6. \A t \in Tickers : Uncollected(t)' = Uncollected(t) /\ (Kept(t)' <=> Kept(t))
  BY <1>1, UncollectedStays DEF Kept
<1>7. ASSUME NEW t \in Tickers, t # n PROVE Paid(t)'
  <2>1. Mine(t)' = Mine(t) /\ \A o \in Mine(t) : run'[o] = run[o]
    BY <1>1, <1>2, <1>3, <1>7 DEF Mine
  <2>2. Open(t)' = Open(t)
    BY <2>1 DEF Open
  <2>3. Dues(t)' = Dues(t)
    BY <1>5, <1>6, <2>2 DEF Dues
  <2>4. (Passed(t)' <=> Passed(t)) /\ (Busy(t)' <=> Busy(t)) /\ (Lost(t)' <=> Lost(t))
    BY <1>6, <2>1 DEF Passed, Busy, Lost
  <2>5. mishaps'[t] = mishaps[t] /\ Paid(t)
    BY <1>7, MishapCounts DEF Begin, Accounts
  <2>6. QED
    BY <1>6, <2>1, <2>3, <2>4, <2>5 DEF Paid
<1>8. ASSUME NEW t \in Tickers, t = n PROVE Paid(t)'
  <2>1. Mine(t)' = Mine(t) \cup {r} /\ r \notin Mine(t)
    BY <1>1, <1>2, <1>3, <1>4, <1>8 DEF Mine
  <2>2. Open(t)' \subseteq Open(t) \cup {r} /\ (~Fresh(run'[r]) => Open(t)' \subseteq Open(t))
    BY <1>3, <1>4, <2>1 DEF Open, Mine
  <2>3. PICK o \in Nat : /\ o = Cardinality(Open(t)') /\ o <= Cardinality(Open(t)) + 1
                         /\ ~Fresh(run'[r]) => o <= Cardinality(Open(t))
    BY <2>2, Counted, Recount DEF Accounts
  <2>4. /\ Cardinality(Uncollected(t)) \in Nat /\ Cardinality(Stray(t)) \in Nat
        /\ Cardinality(Open(t)) \in Nat /\ mishaps[t] \in Nat
        /\ Dues(t) = Cardinality(Uncollected(t)) + Cardinality(Stray(t)) + Cardinality(Open(t))
        /\ Paid(t)
    BY Counted DEF Dues, Accounts
  <2>5. PICK d \in Nat : d = Cardinality(Uncollected(t)) + Cardinality(Stray(t)) + o
    BY <2>4
  <2>6. Dues(t)' = d
    BY <1>5, <1>6, <2>3, <2>5 DEF Dues
  <2>7. d <= Dues(t) + 1 /\ (~Fresh(run'[r]) => d <= Dues(t))
    BY <2>3, <2>4, <2>5
  <2>8. Lost(t)' => Lost(t)
    BY <1>3, <1>4, <1>6, <2>1 DEF Lost, Mine
  <2>9. Passed(t)' /\ Fresh(run'[r]) => Passed(t)
    BY <1>3, <2>1 DEF Passed, Mine
  <2>10. ~Busy(t)' => ~Fresh(run'[r])
    BY <1>4, <2>1 DEF Busy
  <2>11. CASE Mine(t) = {}
    <3>1. PICK m \in Nat : m = mishaps'[t] /\ m = mishaps[t]
      BY <1>8, <2>4, <2>11 DEF Begin, Mine
    <3>2. Dues(t) <= m + 1 /\ (~Kept(t) => Dues(t) <= m)
      BY <2>4, <2>11, <3>1 DEF Paid
    <3>3. ~Passed(t) /\ ~Lost(t)
      BY <2>11 DEF Passed, Lost
    <3>4. /\ d <= m + 2 /\ (~Kept(t) => d <= m + 1) /\ (~Fresh(run'[r]) => d <= m + 1)
          /\ ~Kept(t) /\ ~Fresh(run'[r]) => d <= m
      BY <2>4, <2>7, <3>2
    <3>5. QED
      BY <1>6, <2>1, <2>6, <2>8, <2>9, <2>10, <3>1, <3>3, <3>4 DEF Paid
  <2>12. CASE Mine(t) # {}
    <3>1. PICK m \in Nat : m = mishaps'[t] /\ m = mishaps[t] + 1
      BY <1>8, <2>4, <2>12, MishapCounts DEF Begin, Mine, Accounts
    <3>2. /\ Dues(t) <= m + 1 /\ (~Kept(t) \/ Passed(t) => Dues(t) <= m)
          /\ Lost(t) => Dues(t) + 1 <= m
      BY <2>4, <2>12, <3>1 DEF Paid
    <3>3. /\ d <= m + 2 /\ (~Kept(t) \/ Passed(t) => d <= m + 1) /\ (~Fresh(run'[r]) => d <= m + 1)
          /\ ~Kept(t) /\ ~Fresh(run'[r]) => d <= m
          /\ Lost(t) => d <= m
      BY <2>4, <2>7, <3>2
    <3>4. QED
      BY <1>6, <2>1, <2>6, <2>8, <2>9, <2>10, <3>1, <3>3 DEF Paid
  <2>13. QED
    BY <2>11, <2>12
<1>9. QED
  BY <1>7, <1>8

(* What happens at Exa: a request becomes a task at most.                   *)
LEMMA ExaPays ==
    ASSUME Accounts, UNCHANGED <<run, file, mishaps>>, NEW t \in Tickers,
           Uncollected(t) \subseteq Uncollected(t)',
           NEW u \in Nat, Cardinality(Uncollected(t)') = u,
           NEW s \in Nat, Cardinality(Stray(t)') = s,
           u + s <= Cardinality(Uncollected(t)) + Cardinality(Stray(t))
    PROVE  Paid(t)'
<1>1. Mine(t)' = Mine(t) /\ Open(t)' = Open(t) /\ (Busy(t)' <=> Busy(t)) /\ (Passed(t)' <=> Passed(t))
  BY DEF Mine, Open, Busy, Passed
<1>2. (Kept(t) => Kept(t)') /\ (Lost(t)' => Lost(t))
  BY <1>1 DEF Kept, Lost
<1>3. /\ Cardinality(Uncollected(t)) \in Nat /\ Cardinality(Stray(t)) \in Nat
      /\ Cardinality(Open(t)) \in Nat /\ mishaps[t] \in Nat
      /\ Dues(t) = Cardinality(Uncollected(t)) + Cardinality(Stray(t)) + Cardinality(Open(t))
      /\ Paid(t)
  BY Counted DEF Dues, Accounts
<1>4. PICK d \in Nat : d = u + s + Cardinality(Open(t))
  BY <1>3
<1>5. Dues(t)' = d /\ d <= Dues(t)
  BY <1>1, <1>3, <1>4 DEF Dues
<1>6. /\ Dues(t) <= mishaps[t] => d <= mishaps'[t]
      /\ Dues(t) <= mishaps[t] + 0 => d <= mishaps'[t] + 0
      /\ Dues(t) <= mishaps[t] + 1 => d <= mishaps'[t] + 1
      /\ Dues(t) <= mishaps[t] + 2 => d <= mishaps'[t] + 2
      /\ d <= mishaps'[t] + 0 => d <= mishaps'[t] + 1
  BY <1>3, <1>5
<1>7. QED
  BY <1>1, <1>2, <1>3, <1>5, <1>6 DEF Paid

LEMMA ServePays ==
    ASSUME Accounts, NEW c \in wire, Serve(c)
    PROVE  \A t \in Tickers : Paid(t)'
<1>1. c[1] \in Runs /\ UNCHANGED <<run, file, mishaps>> /\ wire' = wire \ {c}
  BY DEF Serve, Accounts, IInv, WireOK
<1>2. \A t \in Tickers : Stray(t)' = Stray(t) \ {c}
  BY <1>1 DEF Stray, Awaited
<1>3. SUFFICES ASSUME NEW t \in Tickers PROVE Paid(t)'
  OBVIOUS
<1>4. PICK s \in Nat : /\ s = Cardinality(Stray(t)') /\ s <= Cardinality(Stray(t))
                       /\ c \in Stray(t) => s + 1 <= Cardinality(Stray(t))
  BY <1>2, SizesNow, Recount
<1>5. CASE Uncollected(t)' = Uncollected(t)
  BY <1>1, <1>4, <1>5, SizesNow, ExaPays
<1>6. CASE t = run[c[1]].ticker /\ tasks' = Append(tasks, NewTask(c[1]))
  <2>1. Uncollected(t)' = Uncollected(t) \cup {Len(tasks) + 1} /\ c \in Stray(t)
    BY <1>1, <1>6, UncollectedGrows DEF Accounts, Stray, Serve
  <2>2. PICK u \in Nat : u = Cardinality(Uncollected(t)') /\ u <= Cardinality(Uncollected(t)) + 1
    BY <2>1, SizesNow, Recount
  <2>3. u + s <= Cardinality(Uncollected(t)) + Cardinality(Stray(t))
    BY <1>4, <2>1, <2>2, SizesNow
  <2>4. QED
    BY <1>1, <1>4, <2>1, <2>2, <2>3, ExaPays
<1>7. QED
  BY <1>1, <1>5, <1>6, UncollectedStays, UncollectedGrows DEF Serve, Accounts

LEMMA EndsOne ==
    ASSUME IInv, NEW k \in DOMAIN tasks, EndTask(k)
    PROVE  /\ DOMAIN tasks' = DOMAIN tasks
           /\ \A j \in DOMAIN tasks :
                  /\ tasks'[j].ticker = tasks[j].ticker /\ tasks'[j].topic = tasks[j].topic
                  /\ tasks'[j].reported = tasks[j].reported /\ tasks'[j].dropped = tasks[j].dropped
<1>1. tasks[k] \in TaskRecord
  BY DEF IInv, TasksOK, GoodTask
<1>2. \A j \in DOMAIN tasks : j # k => tasks'[j] = tasks[j]
  BY DEF EndTask
<1>3. DOMAIN tasks' = DOMAIN tasks
  BY DEF EndTask
<1>4. /\ tasks'[k].ticker = tasks[k].ticker /\ tasks'[k].topic = tasks[k].topic
      /\ tasks'[k].reported = tasks[k].reported /\ tasks'[k].dropped = tasks[k].dropped
  <2>1. ASSUME NEW cost, tasks' = [tasks EXCEPT ![k].status = "completed", ![k].cost = cost]
        PROVE  tasks'[k] = [tasks[k] EXCEPT !.status = "completed", !.cost = cost]
    BY <2>1
  <2>2. ASSUME NEW cost, tasks' = [tasks EXCEPT ![k].status = "completed", ![k].cost = cost]
        PROVE  /\ tasks'[k].ticker = tasks[k].ticker /\ tasks'[k].topic = tasks[k].topic
               /\ tasks'[k].reported = tasks[k].reported /\ tasks'[k].dropped = tasks[k].dropped
    BY <1>1, <2>1, <2>2 DEF TaskRecord
  <2>3. ASSUME tasks' = [tasks EXCEPT ![k].status = "failed"]
        PROVE  /\ tasks'[k].ticker = tasks[k].ticker /\ tasks'[k].topic = tasks[k].topic
               /\ tasks'[k].reported = tasks[k].reported /\ tasks'[k].dropped = tasks[k].dropped
    <3>1. tasks'[k] = [tasks[k] EXCEPT !.status = "failed"]
      BY <2>3
    <3>2. QED
      BY <1>1, <3>1 DEF TaskRecord
  <2>4. QED
    BY <2>2, <2>3 DEF EndTask
<1>5. QED
  BY <1>2, <1>3, <1>4

LEMMA EndTaskPays ==
    ASSUME Accounts, NEW k \in DOMAIN tasks, EndTask(k)
    PROVE  \A t \in Tickers : Paid(t)'
<1>1. UNCHANGED <<run, file, mishaps, wire>>
  BY DEF EndTask
<1>2. SUFFICES ASSUME NEW t \in Tickers PROVE Paid(t)'
  OBVIOUS
<1>3. Uncollected(t)' = Uncollected(t)
  BY EndsOne DEF Uncollected, Accounts
<1>4. Stray(t)' = Stray(t)
  BY <1>1 DEF Stray, Awaited
<1>5. QED
  BY <1>1, <1>3, <1>4, SizesNow, ExaPays

-----------------------------------------------------------------------------
(* A step of a run changes that run, asks for its own step only, and does   *)
(* not answer for another run's tasks.                                      *)
LEMMA RunsKeep ==
    ASSUME Accounts, NEW r \in Runs, RunStep(r) \/ Die(r)
    PROVE  /\ Keeps(r) /\ run[r].pc # "idle" /\ run'[r].pc # "idle"
           /\ run'[r].pc \in Researching => Endpoint(r)' = "research"
<1>1. ASSUME Keeps(r), run[r].pc \in AtWork, run'[r].pc \in {"next", "done"}
      PROVE  /\ run[r].pc # "idle" /\ run'[r].pc # "idle" /\ run'[r].pc \notin Researching
  BY <1>1 DEF AtWork, Researching
<1>2. ASSUME Keeps(r), run[r].pc \in Researching \/ AtResearch(r), run'[r].step = run[r].step,
             run'[r].pc \in Researching
      PROVE  /\ run[r].pc # "idle" /\ run'[r].pc # "idle" /\ Endpoint(r)' = "research"
  <2>1. Endpoint(r) = "research"
    BY <1>2 DEF Accounts, AtResearch
  <2>2. QED
    BY <1>2, <2>1 DEF Endpoint, AtResearch, AtStep, Researching
<1>3. CASE Skip(r)
  BY <1>1, <1>3, Fails DEF Skip, AtStep, AtWork, Accounts
<1>4. CASE Ask(r)
  BY <1>1, <1>4, Fails, Overs DEF Ask, AtStep, AtWork, Accounts
<1>5. CASE Summarize(r) \/ Die(r)
  BY <1>1, <1>5, Goes DEF Summarize, Die, AtWork, Accounts
<1>6. CASE Load(r)
  BY <1>2, <1>6, LooksUp, Buys DEF Load, Researching, Accounts
<1>7. CASE Send(r)
  BY <1>2, <1>7, Goes DEF Send, Researching, Accounts
<1>8. CASE Created(r)
  BY <1>2, <1>8, Takes DEF Created, Researching, Accounts
<1>9. CASE Unanswered(r) \/ Refused(r)
  BY <1>1, <1>2, <1>9, Agains, Fails DEF Unanswered, Refused, Researching, AtWork, Accounts
<1>10. CASE OpenFile(r) \/ WriteFile(r)
  BY <1>2, <1>10, Goes, Tracks DEF OpenFile, WriteFile, Researching, Accounts
<1>11. CASE Lookup(r)
  BY <1>2, <1>11, Goes, Tracks DEF Lookup, Researching, Accounts
<1>12. CASE List(r)
  BY <1>2, <1>12, Buys, Takes, ZenonT(60) DEF List, Researching, Accounts
<1>13. CASE Poll(r)
  BY <1>1, <1>2, <1>13, Goes, Polls, Fails DEF Poll, GiveUp, Researching, AtWork, Accounts
<1>14. CASE Finalize(r)
  BY <1>1, <1>14, Overs, Fails DEF Finalize, AtWork, Accounts
<1>15. QED
  BY <1>3, <1>4, <1>5, <1>6, <1>7, <1>8, <1>9, <1>10, <1>11, <1>12, <1>13, <1>14 DEF RunStep

LEMMA TracesKeep ==
    ASSUME IInv, NEW r \in Runs, RunStep(r) \/ Die(r)
    PROVE  /\ \E c : c[1] = r /\ wire' \subseteq wire \cup {c}
           /\ \A o \in Runs : o # r /\ Traceless(o) => Traceless(o)'
<1>1. \E c : c[1] = r /\ wire' \subseteq wire \cup {c}
  <2>1. wire' \subseteq wire \cup {<<r, run[r].step, run[r].attempt>>}
    BY DEF RunStep, Die, Skip, Ask, Summarize, Load, Send, Created, Unanswered, Refused, OpenFile,
           WriteFile, Lookup, List, Poll, Finalize
  <2>2. QED
    BY <2>1
<1>2. ASSUME NEW o \in Runs, o # r, \A k \in DOMAIN tasks : o \notin tasks[k].reported
      PROVE  \A k \in DOMAIN tasks' : o \notin tasks'[k].reported
  <2>1. CASE tasks' = tasks
    BY <1>2, <2>1
  <2>2. CASE tasks' = Append(tasks, NewTask(r))
    <3>1. /\ DOMAIN tasks = 1..Len(tasks) /\ DOMAIN tasks' = 1..(Len(tasks) + 1) /\ Len(tasks) \in Nat
          /\ \A k \in DOMAIN tasks : tasks'[k] = tasks[k]
          /\ tasks'[Len(tasks) + 1].reported = {}
      BY <2>2, TasksGrow DEF NewTask
    <3>2. QED
      BY <1>2, <3>1
  <2>3. CASE Finalize(r)
    <3>1. run[r].id \in DOMAIN tasks
      BY <2>3, RunFacts, ResearchingFacts DEF Finalize, Holding, Researching
    <3>2. /\ tasks[run[r].id] \in TaskRecord /\ DOMAIN tasks' = DOMAIN tasks
          /\ \A j \in DOMAIN tasks : j # run[r].id => tasks'[j] = tasks[j]
      BY <2>3, <3>1 DEF IInv, TasksOK, GoodTask, Finalize
    <3>3. tasks'[run[r].id].reported \subseteq tasks[run[r].id].reported \cup {r}
      BY <2>3, <3>1, <3>2 DEF Finalize, TaskRecord
    <3>4. QED
      BY <1>2, <3>1, <3>2, <3>3
  <2>4. QED
    BY <2>1, <2>2, <2>3 DEF RunStep, Die, Skip, Ask, Summarize, Load, Send, Created, Unanswered,
       Refused, OpenFile, WriteFile, Lookup, List, Poll
<1>3. QED
  BY <1>1, <1>2 DEF Traceless

(* No step leaves the accounts in disorder.                                 *)
LEMMA InitAccounts == ASSUME Init PROVE Accounts
<1>1. IInv /\ IsFiniteSet(wire)
  BY InitIInv, FS_EmptySet DEF Init
<1>2. \A r \in Runs : run[r].pc = "idle" /\ Traceless(r)
  BY DEF Init, Traceless
<1>3. ASSUME NEW t \in Tickers PROVE Paid(t)
  <2>1. Mine(t) = {} /\ Open(t) = {} /\ Stray(t) = {} /\ Uncollected(t) = {}
    BY <1>2 DEF Mine, AtWork, Open, Stray, Uncollected, Init
  <2>2. Dues(t) = 0 /\ mishaps[t] = 0 /\ ~Lost(t)
    BY <2>1, FS_EmptySet DEF Dues, Lost, Init
  <2>3. QED
    BY <2>1, <2>2 DEF Paid
<1>4. QED
  BY <1>1, <1>2, <1>3 DEF Accounts, Researching

LEMMA NextAccounts == ASSUME Accounts, [Next]_vars PROVE Accounts'
<1>1. IInv'
  BY NextIInv DEF Accounts
<1>2. ASSUME NEW r \in Runs, RunStep(r) \/ Die(r) PROVE Accounts'
  <2>1. \A t \in Tickers : Paid(t)'
    BY <1>2, SkipPays, AskPays, LoadPays, LookupPays, ListPays, PollPays, SendPays, CreatedPays,
       UnansweredPays, RefusedPays, WritingPays, FinalizePays, EndPays DEF RunStep
  <2>2. /\ Keeps(r) /\ run[r].pc # "idle" /\ run'[r].pc # "idle"
        /\ run'[r].pc \in Researching => Endpoint(r)' = "research"
    BY <1>2, RunsKeep
  <2>3. \A o \in Runs : o # r => run'[o] = run[o]
    BY <2>2, OthersRest DEF Keeps, Accounts
  <2>4. \A o \in Runs : run'[o].pc \in Researching => Endpoint(o)' = "research"
    BY <2>2, <2>3 DEF Accounts, Endpoint
  <2>5. \A o \in Runs : run'[o].pc = "idle" => Traceless(o)'
    BY <1>2, <2>2, <2>3, TracesKeep DEF Accounts
  <2>6. IsFiniteSet(wire')
    BY <1>2, TracesKeep, Recount DEF Accounts
  <2>7. QED
    BY <1>1, <2>1, <2>4, <2>5, <2>6 DEF Accounts
<1>3. ASSUME NEW r \in Runs, NEW t \in Tickers, NEW i \in Topics, Begin(r, t, i) PROVE Accounts'
  <2>1. run' = [run EXCEPT ![r] = run'[r]] /\ run'[r].pc = "next" /\ UNCHANGED <<file, tasks, wire>>
    BY <1>3, RunFacts DEF Begin, Accounts, IInv, RunsOK, RunRecord
  <2>2. \A o \in Runs : o # r => run'[o] = run[o]
    BY <2>1, OthersRest DEF Accounts
  <2>3. \A o \in Runs : run'[o].pc \in Researching => Endpoint(o)' = "research"
    BY <2>1, <2>2 DEF Accounts, Endpoint, Researching
  <2>4. \A o \in Runs : run'[o].pc = "idle" => Traceless(o)'
    BY <2>1, <2>2 DEF Accounts, Traceless
  <2>5. QED
    BY <1>1, <1>3, <2>1, <2>3, <2>4, BeginPays DEF Accounts
<1>4. ASSUME NEW c \in wire, Serve(c) PROVE Accounts'
  <2>1. c[1] \in Runs /\ run' = run /\ wire' = wire \ {c}
    BY <1>4 DEF Serve, Accounts, IInv, WireOK
  <2>2. ASSUME NEW o \in Runs, Traceless(o) PROVE Traceless(o)'
    <3>1. CASE tasks' = tasks
      BY <2>1, <2>2, <3>1 DEF Traceless
    <3>2. CASE tasks' = Append(tasks, NewTask(c[1]))
      <4>1. /\ DOMAIN tasks = 1..Len(tasks) /\ DOMAIN tasks' = 1..(Len(tasks) + 1) /\ Len(tasks) \in Nat
            /\ \A k \in DOMAIN tasks : tasks'[k] = tasks[k]
            /\ tasks'[Len(tasks) + 1].reported = {}
        BY <2>1, <3>2, TasksGrow DEF NewTask, Accounts
      <4>2. QED
        BY <2>1, <2>2, <4>1 DEF Traceless
    <3>3. QED
      BY <1>4, <3>1, <3>2 DEF Serve
  <2>3. IsFiniteSet(wire')
    BY <2>1, Recount DEF Accounts
  <2>4. QED
    BY <1>1, <1>4, <2>1, <2>2, <2>3, ServePays DEF Accounts, Endpoint
<1>5. ASSUME NEW k \in DOMAIN tasks, EndTask(k) PROVE Accounts'
  <2>1. run' = run /\ wire' = wire
    BY <1>5 DEF EndTask
  <2>2. /\ DOMAIN tasks' = DOMAIN tasks
        /\ \A j \in DOMAIN tasks : tasks'[j].reported = tasks[j].reported
    BY <1>5, EndsOne DEF Accounts
  <2>3. \A o \in Runs : Traceless(o) => Traceless(o)'
    BY <2>1, <2>2 DEF Traceless
  <2>4. QED
    BY <1>1, <1>5, <2>1, <2>3, EndTaskPays DEF Accounts, Endpoint
<1>6. CASE UNCHANGED vars
  <2>1. UNCHANGED <<run, file, tasks, wire, mishaps>>
    BY <1>6 DEF vars
  <2>2. \A t \in Tickers : Paid(t)'
    <3>1. SUFFICES ASSUME NEW t \in Tickers PROVE Paid(t)'
      OBVIOUS
    <3>2. Uncollected(t)' = Uncollected(t) /\ Stray(t)' = Stray(t)
      BY <2>1 DEF Uncollected, Stray, Awaited
    <3>3. QED
      BY <2>1, <3>2, SizesNow, ExaPays
  <2>3. QED
    BY <1>1, <2>1, <2>2 DEF Accounts, Endpoint, Traceless
<1>7. QED
  BY <1>2, <1>3, <1>4, <1>5, <1>6 DEF Next

(* A market pays for a second task, while one of its tasks is still waiting *)
(* to be collected, at most once for every answer or write that was lost,   *)
(* process that died, lookup that failed, run that overlapped another or    *)
(* title that changed (ResearchTaskRecovery, create_research_task).         *)
THEOREM NothingIsBoughtTwice == Spec => []NothingBoughtTwice
<1>1. Init => Accounts
  BY InitAccounts
<1>2. Accounts /\ [Next]_vars => Accounts'
  BY NextAccounts
<1>3. ASSUME Accounts PROVE NothingBoughtTwice
  <2>1. ASSUME NEW t \in Tickers PROVE Cardinality(Uncollected(t)) <= 1 + mishaps[t]
    <3>1. /\ Cardinality(Uncollected(t)) \in Nat /\ Cardinality(Stray(t)) \in Nat
          /\ Cardinality(Open(t)) \in Nat /\ mishaps[t] \in Nat
          /\ Dues(t) = Cardinality(Uncollected(t)) + Cardinality(Stray(t)) + Cardinality(Open(t))
          /\ Paid(t)
      BY <1>3, Counted DEF Dues, Accounts
    <3>2. CASE Dues(t) <= mishaps[t] + 1
      BY <3>1, <3>2
    <3>3. CASE ~(Dues(t) <= mishaps[t] + 1)
      <4>1. Mine(t) # {} /\ Kept(t) /\ ~Passed(t) /\ Dues(t) <= mishaps[t] + 2
        BY <3>1, <3>3 DEF Paid
      <4>2. PICK r \in Mine(t) : Fresh(run[r])
        BY <4>1 DEF Passed
      <4>3. r \in Open(t)
        BY <4>2 DEF Open, Owing
      <4>4. Cardinality(Open(t)) >= 1
        <5>1. {} \subseteq Open(t) \ {r} /\ IsFiniteSet(Open(t))
          BY <1>3, Counted DEF Accounts
        <5>2. Cardinality({}) + 1 <= Cardinality(Open(t)) /\ Cardinality({}) \in Nat
          BY <4>3, <5>1, Recount
        <5>3. QED
          BY <3>1, <5>2
      <4>5. QED
        BY <3>1, <4>1, <4>4
    <3>4. QED
      BY <3>2, <3>3
  <2>2. QED
    BY <2>1 DEF NothingBoughtTwice
<1>4. QED
  BY <1>1, <1>2, <1>3, PTL DEF Spec

-----------------------------------------------------------------------------
(* The tasks that are reported.  As long as nothing went wrong for a        *)
(* market, one run of it is at work at a time and its file follows that     *)
(* run: what it names is a task of the market that nobody has reported but  *)
(* runs of markets for which something did go wrong.                       *)
Own(k, i, t) ==
    /\ tasks[k].ticker = t /\ tasks[k].topic = i
    /\ \A o \in tasks[k].reported : mishaps[run[o].ticker] > 0

InStep(x, t) ==
    /\ x.pc # "list"
    /\ x.pc \in {"send", "sent", "save"} => file[t] = NoFile
    /\ x.pc = "write" => file[t] = Torn
    /\ x.pc \in {"save", "write"} => Own(x.id, x.topic, t)
    /\ x.pc \in {"lookup", "poll", "final"} => file[t] = [id |-> x.id, topic |-> x.topic]

Tidy(t) ==
    /\ \A r, o \in Mine(t) : r = o
    /\ Stray(t) = {}
    /\ file[t] = Torn => \E r \in Mine(t) : run[r].pc = "write"
    /\ file[t] \notin {NoFile, Torn} => Own(file[t].id, file[t].topic, t)
    /\ \A r \in Mine(t) : InStep(run[r], t)

(* The inductive invariant for the reports.                                 *)
Reports ==
    /\ Accounts
    /\ \A t \in Tickers : mishaps[t] = 0 => Tidy(t)
    /\ ReportsAreOwn

(* Whoever reported a task keeps his market, a task its market and its      *)
(* instructions, and what went wrong is not forgotten.                      *)
Remembers ==
    /\ \A t \in Tickers : mishaps[t] \in Nat /\ mishaps'[t] \in Nat /\ mishaps[t] <= mishaps'[t]
    /\ \A k \in DOMAIN tasks :
           /\ k \in DOMAIN tasks'
           /\ tasks'[k].ticker = tasks[k].ticker /\ tasks'[k].topic = tasks[k].topic
           /\ \A o \in tasks[k].reported :
                  /\ o \in Runs /\ run[o].ticker \in Tickers
                  /\ run'[o].ticker = run[o].ticker /\ run'[o].topic = run[o].topic

(* No task is reported in the step.                                         *)
Silent ==
    \A k \in DOMAIN tasks' :
        IF k \in DOMAIN tasks THEN tasks'[k].reported = tasks[k].reported
                              ELSE tasks'[k].reported = {}

LEMMA ReportersAreRuns ==
    ASSUME IInv, NEW k \in DOMAIN tasks, NEW o \in tasks[k].reported
    PROVE  o \in Runs /\ run[o].ticker \in Tickers
<1>1. tasks[k] \in TaskRecord
  BY DEF IInv, TasksOK, GoodTask
<1>2. o \in Runs
  BY <1>1 DEF TaskRecord
<1>3. QED
  BY <1>2, RunFacts

LEMMA OwnStays ==
    ASSUME Remembers, Silent, NEW k \in DOMAIN tasks, NEW i, NEW t, Own(k, i, t)
    PROVE  Own(k, i, t)'
<1>1. /\ k \in DOMAIN tasks' /\ tasks'[k].reported = tasks[k].reported
      /\ tasks'[k].ticker = t /\ tasks'[k].topic = i
  BY DEF Remembers, Silent, Own
<1>2. ASSUME NEW o \in tasks[k].reported PROVE mishaps'[run'[o].ticker] > 0
  BY DEF Remembers, Own
<1>3. QED
  BY <1>1, <1>2 DEF Own

LEMMA ReportsStay ==
    ASSUME Reports, Remembers, Silent
    PROVE  ReportsAreOwn'
<1>1. SUFFICES ASSUME NEW k \in DOMAIN tasks', NEW r \in tasks'[k].reported,
                      ~(mishaps'[run'[r].ticker] > 0)
               PROVE  /\ tasks'[k].ticker = run'[r].ticker /\ tasks'[k].topic = run'[r].topic
                      /\ \A o \in tasks'[k].reported \ {r} : mishaps'[run'[o].ticker] > 0
  BY DEF ReportsAreOwn
<1>2. k \in DOMAIN tasks /\ tasks'[k].reported = tasks[k].reported /\ r \in tasks[k].reported
  BY DEF Silent
<1>3. /\ run'[r].ticker = run[r].ticker /\ run'[r].topic = run[r].topic
      /\ tasks'[k].ticker = tasks[k].ticker /\ tasks'[k].topic = tasks[k].topic
      /\ ~(mishaps[run[r].ticker] > 0)
  <2>1. /\ run'[r].ticker = run[r].ticker /\ run'[r].topic = run[r].topic
        /\ tasks'[k].ticker = tasks[k].ticker /\ tasks'[k].topic = tasks[k].topic
        /\ run[r].ticker \in Tickers
    BY <1>2 DEF Remembers
  <2>2. mishaps[run[r].ticker] \in Nat /\ mishaps'[run[r].ticker] \in Nat
        /\ mishaps[run[r].ticker] <= mishaps'[run[r].ticker]
    BY <2>1 DEF Remembers
  <2>3. QED
    BY <1>1, <2>1, <2>2
<1>4. /\ tasks[k].ticker = run[r].ticker /\ tasks[k].topic = run[r].topic
      /\ \A o \in tasks[k].reported \ {r} : mishaps[run[o].ticker] > 0
  BY <1>2, <1>3 DEF Reports, ReportsAreOwn
<1>5. ASSUME NEW o \in tasks[k].reported \ {r} PROVE mishaps'[run'[o].ticker] > 0
  BY <1>2, <1>4 DEF Remembers
<1>6. QED
  BY <1>2, <1>3, <1>4, <1>5

-----------------------------------------------------------------------------
(* What a step changes of the tasks and of the counts.                      *)
LEMMA MishapsGrow ==
    ASSUME IInv, mishaps' = mishaps \/ \E t \in Tickers : Mishap(t)
    PROVE  \A t \in Tickers : mishaps[t] \in Nat /\ mishaps'[t] \in Nat /\ mishaps[t] <= mishaps'[t]
<1>1. \A t \in Tickers : mishaps[t] \in Nat
  BY AgentAssumption DEF IInv, CountOK
<1>2. ASSUME NEW u \in Tickers, Mishap(u), NEW t \in Tickers
      PROVE  mishaps'[t] = mishaps[t] \/ mishaps'[t] = mishaps[t] + 1
  BY <1>2, MishapCounts
<1>3. ASSUME NEW t \in Tickers PROVE mishaps'[t] = mishaps[t] \/ mishaps'[t] = mishaps[t] + 1
  BY <1>2
<1>4. QED
  BY <1>1, <1>3

LEMMA TasksRemain ==
    ASSUME IInv, \/ tasks' = tasks
                 \/ \E r \in Runs : tasks' = Append(tasks, NewTask(r))
                 \/ \E k \in DOMAIN tasks : EndTask(k)
    PROVE  /\ Silent
           /\ \A k \in DOMAIN tasks : /\ k \in DOMAIN tasks' /\ tasks'[k].ticker = tasks[k].ticker
                                      /\ tasks'[k].topic = tasks[k].topic
<1>1. CASE tasks' = tasks
  BY <1>1 DEF Silent
<1>2. ASSUME NEW r \in Runs, tasks' = Append(tasks, NewTask(r))
      PROVE  /\ Silent
             /\ \A k \in DOMAIN tasks : k \in DOMAIN tasks' /\ tasks'[k] = tasks[k]
  <2>1. /\ DOMAIN tasks = 1..Len(tasks) /\ DOMAIN tasks' = 1..(Len(tasks) + 1) /\ Len(tasks) \in Nat
        /\ \A k \in DOMAIN tasks : tasks'[k] = tasks[k]
        /\ tasks'[Len(tasks) + 1].reported = {}
    BY <1>2, TasksGrow DEF NewTask
  <2>2. QED
    BY <2>1 DEF Silent
<1>3. ASSUME NEW k \in DOMAIN tasks, EndTask(k)
      PROVE  /\ Silent
             /\ \A j \in DOMAIN tasks : /\ j \in DOMAIN tasks' /\ tasks'[j].ticker = tasks[j].ticker
                                        /\ tasks'[j].topic = tasks[j].topic
  BY <1>3, EndsOne DEF Silent
<1>4. QED
  BY <1>1, <1>2, <1>3

LEMMA FinalizeMarks ==
    ASSUME IInv, NEW r \in Runs, Finalize(r)
    PROVE  /\ run[r].id \in DOMAIN tasks /\ DOMAIN tasks' = DOMAIN tasks
           /\ \A k \in DOMAIN tasks : /\ tasks'[k].ticker = tasks[k].ticker
                                      /\ tasks'[k].topic = tasks[k].topic
                                      /\ tasks'[k].reported \subseteq tasks[k].reported \cup {r}
                                      /\ k # run[r].id => tasks'[k].reported = tasks[k].reported
<1> DEFINE k == run[r].id
<1>1. k \in DOMAIN tasks
  BY RunFacts, ResearchingFacts DEF Finalize, Holding, Researching
<1>2. /\ tasks[k] \in TaskRecord /\ DOMAIN tasks' = DOMAIN tasks
      /\ \A j \in DOMAIN tasks : j # k => tasks'[j] = tasks[j]
  BY <1>1 DEF IInv, TasksOK, GoodTask, Finalize
<1>3. /\ tasks'[k].ticker = tasks[k].ticker /\ tasks'[k].topic = tasks[k].topic
      /\ tasks'[k].reported \subseteq tasks[k].reported \cup {r}
  <2>1. CASE tasks' = [tasks EXCEPT ![k].reported = tasks[k].reported \cup {r}]
    <3>1. tasks'[k] = [tasks[k] EXCEPT !.reported = tasks[k].reported \cup {r}]
      BY <1>1, <2>1
    <3>2. QED
      BY <1>2, <3>1 DEF TaskRecord
  <2>2. CASE tasks' = [tasks EXCEPT ![k].dropped = TRUE]
    <3>1. tasks'[k] = [tasks[k] EXCEPT !.dropped = TRUE]
      BY <1>1, <2>2
    <3>2. QED
      BY <1>2, <3>1 DEF TaskRecord
  <2>3. QED
    BY <2>1, <2>2 DEF Finalize
<1>4. QED
  BY <1>1, <1>2, <1>3

LEMMA RunRemembers ==
    ASSUME Accounts, NEW r \in Runs, RunStep(r) \/ Die(r)
    PROVE  Remembers /\ (~Finalize(r) => Silent)
<1>1. Keeps(r) /\ run[r].ticker \in Tickers
  BY RunsKeep, RunFacts DEF Accounts
<1>2. \A o \in Runs : run'[o].ticker = run[o].ticker /\ run'[o].topic = run[o].topic
  BY <1>1, OthersRest DEF Keeps, Accounts
<1>3. mishaps' = mishaps \/ \E t \in Tickers : Mishap(t)
  BY <1>1 DEF RunStep, Die, Skip, Ask, Summarize, Load, Send, Created, Unanswered, Refused,
     OpenFile, WriteFile, Lookup, List, Poll, Finalize
<1>4. ~Finalize(r) => tasks' = tasks \/ tasks' = Append(tasks, NewTask(r))
  BY DEF RunStep, Die, Skip, Ask, Summarize, Load, Send, Created, Unanswered, Refused,
     OpenFile, WriteFile, Lookup, List, Poll
<1>5. \A k \in DOMAIN tasks : /\ k \in DOMAIN tasks' /\ tasks'[k].ticker = tasks[k].ticker
                              /\ tasks'[k].topic = tasks[k].topic
  BY <1>4, TasksRemain, FinalizeMarks DEF Accounts
<1>6. ~Finalize(r) => Silent
  BY <1>4, TasksRemain DEF Accounts
<1>7. \A t \in Tickers : mishaps[t] \in Nat /\ mishaps'[t] \in Nat /\ mishaps[t] <= mishaps'[t]
  BY <1>3, MishapsGrow DEF Accounts
<1>8. QED
  BY <1>2, <1>5, <1>6, <1>7, ReportersAreRuns DEF Remembers, Accounts

-----------------------------------------------------------------------------
(* A market whose runs rest stays in order.                                 *)
LEMMA RestsTidy ==
    ASSUME Accounts, Remembers, NEW t \in Tickers, Tidy(t),
           Mine(t)' = Mine(t), \A o \in Mine(t) : run'[o] = run[o],
           Stray(t)' \subseteq Stray(t), file'[t] = file[t],
           \A k \in DOMAIN tasks : \A i \in Topics : Own(k, i, t) => Own(k, i, t)'
    PROVE  Tidy(t)'
<1>1. file[t] \notin {NoFile, Torn} => Own(file[t].id, file[t].topic, t)'
  <2>1. HAVE file[t] \notin {NoFile, Torn}
  <2>2. file[t].id \in 1..Len(tasks) /\ file[t].topic \in Topics /\ DOMAIN tasks = 1..Len(tasks)
    BY <2>1 DEF Accounts, IInv, FilesOK, GoodFile, TasksOK
  <2>3. PICK k \in DOMAIN tasks, i \in Topics : k = file[t].id /\ i = file[t].topic
    BY <2>2
  <2>4. Own(k, i, t)'
    BY <2>1, <2>3 DEF Tidy
  <2>5. k = file'[t].id /\ i = file'[t].topic
    BY <2>3
  <2>6. QED
    BY <2>4, <2>5 DEF Own
<1>2. ASSUME NEW o \in Mine(t) PROVE InStep(run[o], t)'
  <2>1. InStep(run[o], t) /\ run'[o] = run[o] /\ o \in Runs
    BY <1>2 DEF Tidy, Mine
  <2>2. ASSUME run[o].pc \in {"save", "write"} PROVE Own(run[o].id, run[o].topic, t)'
    <3>1. run[o].id \in DOMAIN tasks /\ run[o].topic \in Topics
      BY <2>1, <2>2, RunFacts, ResearchingFacts DEF Accounts, Holding, Researching, IInv, TasksOK
    <3>2. PICK k \in DOMAIN tasks, i \in Topics : k = run[o].id /\ i = run[o].topic
      BY <3>1
    <3>3. Own(k, i, t)'
      BY <2>1, <2>2, <3>2 DEF InStep
    <3>4. k = run'[o].id /\ i = run'[o].topic
      BY <2>1, <3>2
    <3>5. QED
      BY <3>3, <3>4 DEF Own
  <2>3. QED
    BY <2>1, <2>2 DEF InStep
<1>3. Stray(t)' = {}
  BY DEF Tidy
<1>4. QED
  BY <1>1, <1>2, <1>3 DEF Tidy

(* A run that takes a step is alone in a market for which nothing went      *)
(* wrong.                                                                  *)
LEMMA AloneTidy ==
    ASSUME Accounts, NEW r \in Runs, Keeps(r), run[r].pc \in AtWork,
           NEW t \in Tickers, t = run[r].ticker, Tidy(t),
           Stray(t)' = {},
           file'[t] = Torn => run'[r].pc = "write",
           file'[t] \notin {NoFile, Torn} => Own(file[t].id, file[t].topic, t)',
           run'[r].pc \in AtWork => InStep(run[r], t)'
    PROVE  Tidy(t)'
<1>1. \A o \in Runs : o # r => run'[o] = run[o]
  BY OthersRest DEF Keeps, Accounts
<1>2. r \in Mine(t) /\ \A o \in Mine(t) : o = r
  BY DEF Mine, Tidy
<1>3. \A o \in Mine(t)' : o = r /\ run'[o].pc \in AtWork
  BY <1>1, <1>2 DEF Mine
<1>4. run'[r].pc = "write" => r \in Mine(t)'
  BY DEF Mine, Keeps, AtWork
<1>5. QED
  BY <1>3, <1>4 DEF Tidy


(* A market for which nothing goes wrong in a step.                         *)
LEMMA Undisturbed ==
    ASSUME Reports, NEW r \in Runs, RunStep(r) \/ Die(r), NEW t \in Tickers, mishaps'[t] = 0
    PROVE  /\ mishaps[t] = 0 /\ ~Mishap(t) /\ Tidy(t) /\ Stray(t) = {}
           /\ t = run[r].ticker /\ run[r].pc \in AtWork =>
                  /\ InStep(run[r], t)
                  /\ file[t] = Torn => run[r].pc = "write"
<1>1. Remembers
  BY RunRemembers DEF Reports
<1>2. mishaps[t] \in Nat /\ mishaps'[t] \in Nat /\ mishaps[t] <= mishaps'[t]
  BY <1>1 DEF Remembers
<1>3. mishaps[t] = 0
  BY <1>2
<1>4. ~Mishap(t)
  <2>1. ASSUME Mishap(t) PROVE FALSE
    <3>1. mishaps'[t] = mishaps[t] + 1
      BY <2>1, MishapCounts DEF Reports, Accounts
    <3>2. QED
      BY <1>3, <3>1
  <2>2. QED
    BY <2>1
<1>5. Tidy(t) /\ Stray(t) = {}
  BY <1>3 DEF Reports, Tidy
<1>6. ASSUME t = run[r].ticker, run[r].pc \in AtWork
      PROVE  InStep(run[r], t) /\ (file[t] = Torn => run[r].pc = "write")
  <2>1. r \in Mine(t)
    BY <1>6 DEF Mine
  <2>2. QED
    BY <1>5, <2>1 DEF Tidy
<1>7. QED
  BY <1>3, <1>4, <1>5, <1>6

LEMMA FileOwnStays ==
    ASSUME Accounts, Remembers, Silent, NEW t \in Tickers, Tidy(t), file'[t] = file[t],
           file[t] \notin {NoFile, Torn}
    PROVE  Own(file[t].id, file[t].topic, t)'
<1>1. file[t].id \in 1..Len(tasks) /\ DOMAIN tasks = 1..Len(tasks)
  BY DEF Accounts, IInv, FilesOK, GoodFile, TasksOK
<1>2. Own(file[t].id, file[t].topic, t)
  BY DEF Tidy
<1>3. PICK k, i : k \in DOMAIN tasks /\ k = file[t].id /\ i = file[t].topic
  BY <1>1
<1>4. Own(k, i, t)'
  BY <1>2, <1>3, OwnStays
<1>5. k = file'[t].id /\ i = file'[t].topic
  BY <1>3
<1>6. QED
  BY <1>4, <1>5 DEF Own

(* Steps that leave the file alone.                                         *)
LEMMA PlainTidy ==
    ASSUME Reports, NEW r \in Runs, RunStep(r), ~Finalize(r), NEW t \in Tickers, mishaps'[t] = 0,
           t = run[r].ticker, run[r].pc \in AtWork \ {"write"}, Keeps(r), file' = file,
           Stray(t)' = {}, run'[r].pc \in AtWork => InStep(run[r], t)'
    PROVE  Tidy(t)'
<1>1. Tidy(t) /\ file[t] # Torn
  BY Undisturbed
<1>2. Remembers /\ Silent
  BY RunRemembers DEF Reports
<1>3. file[t] \notin {NoFile, Torn} => Own(file[t].id, file[t].topic, t)'
  BY <1>1, <1>2, FileOwnStays DEF Reports
<1>4. QED
  BY <1>1, <1>3, AloneTidy DEF Reports

(* The task in a run's hands stays its own.                                 *)
LEMMA HeldOwnStays ==
    ASSUME Accounts, Remembers, Silent, NEW r \in Runs, NEW t \in Tickers, Keeps(r),
           run[r].pc \in {"save", "write"}, InStep(run[r], t), run'[r].id = run[r].id
    PROVE  Own(run[r].id, run[r].topic, t)'
<1>1. run[r].id \in DOMAIN tasks
  BY RunFacts, ResearchingFacts DEF Accounts, Holding, Researching, IInv, TasksOK
<1>2. PICK k, i : k \in DOMAIN tasks /\ k = run[r].id /\ i = run[r].topic
  BY <1>1
<1>3. Own(k, i, t)'
  BY <1>2, OwnStays DEF InStep
<1>4. k = run'[r].id /\ i = run'[r].topic
  BY <1>2 DEF Keeps
<1>5. QED
  BY <1>3, <1>4 DEF Own

LEMMA TidyHere ==
    ASSUME Reports, NEW r \in Runs, RunStep(r) \/ Die(r), NEW t \in Tickers, t = run[r].ticker,
           mishaps'[t] = 0
    PROVE  Tidy(t)'
<1>1. /\ mishaps[t] = 0 /\ ~Mishap(t) /\ Tidy(t) /\ Stray(t) = {}
      /\ run[r].pc \in AtWork => InStep(run[r], t) /\ (file[t] = Torn => run[r].pc = "write")
  BY Undisturbed
<1>2. Remembers /\ (~Finalize(r) => Silent)
  BY RunRemembers DEF Reports
<1>3. ASSUME Keeps(r), wire' = wire, run[r].pc # "sent", run'[r].pc # "sent"
      PROVE  Stray(t)' = {}
  BY <1>1, <1>3, StrayStays DEF Reports, Accounts
<1>4. ASSUME run[r].pc \in AtWork, run'[r].pc \in {"next", "done"} PROVE InStep(run[r], t)'
  BY <1>4 DEF InStep
<1>5. CASE Skip(r)
  <2>1. Keeps(r) /\ run'[r].pc = "next" /\ run[r].pc = "next"
    BY <1>5, Fails DEF Skip, AtStep, Reports, Accounts
  <2>2. QED
    BY <1>3, <1>4, <1>5, <2>1, PlainTidy DEF Skip, AtWork, RunStep, Finalize
<1>6. CASE Ask(r)
  <2>1. Keeps(r) /\ run'[r].pc = "next" /\ run[r].pc = "next"
    BY <1>6, Fails, Overs DEF Ask, AtStep, Reports, Accounts
  <2>2. QED
    BY <1>3, <1>4, <1>6, <2>1, PlainTidy DEF Ask, AtWork, RunStep, Finalize
<1>7. CASE Summarize(r)
  <2>1. Keeps(r) /\ run'[r].pc = "done" /\ run[r].pc = "next"
    BY <1>7, Goes DEF Summarize, Reports, Accounts
  <2>2. QED
    BY <1>3, <1>4, <1>7, <2>1, PlainTidy DEF Summarize, AtWork, RunStep, Finalize
<1>8. CASE Load(r)
  <2>1. run[r].pc = "next" /\ run[r].pc \in AtWork \ {"write"} /\ file[t] # Torn /\ file' = file
        /\ wire' = wire
    BY <1>1, <1>8 DEF Load, AtResearch, AtStep, AtWork
  <2>2. CASE Exists(r) /\ Saved(r).topic = run[r].topic /\ LookUp(r)
    <3>1. Keeps(r) /\ run'[r].pc = "lookup" /\ run'[r].id = file[t].id /\ run'[r].topic = file[t].topic
      BY <2>2, LooksUp DEF Saved, Keeps, Reports, Accounts
    <3>2. file[t] \in [id : Nat, topic : Topics]
      BY <2>2 DEF Exists, Saved, Reports, Accounts, IInv, FilesOK
    <3>3. file[t] = [id |-> run'[r].id, topic |-> run'[r].topic]
      BY <3>1, <3>2
    <3>4. InStep(run[r], t)'
      BY <2>1, <3>1, <3>3 DEF InStep
    <3>5. QED
      BY <1>3, <1>8, <2>1, <3>1, <3>4, PlainTidy DEF RunStep, Finalize
  <2>3. CASE ~Exists(r) /\ BuyAnew(r)
    <3>1. Keeps(r) /\ run'[r].pc = "send" /\ file[t] = NoFile
      BY <2>1, <2>3, Buys DEF Exists, Saved, Reports, Accounts
    <3>2. InStep(run[r], t)'
      BY <2>1, <3>1 DEF InStep
    <3>3. QED
      BY <1>3, <1>8, <2>1, <3>1, <3>2, PlainTidy DEF RunStep, Finalize
  <2>4. QED
    BY <1>1, <1>8, <2>2, <2>3 DEF Load
<1>9. CASE Send(r)
  <2>1. Keeps(r) /\ run'[r].pc = "sent" /\ run[r].pc = "send" /\ file' = file
    BY <1>9, Goes DEF Send, Reports, Accounts
  <2>2. InStep(run[r], t)' /\ run[r].pc \in AtWork \ {"write"}
    BY <1>1, <2>1 DEF InStep, AtWork
  <2>3. Stray(t)' = {}
    BY <1>1, <1>9, SentStray DEF Reports
  <2>4. QED
    BY <1>9, <2>1, <2>2, <2>3, PlainTidy DEF RunStep, Finalize
<1>10. CASE Created(r)
  <2>1. /\ Keeps(r) /\ run'[r].pc = "save" /\ run'[r].id = Len(tasks) + 1 /\ run[r].pc = "sent"
        /\ file' = file /\ run[r].pc \in AtWork \ {"write"}
    BY <1>10, Takes DEF Created, AtWork, Reports, Accounts
  <2>2. Stray(t)' = {}
    BY <1>1, <1>10, <2>1, StrayAfterSent DEF Created, Reports, Accounts
  <2>3. tasks'[Len(tasks) + 1] = NewTask(r)
    BY <1>10, TasksGrow DEF Created, Reports, Accounts
  <2>4. Own(run[r].id, run[r].topic, t)'
    BY <2>1, <2>3 DEF Own, NewTask, Keeps
  <2>5. InStep(run[r], t)'
    BY <1>1, <2>1, <2>4 DEF InStep
  <2>6. QED
    BY <1>10, <2>1, <2>2, <2>5, PlainTidy DEF RunStep, Finalize
<1>11. CASE Refused(r)
  <2>1. Keeps(r) /\ run'[r].pc \in {"send", "next"} /\ run[r].pc = "sent"
        /\ file' = file /\ run[r].pc \in AtWork \ {"write"}
    BY <1>11, AttemptOver DEF Refused, AtWork, Reports
  <2>2. Stray(t)' = {}
    BY <1>1, <1>11, <2>1, StrayAfterSent DEF Refused, Reports, Accounts
  <2>3. InStep(run[r], t)'
    BY <1>1, <2>1 DEF InStep
  <2>4. QED
    BY <1>11, <2>1, <2>2, <2>3, PlainTidy DEF RunStep, Finalize
<1>12. CASE OpenFile(r)
  <2>1. file' = [file EXCEPT ![t] = Torn] /\ Go(r, "write") /\ run[r].pc = "save" /\ UNCHANGED <<tasks, wire>>
    BY <1>1, <1>12 DEF OpenFile
  <2>2. Keeps(r) /\ run'[r].pc = "write" /\ run'[r].id = run[r].id /\ run[r].pc \in AtWork
    BY <2>1, Goes DEF AtWork, Reports, Accounts
  <2>3. Own(run[r].id, run[r].topic, t)'
    BY <1>1, <2>1, <2>2, HeldOwnStays, <1>2, <1>12 DEF Finalize, OpenFile, Reports
  <2>4. file'[t] = Torn
    BY <2>1 DEF Reports, Accounts, IInv, FilesOK
  <2>5. InStep(run[r], t)'
    BY <2>2, <2>3, <2>4 DEF InStep
  <2>6. Stray(t)' = {}
    BY <1>3, <2>1, <2>2
  <2>7. QED
    BY <1>1, <2>2, <2>4, <2>5, <2>6, AloneTidy DEF Reports
<1>13. CASE WriteFile(r)
  <2> DEFINE f == [id |-> run[r].id, topic |-> run[r].topic]
  <2>1. file' = [file EXCEPT ![t] = f] /\ Tracked(r) /\ run[r].pc = "write" /\ UNCHANGED <<tasks, wire>>
    BY <1>1, <1>13 DEF WriteFile
  <2>2. Keeps(r) /\ run'[r].pc \in {"poll", "final"} /\ run'[r].id = run[r].id /\ run[r].pc \in AtWork
    BY <2>1, Tracks DEF AtWork, Reports, Accounts
  <2>3. Own(run[r].id, run[r].topic, t)'
    BY <1>1, <2>1, <2>2, HeldOwnStays, <1>2, <1>13 DEF Finalize, WriteFile, Reports
  <2>4. file'[t] = f
    BY <2>1 DEF Reports, Accounts, IInv, FilesOK
  <2>5. f = [id |-> run'[r].id, topic |-> run'[r].topic] /\ f.id = run'[r].id /\ f.topic = run'[r].topic
    BY <2>2 DEF Keeps
  <2>6. f # Torn
    <3>1. run[r].id \in Nat /\ run[r].topic \in Topics
      BY <2>1, RunFacts, ResearchingFacts DEF Reports, Accounts, Holding, Researching
    <3>2. f \in [id : Nat, topic : Topics]
      BY <3>1
    <3> HIDE DEF f
    <3>3. QED
      BY <3>2, AgentAssumption
  <2> HIDE DEF f
  <2>7. InStep(run[r], t)'
    BY <2>2, <2>4, <2>5 DEF InStep
  <2>8. Own(file[t].id, file[t].topic, t)'
    BY <2>3, <2>4, <2>5 DEF Own
  <2>9. Stray(t)' = {}
    BY <1>3, <2>1, <2>2
  <2>10. QED
    BY <1>1, <2>2, <2>4, <2>6, <2>7, <2>8, <2>9, AloneTidy DEF Reports
<1>14. CASE Lookup(r)
  <2>1. Tracked(r) /\ run[r].pc = "lookup" /\ UNCHANGED <<file, wire>> /\ run[r].pc \in AtWork \ {"write"}
    BY <1>1, <1>14 DEF Lookup, AtWork
  <2>2. Keeps(r) /\ run'[r].pc \in {"poll", "final"} /\ run'[r].id = run[r].id
    BY <2>1, Tracks DEF Reports, Accounts
  <2>3. InStep(run[r], t)'
    BY <1>1, <2>1, <2>2 DEF InStep, Keeps
  <2>4. QED
    BY <1>3, <1>14, <2>1, <2>2, <2>3, PlainTidy DEF RunStep, Finalize
<1>15. CASE Poll(r)
  <2>1. run[r].pc = "poll" /\ UNCHANGED <<file, wire>> /\ run[r].pc \in AtWork \ {"write"}
    BY <1>15 DEF Poll, GiveUp, AtWork
  <2>2. Keeps(r) /\ run'[r].pc \in {"poll", "final", "next"}
        /\ (run'[r].pc # "next" => run'[r].id = run[r].id)
    BY <1>15, Goes, Polls, Fails DEF Poll, GiveUp, Reports, Accounts
  <2>3. InStep(run[r], t)'
    BY <1>1, <2>1, <2>2 DEF InStep, Keeps
  <2>4. QED
    BY <1>3, <1>15, <2>1, <2>2, <2>3, PlainTidy DEF RunStep, Finalize
<1>16. CASE Finalize(r)
  <2>1. file' = [file EXCEPT ![t] = NoFile] /\ run[r].pc = "final" /\ wire' = wire /\ run[r].pc \in AtWork
    BY <1>1, <1>16 DEF Finalize, AtWork
  <2>2. Keeps(r) /\ run'[r].pc = "next"
    BY <1>16, Overs, Fails DEF Finalize, Reports, Accounts
  <2>3. file'[t] = NoFile /\ NoFile # Torn
    BY <2>1, AgentAssumption DEF Reports, Accounts, IInv, FilesOK
  <2>4. Stray(t)' = {} /\ InStep(run[r], t)'
    BY <1>3, <1>4, <2>1, <2>2
  <2>5. QED
    BY <1>1, <2>1, <2>2, <2>3, <2>4, AloneTidy DEF Reports
<1>17. ~Die(r) /\ ~Unanswered(r)
  BY <1>1 DEF Die, Unanswered
<1>18. ~List(r)
  BY <1>1 DEF List, InStep, AtWork
<1>19. QED
  BY <1>5, <1>6, <1>7, <1>8, <1>9, <1>10, <1>11, <1>12, <1>13, <1>14, <1>15, <1>16, <1>17, <1>18
     DEF RunStep

(* A report by a run of a market for which nothing went wrong is of that    *)
(* market's task, so that no other market's task is touched.                *)
LEMMA OwnElsewhere ==
    ASSUME Reports, NEW r \in Runs, RunStep(r) \/ Die(r),
           NEW t \in Tickers, t # run[r].ticker, mishaps'[t] = 0,
           NEW k \in DOMAIN tasks, NEW i, Own(k, i, t)
    PROVE  Own(k, i, t)'
<1>1. Remembers /\ (~Finalize(r) => Silent)
  BY RunRemembers DEF Reports
<1>2. CASE ~Finalize(r)
  BY <1>1, <1>2, OwnStays
<1>3. CASE Finalize(r)
  <2>1. run[r].pc = "final" /\ run[r].ticker \in Tickers /\ run[r].pc \in AtWork
    BY <1>3, RunFacts DEF Finalize, AtWork, Reports, Accounts
  <2>2. run'[r].ticker = run[r].ticker
    BY RunsKeep DEF Keeps, Reports
  <2>3. \A o \in tasks[k].reported : mishaps'[run'[o].ticker] > 0
    BY <1>1 DEF Remembers, Own
  <2>4. CASE k # run[r].id
    <3>1. /\ tasks'[k].reported = tasks[k].reported
          /\ tasks'[k].ticker = t /\ tasks'[k].topic = i
      BY <1>3, <2>4, FinalizeMarks DEF Reports, Accounts, Own
    <3>2. QED
      BY <2>3, <3>1 DEF Own
  <2>5. CASE k = run[r].id
    <3>1. mishaps[run[r].ticker] # 0
      <4>1. ASSUME mishaps[run[r].ticker] = 0 PROVE FALSE
        <5>1. Tidy(run[r].ticker) /\ r \in Mine(run[r].ticker)
          BY <2>1, <4>1 DEF Reports, Mine
        <5>2. file[run[r].ticker] = [id |-> run[r].id, topic |-> run[r].topic]
          BY <2>1, <5>1 DEF Tidy, InStep
        <5>3. run[r].id \in Nat /\ run[r].topic \in Topics
          BY <2>1, RunFacts, ResearchingFacts DEF Reports, Accounts, Holding, Researching
        <5>4. PICK f \in [id : Nat, topic : Topics] : f = file[run[r].ticker] /\ f.id = run[r].id
          BY <5>2, <5>3
        <5>5. f \notin {NoFile, Torn}
          BY AgentAssumption
        <5>6. Own(f.id, f.topic, run[r].ticker)
          BY <5>1, <5>4, <5>5 DEF Tidy
        <5>7. tasks[k].ticker = run[r].ticker
          BY <2>5, <5>4, <5>6 DEF Own
        <5>8. QED
          BY <5>7 DEF Own
      <4>2. QED
        BY <4>1
    <3>2. mishaps'[run'[r].ticker] > 0
      <4>1. /\ mishaps[run[r].ticker] \in Nat /\ mishaps'[run[r].ticker] \in Nat
            /\ mishaps[run[r].ticker] <= mishaps'[run[r].ticker]
        BY <1>1, <2>1 DEF Remembers
      <4>2. QED
        BY <2>2, <3>1, <4>1
    <3>3. /\ tasks'[k].reported \subseteq tasks[k].reported \cup {r}
          /\ tasks'[k].ticker = t /\ tasks'[k].topic = i
      BY <1>3, FinalizeMarks DEF Reports, Accounts, Own
    <3>4. QED
      BY <2>3, <3>2, <3>3 DEF Own
  <2>6. QED
    BY <2>4, <2>5
<1>4. QED
  BY <1>2, <1>3

LEMMA TidyElsewhere ==
    ASSUME Reports, NEW r \in Runs, RunStep(r) \/ Die(r),
           NEW t \in Tickers, t # run[r].ticker, mishaps'[t] = 0
    PROVE  Tidy(t)'
<1>1. Keeps(r) /\ Remembers /\ Tidy(t)
  BY RunsKeep, RunRemembers, Undisturbed DEF Reports
<1>2. \A o \in Runs : o # r => run'[o] = run[o]
  BY <1>1, OthersRest DEF Keeps, Reports, Accounts
<1>3. Mine(t)' = Mine(t) /\ \A o \in Mine(t) : run'[o] = run[o]
  BY <1>1, <1>2 DEF Mine, Keeps
<1>4. \A c \in wire \cup wire' : c[1] # r => (c \in wire' <=> c \in wire)
  BY DEF RunStep, Die, Skip, Ask, Summarize, Load, Send, Created, Unanswered, Refused,
     OpenFile, WriteFile, Lookup, List, Poll, Finalize
<1>5. Stray(t)' = Stray(t)
  BY <1>1, <1>4, StrayElsewhere DEF Reports
<1>6. file'[t] = file[t]
  BY DEF RunStep, Die, Skip, Ask, Summarize, Load, Send, Created, Unanswered, Refused,
     OpenFile, WriteFile, Lookup, List, Poll, GiveUp, Finalize, Reports, Accounts, IInv, FilesOK
<1>7. \A k \in DOMAIN tasks : \A i \in Topics : Own(k, i, t) => Own(k, i, t)'
  BY OwnElsewhere
<1>8. QED
  BY <1>1, <1>3, <1>5, <1>6, <1>7, RestsTidy DEF Reports

(* The run that reports a task.                                             *)
LEMMA FinalizeReports ==
    ASSUME Reports, NEW r \in Runs, Finalize(r)
    PROVE  ReportsAreOwn'
<1> DEFINE Wronged(o) == mishaps[run[o].ticker] > 0
           h == run[r].id
<1>1. /\ run[r].pc = "final" /\ run[r].ticker \in Tickers /\ run[r].pc \in AtWork
      /\ run'[r].ticker = run[r].ticker /\ run'[r].topic = run[r].topic
  BY RunFacts, RunsKeep DEF Finalize, AtWork, Reports, Accounts, RunStep, Keeps
<1>2. Remembers
  BY RunRemembers DEF Reports, RunStep
<1>3. /\ h \in DOMAIN tasks /\ DOMAIN tasks' = DOMAIN tasks
      /\ \A k \in DOMAIN tasks : /\ tasks'[k].ticker = tasks[k].ticker
                                 /\ tasks'[k].topic = tasks[k].topic
                                 /\ tasks'[k].reported \subseteq tasks[k].reported \cup {r}
                                 /\ k # h => tasks'[k].reported = tasks[k].reported
  BY FinalizeMarks DEF Reports, Accounts
<1>4. \A k \in DOMAIN tasks : \A o \in tasks[k].reported :
          /\ o \in Runs /\ run'[o].ticker = run[o].ticker /\ run'[o].topic = run[o].topic
          /\ Wronged(o) => mishaps'[run'[o].ticker] > 0
  BY <1>2 DEF Remembers
<1>5. Wronged(r) => mishaps'[run'[r].ticker] > 0
  <2>1. /\ mishaps[run[r].ticker] \in Nat /\ mishaps'[run[r].ticker] \in Nat
        /\ mishaps[run[r].ticker] <= mishaps'[run[r].ticker]
    BY <1>1, <1>2 DEF Remembers
  <2>2. QED
    BY <1>1, <2>1
<1>6. ~Wronged(r) => Own(h, run[r].topic, run[r].ticker)
  <2>1. HAVE ~Wronged(r)
  <2>2. mishaps[run[r].ticker] = 0
    BY <1>1, <1>2, <2>1 DEF Remembers
  <2>3. Tidy(run[r].ticker) /\ r \in Mine(run[r].ticker)
    BY <1>1, <2>2 DEF Reports, Mine
  <2>4. file[run[r].ticker] = [id |-> h, topic |-> run[r].topic]
    BY <1>1, <2>3 DEF Tidy, InStep
  <2>5. h \in Nat /\ run[r].topic \in Topics
    BY <1>1, RunFacts, ResearchingFacts DEF Reports, Accounts, Holding, Researching
  <2>6. PICK f \in [id : Nat, topic : Topics] :
            f = file[run[r].ticker] /\ f.id = h /\ f.topic = run[r].topic
    BY <2>4, <2>5
  <2>7. f \notin {NoFile, Torn}
    BY AgentAssumption
  <2>8. Own(f.id, f.topic, run[r].ticker)
    BY <2>3, <2>6, <2>7 DEF Tidy
  <2>9. QED
    BY <2>6, <2>8
<1> HIDE DEF Wronged, h
<1>7. ASSUME NEW k \in DOMAIN tasks, NEW x \in tasks'[k].reported,
             ~(mishaps'[run'[x].ticker] > 0)
      PROVE  /\ tasks'[k].ticker = run'[x].ticker /\ tasks'[k].topic = run'[x].topic
             /\ \A o \in tasks'[k].reported \ {x} : mishaps'[run'[o].ticker] > 0
  <2>1. CASE x \in tasks[k].reported
    <3>1. ~Wronged(x)
      BY <1>4, <1>7, <2>1
    <3>2. /\ tasks[k].ticker = run[x].ticker /\ tasks[k].topic = run[x].topic
          /\ \A o \in tasks[k].reported \ {x} : Wronged(o)
      BY <2>1, <3>1 DEF Reports, ReportsAreOwn, Wronged
    <3>3. ASSUME NEW o \in tasks'[k].reported \ {x} PROVE mishaps'[run'[o].ticker] > 0
      <4>1. CASE o \in tasks[k].reported
        BY <1>4, <3>2, <3>3, <4>1
      <4>2. CASE o \notin tasks[k].reported
        <5>1. o = r /\ k = h
          BY <1>3, <3>3, <4>2
        <5>2. Wronged(r)
          BY <1>6, <2>1, <3>1, <5>1 DEF Own, Wronged
        <5>3. QED
          BY <1>5, <5>1, <5>2
      <4>3. QED
        BY <4>1, <4>2
    <3>4. QED
      BY <1>3, <1>4, <2>1, <3>2, <3>3
  <2>2. CASE x \notin tasks[k].reported
    <3>1. x = r /\ k = h /\ ~Wronged(r)
      BY <1>3, <1>5, <1>7, <2>2
    <3>2. /\ tasks[k].ticker = run[r].ticker /\ tasks[k].topic = run[r].topic
          /\ \A o \in tasks[k].reported : Wronged(o)
      BY <1>6, <3>1 DEF Own, Wronged
    <3>3. \A o \in tasks'[k].reported \ {x} : mishaps'[run'[o].ticker] > 0
      BY <1>3, <1>4, <3>1, <3>2
    <3>4. QED
      BY <1>1, <1>3, <3>1, <3>2, <3>3
  <2>3. QED
    BY <2>1, <2>2
<1>8. QED
  BY <1>3, <1>7 DEF ReportsAreOwn

LEMMA BeginTidy ==
    ASSUME Reports, NEW r \in Runs, NEW n \in Tickers, NEW i \in Topics, Begin(r, n, i)
    PROVE  /\ Remembers /\ Silent
           /\ \A t \in Tickers : mishaps'[t] = 0 => Tidy(t)'
<1>1. /\ run[r].pc = "idle" /\ run[r].pc \notin AtWork /\ UNCHANGED <<file, tasks, wire>>
      /\ Traceless(r)
  BY DEF Begin, AtWork, Reports, Accounts
<1>2. /\ run' = [run EXCEPT ![r] = run'[r]] /\ run'[r].pc = "next" /\ run'[r].ticker = n
  BY RunFacts DEF Begin, Reports, Accounts, IInv, RunsOK, RunRecord
<1>3. \A o \in Runs : o # r => run'[o] = run[o]
  BY <1>2, OthersRest DEF Reports, Accounts
<1>4. Remembers /\ Silent
  <2>1. \A t \in Tickers : mishaps[t] \in Nat /\ mishaps'[t] \in Nat /\ mishaps[t] <= mishaps'[t]
    <3>1. mishaps' = mishaps \/ \E t \in Tickers : Mishap(t)
      BY DEF Begin
    <3>2. QED
      BY <3>1, MishapsGrow DEF Reports, Accounts
  <2>2. \A k \in DOMAIN tasks : \A o \in tasks[k].reported : o \in Runs /\ o # r
    BY <1>1, ReportersAreRuns DEF Traceless, Reports, Accounts
  <2>3. QED
    BY <1>1, <1>3, <2>1, <2>2, ReportersAreRuns DEF Remembers, Silent, Reports, Accounts
<1>5. \A t \in Tickers : Stray(t)' = Stray(t)
  <2>1. \A c \in wire : c[1] \in Runs /\ c[1] # r
    BY <1>1 DEF Reports, Accounts, IInv, WireOK, Traceless
  <2>2. \A c \in wire : run'[c[1]] = run[c[1]]
    BY <1>3, <2>1
  <2>3. QED
    BY <1>1, <2>2 DEF Stray, Awaited
<1>6. ASSUME NEW t \in Tickers, mishaps'[t] = 0 PROVE Tidy(t)'
  <2>1. mishaps[t] = 0 /\ Tidy(t)
    <3>1. mishaps[t] \in Nat /\ mishaps'[t] \in Nat /\ mishaps[t] <= mishaps'[t]
      BY <1>4 DEF Remembers
    <3>2. mishaps[t] = 0
      BY <1>6, <3>1
    <3>3. QED
      BY <3>2 DEF Reports
  <2>2. \A k \in DOMAIN tasks : \A j \in Topics : Own(k, j, t) => Own(k, j, t)'
    BY <1>4, OwnStays
  <2>3. CASE t # n
    <3>1. Mine(t)' = Mine(t) /\ \A o \in Mine(t) : run'[o] = run[o]
      BY <1>1, <1>2, <1>3, <2>3 DEF Mine
    <3>2. QED
      BY <1>1, <1>4, <1>5, <2>1, <2>2, <3>1, RestsTidy DEF Reports
  <2>4. CASE t = n
    <3>1. Mine(t) = {}
      <4>1. ASSUME Mine(t) # {} PROVE FALSE
        <5>1. Mishap(t)
          BY <2>4, <4>1 DEF Begin, Mine
        <5>2. QED
          BY <1>6, <2>1, <5>1, MishapCounts DEF Reports, Accounts
      <4>2. QED
        BY <4>1
    <3>2. \A o \in Mine(t)' : o = r
      BY <1>3, <3>1 DEF Mine
    <3>3. file'[t] # Torn
      BY <1>1, <2>1, <3>1 DEF Tidy
    <3>4. file'[t] \notin {NoFile, Torn} => Own(file[t].id, file[t].topic, t)'
      BY <1>1, <1>4, <2>1, FileOwnStays DEF Reports
    <3>5. Stray(t)' = {}
      BY <1>5, <2>1 DEF Tidy
    <3>6. InStep(run[r], t)'
      BY <1>2 DEF InStep
    <3>7. QED
      BY <3>2, <3>3, <3>4, <3>5, <3>6 DEF Tidy
  <2>5. QED
    BY <2>3, <2>4
<1>7. QED
  BY <1>4, <1>6

LEMMA ExaTidy ==
    ASSUME Reports, UNCHANGED <<run, file, mishaps>>,
           \/ tasks' = tasks
           \/ \E r \in Runs : tasks' = Append(tasks, NewTask(r))
           \/ \E k \in DOMAIN tasks : EndTask(k),
           wire' \subseteq wire
    PROVE  /\ Remembers /\ Silent
           /\ \A t \in Tickers : mishaps'[t] = 0 => Tidy(t)'
<1>1. Remembers /\ Silent
  <2>1. \A t \in Tickers : mishaps[t] \in Nat /\ mishaps'[t] \in Nat /\ mishaps[t] <= mishaps'[t]
    BY MishapsGrow DEF Reports, Accounts
  <2>2. QED
    BY <2>1, TasksRemain, ReportersAreRuns DEF Remembers, Reports, Accounts
<1>2. ASSUME NEW t \in Tickers, mishaps'[t] = 0 PROVE Tidy(t)'
  <2>1. Tidy(t)
    BY <1>2 DEF Reports
  <2>2. \A k \in DOMAIN tasks : \A j \in Topics : Own(k, j, t) => Own(k, j, t)'
    BY <1>1, OwnStays
  <2>3. Mine(t)' = Mine(t) /\ Stray(t)' \subseteq Stray(t)
    BY DEF Mine, Stray, Awaited
  <2>4. QED
    BY <1>1, <2>1, <2>2, <2>3, RestsTidy DEF Reports
<1>3. QED
  BY <1>1, <1>2

LEMMA InitReports == ASSUME Init PROVE Reports
<1>1. Accounts
  BY InitAccounts
<1>2. \A t \in Tickers : Tidy(t)
  <2>1. SUFFICES ASSUME NEW t \in Tickers PROVE Tidy(t)
    OBVIOUS
  <2>2. Mine(t) = {} /\ Stray(t) = {} /\ file[t] = NoFile
    BY DEF Init, Mine, Stray, AtWork
  <2>3. QED
    BY <2>2, AgentAssumption DEF Tidy
<1>3. ReportsAreOwn
  BY DEF Init, ReportsAreOwn
<1>4. QED
  BY <1>1, <1>2, <1>3 DEF Reports

LEMMA NextReports == ASSUME Reports, [Next]_vars PROVE Reports'
<1>1. Accounts'
  BY NextAccounts DEF Reports
<1>2. ASSUME NEW r \in Runs, RunStep(r) \/ Die(r) PROVE Reports'
  <2>1. \A t \in Tickers : mishaps'[t] = 0 => Tidy(t)'
    BY <1>2, TidyHere, TidyElsewhere
  <2>2. ReportsAreOwn'
    <3>1. CASE Finalize(r)
      BY <3>1, FinalizeReports
    <3>2. CASE ~Finalize(r)
      BY <1>2, <3>2, RunRemembers, ReportsStay DEF Reports
    <3>3. QED
      BY <3>1, <3>2
  <2>3. QED
    BY <1>1, <2>1, <2>2 DEF Reports
<1>3. ASSUME NEW r \in Runs, NEW t \in Tickers, NEW i \in Topics, Begin(r, t, i) PROVE Reports'
  BY <1>1, <1>3, BeginTidy, ReportsStay DEF Reports
<1>4. ASSUME NEW c \in wire, Serve(c) PROVE Reports'
  <2>1. c[1] \in Runs
    BY DEF Reports, Accounts, IInv, WireOK
  <2>2. Remembers /\ Silent /\ \A t \in Tickers : mishaps'[t] = 0 => Tidy(t)'
    BY <1>4, <2>1, ExaTidy DEF Serve
  <2>3. QED
    BY <1>1, <2>2, ReportsStay DEF Reports
<1>5. ASSUME NEW k \in DOMAIN tasks, EndTask(k) PROVE Reports'
  <2>1. UNCHANGED <<run, file, mishaps, wire>>
    BY <1>5 DEF EndTask
  <2>2. Remembers /\ Silent /\ \A t \in Tickers : mishaps'[t] = 0 => Tidy(t)'
    BY <1>5, <2>1, ExaTidy
  <2>3. QED
    BY <1>1, <2>2, ReportsStay DEF Reports
<1>6. CASE UNCHANGED vars
  <2>1. UNCHANGED <<run, file, tasks, wire, mishaps>>
    BY <1>6 DEF vars
  <2>2. Remembers /\ Silent /\ \A t \in Tickers : mishaps'[t] = 0 => Tidy(t)'
    BY <2>1, ExaTidy
  <2>3. QED
    BY <1>1, <2>2, ReportsStay DEF Reports
<1>7. QED
  BY <1>2, <1>3, <1>4, <1>5, <1>6 DEF Next

(* A run reports a task of its own market and its own instructions, one     *)
(* that no other run reports, unless something went wrong in one of them:   *)
(* the file leads no run to another one's task (ResearchTaskRecovery,       *)
(* finalize_research_task).                                                *)
THEOREM ReportsStayOwn == Spec => []ReportsAreOwn
<1>1. Init => Reports
  BY InitReports
<1>2. Reports /\ [Next]_vars => Reports'
  BY NextReports
<1>3. Reports => ReportsAreOwn
  BY DEF Reports
<1>4. QED
  BY <1>1, <1>2, <1>3, PTL DEF Spec
=============================================================================
